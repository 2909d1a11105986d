---------------------------- MODULE AuditSession ----------------------------
(***************************************************************************)
(* Full-shop inventory audits: staff count a draft against a snapshot of   *)
(* the equipment ledger, the owner confirms finished items while counting  *)
(* goes on (checkpoint) or reviews the submitted count, and one approval   *)
(* writes the ledger.  Quantities are left out: a ledger row is its        *)
(* version (updated_at), an observation its item and its stamp             *)
(* (client_updated_at); what matters is which value a decision was made on *)
(* and which one it replaces.                                              *)
(*                                                                         *)
(* Each database function is one transaction and one action.  An owner's   *)
(* screen acts on what it loaded, which may be old.                        *)
(***************************************************************************)
EXTENDS Naturals, FiniteSets

CONSTANTS
    Items,        \* equipment ids
    Temporary,    \* the item of an observation nobody could identify
    Obs,          \* observation ids
    Screens,      \* review screens of the owner
    MaxSessions,  \* bound: sessions that are ever started
    MaxWrites,    \* bound: ledger writes that are not the audit's
    MaxStamp      \* bound: saves of an observation

ASSUME AuditAssumption ==
    /\ Temporary \notin Items
    /\ MaxSessions \in Nat /\ MaxWrites \in Nat /\ MaxStamp \in Nat

VARIABLES
    ledger,  \* ledger[i]: version of the row, and what wrote it
    sess,    \* sess[s]: a session with its snapshot, decisions and confirmations
    obs,     \* obs[o]: the session, item and stamp of an observation
    screen,  \* screen[k]: what the owner's screen k loaded
    writes

vars == <<ledger, sess, obs, screen, writes>>

Sessions == 1 .. MaxSessions
NoSession == 0
Out == 0  \* no version: the item is outside the snapshot

Writers == {"staff", "service", "checkpoint", "approval"}
Statuses == {"none", "draft", "submitted", "in_review", "recount_requested", "approved", "cancelled"}
Reviewable == {"submitted", "in_review"}
Kinds == {"apply", "keep", "recount"}

\* The observations of an item of a session, with their stamps.
Row == Obs \X (0 .. MaxStamp)
Rows(s, i) == {<<o, obs[o].stamp>> : o \in {q \in Obs : obs[q].session = s /\ obs[q].item = i}}

NoDecision == [kind |-> "none", reviewed |-> Out, shown |-> Out, rows |-> {}]
NoConfirmation == [on |-> FALSE, before |-> Out, shown |-> Out, rows |-> {}, source |-> {}]
NoAudit == [status |-> "none", parent |-> NoSession, open |-> FALSE,
            snap |-> [i \in Items |-> Out],
            dec |-> [i \in Items |-> NoDecision], conf |-> [i \in Items |-> NoConfirmation]]
NoScreen == [session |-> NoSession, draft |-> FALSE, ready |-> FALSE, next |-> "none", locked |-> {},
             shown |-> [i \in Items |-> Out], rows |-> [i \in Items |-> {}]]

Is(s, statuses) == sess[s].status \in statuses
InSnapshot(s) == {i \in Items : sess[s].snap[i] # Out}
Confirmed(s) == {i \in Items : sess[s].conf[i].on}
NoDraft == \A s \in Sessions : ~Is(s, {"draft"})

Version == Nat
Decision == [kind : Kinds \cup {"none"}, reviewed : Version, shown : Version, rows : SUBSET Row]
Confirmation == [on : BOOLEAN, before : Version, shown : Version, rows : SUBSET Row, source : SUBSET Row]

TypeOK ==
    /\ ledger \in [Items -> [version : Version \ {Out}, by : Writers]]
    /\ sess \in [Sessions -> [status : Statuses, parent : Sessions \cup {NoSession}, open : BOOLEAN,
                              snap : [Items -> Version], dec : [Items -> Decision],
                              conf : [Items -> Confirmation]]]
    /\ obs \in [Obs -> [session : Sessions \cup {NoSession}, item : Items \cup {Temporary},
                        stamp : 0 .. MaxStamp]]
    /\ screen \in [Screens -> [session : Sessions \cup {NoSession}, draft : BOOLEAN,
                               ready : BOOLEAN, next : {"none", "approve", "recount"}, locked : SUBSET Items,
                               shown : [Items -> Version], rows : [Items -> SUBSET Row]]]
    /\ writes \in 0 .. MaxWrites
    /\ \A s \in Sessions : \A i \in Items :
        /\ sess[s].snap[i] <= ledger[i].version
        /\ sess[s].snap[i] = Out =>
             /\ Rows(s, i) = {}
             /\ sess[s].dec[i] = NoDecision /\ sess[s].conf[i] = NoConfirmation

Init ==
    /\ ledger = [i \in Items |-> [version |-> 1, by |-> "staff"]]
    /\ sess = [s \in Sessions |-> NoAudit]
    /\ obs = [o \in Obs |-> [session |-> NoSession, item |-> Temporary, stamp |-> 0]]
    /\ screen = [k \in Screens |-> NoScreen]
    /\ writes = 0

\* The rows of some items are written: each gets a new version (touch_updated_at).
LedgerWrite(items, by) ==
    ledger' = [i \in Items |-> IF i \in items THEN [version |-> ledger[i].version + 1, by |-> by]
                                              ELSE ledger[i]]

-----------------------------------------------------------------------------
(* Writers of the ledger that are not audits.                               *)

\* inventory_audit_ledger_writes_allowed: the row-level policies of signed-in users.
LedgerWritesAllowed == NoDraft

StaffWrite(i) ==
    /\ LedgerWritesAllowed
    /\ writes < MaxWrites /\ writes' = writes + 1
    /\ LedgerWrite({i}, "staff")
    /\ UNCHANGED <<sess, obs, screen>>

\* Stock messages and reports write with the service role, which the policies do not hold.
ServiceWrite(i) ==
    /\ writes < MaxWrites /\ writes' = writes + 1
    /\ LedgerWrite({i}, "service")
    /\ UNCHANGED <<sess, obs, screen>>

-----------------------------------------------------------------------------
(* Counting.                                                                *)

\* A new session holds the current row of each of its items.
Open(items, parent, open) ==
    [status |-> "draft", parent |-> parent, open |-> open,
     snap |-> [i \in Items |-> IF i \in items THEN ledger[i].version ELSE Out],
     dec |-> [i \in Items |-> NoDecision], conf |-> [i \in Items |-> NoConfirmation]]

\* The next session number.
New(s) == Is(s, {"none"}) /\ \A t \in 1 .. s - 1 : ~Is(t, {"none"})

\* Mutant: a draft in which nothing is counted yet is not looked at.
StartableBesideEmpty == \A s \in Sessions : Is(s, {"draft"}) => \A o \in Obs : obs[o].session # s

Startable == NoDraft

\* start_inventory_audit; open: some rental could not be matched to an item.
StartInventoryAudit(s, open) ==
    /\ Startable /\ New(s)
    /\ sess' = [sess EXCEPT ![s] = Open(Items, NoSession, open)]
    /\ UNCHANGED <<ledger, obs, screen, writes>>

\* Mutant: observations close with the review instead of the submission.
SavableUntilReview(s) == Is(s, {"draft", "submitted"})

Savable(s) == Is(s, {"draft"})

\* Mutant: any known item may be counted.
CountableAll(s) == Items \cup {Temporary}

Countable(s) == InSnapshot(s) \cup {Temporary}

Protected(s, i) == i \in Confirmed(s)

\* Mutant: the trigger looks at the new row only.
ClosedForNewItem(s, o, i) == Protected(s, i)

\* The trigger on observations: neither the old nor the new row is of a confirmed item.
Closed(s, o, i) == Protected(s, i) \/ (obs[o].session = s /\ Protected(s, obs[o].item))

\* save_inventory_audit_observation.  The phone rebases a stale save on the row it finds, so
\* any save may follow any other.
SaveObservation(s, o, i) ==
    /\ Savable(s) /\ obs[o].session \in {s, NoSession}
    /\ i \in Countable(s) /\ ~Closed(s, o, i)
    /\ obs[o].stamp < MaxStamp
    /\ obs' = [obs EXCEPT ![o] = [session |-> s, item |-> i, stamp |-> @.stamp + 1]]
    /\ UNCHANGED <<ledger, sess, screen, writes>>

\* delete_inventory_audit_observation; the id's later saves carry later stamps.
DeleteObservation(s, o) ==
    /\ Savable(s)
    /\ obs[o].session = s /\ ~Protected(s, obs[o].item)
    /\ obs' = [obs EXCEPT ![o].session = NoSession, ![o].item = Temporary]
    /\ UNCHANGED <<ledger, sess, screen, writes>>

SubmitInventoryAudit(s) ==
    /\ Is(s, {"draft"})
    /\ \E o \in Obs : obs[o].session = s
    /\ sess' = [sess EXCEPT ![s].status = "submitted"]
    /\ UNCHANGED <<ledger, obs, screen, writes>>

CancelInventoryAudit(s) ==
    /\ Is(s, {"draft"})
    /\ sess' = [sess EXCEPT ![s].status = "cancelled"]
    /\ UNCHANGED <<ledger, obs, screen, writes>>

-----------------------------------------------------------------------------
(* The owner.                                                               *)

NoTemporary(s) == Rows(s, Temporary) = {}

\* Mutant: the screen offers confirmed items like the others.
NothingLocked(s) == {}

\* What a screen shows as confirmed, and leaves as it is.
Locked(s) == Confirmed(s)

Load(k, s) ==
    /\ Is(s, {"draft"} \cup Reviewable)
    /\ screen' = [screen EXCEPT ![k] =
                    [session |-> s, draft |-> Is(s, {"draft"}),
                     ready |-> ~sess[s].open /\ NoTemporary(s), next |-> "none",
                     locked |-> Locked(s), shown |-> sess[s].snap,
                     rows |-> [i \in Items |-> Rows(s, i)]]]
    /\ UNCHANGED <<ledger, sess, obs, writes>>

\* resolve_inventory_audit_rental_group, for the last open groups.
ResolveRentalGroup(s) ==
    /\ Is(s, {"draft"} \cup Reviewable) /\ sess[s].open
    /\ sess' = [sess EXCEPT ![s].open = FALSE]
    /\ UNCHANGED <<ledger, obs, screen, writes>>

\* Mutant: the snapshot's version is not compared.
ConfirmableUncompared(s, i) == ~Protected(s, i) /\ Rows(s, i) # {}

Confirmable(s, i) ==
    /\ ~Protected(s, i) /\ Rows(s, i) # {}
    /\ sess[s].snap[i] = ledger[i].version

\* Mutant: a confirmation leaves the snapshot as it was.
SnapshotLeft(s, items) == sess[s].snap

\* What a checkpoint does to the snapshot of the items it confirmed.
Refreshed(s, items) ==
    [i \in Items |-> IF i \in items THEN ledger'[i].version ELSE sess[s].snap[i]]

\* approve_inventory_audit_items, from a screen that loaded a draft: all the items it showed
\* as counted but the ones to recount, some applied, some kept.  The quantities are the screen's,
\* from the observations it loaded (rows); the database names and locks those of the moment
\* (source) and compares them with nothing.  The screen stays as it is until it loads again,
\* which may fail.
ApproveItems(k, apply, keep) ==
    LET s == screen[k].session IN
    /\ s # NoSession /\ screen[k].draft /\ screen[k].ready
    /\ apply \cup keep # {} /\ apply \cap keep = {}
    /\ \A i \in apply \cup keep : screen[k].rows[i] # {} /\ i \notin screen[k].locked
    /\ Is(s, {"draft"}) /\ ~sess[s].open
    /\ \A i \in apply \cup keep : Confirmable(s, i)
    /\ LedgerWrite(apply, "checkpoint")
    /\ sess' = [sess EXCEPT
                   ![s].snap = Refreshed(s, apply \cup keep),
                   ![s].conf = [i \in Items |->
                                  IF i \in apply \cup keep
                                  THEN [on |-> TRUE, before |-> ledger[i].version,
                                        shown |-> screen[k].shown[i], rows |-> screen[k].rows[i],
                                        source |-> Rows(s, i)]
                                  ELSE sess[s].conf[i]]]
    /\ UNCHANGED <<obs, screen, writes>>

\* Mutant: a screen reviews whatever it loaded.
ReviewsAnything(k) == TRUE

\* A screen that loaded a draft only confirms.
Reviews(k) == ~screen[k].draft

\* save_inventory_audit_review: one decision for each item, on the ledger row of this moment;
\* the screen keeps what was confirmed and applies what was counted only.
SaveReview(k, apply, recount) ==
    LET s == screen[k].session
        kind(i) == IF i \in apply THEN "apply" ELSE IF i \in recount THEN "recount" ELSE "keep" IN
    /\ s # NoSession /\ Reviews(k) /\ screen[k].ready
    /\ apply \cap recount = {} /\ apply \cup recount \subseteq InSnapshot(s) \ screen[k].locked
    /\ \A i \in apply : screen[k].rows[i] # {}
    /\ Is(s, Reviewable) /\ ~sess[s].open /\ NoTemporary(s)
    /\ sess' = [sess EXCEPT
                   ![s].status = "in_review",
                   ![s].dec = [i \in Items |->
                                 IF i \in InSnapshot(s)
                                 THEN [kind |-> kind(i), reviewed |-> ledger[i].version,
                                       shown |-> screen[k].shown[i], rows |-> screen[k].rows[i]]
                                 ELSE NoDecision]]
    /\ screen' = [screen EXCEPT ![k].next = IF recount # {} THEN "recount" ELSE "approve"]
    /\ UNCHANGED <<ledger, obs, writes>>

ToRecount(s) == {i \in Items : sess[s].dec[i].kind = "recount"}

\* request_inventory_audit_recount: the child counts the items to recount, the rest is dropped.
RequestRecount(k, t) ==
    LET s == screen[k].session IN
    /\ screen[k].next = "recount"
    /\ Is(s, Reviewable) /\ ~sess[s].open /\ ToRecount(s) # {}
    /\ Startable /\ New(t)
    /\ sess' = [sess EXCEPT ![s].status = "recount_requested",
                            ![t] = Open(ToRecount(s), s, FALSE)]
    /\ screen' = [screen EXCEPT ![k] = NoScreen]
    /\ UNCHANGED <<ledger, obs, writes>>

Approvable(s) ==
    /\ Is(s, Reviewable) /\ ~sess[s].open /\ NoTemporary(s)
    /\ \A i \in InSnapshot(s) :
        /\ sess[s].dec[i].kind \in {"apply", "keep"}
        /\ sess[s].dec[i].reviewed = ledger[i].version

\* approve_inventory_audit writes every row, the kept ones too.
Approve(k) ==
    LET s == screen[k].session IN
    /\ screen[k].next = "approve" /\ Approvable(s)
    /\ LedgerWrite(InSnapshot(s), "approval")
    /\ sess' = [sess EXCEPT ![s].status = "approved"]
    /\ screen' = [screen EXCEPT ![k] = NoScreen]
    /\ UNCHANGED <<obs, writes>>

Next ==
    \/ \E i \in Items : StaffWrite(i) \/ ServiceWrite(i)
    \/ \E s \in Sessions :
        \/ \E open \in BOOLEAN : StartInventoryAudit(s, open)
        \/ \E o \in Obs : DeleteObservation(s, o) \/ \E i \in Items \cup {Temporary} : SaveObservation(s, o, i)
        \/ SubmitInventoryAudit(s) \/ CancelInventoryAudit(s)
        \/ ResolveRentalGroup(s)
    \/ \E k \in Screens :
        \/ \E s \in Sessions : Load(k, s) \/ RequestRecount(k, s)
        \/ \E apply, other \in SUBSET Items : ApproveItems(k, apply, other) \/ SaveReview(k, apply, other)
        \/ Approve(k)

Spec == Init /\ [][Next]_vars

-----------------------------------------------------------------------------
\* One count of the shop at a time: whoever starts, reuses or asks for a recount.
OneDraft == \A s, t \in Sessions : Is(s, {"draft"}) /\ Is(t, {"draft"}) => s = t

\* While a draft is open, a snapshot row is the ledger's, unless the service role or the
\* approval of another session wrote the row: no staff write slips in, and the draft's own
\* confirmations do not leave its later ones in conflict.
DraftFreezesStaff ==
    \A s \in Sessions : \A i \in Items :
        /\ Is(s, {"draft"}) /\ sess[s].snap[i] \notin {Out, ledger[i].version}
            => ledger[i].by \in {"service", "approval"}

\* The observations a confirmation names as its source, and whose stamp and author it writes
\* into the ledger, stay as they were for good: none is edited, deleted, moved in or moved out.
ConfirmedRowsStay ==
    \A s \in Sessions : \A i \in Confirmed(s) : Rows(s, i) = sess[s].conf[i].source

\* A confirmation replaces the ledger row the owner's screen showed, however old the screen.
ConfirmedAsShown ==
    \A s \in Sessions : \A i \in Confirmed(s) : sess[s].conf[i].before = sess[s].conf[i].shown

\* The review of a session never overrules what was confirmed while it was counted: no screen
\* that missed the confirmation can still save a decision.
ConfirmationStands ==
    \A s \in Sessions : \A i \in Confirmed(s) : sess[s].dec[i].kind \in {"none", "keep"}

\* What is applied was decided on all the observations of the item.
DecidedOnAllRows ==
    \A s \in Sessions : \A i \in Items :
        sess[s].dec[i].kind = "apply" => sess[s].dec[i].rows = Rows(s, i) /\ Rows(s, i) # {}

\* Once submitted, the count is final.
SubmittedCountStays ==
    [][\A s \in Sessions : ~Is(s, {"none", "draft"}) =>
          \A i \in Items \cup {Temporary} : Rows(s, i)' = Rows(s, i)]_vars

\* An approval replaces the ledger row the audit was compared with, the one the owner saw:
\* a row written since the snapshot is shown as a conflict first.
AppliedAsShown ==
    \A s \in Sessions : Is(s, {"approved"}) =>
        \A i \in Items : sess[s].dec[i].kind = "apply" => sess[s].dec[i].reviewed = sess[s].dec[i].shown
=============================================================================
