----------------------------- MODULE AuditMirror -----------------------------
(***************************************************************************)
(* After an approval the dashboard's server carries the whole equipment    *)
(* ledger over to the sheet (equipment master): claim the only attempt,    *)
(* read the ledger and the sheet, write what differs, read both again and  *)
(* complete the attempt.  The write is a script elsewhere: a call that     *)
(* broke off says nothing about it, and it may still run.  An HTTP error   *)
(* says no more, but the code takes it for the end of the write and gives  *)
(* the lease up: that script's rows may come while others work.            *)
(*                                                                         *)
(* A row is its version: the sheet's row shows a version of the ledger's.  *)
(***************************************************************************)
EXTENDS Naturals

CONSTANTS
    Items,        \* equipment ids
    Sessions,     \* audit sessions
    Attempts,     \* attempts, each by the server's handler of one request
    MaxVersion,   \* bound: versions of a ledger row
    MaxFaults     \* bound: answers lost, calls broken off or refused, handlers killed

ASSUME MirrorAssumption == MaxVersion \in Nat \ {0} /\ MaxFaults \in Nat

VARIABLES
    ledger,    \* ledger[i]: the version of the ledger's row
    sheet,     \* sheet[i]: the version the sheet's row shows, 0: none
    session,   \* session[s]: its mirror status, and the versions it approved
    attempt,   \* attempt[a]: the attempt's row
    handler,   \* handler[a]: where the request's handler is and what it read
    script,    \* script[a]: the sheet's write of attempt a
    faults

vars == <<ledger, sheet, session, attempt, handler, script, faults>>

Unread == 0
Steps == {"new", "load", "read", "write", "answer", "reload", "reread", "complete", "fail", "over"}

NoSession == [mirror |-> "not_ready", approved |-> [i \in Items |-> 0]]
NoAttempt == [status |-> "none", session |-> "none", leased |-> FALSE]
Idle == [step |-> "new", seen |-> [i \in Items |-> Unread]]

\* rows: still to be written; early: an HTTP error answered the call before the script was
\* over; late: rows it wrote after that error, its attempt's lease given up (the last two
\* are history).
NoScript == [runs |-> "none", rows |-> {}, early |-> FALSE, late |-> {}]

Row == 0 .. MaxVersion

TypeOK ==
    /\ ledger \in [Items -> 1 .. MaxVersion]
    /\ sheet \in [Items -> Row]
    /\ session \in [Sessions -> [mirror : {"not_ready", "pending", "synced", "failed"},
                                 approved : [Items -> Row]]]
    /\ attempt \in [Attempts -> [status : {"none", "running", "synced", "failed"},
                                 session : Sessions \cup {"none"}, leased : BOOLEAN]]
    /\ handler \in [Attempts -> [step : Steps, seen : [Items -> Row]]]
    /\ script \in [Attempts -> [runs : {"none", "sent", "writes", "written", "broken"},
                               rows : SUBSET Items, early : BOOLEAN, late : SUBSET Items]]
    /\ faults \in 0 .. MaxFaults
    /\ \A a \in Attempts : attempt[a].status # "none" => attempt[a].session \in Sessions

\* The sheet may differ from the ledger anywhere: people write into both.
Init ==
    /\ ledger = [i \in Items |-> 1]
    /\ sheet \in [Items -> {0, 1}]
    /\ session = [s \in Sessions |-> NoSession]
    /\ attempt = [a \in Attempts |-> NoAttempt]
    /\ handler = [a \in Attempts |-> Idle]
    /\ script = [a \in Attempts |-> NoScript]
    /\ faults = 0

Fault == faults < MaxFaults /\ faults' = faults + 1

Goes(a, step) == handler' = [handler EXCEPT ![a].step = step]

\* The sheet's script of attempt a is on its way or at work.
Works(a) == script[a].runs \in {"sent", "writes"}

-----------------------------------------------------------------------------
(* The ledger.                                                              *)

Bumped(items) == [i \in Items |-> IF i \in items THEN ledger[i] + 1 ELSE ledger[i]]

\* Staff, reports and checkpoints write rows of the ledger.
LedgerWrite(i) ==
    /\ ledger[i] < MaxVersion
    /\ ledger' = Bumped({i})
    /\ UNCHANGED <<sheet, session, attempt, handler, script, faults>>

\* approve_inventory_audit: the rows of the session and the wish to mirror them.
Approve(s, items) ==
    /\ session[s].mirror = "not_ready"
    /\ items # {} /\ \A i \in items : ledger[i] < MaxVersion
    /\ ledger' = Bumped(items)
    /\ session' = [session EXCEPT ![s] =
                     [mirror |-> "pending",
                      approved |-> [i \in Items |-> IF i \in items THEN ledger[i] + 1 ELSE 0]]]
    /\ UNCHANGED <<sheet, attempt, handler, script, faults>>

-----------------------------------------------------------------------------
(* The attempt: claim, complete and fail are one transaction each.          *)

Running(a) == attempt[a].status = "running"

\* Mutant: only the attempts of the same session are looked at.
BusyForItself(s) == \E b \in Attempts : Running(b) /\ attempt[b].leased /\ attempt[b].session = s

Busy(s) == \E b \in Attempts : Running(b) /\ attempt[b].leased

\* Mutant: attempts are closed whatever their status.
ExpiredWhatever == {b \in Attempts : ~attempt[b].leased}

Expired == {b \in Attempts : Running(b) /\ ~attempt[b].leased}

\* claim_inventory_audit_mirror closes attempts whose lease is over and takes the next;
\* lost: the answer never comes, and the attempt runs without a handler.
Claim(a, s, lost) ==
    /\ attempt[a] = NoAttempt /\ handler[a] = Idle
    /\ session[s].mirror \in {"pending", "failed"} /\ ~Busy(s)
    /\ IF lost THEN Fault ELSE UNCHANGED faults
    /\ attempt' = [b \in Attempts |->
                     IF b = a THEN [status |-> "running", session |-> s, leased |-> TRUE]
                     ELSE IF b \in Expired THEN [attempt[b] EXCEPT !.status = "failed"]
                     ELSE attempt[b]]
    /\ session' = [t \in Sessions |->
                     IF t = s THEN [session[t] EXCEPT !.mirror = "pending"]
                     ELSE IF session[t].mirror = "pending" /\ \E b \in Expired : attempt[b].session = t
                          THEN [session[t] EXCEPT !.mirror = "failed"]
                     ELSE session[t]]
    /\ Goes(a, IF lost THEN "over" ELSE "load")
    /\ UNCHANGED <<ledger, sheet, script>>

\* The ten minutes are over: no handler still reads or writes (45 seconds) and no script
\* still runs (six minutes).
LeaseExpires(a) ==
    /\ Running(a) /\ attempt[a].leased
    /\ handler[a].step \in {"complete", "fail", "over"} /\ ~Works(a)
    /\ attempt' = [attempt EXCEPT ![a].leased = FALSE]
    /\ UNCHANGED <<ledger, sheet, session, handler, script, faults>>

-----------------------------------------------------------------------------
(* runInventoryAuditMirror.                                                 *)

\* The ledger is read in pages: each row as it is when its page is read.
LoadRow(a, i) ==
    /\ handler[a].step \in {"load", "reload"} /\ handler[a].seen[i] = Unread
    /\ handler' = [handler EXCEPT ![a].seen[i] = ledger[i]]
    /\ UNCHANGED <<ledger, sheet, session, attempt, script, faults>>

Loaded(a) == \A i \in Items : handler[a].seen[i] # Unread

\* diffLedgerAgainstSheet.
Diff(a) == {i \in Items : sheet[i] # handler[a].seen[i]}

ReadSheet(a) ==
    /\ handler[a].step = "load" /\ Loaded(a)
    /\ Goes(a, IF Diff(a) = {} THEN "complete" ELSE "write")
    /\ script' = [script EXCEPT ![a].rows = Diff(a)]
    /\ UNCHANGED <<ledger, sheet, session, attempt, faults>>

\* equipmentMasterSync is called with the rows that differ.
Send(a) ==
    /\ handler[a].step = "write"
    /\ Goes(a, "answer")
    /\ script' = [script EXCEPT ![a].runs = "sent"]
    /\ UNCHANGED <<ledger, sheet, session, attempt, faults>>

Holds(a) == Running(a) /\ attempt[a].leased

\* The script takes the lock of the sheet's scripts, or ends without a write.
Begin(a) ==
    /\ script[a].runs = "sent"
    /\ script' = [script EXCEPT ![a].runs =
                     IF \E b \in Attempts : script[b].runs = "writes" THEN "broken" ELSE "writes"]
    /\ UNCHANGED <<ledger, sheet, session, attempt, handler, faults>>

\* It writes its rows one by one.
Write(a, i) ==
    /\ script[a].runs = "writes" /\ i \in script[a].rows
    /\ sheet' = [sheet EXCEPT ![i] = handler[a].seen[i]]
    /\ script' = [script EXCEPT
                    ![a].rows = @ \ {i},
                    ![a].runs = IF script[a].rows = {i} THEN "written" ELSE "writes",
                    ![a].late = IF script[a].early /\ ~Holds(a) THEN @ \cup {i} ELSE @]
    /\ UNCHANGED <<ledger, session, attempt, handler, faults>>

\* It never starts, or is stopped between two rows.
Stop(a) ==
    /\ Works(a) /\ Fault
    /\ script' = [script EXCEPT ![a].runs = "broken"]
    /\ UNCHANGED <<ledger, sheet, session, attempt, handler>>

\* Its answer: all rows written, and both sides are read again; or an error.
Answer(a) ==
    /\ handler[a].step = "answer" /\ script[a].runs \in {"written", "broken"}
    /\ handler' = [handler EXCEPT
                     ![a] = IF script[a].runs = "written"
                            THEN [step |-> "reload", seen |-> [i \in Items |-> Unread]]
                            ELSE [@ EXCEPT !.step = "fail"]]
    /\ UNCHANGED <<ledger, sheet, session, attempt, script, faults>>

\* An HTTP error, or an answer that cannot be read, fails the attempt at once, whatever the
\* script has done or still does.
Refused(a) ==
    /\ handler[a].step = "answer" /\ Fault
    /\ Goes(a, "fail")
    /\ script' = [script EXCEPT ![a].early = Works(a)]
    /\ UNCHANGED <<ledger, sheet, session, attempt>>

\* Mutant: a write that broke off fails the attempt like any other error.
AfterBreakFails == "fail"

\* A write without an answer keeps its lease: the handler ends and fails nothing.
AfterBreak == "over"

BreakOff(a) ==
    /\ handler[a].step = "answer" /\ Fault
    /\ Goes(a, AfterBreak)
    /\ UNCHANGED <<ledger, sheet, session, attempt, script>>

Verified(a) == Diff(a) = {}

Reread(a) ==
    /\ handler[a].step = "reload" /\ Loaded(a)
    /\ Goes(a, IF Verified(a) THEN "complete" ELSE "fail")
    /\ UNCHANGED <<ledger, sheet, session, attempt, script, faults>>

\* A read fails or the 45 seconds are over.
ReadFails(a) ==
    /\ handler[a].step \in {"load", "reload"} /\ Fault
    /\ Goes(a, "fail")
    /\ UNCHANGED <<ledger, sheet, session, attempt, script>>

-----------------------------------------------------------------------------
(* The end of an attempt.                                                   *)

\* Mutant: the versions are not compared with the ledger's.
CurrentWhenRead(a) == TRUE

\* The versions that were verified are the ledger's, which is locked.
Current(a) == handler[a].seen = ledger

\* complete_inventory_audit_mirror.
Complete(a, lost) ==
    /\ handler[a].step = "complete"
    /\ IF lost THEN Fault ELSE UNCHANGED faults
    /\ IF Current(a) /\ Holds(a)
         THEN /\ attempt' = [attempt EXCEPT ![a].status = "synced"]
              /\ session' = [session EXCEPT ![attempt[a].session].mirror = "synced"]
              /\ Goes(a, IF lost THEN "fail" ELSE "over")
         ELSE /\ Goes(a, "fail")
              /\ UNCHANGED <<attempt, session>>
    /\ UNCHANGED <<ledger, sheet, script>>

\* fail_inventory_audit_mirror ends a running attempt, its lease over or not.
Fail(a) ==
    /\ handler[a].step = "fail"
    /\ attempt' = [attempt EXCEPT ![a].status = IF Running(a) THEN "failed" ELSE @]
    /\ session' = [session EXCEPT ![attempt[a].session].mirror =
                     IF Running(a) /\ @ = "pending" THEN "failed" ELSE @]
    /\ Goes(a, "over")
    /\ UNCHANGED <<ledger, sheet, script, faults>>

\* The handler is killed, or cannot reach the database to fail its attempt.
Die(a) ==
    /\ handler[a].step \notin {"new", "over"} /\ Fault
    /\ Goes(a, "over")
    /\ UNCHANGED <<ledger, sheet, session, attempt, script>>

Next ==
    \/ \E i \in Items : LedgerWrite(i)
    \/ \E s \in Sessions : \E items \in SUBSET Items : Approve(s, items)
    \/ \E a \in Attempts :
        \/ \E s \in Sessions : \E lost \in BOOLEAN : Claim(a, s, lost)
        \/ LeaseExpires(a)
        \/ \E i \in Items : LoadRow(a, i)
        \/ ReadSheet(a) \/ Send(a) \/ Begin(a) \/ Stop(a)
        \/ \E i \in Items : Write(a, i)
        \/ Answer(a) \/ Refused(a) \/ BreakOff(a) \/ Reread(a) \/ ReadFails(a)
        \/ \E lost \in BOOLEAN : Complete(a, lost)
        \/ Fail(a) \/ Die(a)

Spec == Init /\ [][Next]_vars

-----------------------------------------------------------------------------
\* What the code cannot promise: a script whose call an HTTP error answered early goes on
\* when its attempt has failed, and the row shows what it wrote then.
Stray(i) == \E a \in Attempts : i \in script[a].late /\ sheet[i] = handler[a].seen[i]

\* A session is called synced when every row of the sheet shows the ledger of that moment,
\* not a mixture of the versions the pages were read at; but for rows a stray script wrote.
SyncedMatches ==
    [][\A s \in Sessions : session[s].mirror # "synced" /\ session'[s].mirror = "synced"
          => \A i \in Items : sheet[i] = ledger[i] \/ Stray(i)]_vars

\* No late or repeated write of an outdated attempt puts an older row back into the sheet;
\* only the script of a call that was refused before it was over can, in its own rows.
SheetNeverGoesBack ==
    [][\A i \in Items : sheet'[i] < sheet[i] =>
          \E a \in Attempts : i \in script'[a].late \ script[a].late]_vars

\* What a synced session approved is in the sheet and stays, but for rows a stray script wrote.
ApprovedReachedSheet ==
    \A s \in Sessions : session[s].mirror = "synced" =>
        \A i \in Items : sheet[i] >= session[s].approved[i] \/ Stray(i)
=============================================================================
