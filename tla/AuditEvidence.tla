--------------------------- MODULE AuditEvidence ---------------------------
(***************************************************************************)
(* Photos of a full-shop inventory audit.  A photo has an id, a reference  *)
(* in its observation's evidence_refs and an object in a private bucket;   *)
(* the two stores share no transaction.  POST reserves the reference,      *)
(* uploads the object and completes the reference; DELETE marks it         *)
(* aborting, removes the object and finalizes the tombstone.  A session    *)
(* leaves its draft only when no reference is half done.                   *)
(*                                                                         *)
(* Each database function is one transaction and one action; each storage  *)
(* request is one action.  Handlers of the same photo interleave, die      *)
(* between two steps, and may give up on an upload that lands later.       *)
(***************************************************************************)
EXTENDS Naturals, FiniteSets

CONSTANTS
    Photos,    \* evidence ids
    Forms,     \* observation forms open on the staff's phones
    Calls,     \* request handlers that run at once
    MaxFaults  \* bound: handlers that die, storage errors, answers given up

ASSUME EvidenceAssumption == MaxFaults \in Nat

VARIABLES
    status,  \* status of the session
    ref,     \* ref[p]: the status of p in evidence_refs, none without an entry
    object,  \* object[p]: the bucket holds p's object
    flying,  \* flying[p]: storage still works on an upload nobody waits for
    call,    \* call[c]: the photo, the step and the form of a handler
    form,    \* form[f]: no photo, a photo to send, or the id a save waits for
    faults

vars == <<status, ref, object, flying, call, form, faults>>
session == <<status, ref>>
storage == <<object, flying>>

HalfDone == {"pending", "aborting"}
Settled == {"uploaded", "aborted"}
Refs == {"none"} \cup HalfDone \cup Settled
PostSteps == {"reserve", "upload", "complete", "discard"}
DeleteSteps == {"abort", "remove", "finalize"}

Empty == <<"empty">>
Holding == <<"holding">>
Waits(p) == <<"waits", p>>
NoForm == "no form"

Idle == [on |-> FALSE]
Busy == [on : {TRUE}, photo : Photos, step : PostSteps \cup DeleteSteps, form : Forms \cup {NoForm}]
Handler(p, step, f) == [on |-> TRUE, photo |-> p, step |-> step, form |-> f]

\* The handlers in one of the given steps of photo p.
At(p, steps) == {c \in Calls : call[c] # Idle /\ call[c].photo = p /\ call[c].step \in steps}

TypeOK ==
    /\ status \in {"draft", "submitted", "cancelled"}
    /\ ref \in [Photos -> Refs]
    /\ object \in [Photos -> BOOLEAN] /\ flying \in [Photos -> BOOLEAN]
    /\ call \in [Calls -> Busy \cup {Idle}]
    /\ form \in [Forms -> {Empty, Holding} \cup {Waits(p) : p \in Photos}]
    /\ faults \in 0 .. MaxFaults
    /\ \A p \in Photos : ref[p] = "none" =>
        /\ ~object[p] /\ ~flying[p]
        /\ At(p, {"upload", "complete", "discard", "remove", "finalize"}) = {}

Init ==
    /\ status = "draft"
    /\ ref = [p \in Photos |-> "none"]
    /\ object = [p \in Photos |-> FALSE] /\ flying = [p \in Photos |-> FALSE]
    /\ call = [c \in Calls |-> Idle]
    /\ form = [f \in Forms |-> Empty]
    /\ faults = 0

-----------------------------------------------------------------------------
(* The phone.  InventoryAuditMvp draws a fresh id for every attempt; a      *)
(* client that keeps the id, or discards it, uses the same two routes.      *)

TakePhoto(f) ==
    /\ form[f] = Empty
    /\ form' = [form EXCEPT ![f] = Holding]
    /\ UNCHANGED <<session, storage, call, faults>>

\* An id no request has carried yet.
Fresh(p) == ref[p] = "none" /\ At(p, PostSteps \cup DeleteSteps) = {}

Save(f, p, c) ==
    /\ form[f] = Holding /\ Fresh(p) /\ call[c] = Idle
    /\ call' = [call EXCEPT ![c] = Handler(p, "reserve", f)]
    /\ form' = [form EXCEPT ![f] = Waits(p)]
    /\ UNCHANGED <<session, storage, faults>>

\* A POST sent again under its id, or a DELETE.
Repeat(p, step, c) ==
    /\ ~Fresh(p) /\ call[c] = Idle
    /\ call' = [call EXCEPT ![c] = Handler(p, step, NoForm)]
    /\ UNCHANGED <<session, storage, form, faults>>

\* The form is closed, or the answer no longer awaited, with its photo unsent.
GiveUp(f) ==
    /\ form[f] # Empty /\ faults < MaxFaults
    /\ form' = [form EXCEPT ![f] = IF form[f] = Holding THEN Empty ELSE Holding]
    /\ faults' = faults + 1
    /\ UNCHANGED <<session, storage, call>>

-----------------------------------------------------------------------------
(* The handlers.                                                            *)

Photo(c) == call[c].photo
In(c, step) == call[c] # Idle /\ call[c].step = step
Goes(c, step) == call' = [call EXCEPT ![c].step = step] /\ UNCHANGED form

\* The answer: 2xx empties the form, an error keeps its photo for the next try.
Answers(c, ok) ==
    /\ call' = [call EXCEPT ![c] = Idle]
    /\ form' = [f \in Forms |->
                    IF f = call[c].form /\ form[f] = Waits(Photo(c))
                    THEN IF ok THEN Empty ELSE Holding
                    ELSE form[f]]

\* Mutant: a finished discard deletes its reference instead of leaving a tombstone.
TombstoneDropped(p, to) == ref' = [ref EXCEPT ![p] = IF to = "aborted" THEN "none" ELSE to]

SetRef(p, to) == ref' = [ref EXCEPT ![p] = to]

Reservable(p) == ref[p] = "none" /\ status = "draft"

\* reserve_inventory_audit_evidence: a known id is answered before the status is looked at.
Reserve(c) ==
    LET p == Photo(c) IN
    /\ In(c, "reserve")
    /\ \/ Reservable(p) /\ SetRef(p, "pending") /\ Goes(c, "upload")
       \/ ref[p] = "none" /\ status # "draft" /\ UNCHANGED ref /\ Answers(c, FALSE)
       \/ ref[p] = "pending" /\ UNCHANGED ref /\ Goes(c, "upload")
       \/ ref[p] = "uploaded" /\ UNCHANGED ref /\ Answers(c, TRUE)
       \/ ref[p] \in {"aborting", "aborted"} /\ UNCHANGED ref /\ Goes(c, "discard")
    /\ UNCHANGED <<status, storage, faults>>

\* upload with upsert: false.  Whatever it answers, the handler goes on to complete.
Upload(c) ==
    LET p == Photo(c) IN
    /\ In(c, "upload") /\ Goes(c, "complete")
    /\ \/ object' = [object EXCEPT ![p] = TRUE] /\ UNCHANGED <<flying, faults>>
       \/ /\ faults < MaxFaults /\ faults' = faults + 1
          /\ flying' \in {flying, [flying EXCEPT ![p] = TRUE]} /\ UNCHANGED object
    /\ UNCHANGED session

Land(p) ==
    /\ flying[p] /\ flying' = [flying EXCEPT ![p] = FALSE]
    /\ object' = [object EXCEPT ![p] = TRUE]
    /\ UNCHANGED <<session, call, form, faults>>

\* Mutant: the reference is completed on the upload's word, without looking into the bucket.
CompletableUnchecked(p) == ref[p] = "pending" /\ status = "draft"

Completable(p) == ref[p] = "pending" /\ status = "draft" /\ object[p]

\* Mutant: the photo's upload is refused and its object left where it is.
AbortedLeavesObject(c) == Answers(c, FALSE)

\* The handler's last step when the photo was aborted under it.
Aborted(c) == Goes(c, "discard")

\* complete_inventory_audit_evidence
Complete(c) ==
    LET p == Photo(c) IN
    /\ In(c, "complete")
    /\ \/ Completable(p) /\ SetRef(p, "uploaded") /\ Answers(c, TRUE)
       \/ ref[p] = "uploaded" /\ UNCHANGED ref /\ Answers(c, TRUE)
       \/ ref[p] \in {"aborting", "aborted"} /\ UNCHANGED ref /\ Aborted(c)
       \/ ref[p] \in {"none", "pending"} /\ ~Completable(p) /\ UNCHANGED ref /\ Answers(c, FALSE)
    /\ UNCHANGED <<status, storage, faults>>

\* Removing the object may fail; a POST answers 'discarded' all the same.
Discard(c) ==
    LET p == Photo(c) IN
    /\ In(c, "discard") /\ Answers(c, FALSE)
    /\ \/ object' = [object EXCEPT ![p] = FALSE] /\ UNCHANGED faults
       \/ faults < MaxFaults /\ faults' = faults + 1 /\ UNCHANGED object
    /\ UNCHANGED <<session, flying>>

Abortable(p) == ref[p] = "pending"

\* abort_inventory_audit_evidence
Abort(c) ==
    LET p == Photo(c) IN
    /\ In(c, "abort")
    /\ \/ Abortable(p) /\ SetRef(p, "aborting") /\ Goes(c, "remove")
       \/ ref[p] \in {"aborting", "aborted"} /\ UNCHANGED ref /\ Goes(c, "remove")
       \/ ref[p] = "uploaded" /\ ~Abortable(p) /\ UNCHANGED ref /\ Answers(c, FALSE)
       \/ ref[p] = "none" /\ UNCHANGED ref /\ Answers(c, TRUE)
    /\ UNCHANGED <<status, storage, faults>>

Remove(c) ==
    LET p == Photo(c) IN
    /\ In(c, "remove")
    /\ \/ object' = [object EXCEPT ![p] = FALSE] /\ Goes(c, "finalize") /\ UNCHANGED faults
       \/ /\ faults < MaxFaults /\ faults' = faults + 1
          /\ Answers(c, FALSE) /\ UNCHANGED object
    /\ UNCHANGED <<session, flying>>

Finalizable(p) == ref[p] = "aborting" /\ ~object[p]

\* finalize_inventory_audit_evidence_abort
Finalize(c) ==
    LET p == Photo(c) IN
    /\ In(c, "finalize")
    /\ \/ Finalizable(p) /\ SetRef(p, "aborted") /\ Answers(c, TRUE)
       \/ ref[p] = "aborted" /\ UNCHANGED ref /\ Answers(c, TRUE)
       \/ ref[p] # "aborted" /\ ~Finalizable(p) /\ UNCHANGED ref /\ Answers(c, FALSE)
    /\ UNCHANGED <<status, storage, faults>>

\* The handler's process ends, or its call to the database fails: the phone sees an error.
Die(c) ==
    /\ call[c] # Idle /\ faults < MaxFaults /\ faults' = faults + 1
    /\ Answers(c, FALSE)
    /\ UNCHANGED <<session, storage>>

-----------------------------------------------------------------------------
(* Leaving the draft.                                                       *)

\* Mutant: only uploads in progress hold the session back.
NothingPending == \A p \in Photos : ref[p] # "pending"

NothingHalfDone == \A p \in Photos : ref[p] \notin HalfDone

Submit ==
    /\ status = "draft" /\ NothingHalfDone
    /\ status' = "submitted"
    /\ UNCHANGED <<ref, storage, call, form, faults>>

Cancel ==
    /\ status = "draft" /\ NothingHalfDone
    /\ status' = "cancelled"
    /\ UNCHANGED <<ref, storage, call, form, faults>>

Next ==
    \/ \E f \in Forms : TakePhoto(f) \/ GiveUp(f)
    \/ \E f \in Forms, p \in Photos, c \in Calls : Save(f, p, c)
    \/ \E p \in Photos, c \in Calls : Repeat(p, "reserve", c) \/ Repeat(p, "abort", c)
    \/ \E c \in Calls :
        \/ Reserve(c) \/ Upload(c) \/ Complete(c) \/ Discard(c)
        \/ Abort(c) \/ Remove(c) \/ Finalize(c) \/ Die(c)
    \/ \E p \in Photos : Land(p)
    \/ Submit \/ Cancel

Spec == Init /\ [][Next]_vars

-----------------------------------------------------------------------------
\* Every photo the owner is offered has its object: a reference says 'uploaded' only while
\* the bucket holds it, whatever DELETE, a second POST or a late upload does meanwhile.
UploadedIsStored == \A p \in Photos : ref[p] = "uploaded" => object[p]

\* Once the session has left its draft, no reference changes any more: what the owner decides
\* on stays, although abort and finalize do not look at the session's status.
SubmittedPhotosStay == [][status # "draft" => UNCHANGED ref]_vars

\* A discarded photo comes back to the bucket only while the POST it raced with still has to
\* notice: without faults the object is always taken down again.
DiscardedIsRemoved ==
    \A p \in Photos :
        ref[p] = "aborted" /\ object[p] /\ faults = 0 => At(p, {"complete", "discard"}) # {}

\* With no photo left to send and no request running, nothing is half done, so the draft can
\* be submitted: the design blocks it for unsent work only.
NothingUnsentBlocks ==
    (\A f \in Forms : form[f] = Empty) /\ (\A c \in Calls : call[c] = Idle) => NothingHalfDone
=============================================================================
