------------------------- MODULE AuditEvidenceProofs -------------------------
(***************************************************************************)
(* Theorems about the photos of an audit.  The argument: a handler takes   *)
(* an object down only after it saw a tombstone, tombstones are for ever,  *)
(* and a session that has left its draft has no half-done reference; so    *)
(* no object of an uploaded photo goes and no submitted reference moves.   *)
(***************************************************************************)
EXTENDS AuditEvidence, TLAPS

\* A handler that is going to remove the object has seen the tombstone.
RemoversSawTombstone ==
    \A c \in Calls :
        call[c] # Idle /\ call[c].step \in {"discard", "remove", "finalize"}
            => ref[call[c].photo] \in {"aborting", "aborted"}

\* What is still in the air, somebody gave up on.
FlyingIsFault == \A p \in Photos : flying[p] => faults > 0

\* A session past its draft holds settled references only.
PastDraftSettled == status # "draft" => NothingHalfDone

IInv ==
    /\ TypeOK
    /\ RemoversSawTombstone
    /\ FlyingIsFault
    /\ PastDraftSettled
    /\ UploadedIsStored
    /\ DiscardedIsRemoved

----------------------------------------------------------------------------
(* What the common parts of the actions do. *)

Steps == PostSteps \cup DeleteSteps

\* Every handler but c stays where it is.
OthersStay(c) == \A d \in Calls \ {c} : call'[d] = call[d]

LEMMA HandlerType ==
    ASSUME NEW p \in Photos, NEW step \in Steps, NEW f \in Forms \cup {NoForm}
    PROVE  /\ Handler(p, step, f) \in Busy
           /\ Handler(p, step, f) # Idle
           /\ Handler(p, step, f).photo = p
           /\ Handler(p, step, f).step = step
BY DEF Handler, Busy, Idle, Steps

LEMMA BusyCall ==
    ASSUME TypeOK, NEW c \in Calls, call[c] # Idle
    PROVE  /\ call[c] \in Busy
           /\ call[c].photo \in Photos
           /\ call[c].step \in Steps
BY DEF TypeOK, Busy, Steps

LEMMA GoesTo ==
    ASSUME TypeOK, NEW c \in Calls, call[c] # Idle, NEW step \in Steps, Goes(c, step)
    PROVE  /\ call' \in [Calls -> Busy \cup {Idle}]
           /\ call'[c] # Idle
           /\ call'[c].photo = call[c].photo
           /\ call'[c].step = step
           /\ OthersStay(c)
           /\ form' = form
<1>1. call[c] \in Busy  BY BusyCall
<1>2. [call[c] EXCEPT !.step = step] \in Busy
  BY <1>1 DEF Busy, Steps
<1>3. [call[c] EXCEPT !.step = step] # Idle
  BY <1>2 DEF Busy, Idle
<1>4. call' = [call EXCEPT ![c] = [call[c] EXCEPT !.step = step]]
  BY DEF Goes
<1>5. /\ call' \in [Calls -> Busy \cup {Idle}]
      /\ call'[c] = [call[c] EXCEPT !.step = step]
      /\ OthersStay(c)
  BY <1>2, <1>4 DEF TypeOK, OthersStay
<1>6. /\ [call[c] EXCEPT !.step = step].photo = call[c].photo
      /\ [call[c] EXCEPT !.step = step].step = step
  BY <1>1 DEF Busy
<1> QED  BY <1>3, <1>5, <1>6 DEF Goes

LEMMA AnswersTo ==
    ASSUME TypeOK, NEW c \in Calls, call[c] # Idle, NEW ok \in BOOLEAN, Answers(c, ok)
    PROVE  /\ call' \in [Calls -> Busy \cup {Idle}]
           /\ call'[c] = Idle
           /\ OthersStay(c)
           /\ form' \in [Forms -> {Empty, Holding} \cup {Waits(p) : p \in Photos}]
<1>1. /\ call' \in [Calls -> Busy \cup {Idle}]
      /\ call'[c] = Idle
      /\ OthersStay(c)
  BY DEF TypeOK, Answers, OthersStay
<1>2. form' \in [Forms -> {Empty, Holding} \cup {Waits(p) : p \in Photos}]
  BY DEF TypeOK, Answers
<1> QED  BY <1>1, <1>2

\* The parts of the invariant that speak of handlers, without the set of them.
Types ==
    /\ status \in {"draft", "submitted", "cancelled"}
    /\ ref \in [Photos -> Refs]
    /\ object \in [Photos -> BOOLEAN] /\ flying \in [Photos -> BOOLEAN]
    /\ call \in [Calls -> Busy \cup {Idle}]
    /\ form \in [Forms -> {Empty, Holding} \cup {Waits(p) : p \in Photos}]
    /\ faults \in 0 .. MaxFaults

Traceless ==
    \A p \in Photos : ref[p] = "none" =>
        /\ ~object[p] /\ ~flying[p]
        /\ \A c \in Calls : call[c] # Idle /\ call[c].photo = p =>
             call[c].step \notin {"upload", "complete", "discard", "remove", "finalize"}

TakenDown ==
    \A p \in Photos : ref[p] = "aborted" /\ object[p] /\ faults = 0 =>
        \E c \in Calls :
            call[c] # Idle /\ call[c].photo = p /\ call[c].step \in {"complete", "discard"}

Inv ==
    /\ Types
    /\ Traceless
    /\ RemoversSawTombstone
    /\ FlyingIsFault
    /\ PastDraftSettled
    /\ UploadedIsStored
    /\ TakenDown

LEMMA InvForm == IInv <=> Inv
BY DEF IInv, Inv, TypeOK, Types, Traceless, TakenDown, DiscardedIsRemoved, At

LEMMA InvFormNext == IInv' <=> Inv'
BY DEF IInv, Inv, TypeOK, Types, Traceless, TakenDown, DiscardedIsRemoved, At

LEMMA InvInit == Init => Inv
BY EvidenceAssumption DEF Init, Inv, Types, Traceless, RemoversSawTombstone, FlyingIsFault,
   PastDraftSettled, NothingHalfDone, HalfDone, Refs, UploadedIsStored, TakenDown

----------------------------------------------------------------------------
(* One lemma per action. *)

\* The phone touches no reference and no object; a new handler starts with nothing.
LEMMA PhoneInv ==
    ASSUME Inv, NEW f \in Forms, TakePhoto(f) \/ GiveUp(f)
    PROVE  Inv'
<1>1. Types'
  <2>1. form' \in [Forms -> {Empty, Holding} \cup {Waits(p) : p \in Photos}]
    BY DEF Inv, Types, TakePhoto, GiveUp
  <2>2. faults' \in 0 .. MaxFaults
    BY EvidenceAssumption DEF Inv, Types, TakePhoto, GiveUp
  <2> QED  BY <2>1, <2>2 DEF Inv, Types, TakePhoto, GiveUp, session, storage
<1>2. /\ UNCHANGED <<session, storage, call>>
      /\ faults' = 0 => faults = 0
      /\ faults > 0 => faults' > 0
  BY DEF Inv, Types, TakePhoto, GiveUp
<1> QED
  BY <1>1, <1>2 DEF Inv, Traceless, RemoversSawTombstone, FlyingIsFault, PastDraftSettled,
     NothingHalfDone, UploadedIsStored, TakenDown, session, storage

LEMMA StartInv ==
    ASSUME Inv, NEW c \in Calls, NEW p \in Photos, NEW step \in {"reserve", "abort"},
           NEW f \in Forms \cup {NoForm},
           call[c] = Idle, call' = [call EXCEPT ![c] = Handler(p, step, f)],
           UNCHANGED <<session, storage, faults>>,
           form' \in [Forms -> {Empty, Holding} \cup {Waits(q) : q \in Photos}]
    PROVE  Inv'
<1>1. /\ Handler(p, step, f) \in Busy
      /\ Handler(p, step, f) # Idle
      /\ Handler(p, step, f).photo = p
      /\ Handler(p, step, f).step = step
  BY HandlerType DEF Steps, PostSteps, DeleteSteps
<1>2. /\ call' \in [Calls -> Busy \cup {Idle}]
      /\ OthersStay(c)
      /\ call'[c] = Handler(p, step, f)
  BY <1>1 DEF Inv, Types, OthersStay
<1> QED
  BY <1>1, <1>2 DEF Inv, Types, Traceless, RemoversSawTombstone, FlyingIsFault,
     PastDraftSettled, NothingHalfDone, UploadedIsStored, TakenDown, OthersStay, session, storage

LEMMA SaveInv ==
    ASSUME Inv, NEW f \in Forms, NEW p \in Photos, NEW c \in Calls, Save(f, p, c)
    PROVE  Inv'
<1>1. form' \in [Forms -> {Empty, Holding} \cup {Waits(q) : q \in Photos}]
  BY DEF Inv, Types, Save
<1> QED  BY <1>1, StartInv DEF Save

LEMMA RepeatInv ==
    ASSUME Inv, NEW p \in Photos, NEW c \in Calls, NEW step \in {"reserve", "abort"},
           Repeat(p, step, c)
    PROVE  Inv'
<1>1. form' \in [Forms -> {Empty, Holding} \cup {Waits(q) : q \in Photos}]
  BY DEF Inv, Types, Repeat
<1> QED  BY <1>1, StartInv DEF Repeat

\* A handler of the photo p goes on to another step, or ends.
Moved(c, step) ==
    /\ call' \in [Calls -> Busy \cup {Idle}]
    /\ call'[c] # Idle /\ call'[c].photo = call[c].photo /\ call'[c].step = step
    /\ OthersStay(c)
    /\ form' \in [Forms -> {Empty, Holding} \cup {Waits(p) : p \in Photos}]

Ended(c) ==
    /\ call' \in [Calls -> Busy \cup {Idle}]
    /\ call'[c] = Idle
    /\ OthersStay(c)
    /\ form' \in [Forms -> {Empty, Holding} \cup {Waits(p) : p \in Photos}]

LEMMA GoesMoved ==
    ASSUME Types, Traceless, NEW c \in Calls, call[c] # Idle
    PROVE  /\ \A step \in Steps : Goes(c, step) => Moved(c, step)
           /\ \A ok \in BOOLEAN : Answers(c, ok) => Ended(c)
           /\ call[c].photo \in Photos
<1>1. TypeOK
  BY DEF Types, Traceless, TypeOK, At
<1>2. ASSUME NEW step \in Steps, Goes(c, step)
      PROVE  Moved(c, step)
  BY <1>1, <1>2, GoesTo DEF Moved, TypeOK
<1>3. ASSUME NEW ok \in BOOLEAN, Answers(c, ok)
      PROVE  Ended(c)
  BY <1>1, <1>3, AnswersTo DEF Ended
<1> QED  BY <1>1, <1>2, <1>3, BusyCall

\* A handler that ends and writes nothing disturbs nothing, unless it still owed a removal.
LEMMA EndedInv ==
    ASSUME Inv, NEW c \in Calls, call[c] # Idle, Ended(c), UNCHANGED <<status, ref, storage, faults>>,
           ref[call[c].photo] = "aborted" => call[c].step \notin {"complete", "discard"}
    PROVE  Inv'
<1>1. Types' /\ FlyingIsFault' /\ PastDraftSettled' /\ UploadedIsStored'
  BY DEF Inv, Types, FlyingIsFault, PastDraftSettled, NothingHalfDone, UploadedIsStored, Ended, storage
<1>2. Traceless' /\ RemoversSawTombstone'
  BY DEF Inv, Traceless, RemoversSawTombstone, Ended, OthersStay, storage
<1>3. TakenDown'
  BY DEF Inv, TakenDown, Ended, OthersStay, storage
<1> QED  BY <1>1, <1>2, <1>3 DEF Inv

LEMMA ReserveInv ==
    ASSUME Inv, NEW c \in Calls, Reserve(c)
    PROVE  Inv'
<1> DEFINE p == call[c].photo
<1>1. /\ call[c] # Idle /\ p \in Photos
      /\ Goes(c, "upload") => Moved(c, "upload")
      /\ Goes(c, "discard") => Moved(c, "discard")
      /\ Answers(c, TRUE) \/ Answers(c, FALSE) => Ended(c)
  BY GoesMoved DEF Inv, Reserve, In, Steps, PostSteps
<1>2. CASE Reservable(p) /\ SetRef(p, "pending") /\ Goes(c, "upload")
  BY <1>1, <1>2 DEF Inv, Types, Traceless, RemoversSawTombstone, FlyingIsFault, PastDraftSettled,
     NothingHalfDone, UploadedIsStored, TakenDown, Reserve, Reservable, SetRef, Moved, OthersStay,
     Refs, HalfDone, storage
<1>3. CASE UNCHANGED ref /\ (Answers(c, TRUE) \/ Answers(c, FALSE)) /\ ref[p] # "aborted"
  BY <1>1, <1>3, EndedInv DEF Reserve, In
<1>4. CASE ref[p] = "pending" /\ UNCHANGED ref /\ Goes(c, "upload")
  BY <1>1, <1>4 DEF Inv, Types, Traceless, RemoversSawTombstone, FlyingIsFault, PastDraftSettled,
     NothingHalfDone, UploadedIsStored, TakenDown, Reserve, Moved, OthersStay, storage
<1>5. CASE ref[p] \in {"aborting", "aborted"} /\ UNCHANGED ref /\ Goes(c, "discard")
  BY <1>1, <1>5 DEF Inv, Types, Traceless, RemoversSawTombstone, FlyingIsFault, PastDraftSettled,
     NothingHalfDone, UploadedIsStored, TakenDown, Reserve, In, Moved, OthersStay, storage
<1> QED  BY <1>2, <1>3, <1>4, <1>5 DEF Reserve, Photo
LEMMA UploadInv ==
    ASSUME Inv, NEW c \in Calls, Upload(c)
    PROVE  Inv'
<1> DEFINE p == call[c].photo
<1>1. /\ call[c] # Idle /\ p \in Photos
      /\ Goes(c, "complete") => Moved(c, "complete")
      /\ Answers(c, TRUE) \/ Answers(c, FALSE) => Ended(c)
  BY GoesMoved DEF Inv, Upload, In, Steps, PostSteps, DeleteSteps
<1>2. CASE object' = [object EXCEPT ![p] = TRUE] /\ UNCHANGED <<flying, faults>>
  BY <1>1, <1>2 DEF Inv, Types, Traceless, RemoversSawTombstone, FlyingIsFault, PastDraftSettled,
     NothingHalfDone, UploadedIsStored, TakenDown, OthersStay,
     Upload, In, Moved, session, Steps
<1>3. CASE /\ faults < MaxFaults /\ faults' = faults + 1 /\ UNCHANGED object
             /\ flying' \in {flying, [flying EXCEPT ![p] = TRUE]}
  <2>1. Types' /\ FlyingIsFault'
    <3>1. ref' \in [Photos -> Refs] /\ faults' \in 0 .. MaxFaults
      BY <1>1, <1>3, EvidenceAssumption DEF Inv, Types, Upload, session
    <3>3. flying' \in [Photos -> BOOLEAN]
      BY <1>1, <1>3 DEF Inv, Types
    <3>2. FlyingIsFault'
      BY <1>1, <1>3, EvidenceAssumption DEF Inv, Types, FlyingIsFault, Upload, In,
       Moved, session
    <3> QED  BY <1>1, <1>3, <3>1, <3>2, <3>3 DEF Inv, Types, Upload, In,
       Moved, session
  <2>4. PastDraftSettled' /\ UploadedIsStored'
    BY <1>1, <1>3 DEF Inv, Types, PastDraftSettled, NothingHalfDone, UploadedIsStored,
       Upload, In,
       Moved, session
  <2>2. Traceless' /\ RemoversSawTombstone'
    BY <1>1, <1>3, EvidenceAssumption DEF Inv, Types, Traceless, RemoversSawTombstone, OthersStay, Upload, In,
       Moved, session
  <2>3. TakenDown'
    BY <1>1, <1>3, EvidenceAssumption DEF Inv, Types, TakenDown, FlyingIsFault, OthersStay, Upload, In,
       Moved, session
  <2> QED  BY <2>1, <2>2, <2>3, <2>4 DEF Inv
<1> QED  BY <1>1, <1>2, <1>3 DEF Upload, Photo

LEMMA LandInv ==
    ASSUME Inv, NEW p \in Photos, Land(p)
    PROVE  Inv'
BY DEF Inv, Types, Traceless, RemoversSawTombstone, FlyingIsFault, PastDraftSettled,
   NothingHalfDone, UploadedIsStored, TakenDown,
   Land, session

LEMMA CompleteInv ==
    ASSUME Inv, NEW c \in Calls, Complete(c)
    PROVE  Inv'
<1> DEFINE p == call[c].photo
<1>1. /\ call[c] # Idle /\ p \in Photos
      /\ Goes(c, "discard") => Moved(c, "discard")
      /\ Answers(c, TRUE) \/ Answers(c, FALSE) => Ended(c)
  BY GoesMoved DEF Inv, Complete, In, Steps, PostSteps, DeleteSteps
<1>2. CASE Completable(p) /\ SetRef(p, "uploaded") /\ Answers(c, TRUE)
  <2>1. Types' /\ FlyingIsFault'
    <3>1. ref' \in [Photos -> Refs] /\ flying' \in [Photos -> BOOLEAN] /\ faults' \in 0 .. MaxFaults
      BY <1>1, <1>2 DEF Inv, Types, Complete,
       Completable, SetRef, In, Ended, storage, Refs, HalfDone, Settled
    <3>2. FlyingIsFault'
      BY <1>1, <1>2 DEF Inv, Types, FlyingIsFault, Complete,
       Completable, SetRef, In, Ended, storage, Refs, HalfDone, Settled
    <3> QED  BY <1>1, <1>2, <3>1, <3>2 DEF Inv, Types, Complete,
       Completable, SetRef, In, Ended, storage, Refs, HalfDone, Settled
  <2>4. PastDraftSettled' /\ UploadedIsStored'
    BY <1>1, <1>2 DEF Inv, Types, PastDraftSettled, NothingHalfDone, UploadedIsStored,
       Complete,
       Completable, SetRef, In, Ended, storage, Refs, HalfDone, Settled
  <2>2. Traceless' /\ RemoversSawTombstone'
    BY <1>1, <1>2 DEF Inv, Types, Traceless, RemoversSawTombstone, OthersStay, Complete,
       Completable, SetRef, In, Ended, storage, Refs, HalfDone, Settled
  <2>3. TakenDown'
    BY <1>1, <1>2 DEF Inv, Types, TakenDown, FlyingIsFault, OthersStay, Complete,
       Completable, SetRef, In, Ended, storage, Refs, HalfDone, Settled
  <2> QED  BY <2>1, <2>2, <2>3, <2>4 DEF Inv
<1>3. CASE UNCHANGED ref /\ (Answers(c, TRUE) \/ Answers(c, FALSE)) /\ ref[p] # "aborted"
  BY <1>1, <1>3, EndedInv DEF Complete, In
<1>4. CASE ref[p] \in {"aborting", "aborted"} /\ UNCHANGED ref /\ Aborted(c)
  BY <1>1, <1>4 DEF Inv, Types, Traceless, RemoversSawTombstone, FlyingIsFault, PastDraftSettled,
     NothingHalfDone, UploadedIsStored, TakenDown, OthersStay,
     Complete, Aborted, In, Moved, storage
<1> QED  BY <1>2, <1>3, <1>4 DEF Complete, Photo

LEMMA DiscardInv ==
    ASSUME Inv, NEW c \in Calls, Discard(c)
    PROVE  Inv'
<1> DEFINE p == call[c].photo
<1>1. /\ call[c] # Idle /\ p \in Photos
      /\ Answers(c, TRUE) \/ Answers(c, FALSE) => Ended(c)
  BY GoesMoved DEF Inv, Discard, In, Steps, PostSteps, DeleteSteps
<1>2. CASE object' = [object EXCEPT ![p] = FALSE] /\ UNCHANGED faults
  BY <1>1, <1>2 DEF Inv, Types, Traceless, RemoversSawTombstone, FlyingIsFault, PastDraftSettled,
     NothingHalfDone, UploadedIsStored, TakenDown, OthersStay,
     Discard, In, Ended, session
<1>3. CASE faults < MaxFaults /\ faults' = faults + 1 /\ UNCHANGED object
  BY <1>1, <1>3, EvidenceAssumption DEF Inv, Types, Traceless, RemoversSawTombstone, FlyingIsFault, PastDraftSettled,
     NothingHalfDone, UploadedIsStored, TakenDown, OthersStay,
     Discard, In, Ended, session
<1> QED  BY <1>1, <1>2, <1>3 DEF Discard, Photo

LEMMA AbortInv ==
    ASSUME Inv, NEW c \in Calls, Abort(c)
    PROVE  Inv'
<1> DEFINE p == call[c].photo
<1>1. /\ call[c] # Idle /\ p \in Photos
      /\ Goes(c, "remove") => Moved(c, "remove")
      /\ Answers(c, TRUE) \/ Answers(c, FALSE) => Ended(c)
  BY GoesMoved DEF Inv, Abort, In, Steps, PostSteps, DeleteSteps
<1>2. CASE Abortable(p) /\ SetRef(p, "aborting") /\ Goes(c, "remove")
  BY <1>1, <1>2 DEF Inv, Types, Traceless, RemoversSawTombstone, FlyingIsFault, PastDraftSettled,
     NothingHalfDone, UploadedIsStored, TakenDown, OthersStay,
     Abort, Abortable, SetRef, In, Moved, storage, Refs, HalfDone, Settled
<1>3. CASE ref[p] \in {"aborting", "aborted"} /\ UNCHANGED ref /\ Goes(c, "remove")
  BY <1>1, <1>3 DEF Inv, Types, Traceless, RemoversSawTombstone, FlyingIsFault, PastDraftSettled,
     NothingHalfDone, UploadedIsStored, TakenDown, OthersStay,
     Abort, In, Moved, storage
<1>4. CASE UNCHANGED ref /\ (Answers(c, TRUE) \/ Answers(c, FALSE))
  BY <1>1, <1>4, EndedInv DEF Abort, In
<1> QED  BY <1>2, <1>3, <1>4 DEF Abort, Photo

LEMMA RemoveInv ==
    ASSUME Inv, NEW c \in Calls, Remove(c)
    PROVE  Inv'
<1> DEFINE p == call[c].photo
<1>1. /\ call[c] # Idle /\ p \in Photos
      /\ Goes(c, "finalize") => Moved(c, "finalize")
      /\ Answers(c, TRUE) \/ Answers(c, FALSE) => Ended(c)
  BY GoesMoved DEF Inv, Remove, In, Steps, PostSteps, DeleteSteps
<1>2. CASE object' = [object EXCEPT ![p] = FALSE] /\ Goes(c, "finalize") /\ UNCHANGED faults
  BY <1>1, <1>2 DEF Inv, Types, Traceless, RemoversSawTombstone, FlyingIsFault, PastDraftSettled,
     NothingHalfDone, UploadedIsStored, TakenDown, OthersStay,
     Remove, In, Moved, session
<1>3. CASE faults < MaxFaults /\ faults' = faults + 1 /\ Answers(c, FALSE) /\ UNCHANGED object
  BY <1>1, <1>3, EvidenceAssumption DEF Inv, Types, Traceless, RemoversSawTombstone, FlyingIsFault, PastDraftSettled,
     NothingHalfDone, UploadedIsStored, TakenDown, OthersStay,
     Remove, In, Ended, session
<1> QED  BY <1>2, <1>3 DEF Remove, Photo

LEMMA FinalizeInv ==
    ASSUME Inv, NEW c \in Calls, Finalize(c)
    PROVE  Inv'
<1> DEFINE p == call[c].photo
<1>1. /\ call[c] # Idle /\ p \in Photos
      /\ Answers(c, TRUE) \/ Answers(c, FALSE) => Ended(c)
  BY GoesMoved DEF Inv, Finalize, In, Steps, PostSteps, DeleteSteps
<1>2. CASE Finalizable(p) /\ SetRef(p, "aborted") /\ Answers(c, TRUE)
  <2>1. Types' /\ FlyingIsFault'
    <3>1. ref' \in [Photos -> Refs] /\ flying' \in [Photos -> BOOLEAN] /\ faults' \in 0 .. MaxFaults
      BY <1>1, <1>2 DEF Inv, Types, Finalize,
       Finalizable, SetRef, In, Ended, storage, Refs, HalfDone, Settled
    <3>2. FlyingIsFault'
      BY <1>1, <1>2 DEF Inv, Types, FlyingIsFault, Finalize,
       Finalizable, SetRef, In, Ended, storage, Refs, HalfDone, Settled
    <3> QED  BY <1>1, <1>2, <3>1, <3>2 DEF Inv, Types, Finalize,
       Finalizable, SetRef, In, Ended, storage, Refs, HalfDone, Settled
  <2>4. PastDraftSettled' /\ UploadedIsStored'
    BY <1>1, <1>2 DEF Inv, Types, PastDraftSettled, NothingHalfDone, UploadedIsStored,
       Finalize,
       Finalizable, SetRef, In, Ended, storage, Refs, HalfDone, Settled
  <2>2. Traceless' /\ RemoversSawTombstone'
    BY <1>1, <1>2 DEF Inv, Types, Traceless, RemoversSawTombstone, OthersStay, Finalize,
       Finalizable, SetRef, In, Ended, storage, Refs, HalfDone, Settled
  <2>3. TakenDown'
    BY <1>1, <1>2 DEF Inv, Types, TakenDown, FlyingIsFault, OthersStay, Finalize,
       Finalizable, SetRef, In, Ended, storage, Refs, HalfDone, Settled
  <2> QED  BY <2>1, <2>2, <2>3, <2>4 DEF Inv
<1>3. CASE UNCHANGED ref /\ (Answers(c, TRUE) \/ Answers(c, FALSE))
  BY <1>1, <1>3, EndedInv DEF Finalize, In
<1> QED  BY <1>2, <1>3 DEF Finalize, Photo

LEMMA DieInv ==
    ASSUME Inv, NEW c \in Calls, Die(c)
    PROVE  Inv'
<1>1. call[c] # Idle /\ Ended(c)
  BY GoesMoved DEF Inv, Die
<1> QED
  BY <1>1, EvidenceAssumption DEF Inv, Types, Traceless, RemoversSawTombstone, FlyingIsFault, PastDraftSettled,
     NothingHalfDone, UploadedIsStored, TakenDown, OthersStay,
     Die, Ended, session, storage

LEMMA LeaveInv ==
    ASSUME Inv, Submit \/ Cancel
    PROVE  Inv'
BY DEF Inv, Types, Traceless, RemoversSawTombstone, FlyingIsFault, PastDraftSettled,
   NothingHalfDone, UploadedIsStored, TakenDown,
   Submit, Cancel, storage

LEMMA InvNext == Inv /\ [Next]_vars => Inv'
<1> SUFFICES ASSUME Inv, [Next]_vars PROVE Inv'  OBVIOUS
<1>1. CASE UNCHANGED vars
  BY <1>1 DEF Inv, Types, Traceless, RemoversSawTombstone, FlyingIsFault, PastDraftSettled,
     NothingHalfDone, UploadedIsStored, TakenDown,
     vars
<1>2. CASE Next
  BY <1>2, PhoneInv, SaveInv, RepeatInv, ReserveInv, UploadInv, LandInv, CompleteInv, DiscardInv,
     AbortInv, RemoveInv, FinalizeInv, DieInv, LeaveInv DEF Next
<1> QED  BY <1>1, <1>2

----------------------------------------------------------------------------
(* The theorems. *)

\* Every reachable state is well formed: a reference no POST has written has left no trace in
\* the bucket, in the air or in a handler that would act on it.
THEOREM TypesRight == Spec => []TypeOK
<1>1. Inv => TypeOK  BY InvForm DEF IInv
<1> QED  BY <1>1, InvInit, InvNext, PTL DEF Spec

\* What the owner is offered can be opened, for any number of photos, handlers and faults.
THEOREM UploadedStays == Spec => []UploadedIsStored
<1>1. Inv => UploadedIsStored  BY DEF Inv
<1> QED  BY <1>1, InvInit, InvNext, PTL DEF Spec

\* Without faults a discarded photo is taken down by the handler that put it back.
THEOREM DiscardsTakeDown == Spec => []DiscardedIsRemoved
<1>1. Inv => DiscardedIsRemoved  BY InvForm DEF IInv
<1> QED  BY <1>1, InvInit, InvNext, PTL DEF Spec

\* abort and finalize do not look at the session, yet none of them moves a reference of a
\* session that has left its draft: submit and cancel left nothing half done for them.
THEOREM SubmittedStays == Spec => SubmittedPhotosStay
<1>1. Inv /\ [Next]_vars => [status # "draft" => UNCHANGED ref]_vars
  <2> SUFFICES ASSUME Inv, Next, status # "draft" PROVE UNCHANGED ref
    BY DEF vars
  <2>1. \A p \in Photos : ref[p] \notin HalfDone
    BY DEF Inv, PastDraftSettled, NothingHalfDone
  <2>2. \A c \in Calls : call[c] # Idle => call[c].photo \in Photos
    BY GoesMoved DEF Inv
  <2>3. ASSUME NEW c \in Calls, Reserve(c) \/ Complete(c) \/ Abort(c) \/ Finalize(c)
        PROVE  UNCHANGED ref
    BY <2>1, <2>2, <2>3 DEF Reserve, Complete, Abort, Finalize, Reservable, Completable, Abortable,
       Finalizable, In, Photo, HalfDone
  <2> QED
    BY <2>3 DEF Next, TakePhoto, GiveUp, Save, Repeat, Upload, Discard, Remove, Die, Land, Submit,
       Cancel, session
<1> QED  BY <1>1, InvInit, InvNext, PTL DEF Spec, SubmittedPhotosStay
=============================================================================
