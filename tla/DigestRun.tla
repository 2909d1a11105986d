----------------------------- MODULE DigestRun -----------------------------
(***************************************************************************)
(* Digest runners (tools/work-orchestrator-v2/digest-runner.mjs) over the  *)
(* digest tables and the Slack channel.  A runner is one bridge process:   *)
(* it runs one cycle at a time (digestRunning in                           *)
(* tools/kakao-dom-bridge/server.mjs), and a restart overlapping the old   *)
(* process, or a second host, gives several.                               *)
(*                                                                         *)
(* One action is one await of the code: a call of the store or of Slack    *)
(* and what the runner does with its answer.  A store call may fail before *)
(* it runs ("down") or after it committed ("lost"); both throw in the      *)
(* runner.  Such failures, crashes, Slack errors and leases that run out   *)
(* under a working holder are drawn from a budget of MaxFaults.            *)
(***************************************************************************)
EXTENDS DigestStore

CONSTANTS
    Runners,
    SlotLen,     \* ticks of one schedule interval
    MaxTime,     \* bound: the clock
    MaxFaults    \* bound: failures of one behaviour

ASSUME RunnerAssumption ==
    /\ IsFiniteSet(Runners) /\ IsFiniteSet(Tokens)
    /\ Cardinality(Tokens) > Cardinality(Runners) + 1
    /\ SlotLen \in Nat \ {0} /\ MaxTime \in Nat /\ MaxFaults \in Nat
    /\ \A time \in 0 .. MaxTime : (time \div SlotLen) + 1 \in Slots

VARIABLES
    rn,        \* the runners' control state and locals
    msgs,      \* messages in the channel: <<run, part, attempt>>
    inflight,  \* messages Slack accepted after the client gave up on the call
    now,       \* the clock
    faults

vars == <<run, part, item, rn, msgs, inflight, now, faults>>
slack == <<msgs, inflight>>

\* digestScheduleWindow: the interval the time falls in.
SlotOf(time) == (time \div SlotLen) + 1

PCs == {"idle", "recover", "claim", "report", "prepare", "skip", "claim_part", "post", "search",
        "settle", "settle_failed", "finalize", "fail_run", "diverge", "list", "clean",
        "delete", "record"}

View == [PartIds -> [delivery : DeliveryStates, attempts : 0 .. MaxAttempts]]

Targets == Rid \X Rid \X PartIds
NoTarget == <<NoRun, NoRun, 1>>

\* at: the cycle's timestamp; window: which of the cycle's two windows; rid, tok: the
\* claimed run; m: the manifest
\* of the report read; view: the parts prepare answered; i: the part at hand, k its attempt,
\* ts the coordinate found; error: the failure to store or the outcome of a delete;
\* diverged: the manifest mismatched; targets, cur: the cleanup backlog.
RunnerState ==
    [pc : PCs, at : 0 .. MaxTime, window : {"recovery", "current"}, rid : Rid \cup {NoRun},
     tok : Tokens \cup {NoToken}, m : Manifests \cup {NoManifest}, view : View, i : 1 .. MaxParts + 1, k : Nat,
     ts : 0 .. MaxAttempts, error : {"none", "unconfirmed", "rejected", "rate_limited"} \cup CleanupStates,
     diverged : BOOLEAN, targets : SUBSET Targets, cur : Targets \cup {NoTarget}]

NoView == [p \in PartIds |-> [delivery |-> "absent", attempts |-> 0]]

Idle == [pc |-> "idle", at |-> 0, window |-> "current", rid |-> NoRun, tok |-> NoToken, m |-> NoManifest,
         view |-> NoView, i |-> 1, k |-> 0, ts |-> 0, error |-> "none", diverged |-> FALSE,
         targets |-> {}, cur |-> NoTarget]

TypeOK ==
    /\ StoreTypeOK
    /\ rn \in [Runners -> RunnerState]
    /\ msgs \subseteq Rid \X PartIds \X (1 .. MaxAttempts)
    /\ inflight \subseteq Rid \X PartIds \X (1 .. MaxAttempts)
    /\ now \in 0 .. MaxTime
    /\ faults \in 0 .. MaxFaults

Init ==
    /\ StoreInit
    /\ rn = [r \in Runners |-> Idle]
    /\ msgs = {} /\ inflight = {}
    /\ now = 0 /\ faults = 0

----------------------------------------------------------------------------
(* Calls. *)

At(r, pc) == rn[r].pc = pc

Go(r, next) == rn' = [rn EXCEPT ![r] = next]

NoFault == UNCHANGED faults
Fault == faults < MaxFaults /\ faults' = faults + 1

\* A store call with its effect; onThrow also when the answer is lost or the store is down.
Call(r, Effect, onAnswer, onThrow) ==
    /\ UNCHANGED <<msgs, inflight, now>>
    /\ \/ Effect /\ Go(r, onAnswer) /\ NoFault
       \/ Effect /\ Go(r, onThrow) /\ Fault
       \/ UNCHANGED store /\ Go(r, onThrow) /\ Fault

\* Every end of a window goes through cleanupBacklog.
ToCleanup(r) == [Idle EXCEPT !.pc = "list", !.at = rn[r].at, !.window = rn[r].window]

\* After a recovered window the cycle runs the current one.
EndWindow(rec) ==
    IF rec.window = "recovery" THEN [Idle EXCEPT !.pc = "claim", !.at = rec.at] ELSE Idle

ToFailRun(r) == [rn[r] EXCEPT !.pc = "fail_run", !.m = NoManifest]

\* The part loops of the delivery and of the handoff of a mismatched manifest, entered
\* with part i at hand: the next await, or a step over a part that needs none.
PartAt(rec, i) ==
    LET seen == IF i <= MaxParts THEN rec.view[i] ELSE [delivery |-> "absent", attempts |-> 0] IN
    [rec EXCEPT !.i = i, !.ts = 0, !.error = "none",
                !.k = IF seen.delivery = "delivering" THEN seen.attempts ELSE 0,
                !.pc = CASE seen.delivery = "absent" -> IF rec.diverged THEN "diverge" ELSE "finalize"
                         [] seen.delivery = "delivering" -> "search"
                         [] seen.delivery = "delivered" -> "skip"
                         [] OTHER -> IF rec.diverged THEN "skip" ELSE "claim_part"]

NextPart(rec) == PartAt(rec, rec.i + 1)

----------------------------------------------------------------------------
(* The cycle. *)

StartCycle(r) ==
    /\ At(r, "idle")
    /\ Go(r, [Idle EXCEPT !.pc = "recover", !.at = now])
    /\ UNCHANGED <<store, slack, now, faults>>

\* A uuid drawn for a new lease: not the row's last one, none a runner still remembers.
FreshToken(rid) ==
    CHOOSE t \in Tokens : t # run[rid].token /\ \A r \in Runners : rn[r].rid = rid => rn[r].tok # t

TokenFor(rid) == IF rid = NoRun THEN NoToken ELSE FreshToken(rid)

Claimed(r, rid, window) ==
    IF rid = NoRun THEN IF window = "recovery" THEN [rn[r] EXCEPT !.pc = "claim"] ELSE ToCleanup(r)
    ELSE [rn[r] EXCEPT !.pc = "report", !.window = window, !.rid = rid, !.tok = FreshToken(rid)]

ClaimRecovery(r) ==
    /\ At(r, "recover")
    /\ LET s == SlotOf(rn[r].at)
           rid == DivergentClaimable(s) IN
       Call(r, ClaimDivergentDigestRun(s, TokenFor(rid)), Claimed(r, rid, "recovery"),
            [rn[r] EXCEPT !.pc = "claim"])

ClaimCurrent(r) ==
    /\ At(r, "claim")
    /\ LET s == SlotOf(rn[r].at)
           rid == Claimable(s) IN
       Call(r, ClaimDigestRun(s, TokenFor(rid)), Claimed(r, rid, "current"), ToCleanup(r))

\* listHeybilliOwnerWork: any manifest of current versions of active items, or a failed read.
Current == {<<w, item[w].version>> : w \in {v \in Items : item[v].active}}

ReadReport(r) ==
    /\ At(r, "report")
    /\ UNCHANGED <<store, slack, now>>
    /\ \/ \E m \in Manifests :
             Includes[m] \subseteq Current /\ Go(r, [rn[r] EXCEPT !.pc = "prepare", !.m = m]) /\ NoFault
       \/ Go(r, ToFailRun(r)) /\ Fault

PreparedParts(rid, m) ==
    IF run[rid].manifest = NoManifest
    THEN [p \in PartIds |-> [delivery |-> IF p <= Size[m] THEN "planned" ELSE "absent", attempts |-> 0]]
    ELSE [p \in PartIds |-> [delivery |-> part[rid][p].delivery, attempts |-> part[rid][p].attempts]]

AfterPrepare(r) ==
    LET rec == rn[r] m == rec.m IN
    IF Prepared(rec.rid, rec.tok, m) \/ Mismatch(rec.rid, rec.tok, m)
    THEN PartAt([rec EXCEPT !.m = NoManifest, !.view = PreparedParts(rec.rid, m),
                            !.diverged = Mismatch(rec.rid, rec.tok, m)], 1)
    ELSE ToFailRun(r)

Prepare(r) ==
    /\ At(r, "prepare")
    /\ Call(r, PrepareDigestParts(rn[r].rid, rn[r].tok, rn[r].m), AfterPrepare(r), ToFailRun(r))

----------------------------------------------------------------------------
(* deliverPart. *)

SkipPart(r) ==
    /\ At(r, "skip")
    /\ Go(r, NextPart(rn[r]))
    /\ UNCHANGED <<store, slack, now, faults>>

\* Not claimed: a rate-limited part defers the run, which keeps its state and lease.
AfterPartClaim(r) ==
    LET rec == rn[r] row == part[rec.rid][rec.i] IN
    IF PartClaimable(rec.rid, rec.tok, rec.i)
    THEN [rec EXCEPT !.pc = "post", !.k = row.attempts + 1]
    ELSE IF HoldsLease(rec.rid, rec.tok, {"delivering"}) /\ row.limited
         THEN ToCleanup(r) ELSE ToFailRun(r)

ClaimPart(r) ==
    /\ At(r, "claim_part")
    /\ Call(r, ClaimDigestPartDelivery(rn[r].rid, rn[r].tok, rn[r].i), AfterPartClaim(r), ToFailRun(r))

Message(r) == <<rn[r].rid, rn[r].i, rn[r].k>>

\* chat.postMessage: it answers; or its answer is lost with the message posted, never
\* posted, or posted later; or it refuses.
Post(r) ==
    /\ At(r, "post")
    /\ UNCHANGED <<store, now>>
    /\ \/ /\ msgs' = msgs \cup {Message(r)} /\ UNCHANGED inflight /\ NoFault
          /\ Go(r, [rn[r] EXCEPT !.pc = "settle", !.ts = rn[r].k])
       \/ /\ \/ msgs' = msgs \cup {Message(r)} /\ UNCHANGED inflight
             \/ UNCHANGED slack
             \/ inflight' = inflight \cup {Message(r)} /\ UNCHANGED msgs
          /\ Go(r, [rn[r] EXCEPT !.pc = "search"]) /\ Fault
       \/ /\ UNCHANGED slack /\ Fault
          /\ \E why \in {"rejected", "rate_limited"} :
                Go(r, [rn[r] EXCEPT !.pc = "settle_failed", !.error = why])

Copies(rid, p) == {k \in 1 .. MaxAttempts : <<rid, p, k>> \in msgs}

ToSettleFailed(r) == [rn[r] EXCEPT !.pc = "settle_failed", !.error = "unconfirmed"]

\* Mutant of Search: a message the history does not show counts as posted.
SearchTrusting(r) ==
    /\ At(r, "search")
    /\ UNCHANGED <<store, slack, now>>
    /\ \/ Go(r, [rn[r] EXCEPT !.pc = "settle", !.ts = rn[r].k]) /\ NoFault
       \/ Fault /\ Go(r, IF rn[r].diverged THEN ToCleanup(r) ELSE ToSettleFailed(r))
       \/ Fault /\ Go(r, ToFailRun(r))

\* reconcilePart, after a lost answer or for a part that an earlier holder left delivering
\* (that one is never posted again): conversations.history around the last delivery_claimed_at.  It holds the
\* last attempt's message if that was posted; an older attempt's may be out of its range.
Search(r) ==
    /\ At(r, "search")
    /\ UNCHANGED <<store, slack, now>>
    /\ \/ \E k \in Copies(rn[r].rid, rn[r].i) :
             Go(r, [rn[r] EXCEPT !.pc = "settle", !.ts = k]) /\ NoFault
       \/ Message(r) \notin msgs /\ Go(r, ToSettleFailed(r)) /\ NoFault
       \/ Fault /\ Go(r, IF rn[r].diverged THEN ToCleanup(r) ELSE ToSettleFailed(r))
       \/ Fault /\ Go(r, ToFailRun(r))

\* An answer that the call did not apply is an exception too: the run is left as it is.
SettleDelivered(r) ==
    /\ At(r, "settle")
    /\ LET rec == rn[r] IN
       Call(r, MarkDigestPartDelivered(rec.rid, rec.tok, rec.i, rec.k, rec.ts),
            IF Attempting(rec.rid, rec.tok, rec.i, rec.k) THEN NextPart(rec) ELSE ToCleanup(r),
            ToCleanup(r))

\* Its errors are swallowed; the handoff goes on, a delivery fails the run.
SettleFailed(r) ==
    /\ At(r, "settle_failed")
    /\ LET rec == rn[r]
           next == IF rec.diverged THEN NextPart(rec) ELSE ToFailRun(r) IN
       Call(r, MarkDigestPartFailed(rec.rid, rec.tok, rec.i, rec.k, rec.error = "rate_limited"),
            next, next)

Finalize(r) ==
    /\ At(r, "finalize")
    /\ Call(r, FinalizeDigestRun(rn[r].rid, rn[r].tok, rn[r].at), ToCleanup(r), ToCleanup(r))

FailRun(r) ==
    /\ At(r, "fail_run")
    /\ Call(r, FailDigestRun(rn[r].rid, rn[r].tok), ToCleanup(r), ToCleanup(r))

\* The end of handoffDivergentGeneration.
Diverge(r) ==
    /\ At(r, "diverge")
    /\ Call(r, MarkDigestGenerationDiverged(rn[r].rid, rn[r].tok), ToCleanup(r), ToCleanup(r))

----------------------------------------------------------------------------
(* cleanupBacklog. *)

Clean(rec, targets) ==
    IF targets = {} THEN EndWindow(rec)
    ELSE [Idle EXCEPT !.pc = "clean", !.at = rec.at, !.window = rec.window, !.targets = targets]

ListBacklog(r) ==
    /\ At(r, "list")
    /\ UNCHANGED <<store, slack, now>>
    /\ \/ Go(r, Clean(rn[r], CleanupBacklog)) /\ NoFault
       \/ Go(r, EndWindow(rn[r])) /\ Fault

ClaimCleanup(r) ==
    /\ At(r, "clean")
    /\ \E t \in rn[r].targets :
          LET rest == rn[r].targets \ {t} IN
          Call(r, ClaimDigestPartCleanup(t[1], t[2], t[3]),
               IF CleanupClaimable(t[1], t[2], t[3])
               THEN [rn[r] EXCEPT !.pc = "delete", !.targets = rest, !.cur = t,
                                  !.k = part[t[2]][t[3]].cleanups + 1]
               ELSE Clean(rn[r], rest),
               Clean(rn[r], rest))

\* Mutant of Delete: an error counts as already absent.
DeleteTrusting(r) ==
    /\ At(r, "delete")
    /\ UNCHANGED <<store, inflight, now>>
    /\ LET t == rn[r].cur
           msg == <<t[2], t[3], part[t[2]][t[3]].ts>>
           Outcome(o) == Go(r, [rn[r] EXCEPT !.pc = "record", !.error = o]) IN
       \/ msgs' = msgs \ {msg} /\ NoFault /\ Outcome("deleted")
       \/ Outcome("already_absent") /\ Fault /\ (UNCHANGED msgs \/ msgs' = msgs \ {msg})

\* Mutant of Delete: the successor's coordinate is deleted.
DeleteSuccessor(r) ==
    /\ At(r, "delete")
    /\ UNCHANGED <<store, inflight, now>>
    /\ msgs' = msgs \ {<<rn[r].cur[1], rn[r].cur[3], part[rn[r].cur[1]][rn[r].cur[3]].ts>>}
    /\ Go(r, [rn[r] EXCEPT !.pc = "record", !.error = "deleted"]) /\ NoFault

\* chat.delete of the stored coordinate; message_not_found counts as already absent, and a
\* lost answer as a failure whether or not the message went.
Delete(r) ==
    /\ At(r, "delete")
    /\ UNCHANGED <<store, inflight, now>>
    /\ LET t == rn[r].cur
           msg == <<t[2], t[3], part[t[2]][t[3]].ts>>
           Outcome(o) == Go(r, [rn[r] EXCEPT !.pc = "record", !.error = o]) IN
       \/ /\ msgs' = msgs \ {msg} /\ NoFault
          /\ Outcome(IF msg \in msgs THEN "deleted" ELSE "already_absent")
       \/ Outcome("failed") /\ Fault /\ (UNCHANGED msgs \/ msgs' = msgs \ {msg})

RecordCleanup(r) ==
    /\ At(r, "record")
    /\ LET t == rn[r].cur
           next == Clean(rn[r], rn[r].targets) IN
       Call(r, RecordDigestPartCleanup(t[1], t[2], t[3], rn[r].k, rn[r].error), next, next)

----------------------------------------------------------------------------
(* The environment. *)

Crash(r) == ~At(r, "idle") /\ Go(r, Idle) /\ Fault /\ UNCHANGED <<store, slack, now>>

LateMessage ==
    /\ \E msg \in inflight : msgs' = msgs \cup {msg} /\ inflight' = inflight \ {msg}
    /\ UNCHANGED <<store, rn, now, faults>>

Held(rid) == \E r \in Runners : rn[r].rid = rid /\ rn[r].tok = run[rid].token

HeldCleanup(rid, p) ==
    \E r \in Runners : /\ rn[r].pc \in {"delete", "record"}
                       /\ rn[r].cur[2] = rid /\ rn[r].cur[3] = p
                       /\ rn[r].k = part[rid][p].cleanups

\* A lease outlives its holder's work unless the holder is held up: a fault.
ExpireLease(rid) ==
    LeaseExpires(rid) /\ (IF Held(rid) THEN Fault ELSE NoFault) /\ UNCHANGED <<rn, slack, now>>

ExpireCleanup(rid, p) ==
    CleanupLeaseExpires(rid, p) /\ (IF HeldCleanup(rid, p) THEN Fault ELSE NoFault)
    /\ UNCHANGED <<rn, slack, now>>

ItemChange(w) == ItemChanges(w, now) /\ UNCHANGED <<rn, slack, now, faults>>

RetryDue(rid, p) == RetryFallsDue(rid, p) /\ UNCHANGED <<rn, slack, now, faults>>

Tick == now < MaxTime /\ now' = now + 1 /\ UNCHANGED <<store, rn, slack, faults>>

Step(r) ==
    \/ StartCycle(r) \/ ClaimRecovery(r) \/ ClaimCurrent(r) \/ ReadReport(r) \/ Prepare(r)
    \/ SkipPart(r) \/ ClaimPart(r) \/ Post(r) \/ Search(r)
    \/ SettleDelivered(r) \/ SettleFailed(r) \/ Finalize(r) \/ FailRun(r)
    \/ Diverge(r)
    \/ ListBacklog(r) \/ ClaimCleanup(r) \/ Delete(r) \/ RecordCleanup(r)

Next ==
    \/ \E r \in Runners : Step(r) \/ Crash(r)
    \/ \E rid \in Rid : ExpireLease(rid)
    \/ \E rid \in Rid, p \in PartIds : ExpireCleanup(rid, p) \/ RetryDue(rid, p)
    \/ \E w \in Items : ItemChange(w)
    \/ Tick \/ LateMessage

\* The interval timer of each process keeps starting cycles, every await of a cycle ends
\* (Slack and Supabase calls have timeouts), and wall-clock time passes every expiry.
Fairness ==
    /\ \A r \in Runners : WF_vars(Step(r))
    /\ \A rid \in Rid : WF_vars(ExpireLease(rid))
    /\ \A rid \in Rid, p \in PartIds : WF_vars(ExpireCleanup(rid, p)) /\ WF_vars(RetryDue(rid, p))

Spec == Init /\ [][Next]_vars /\ Fairness

----------------------------------------------------------------------------
(* Properties. *)

\* The stored coordinate of a part is a message that is still in the channel.
Shown(rid, p) == part[rid][p].delivery = "delivered" /\ <<rid, p, part[rid][p].ts>> \in msgs

\* The digest of the newest published slot is complete in the channel: whatever the
\* cleanups of any runner are doing, none of its messages is missing or deleted
\* (finalize_digest_run_v2, the successor checks of claim_digest_part_cleanup_v2).
NewestDigestShown ==
    \A rid \in Rid :
        run[rid].state \in Published /\ (\A o \in Rid : run[o].state \in Published => ~Before(rid, o))
            => \A p \in PartIds : part[rid][p].delivery # "absent" => Shown(rid, p)

\* An attempt is posted by at most one runner, once: no lease that changed hands while a
\* runner was between its claim of the part and its post makes two runners post the same
\* attempt (claim_digest_part_delivery_v2, deliverPart).
OneAttemptOnePost ==
    \A r \in Runners : At(r, "post") =>
        /\ Message(r) \notin msgs \cup inflight
        /\ \A q \in Runners \ {r} : At(q, "post") => Message(q) # Message(r)

\* At most one generation of a slot is open: an older one diverged, with no attempt left
\* unsettled, before the next was created, and the next replaces exactly it
\* (mark_digest_generation_diverged_v2, claim_digest_run_v2).
OneOpenGeneration ==
    \A a, b \in Rid : a[1] = b[1] /\ a[2] < b[2] /\ run[b].state # "absent" =>
        /\ run[a].state \in {"diverged", "retired"}
        /\ \A p \in PartIds : part[a][p].delivery # "delivering"
        /\ b[2] = a[2] + 1 => run[b].prev = a

\* A work item is counted at most once per published digest that shows it, so never by a
\* digest that is not delivered, however often its delivery or the finalizing call is
\* retried (finalize_digest_run_v2; design, 6.3).
CountedOncePublished ==
    \A w \in Items :
        item[w].included <= Cardinality({rid \in Rid : /\ run[rid].state \in Published
                                                      /\ w \in {e[1] : e \in Includes[run[rid].manifest]}})

\* A cleanup recorded as done is done: the stored coordinate is out of the channel
\* (record_digest_part_cleanup_v2, deleteMessage).
CleanedIsGone ==
    \A rid \in Rid, p \in PartIds :
        part[rid][p].cleanup \in Gone => part[rid][p].delivery = "delivered" /\ ~Shown(rid, p)

\* replaced and retired mean nothing of the digest, nor of what it stood for, is left to
\* clean: a retired generation leaves no inherited predecessor behind (the retire loop).
ReplacedIsGone ==
    \A rid \in Rid : run[rid].state \in {"replaced", "retired"} =>
        /\ \A p \in PartIds : ~Shown(rid, p)
        /\ run[rid].state = "retired" /\ run[rid].prev # NoRun =>
              run[run[rid].prev].state \in {"replaced", "retired"}

\* Evidence is final: a prepared manifest is never replaced, a delivered part keeps its
\* coordinate, and a published, diverged or retired run never opens again, whatever a
\* runner with an outdated view of the run calls.
EvidenceIsFinal ==
    [][\A rid \in Rid :
          /\ run[rid].manifest # NoManifest => run'[rid].manifest = run[rid].manifest
          /\ \A p \in PartIds : part[rid][p].delivery = "delivered" =>
                part'[rid][p].delivery = "delivered" /\ part'[rid][p].ts = part[rid][p].ts
          /\ run[rid].state \in Published \cup {"diverged", "retired"} =>
                run'[rid].state \notin Unfinished]_vars

Board == INSTANCE DigestBoard WITH
    Digests <- Rid,
    planned <- [rid \in Rid |-> IF run[rid].manifest = NoManifest THEN -1 ELSE Size[run[rid].manifest]],
    pinned <- {d \in Rid \X PartIds : Shown(d[1], d[2])},
    published <- {rid \in Rid : run[rid].state \in Published}

\* The tables and runners implement the board: digests are published complete, and a
\* recorded message disappears only once a later digest is published.
BoardKept == Board!BoardSpec

\* Once a digest is published the messages of the digest it replaces are eventually gone,
\* through crashed cleanups, failed deletes and lost answers (cleanupBacklog).
PredecessorCleaned ==
    \A rid \in Rid :
        (run[rid].state \in Published /\ run[rid].prev # NoRun)
            ~> (run[rid].prev # NoRun /\ \A p \in PartIds : ~Shown(run[rid].prev, p))

\* The last slot's digest is eventually published, when fewer attempts fail than a part has:
\* the interval timer reclaims the failed or abandoned run once its lease ran out.
LastDigestDelivered ==
    (now = MaxTime) ~> (\E rid \in Rid : rid[1] = SlotOf(MaxTime) /\ run[rid].state \in Published)

----------------------------------------------------------------------------
(* What the design document says and the code does not keep. *)

\* "Slack ambiguous timeout reconciles before retry and does not duplicate": one message
\* per part in the channel (design, 13.2).
NoDuplicatePost == \A rid \in Rid, p \in PartIds : Cardinality(Copies(rid, p)) <= 1

Quiet ==
    /\ \A r \in Runners : At(r, "idle")
    /\ \A rid \in Rid : ~run[rid].live
    /\ CleanupBacklog = {} /\ inflight = {}

\* "Keep at most one current focus digest per destination": once the current slot's digest
\* is published, no cycle runs and no cleanup is left, only its messages are in the
\* channel (design, 9.3).
AtMostOneCurrentDigest ==
    \A rid \in Rid :
        Quiet /\ rid[1] = SlotOf(now) /\ run[rid].state \in Published
            => \A msg \in msgs : msg[1] = rid
=============================================================================
