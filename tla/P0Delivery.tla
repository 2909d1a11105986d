----------------------------- MODULE P0Delivery -----------------------------
(***************************************************************************)
(* The notices of one P0 work item.  Bridges sweep: list the item when its *)
(* next notice is due, claim a generation in its payload, post the message *)
(* under an id made of item and generation, and settle what came of it.  A *)
(* claim whose end is unknown is reconciled: taken over, searched for in   *)
(* the channel and posted again only if it is not there.  Beside them, the *)
(* owner acknowledges the item and source events change it.                *)
(*                                                                         *)
(* Claims and settlements leave the item's version alone; everything else  *)
(* raises it.                                                              *)
(***************************************************************************)
EXTENDS Naturals

CONSTANTS
    Bridges,      \* bridge processes: an old one may still run beside the new
    NoBridge,
    MaxAttempts,  \* generations a P0 gets (three in the code)
    MaxVersion,   \* bound: changes of the item
    MaxFaults,    \* bound: failed or lost calls, refused posts, crashes
    MaxLate       \* bound: messages after their search, leases over under a working holder

ASSUME P0Assumption ==
    /\ NoBridge \notin Bridges
    /\ MaxAttempts \in Nat /\ MaxVersion \in Nat /\ MaxFaults \in Nat /\ MaxLate \in Nat

VARIABLES
    item,     \* the row: version, state, acknowledgement, pending action
    delivery, \* payload.p0_delivery: status, generation, whether its time has come, holder
    poll,     \* what the action poller read, if it is about to write
    bridge,   \* bridge[b]: where the sweep of b is and what it works on
    channel,  \* channel[g]: messages of generation g in the channel
    air,      \* air[g]: messages of generation g Slack will still show
    faults, late

vars == <<item, delivery, poll, bridge, channel, air, faults, late>>

Generations == 1 .. MaxAttempts
Versions == 1 .. MaxVersion + 1
Unsettled == {"claimed", "reconcile_pending", "reconciling"}
Statuses == {"none", "delivered", "retry_pending"} \cup Unsettled
Outcomes == {"delivered", "retry_pending", "reconcile_pending"}
Steps == {"idle", "listed", "search", "post", "settle", "again"}

Delivery == [status : Statuses, generation : 0 .. MaxAttempts, due : BOOLEAN,
             owner : Bridges \cup {NoBridge}]

NoDelivery == [status |-> "none", generation |-> 0, due |-> FALSE, owner |-> NoBridge]
NoPoll == [on |-> FALSE, version |-> 0, delivery |-> NoDelivery]
Idle == [step |-> "idle", version |-> 0, status |-> "none", generation |-> 0, outcome |-> "delivered"]

TypeOK ==
    /\ item \in [version : Versions, active : BOOLEAN, acked : BOOLEAN, asked : {0} \cup Versions]
    /\ delivery \in Delivery
    /\ poll \in [on : BOOLEAN, version : {0} \cup Versions, delivery : Delivery]
    /\ bridge \in [Bridges -> [step : Steps, version : {0} \cup Versions, status : Statuses,
                               generation : 0 .. MaxAttempts, outcome : Outcomes]]
    /\ channel \in [Generations -> Nat]
    /\ air \in [Generations -> Nat]
    /\ faults \in 0 .. MaxFaults /\ late \in 0 .. MaxLate
    /\ delivery.status = "none" <=> delivery.generation = 0
    /\ \A b \in Bridges : bridge[b].step \in {"search", "post", "settle", "again"} =>
         bridge[b].generation \in Generations /\ bridge[b].status \in {"claimed", "reconciling"}

Init ==
    /\ item = [version |-> 1, active |-> TRUE, acked |-> FALSE, asked |-> 0]
    /\ delivery = NoDelivery
    /\ poll = NoPoll
    /\ bridge = [b \in Bridges |-> Idle]
    /\ channel = [g \in Generations |-> 0] /\ air = [g \in Generations |-> 0]
    /\ faults = 0 /\ late = 0

Fault == faults < MaxFaults /\ faults' = faults + 1
Late == late < MaxLate /\ late' = late + 1

-----------------------------------------------------------------------------
(* The item beside the sweeps.                                              *)

Changes == item.active /\ item.version < MaxVersion

\* upsert_work_item_v2: a source event; its payload has no p0_delivery.
Merge ==
    /\ Changes
    /\ item' = [item EXCEPT !.version = @ + 1]
    /\ UNCHANGED <<delivery, poll, bridge, channel, air, faults, late>>

Resolve ==
    /\ Changes
    /\ item' = [item EXCEPT !.version = @ + 1, !.active = FALSE]
    /\ UNCHANGED <<delivery, poll, bridge, channel, air, faults, late>>

\* request_work_item_action_v2, for ack_p0: asked is the version it expects, plus one.  Another
\* acknowledgement would write no payload.
AskAck ==
    /\ Changes /\ ~item.acked
    /\ item' = [item EXCEPT !.version = @ + 1, !.asked = item.version + 1]
    /\ UNCHANGED <<delivery, poll, bridge, channel, air, faults, late>>

\* The poller reads the whole row of a pending action.
PollAck ==
    /\ ~poll.on /\ item.active /\ item.asked = item.version
    /\ poll' = [on |-> TRUE, version |-> item.version, delivery |-> delivery]
    /\ UNCHANGED <<item, delivery, bridge, channel, air, faults, late>>

\* It writes the whole payload back, with the acknowledgement in it, if the version is the one
\* it read: a claim or settlement since then is overwritten.
ApplyAck ==
    /\ poll.on
    /\ poll' = NoPoll
    /\ IF item.version = poll.version /\ item.active
         THEN /\ item' = [item EXCEPT !.version = @ + 1, !.acked = TRUE, !.asked = 0]
              /\ delivery' = poll.delivery
         ELSE UNCHANGED <<item, delivery>>
    /\ UNCHANGED <<bridge, channel, air, faults, late>>

\* A bridge that works on the delivery as it is.
Holder(b) ==
    /\ bridge[b].step \in {"search", "post", "settle", "again"}
    /\ bridge[b].generation = delivery.generation /\ bridge[b].status = delivery.status
    /\ delivery.status = "reconciling" => delivery.owner = b

\* Mutant: a delivered notice is the last one.
TimedOnce == {"none", "retry_pending"} \cup Unsettled

\* Every delivery has its time.
Timed == {"none", "delivered", "retry_pending"} \cup Unsettled

\* The clock reaches first_opened_at + 10 minutes, next_at or the end of the lease.
FallsDue ==
    /\ ~delivery.due /\ delivery.status \in Timed
    /\ IF \E b \in Bridges : Holder(b) THEN Late ELSE UNCHANGED late
    /\ delivery' = [delivery EXCEPT !.due = TRUE]
    /\ UNCHANGED <<item, poll, bridge, channel, air, faults>>

-----------------------------------------------------------------------------
(* A sweep.                                                                 *)

Goes(b, step) == bridge' = [bridge EXCEPT ![b].step = step]
Ends(b) == bridge' = [bridge EXCEPT ![b] = Idle]

\* Mutant: a generation too many.
RetriableOnceMore == delivery.generation <= MaxAttempts

Retriable == delivery.generation < MaxAttempts

\* is_due_p0_delivery_v2.
IsDue == delivery.due /\ (delivery.status \in Unsettled \/ Retriable)

\* list_due_p0_work_v2, which fixes the sweep's clock.
List(b) ==
    /\ bridge[b] = Idle
    /\ item.active /\ ~item.acked /\ IsDue
    /\ bridge' = [bridge EXCEPT ![b] = [Idle EXCEPT !.step = "listed", !.version = item.version,
                                          !.status = delivery.status, !.generation = delivery.generation]]
    /\ UNCHANGED <<item, delivery, poll, channel, air, faults, late>>

\* Mutant: the version is not compared.
AsListedUnversioned(b) == item.active

\* What both claims compare.  They also look for an acknowledgement before the sweep's clock,
\* and the item was listed at that clock without one: a later one shows in the version only.
AsListed(b) == item.version = bridge[b].version /\ item.active

\* Mutant: the generation is not compared.
SameGenerationAny(b) == TRUE

SameGeneration(b) == delivery.generation = bridge[b].generation

Claimable(b) ==
    /\ AsListed(b) /\ IsDue /\ SameGeneration(b)
    /\ delivery.status \in {"none", "delivered", "retry_pending"}

\* claim_p0_delivery_v2: the next generation.  lost: no answer, and the sweep goes on.
Claim(b, lost) ==
    /\ bridge[b].step = "listed" /\ bridge[b].status \notin Unsettled
    /\ IF lost THEN Fault ELSE UNCHANGED faults
    /\ IF Claimable(b)
         THEN LET g == bridge[b].generation + 1 IN
              /\ delivery' = [status |-> "claimed", generation |-> g, due |-> FALSE, owner |-> NoBridge]
              /\ bridge' = [bridge EXCEPT ![b] =
                              IF lost THEN Idle
                              ELSE [@ EXCEPT !.step = "post", !.status = "claimed", !.generation = g]]
         ELSE Ends(b) /\ UNCHANGED delivery
    /\ UNCHANGED <<item, poll, channel, air, late>>

\* Mutant: only what was found undecided once is taken over.
TakenOverWhenUndecided(b) == delivery.status \in {"reconcile_pending", "reconciling"}

TakenOver(b) == delivery.status \in Unsettled

Reconcilable(b) ==
    /\ AsListed(b) /\ delivery.due /\ TakenOver(b)
    /\ delivery.generation = bridge[b].generation /\ delivery.status = bridge[b].status

\* claim_p0_reconciliation_v2: the same generation, under a lease of its own.
ClaimReconciliation(b, lost) ==
    /\ bridge[b].step = "listed" /\ bridge[b].status \in Unsettled
    /\ IF lost THEN Fault ELSE UNCHANGED faults
    /\ IF Reconcilable(b)
         THEN /\ delivery' = [delivery EXCEPT !.status = "reconciling", !.due = FALSE, !.owner = b]
              /\ bridge' = [bridge EXCEPT ![b] =
                              IF lost THEN Idle ELSE [@ EXCEPT !.step = "search", !.status = "reconciling"]]
         ELSE Ends(b) /\ UNCHANGED delivery
    /\ UNCHANGED <<item, poll, channel, air, late>>

ToSettle(b, outcome) ==
    bridge' = [bridge EXCEPT ![b].step = "settle", ![b].outcome = outcome]

\* Mutant: what was found is not looked at.
FoundNever(g) == FALSE

\* findMessageByClientId reads the channel's history.
Found(g) == channel[g] > 0

Search(b) ==
    /\ bridge[b].step = "search"
    /\ \/ /\ IF Found(bridge[b].generation) THEN ToSettle(b, "delivered") ELSE Goes(b, "post")
          /\ UNCHANGED faults
       \/ Fault /\ ToSettle(b, "reconcile_pending")
    /\ UNCHANGED <<item, delivery, poll, channel, air, late>>

Answered(b, outcome) == ToSettle(b, outcome) /\ UNCHANGED <<item, delivery, poll>>

\* postMessage, answered.
Post(b) ==
    /\ bridge[b].step = "post"
    /\ channel' = [channel EXCEPT ![bridge[b].generation] = @ + 1]
    /\ Answered(b, "delivered") /\ UNCHANGED <<air, faults, late>>

\* Refused for good: rate limit or an API error.
PostRefused(b) ==
    /\ bridge[b].step = "post" /\ Fault
    /\ Answered(b, "retry_pending") /\ UNCHANGED <<channel, air, late>>

\* Mutant: no answer counts as an answer.
UnansweredIs == "delivered"

Unanswered == "reconcile_pending"

\* No answer: the message is there, is not, or comes later.
PostUnanswered(b) ==
    /\ bridge[b].step = "post" /\ Fault
    /\ LET g == bridge[b].generation IN
       \/ channel' = [channel EXCEPT ![g] = @ + 1] /\ UNCHANGED <<air, late>>
       \/ UNCHANGED <<channel, air, late>>
       \/ Late /\ air' = [air EXCEPT ![g] = @ + 1] /\ UNCHANGED channel
    /\ Answered(b, Unanswered)

Lands(g) ==
    /\ air[g] > 0
    /\ air' = [air EXCEPT ![g] = @ - 1] /\ channel' = [channel EXCEPT ![g] = @ + 1]
    /\ UNCHANGED <<item, delivery, poll, bridge, faults, late>>

\* settle_p0_delivery_v2 compares no version: the delivery must be the one that was claimed,
\* a reconciler's lease not over.
Settleable(b) == Holder(b) /\ (delivery.status = "reconciling" => ~delivery.due)

\* A delivered outcome is written again once if it may not have been recorded: the second try
\* finds it or writes it.  The others are not.
Settle(b) ==
    /\ bridge[b].step \in {"settle", "again"}
    /\ delivery' = IF Settleable(b)
                   THEN [status |-> bridge[b].outcome, generation |-> delivery.generation,
                         due |-> FALSE, owner |-> NoBridge]
                   ELSE delivery
    /\ Ends(b)
    /\ UNCHANGED <<item, poll, channel, air, faults, late>>

SettleFails(b) ==
    /\ bridge[b].step \in {"settle", "again"} /\ Fault
    /\ IF bridge[b].step = "settle" /\ bridge[b].outcome = "delivered" THEN Goes(b, "again") ELSE Ends(b)
    /\ UNCHANGED <<item, delivery, poll, channel, air, late>>

\* The process ends; a new one sweeps from the table.
Crash(b) ==
    /\ bridge[b] # Idle /\ Fault
    /\ Ends(b)
    /\ UNCHANGED <<item, delivery, poll, channel, air, late>>

Sweep(b) ==
    \/ List(b) \/ Claim(b, FALSE) \/ ClaimReconciliation(b, FALSE)
    \/ Search(b) \/ Post(b) \/ Settle(b)

Next ==
    \/ Merge \/ Resolve \/ AskAck \/ PollAck \/ ApplyAck \/ FallsDue
    \/ \E g \in Generations : Lands(g)
    \/ \E b \in Bridges :
        \/ Sweep(b) \/ Claim(b, TRUE) \/ ClaimReconciliation(b, TRUE)
        \/ PostRefused(b) \/ PostUnanswered(b) \/ SettleFails(b) \/ Crash(b)

\* The interval timer sweeps again and again, and the clock goes on.
Spec == Init /\ [][Next]_vars /\ WF_vars(FallsDue) /\ \A b \in Bridges : WF_vars(Sweep(b))

-----------------------------------------------------------------------------
\* Whatever fails or crashes, a generation is posted twice only if its message came after the
\* search for it, or a lease ran out under a bridge that still worked.
DuplicateOnlyWhenLate == late = 0 => \A g \in Generations : channel[g] <= 1

\* A notice recorded as delivered is in the channel.
DeliveredIsShown == delivery.status = "delivered" => channel[delivery.generation] > 0

\* A generation is claimed once: its message is not there yet, nor on its way, even if an
\* acknowledgement has overwritten the record of it.
FreshGeneration ==
    [][delivery'.status = "claimed" /\ item' = item /\ delivery'.generation # delivery.generation
          => channel[delivery'.generation] = 0 /\ air[delivery'.generation] = 0]_vars

\* After the acknowledgement nobody claims another notice, however old the sweep's list.
SilentAfterAck ==
    [][item.acked /\ delivery'.status \in {"claimed", "reconciling"} => delivery'.status = delivery.status]_vars

\* A P0 that is neither acknowledged nor closed gets its notice, past
\* fewer refusals than it has generations.
NoticeAppears == <>(item.acked \/ ~item.active \/ \E g \in Generations : channel[g] > 0)

\* And it is repeated to the last generation.
RemindersRepeat == <>(item.acked \/ ~item.active \/ delivery.generation = MaxAttempts)
=============================================================================
