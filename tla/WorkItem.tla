------------------------------ MODULE WorkItem ------------------------------
(***************************************************************************)
(* Work items of Work Orchestrator v2 (table work_items_v2) and everybody  *)
(* who changes them: source events merged by work_key, the owner's actions *)
(* from a screen or a button that may be out of date, the poller of the    *)
(* bridge that applies accepted actions, the automation that marks and     *)
(* resolves work, and the regrouping of owner cases.                       *)
(*                                                                         *)
(* Every writer but the merge compares the version it knows; the merge     *)
(* takes any active row.  Calls are single statements or transactions, so  *)
(* each is one action; what lies between an actor's read and its write is  *)
(* the actor's view or the poller's batch.                                 *)
(***************************************************************************)
EXTENDS Integers, FiniteSets

CONSTANTS
    Items,       \* work_keys; a key has one row, active or closed
    Owners,      \* people at the screen
    Workers,     \* automations holding a work item reference
    Pollers,     \* bridge processes
    Priorities,  \* the priorities source events carry
    MaxStamp,    \* bound: last_activity_at of source events
    MaxVersion,  \* bound: versions that writers other than the poller reach
    MaxFaults    \* bound: failed polls

P0 == 3
Ranks == 0 .. P0  \* low, normal, urgent, p0

ASSUME WorkAssumption ==
    /\ Items # {} /\ Priorities \subseteq Ranks
    /\ MaxStamp \in Nat \ {0} /\ MaxVersion \in Nat \ {0} /\ MaxFaults \in Nat

VARIABLES
    item,    \* the rows
    over,    \* over[w]: the clock has passed the row's snoozed_until
    late,    \* late[w]: the clock has passed the deadline of the pending snooze
    shown,   \* shown[w]: the version an unfinished prepared digest shows, 0 for none
    view,    \* what an owner's screen or a worker's job holds of an item
    batch,   \* the rows a poller read and has still to process
    faults,
    saw      \* auxiliary: what the last accepted asker of w had seen of it

vars == <<item, over, late, shown, view, batch, faults, saw>>

Active == {"open", "in_progress", "snoozed"}
Closed == {"resolved", "dismissed"}
States == Active \cup Closed \cup {"absent"}
Hiding == {"snooze", "dismiss"}
Polled == Hiding \cup {"progress", "ack_p0"}
Types == Polled \cup {"request_resolve"}
Versions == 1 .. MaxVersion

NoAction == [type |-> "none", expected |-> 0]
Pending == [type : Types, expected : 1 .. MaxVersion - 1] \cup {NoAction}

\* acked: p0_acknowledged_at of the payload; activity: last_activity_at.
Row == [state : States, priority : Ranks, acked : BOOLEAN, activity : 0 .. MaxStamp,
        version : 0 .. MaxVersion + 1, pending : Pending]

AbsentRow == [state |-> "absent", priority |-> 0, acked |-> FALSE, activity |-> 0,
              version |-> 0, pending |-> NoAction]

Seen == [activity : 0 .. MaxStamp, priority : Ranks]
Nothing == [activity |-> 0, priority |-> 0]
What(row) == [activity |-> row.activity, priority |-> row.priority]

View == [w : Items, version : 0 .. MaxVersion + 1, what : Seen]
Unseen == [w |-> CHOOSE w \in Items : TRUE, version |-> 0, what |-> Nothing]

Copy == [w : Items, row : Row, over : BOOLEAN]

TypeOK ==
    /\ item \in [Items -> Row]
    /\ over \in [Items -> BOOLEAN] /\ late \in [Items -> BOOLEAN]
    /\ shown \in [Items -> 0 .. MaxVersion + 1]
    /\ view \in [Owners \cup Workers -> View]
    /\ batch \in [Pollers -> SUBSET Copy]
    /\ faults \in 0 .. MaxFaults
    /\ saw \in [Items -> Seen]
    /\ \A w \in Items : /\ item[w].version = 0 <=> item[w].state = "absent"
                        /\ item[w].pending # NoAction => item[w].pending.expected < item[w].version

Init ==
    /\ item = [w \in Items |-> AbsentRow]
    /\ over = [w \in Items |-> FALSE] /\ late = [w \in Items |-> FALSE]
    /\ shown = [w \in Items |-> 0]
    /\ view = [a \in Owners \cup Workers |-> Unseen]
    /\ batch = [p \in Pollers |-> {}]
    /\ faults = 0
    /\ saw = [w \in Items |-> Nothing]

IsActive(w) == item[w].state \in Active

\* A new row; the clock flags belong to a snooze and a pending action of the row.
Write(w, row) ==
    /\ item' = [item EXCEPT ![w] = row]
    /\ over' = [over EXCEPT ![w] = @ /\ row.state = "snoozed"]
    /\ late' = [late EXCEPT ![w] = @ /\ row.pending = item[w].pending]

Max2(a, b) == IF a < b THEN b ELSE a

----------------------------------------------------------------------------
(* upsert_work_item_v2: source events arrive in any order, and again. *)

Fresh(w, stamp) == stamp >= item[w].activity

\* Mutant of Wakes: a snooze ends only by the clock.
WakesWhenOver(w, stamp, priority) == item[w].state = "snoozed" /\ over[w]

\* Mutant of Wakes: any newer activity wakes.
WakesOnActivity(w, stamp, priority) ==
    item[w].state = "snoozed" /\ (over[w] \/ Fresh(w, stamp))

\* v_wake_snooze.
Wakes(w, stamp, priority) ==
    /\ item[w].state = "snoozed"
    /\ \/ over[w]
       \/ Fresh(w, stamp) /\ priority = P0 /\ item[w].priority # P0
       \/ item[w].priority = P0 /\ ~item[w].acked

NewRow(stamp, priority) ==
    [AbsentRow EXCEPT !.state = "open", !.priority = priority, !.activity = stamp, !.version = 1]

Merged(w, stamp, priority) ==
    [item[w] EXCEPT !.state = IF Wakes(w, stamp, priority) THEN "open" ELSE @,
                    !.priority = IF Fresh(w, stamp) THEN Max2(@, priority) ELSE @,
                    !.activity = Max2(@, stamp),
                    !.version = @ + 1]

\* Mutant of Merge: a closed item opens again.
MergeReopens(w, stamp, priority) ==
    /\ item[w].version < MaxVersion
    /\ \/ ~IsActive(w) /\ Write(w, [NewRow(stamp, priority) EXCEPT !.version = item[w].version + 1])
       \/ IsActive(w) /\ Write(w, Merged(w, stamp, priority))
    /\ UNCHANGED <<shown, view, batch, faults, saw>>

\* A closed row answers applied = false and stays as it is.
Merge(w, stamp, priority) ==
    /\ item[w].version < MaxVersion
    /\ \/ item[w].state = "absent" /\ Write(w, NewRow(stamp, priority))
       \/ IsActive(w) /\ Write(w, Merged(w, stamp, priority))
    /\ UNCHANGED <<shown, view, batch, faults, saw>>

----------------------------------------------------------------------------
(* The owner and the automation. *)

\* A row read for the screen, or returned to the worker.
Look(a, w) ==
    /\ IsActive(w)
    /\ view' = [view EXCEPT ![a] = [w |-> w, version |-> item[w].version, what |-> What(item[w])]]
    /\ UNCHANGED <<item, over, late, shown, batch, faults, saw>>

\* The compare every call of an owner or worker starts with.
Current(a) ==
    LET w == view[a].w IN
    IsActive(w) /\ item[w].version = view[a].version /\ item[w].version < MaxVersion

\* No unfinished prepared digest shows the version the caller acts on.
Unshown(a) == shown[view[a].w] # view[a].version

\* Mutant of Asked: the version stays.
AskedUnversioned(row, type) == [row EXCEPT !.pending = [type |-> type, expected |-> row.version]]

Asked(row, type) ==
    [row EXCEPT !.pending = [type |-> type, expected |-> row.version], !.version = @ + 1]

\* request_work_item_action_v2: it stores the action over any earlier one and raises the version.
Request(o, type) ==
    /\ Current(o) /\ Unshown(o)
    /\ LET w == view[o].w IN
       /\ Write(w, Asked(item[w], type))
       /\ saw' = [saw EXCEPT ![w] = view[o].what]
    /\ UNCHANGED <<shown, view, batch, faults>>

Close(row, state) ==
    [row EXCEPT !.state = state, !.pending = NoAction, !.version = @ + 1]

\* complete_heybilli_work_item_v2
Complete(o) ==
    /\ Current(o) /\ Unshown(o)
    /\ Write(view[o].w, Close(item[view[o].w], "resolved"))
    /\ saw' = [saw EXCEPT ![view[o].w] = view[o].what]
    /\ UNCHANGED <<shown, view, batch, faults>>

\* transitionWorkAutomation with resolve
ResolveWork(k) ==
    /\ Current(k)
    /\ Write(view[k].w, Close(item[view[k].w], "resolved"))
    /\ saw' = [saw EXCEPT ![view[k].w] = view[k].what]
    /\ UNCHANGED <<shown, view, batch, faults>>

\* transitionWorkAutomation without it: automation_state, which nothing here reads.
MarkAutomation(k) ==
    /\ Current(k)
    /\ Write(view[k].w, [item[view[k].w] EXCEPT !.version = @ + 1])
    /\ UNCHANGED <<shown, view, batch, faults, saw>>

\* The reconciliation of owner cases rewrites the payload of rows without a pending action.
Regroup(w) ==
    /\ IsActive(w) /\ item[w].pending = NoAction /\ item[w].version < MaxVersion
    /\ Write(w, [item[w] EXCEPT !.version = @ + 1])
    /\ UNCHANGED <<shown, view, batch, faults, saw>>

----------------------------------------------------------------------------
(* The action poller: a list, then one conditional PATCH per row. *)

\* Mutant of Processable: the request's own increment is forgotten.
ProcessableOffByOne(w) ==
    /\ IsActive(w)
    /\ item[w].pending.type \in Polled
    /\ item[w].pending.expected = item[w].version
    /\ ~late[w]

\* is_processable_pending_work_action_v2 over the active rows.
Processable(w) ==
    /\ IsActive(w)
    /\ item[w].pending.type \in Polled
    /\ item[w].pending.expected = item[w].version - 1
    /\ ~late[w]

Copies == {[w |-> w, row |-> item[w], over |-> over[w]] : w \in {v \in Items : Processable(v)}}

Poll(p) ==
    /\ batch[p] = {} /\ Copies # {}
    /\ batch' = [batch EXCEPT ![p] = Copies]
    /\ UNCHANGED <<item, over, late, shown, view, faults, saw>>

\* applyWorkAction accepts the action for the row it read.
Allowed(row) ==
    /\ row.pending.type = "ack_p0" => row.priority = P0
    /\ row.pending.type \in Hiding => row.priority # P0 \/ row.acked

\* The state it gives: an ended snooze opens first.
StateAfter(c) ==
    CASE c.row.pending.type = "progress" -> "in_progress"
      [] c.row.pending.type = "snooze" -> "snoozed"
      [] c.row.pending.type = "dismiss" -> "dismissed"
      [] OTHER -> IF c.row.state = "snoozed" /\ c.over THEN "open" ELSE c.row.state

\* The columns the PATCH writes.
Applied(c) ==
    [item[c.w] EXCEPT !.state = StateAfter(c), !.acked = @ \/ c.row.pending.type = "ack_p0",
                      !.pending = NoAction, !.version = c.row.version + 1]

\* Mutant of Unmoved: the version is not compared.
UnmovedByStatus(c) == IsActive(c.w) /\ item[c.w].pending # NoAction

\* The filters of the PATCH.
Unmoved(c) ==
    /\ IsActive(c.w)
    /\ item[c.w].version = c.row.version
    /\ item[c.w].pending # NoAction

\* A snooze whose deadline passed on the way is over at once.
WriteApplied(c) ==
    /\ item' = [item EXCEPT ![c.w] = Applied(c)]
    /\ over' = [over EXCEPT ![c.w] = IF c.row.pending.type = "snooze" THEN late[c.w]
                                     ELSE @ /\ StateAfter(c) = "snoozed"]
    /\ late' = [late EXCEPT ![c.w] = FALSE]

\* A refused row stays pending; a PATCH that matches no row is a conflict.
Apply(p) ==
    /\ \E c \in batch[p] :
          /\ batch' = [batch EXCEPT ![p] = @ \ {c}]
          /\ \/ Allowed(c.row) /\ Unmoved(c) /\ WriteApplied(c)
             \/ ~(Allowed(c.row) /\ Unmoved(c)) /\ UNCHANGED <<item, over, late>>
    /\ UNCHANGED <<shown, view, faults, saw>>

\* The process dies, or calls for some of its rows fail.
FailPoll(p) ==
    /\ batch[p] # {} /\ faults < MaxFaults
    /\ faults' = faults + 1
    /\ \E left \in SUBSET batch[p] : left # batch[p] /\ batch' = [batch EXCEPT ![p] = left]
    /\ UNCHANGED <<item, over, late, shown, view, saw>>

----------------------------------------------------------------------------
(* Digests and the clock. *)

\* A prepared digest shows the item as it is; the barrier falls with its run's end.
DigestShows(w) ==
    /\ IsActive(w) /\ shown[w] # item[w].version
    /\ shown' = [shown EXCEPT ![w] = item[w].version]
    /\ UNCHANGED <<item, over, late, view, batch, faults, saw>>

DigestEnds(w) ==
    /\ shown[w] # 0
    /\ shown' = [shown EXCEPT ![w] = 0]
    /\ UNCHANGED <<item, over, late, view, batch, faults, saw>>

SnoozeEnds(w) ==
    /\ item[w].state = "snoozed" /\ ~over[w]
    /\ over' = [over EXCEPT ![w] = TRUE]
    /\ UNCHANGED <<item, late, shown, view, batch, faults, saw>>

DeadlinePasses(w) ==
    /\ item[w].pending.type = "snooze" /\ ~late[w]
    /\ late' = [late EXCEPT ![w] = TRUE]
    /\ UNCHANGED <<item, over, shown, view, batch, faults, saw>>

Next ==
    \/ \E w \in Items :
          \/ \E stamp \in 1 .. MaxStamp, priority \in Priorities : Merge(w, stamp, priority)
          \/ \E a \in Owners \cup Workers : Look(a, w)
          \/ Regroup(w) \/ DigestShows(w) \/ DigestEnds(w) \/ SnoozeEnds(w) \/ DeadlinePasses(w)
    \/ \E o \in Owners : Complete(o) \/ \E type \in Types : Request(o, type)
    \/ \E k \in Workers : ResolveWork(k) \/ MarkAutomation(k)
    \/ \E p \in Pollers : Poll(p) \/ Apply(p) \/ FailPoll(p)

\* The interval timer of each bridge keeps polling, and every call of a poll ends (it has a
\* timeout).  Nothing makes owners, automations or sources act.
Fairness == \A p \in Pollers : WF_vars(Poll(p)) /\ WF_vars(Apply(p))

Spec == Init /\ [][Next]_vars /\ Fairness

----------------------------------------------------------------------------
(* Properties. *)

\* A P0 nobody acknowledged is never out of sight: it is neither snoozed nor dismissed,
\* whatever mixture of late merges, stale screens and polls in flight raised its priority
\* (applyWorkAction, the wake of upsert_work_item_v2).
HiddenP0IsAcknowledged ==
    \A w \in Items :
        item[w].state \in {"snoozed", "dismissed"} /\ item[w].priority = P0 => item[w].acked

\* An item is hidden or closed only by somebody who had seen its latest activity and its
\* priority: a merge between the look, the request and the poll makes the action a no-op
\* (the versions request_work_item_action_v2, the poller and the automation compare).
HiddenWasSeen ==
    [][\A w \in Items :
          /\ IsActive(w)
          /\ \/ item'[w].state \in Closed
             \/ item'[w].state = "snoozed" /\ item[w].state # "snoozed"
          => saw'[w] = What(item[w])]_vars

\* A closed item stays as it is, however late a poll, a mark of the automation or a repeated
\* source event arrives (the terminal branch of upsert_work_item_v2, the state filters).
ClosedIsFinal == [][\A w \in Items : item[w].state \in Closed => item'[w] = item[w]]_vars

\* A snooze that has not ended is broken only by the owner, or by activity that makes the item
\* a P0 and is not older than what the item shows (v_wake_snooze; design, 8).
SnoozeKept ==
    [][\A w \in Items :
          item[w].state = "snoozed" /\ ~over[w] /\ item'[w].state \in Active \ {"snoozed"} =>
              \/ item[w].pending.type = "progress"
              \/ item'[w].priority = P0 /\ item[w].priority # P0]_vars

\* An action the store accepted at version v and nothing has overtaken.
Accepted(w, v) ==
    /\ IsActive(w) /\ item[w].version = v
    /\ item[w].pending.type \in Polled /\ item[w].pending.expected = v - 1
    /\ Allowed(item[w])

\* An accepted action that nothing overtakes is applied, through polls that die: its
\* item's version moves on, or the deadline of its snooze passes (list_pending_work_actions_v2).
AcceptedIsProcessed ==
    \A w \in Items, v \in Versions :
        Accepted(w, v) /\ ~late[w] ~> item[w].version # v \/ late[w]

----------------------------------------------------------------------------
(* What the design document says and the code does not keep. *)

\* "progress/snooze/request_resolve/ack_p0/dismiss are applied once by version CAS": an
\* accepted progress action is applied, replaced by a later one, or its item is closed.
AcceptedIsApplied ==
    \A w \in Items, v \in Versions :
        (item[w].pending.type = "progress" /\ item[w].pending.expected = v)
            ~> item[w].pending.expected # v
=============================================================================
