--------------------------- MODULE WorkItemProofs ---------------------------
(***************************************************************************)
(* Theorems about work items.  The argument: whatever an actor remembers   *)
(* of an item (a screen, a row in a poller's batch, the last asker's view) *)
(* is out of date only if the item's version has moved, because every      *)
(* write of a row raises it.  The compare of versions in each call then    *)
(* carries what the actor saw to the moment of the write.                  *)
(***************************************************************************)
EXTENDS WorkItem, TLAPS

\* A row in a batch was processable when it was read, and is the present row as long as the
\* version is the same.
Copied ==
    \A p \in Pollers : \A c \in batch[p] :
        /\ c.row.pending.type \in Polled
        /\ c.row.pending.expected = c.row.version - 1
        /\ c.row.version <= item[c.w].version
        /\ c.row.version = item[c.w].version => c.row = item[c.w] /\ (c.over => over[c.w])

\* A screen shows the present activity as long as the version is the same.
Viewed ==
    \A a \in Owners \cup Workers :
        /\ view[a].version <= item[view[a].w].version
        /\ IsActive(view[a].w) /\ view[a].version = item[view[a].w].version
              => view[a].what = What(item[view[a].w])

\* The request that can still be processed saw what the row holds.
Asking(row) == row.pending # NoAction /\ row.pending.expected = row.version - 1

Sawn == \A w \in Items : Asking(item[w]) => saw[w] = What(item[w])

IInv == TypeOK /\ Copied /\ Viewed /\ Sawn /\ HiddenP0IsAcknowledged

----------------------------------------------------------------------------
(* What a step does to the rows. *)

Kept(w) == item'[w] = item[w] /\ (over[w] => over'[w])

Raised(w) == item'[w].version > item[w].version

Grows == \A w \in Items : Kept(w) \/ Raised(w)

\* The row a write leaves behind, and the rows it does not touch.
LEMMA WriteRow ==
    ASSUME TypeOK, NEW w \in Items, NEW row, Write(w, row)
    PROVE  /\ item'[w] = row
           /\ \A v \in Items \ {w} : item'[v] = item[v] /\ over'[v] = over[v]
BY DEF TypeOK, Write

LEMMA WriteAppliedRow ==
    ASSUME TypeOK, NEW c \in Copy, WriteApplied(c)
    PROVE  /\ item'[c.w] = Applied(c)
           /\ \A v \in Items \ {c.w} : item'[v] = item[v] /\ over'[v] = over[v]
BY DEF TypeOK, WriteApplied, Copy

LEMMA WriteGrows ==
    ASSUME TypeOK, NEW w \in Items, NEW row, Write(w, row), row.version > item[w].version
    PROVE  Grows
BY WriteRow DEF Grows, Kept, Raised

LEMMA Max2Type ==
    ASSUME NEW a \in Int, NEW b \in Int
    PROVE  Max2(a, b) \in {a, b} /\ Max2(a, b) >= a /\ Max2(a, b) >= b
BY DEF Max2

----------------------------------------------------------------------------
(* The rows the calls write. *)

LEMMA MergedRow ==
    ASSUME WorkAssumption, TypeOK, NEW w \in Items, IsActive(w), item[w].version < MaxVersion,
           NEW stamp \in 1 .. MaxStamp, NEW priority \in Priorities
    PROVE  /\ Merged(w, stamp, priority) \in Row
           /\ Merged(w, stamp, priority).version = item[w].version + 1
           /\ Merged(w, stamp, priority).pending = item[w].pending
           /\ Merged(w, stamp, priority).acked = item[w].acked
           /\ Merged(w, stamp, priority).state \in {item[w].state, "open"}
<1>1. item[w] \in Row
  BY DEF TypeOK
<1>2. Max2(item[w].priority, priority) \in Ranks
  BY <1>1, Max2Type DEF Row, WorkAssumption, Ranks, P0
<1>3. Max2(item[w].activity, stamp) \in 0 .. MaxStamp
  BY <1>1, Max2Type DEF Row, WorkAssumption
<1>4. item[w].version + 1 \in 0 .. MaxVersion + 1
  BY <1>1 DEF Row, WorkAssumption
<1>5. item[w].state \in States /\ "open" \in States
  BY <1>1 DEF Row, States, Active
<1> QED BY <1>1, <1>2, <1>3, <1>4, <1>5 DEF Merged, Row

LEMMA FirstRow ==
    ASSUME WorkAssumption, NEW stamp \in 1 .. MaxStamp, NEW priority \in Priorities
    PROVE  /\ NewRow(stamp, priority) \in Row
           /\ NewRow(stamp, priority).version = 1
           /\ NewRow(stamp, priority).pending = NoAction
           /\ NewRow(stamp, priority).state = "open"
<1>1. priority \in Ranks /\ stamp \in 0 .. MaxStamp /\ 1 \in 0 .. MaxVersion + 1
  BY DEF WorkAssumption
<1>2. "absent" \in States /\ "open" \in States /\ NoAction \in Pending /\ 0 \in Ranks
  BY DEF States, Active, Pending, Ranks, P0
<1>3. AbsentRow \in Row
  BY <1>2 DEF AbsentRow, Row, WorkAssumption
<1>4. AbsentRow.pending = NoAction
  BY DEF AbsentRow
<1> QED BY <1>1, <1>2, <1>3, <1>4 DEF NewRow, Row

LEMMA ClosedRow ==
    ASSUME WorkAssumption, NEW row \in Row, row.version < MaxVersion
    PROVE  /\ Close(row, "resolved") \in Row
           /\ Close(row, "resolved").version = row.version + 1
           /\ Close(row, "resolved").pending = NoAction
           /\ Close(row, "resolved").state = "resolved"
<1>1. row.version + 1 \in 0 .. MaxVersion + 1
  BY DEF Row, WorkAssumption
<1>2. "resolved" \in States /\ NoAction \in Pending
  BY DEF States, Closed, Pending
<1> QED BY <1>1, <1>2 DEF Close, Row

LEMMA RaisedRow ==
    ASSUME WorkAssumption, NEW row \in Row, row.version < MaxVersion
    PROVE  /\ [row EXCEPT !.version = @ + 1] \in Row
           /\ [row EXCEPT !.version = @ + 1].version = row.version + 1
           /\ [row EXCEPT !.version = @ + 1].pending = row.pending
           /\ [row EXCEPT !.version = @ + 1].state = row.state
           /\ [row EXCEPT !.version = @ + 1].acked = row.acked
           /\ [row EXCEPT !.version = @ + 1].priority = row.priority
BY DEF Row, WorkAssumption

LEMMA AskedRow ==
    ASSUME WorkAssumption, NEW row \in Row, row.version < MaxVersion, row.version > 0, NEW type \in Types
    PROVE  /\ Asked(row, type) \in Row
           /\ Asked(row, type).version = row.version + 1
           /\ Asked(row, type).pending = [type |-> type, expected |-> row.version]
           /\ Asked(row, type).state = row.state
           /\ What(Asked(row, type)) = What(row)
           /\ Asked(row, type).acked = row.acked
           /\ Asked(row, type).priority = row.priority
<1>1. row.version \in 1 .. MaxVersion - 1
  BY DEF Row, WorkAssumption
<1>2. [type |-> type, expected |-> row.version] \in Pending
  BY <1>1 DEF Pending
<1>3. row.version + 1 \in 0 .. MaxVersion + 1
  BY <1>1 DEF WorkAssumption
<1> QED BY <1>2, <1>3 DEF Asked, Row, What

\* The row a poller writes: the type of the accepted action decides.
LEMMA AppliedRow ==
    ASSUME WorkAssumption, TypeOK, NEW c \in Copy, c.row = item[c.w], IsActive(c.w),
           c.row.pending.type \in Polled, c.row.pending.expected = c.row.version - 1
    PROVE  /\ Applied(c) \in Row
           /\ Applied(c).version = item[c.w].version + 1
           /\ Applied(c).pending = NoAction
           /\ Applied(c).state \in States \ {"absent", "resolved"}
<1>1. c.row \in Row /\ c.w \in Items
  BY DEF Copy
<1>2. c.row.pending # NoAction
  BY DEF NoAction, Polled, Hiding
<1>3. c.row.pending.expected \in 1 .. MaxVersion - 1
  BY <1>1, <1>2 DEF Row, Pending
<1>4. c.row.version + 1 \in 0 .. MaxVersion + 1
  BY <1>1, <1>3 DEF Row, WorkAssumption
<1>5. StateAfter(c) \in States \ {"absent", "resolved"}
  BY DEF StateAfter, IsActive, States, Active, Closed
<1>6. NoAction \in Pending
  BY DEF Pending
<1> QED BY <1>1, <1>4, <1>5, <1>6 DEF Applied, Row

----------------------------------------------------------------------------
(* What a step does to one item. *)

Stays(w) == Kept(w) /\ saw'[w] = saw[w]

Appears(w) ==
    /\ item[w].state = "absent" /\ saw'[w] = saw[w]
    /\ \E stamp \in 1 .. MaxStamp, priority \in Priorities : item'[w] = NewRow(stamp, priority)

IsMerged(w) ==
    /\ IsActive(w) /\ item[w].version < MaxVersion /\ saw'[w] = saw[w]
    /\ \E stamp \in 1 .. MaxStamp, priority \in Priorities : item'[w] = Merged(w, stamp, priority)

IsBumped(w) ==
    /\ IsActive(w) /\ item[w].version < MaxVersion /\ saw'[w] = saw[w]
    /\ item'[w] = [item[w] EXCEPT !.version = @ + 1]

IsAsked(w) ==
    /\ IsActive(w) /\ item[w].version < MaxVersion
    /\ \E type \in Types : item'[w] = Asked(item[w], type)
    /\ saw'[w] = What(item[w])

IsClosed(w) ==
    /\ IsActive(w) /\ item[w].version < MaxVersion /\ saw'[w] = What(item[w])
    /\ item'[w] = Close(item[w], "resolved")

IsApplied(w) ==
    /\ IsActive(w) /\ saw'[w] = saw[w]
    /\ \E c \in Copy :
          /\ c.w = w /\ c.row = item[w] /\ (c.over => over[w])
          /\ c.row.pending.type \in Polled /\ c.row.pending.expected = c.row.version - 1
          /\ Allowed(c.row)
          /\ item'[w] = Applied(c)

Moves(w) ==
    \/ Appears(w) \/ IsMerged(w) \/ IsBumped(w) \/ IsAsked(w) \/ IsClosed(w) \/ IsApplied(w)

\* The write of one row, with what the asker saw where there is one.
LEMMA OneMoves ==
    ASSUME TypeOK, NEW w \in Items, NEW row, Write(w, row),
           \A v \in Items \ {w} : saw'[v] = saw[v],
           item'[w] = row => Moves(w)
    PROVE  \A v \in Items : Stays(v) \/ Moves(v)
BY WriteRow DEF Stays, Kept

LEMMA MergeMoves ==
    ASSUME WorkAssumption, IInv, NEW w \in Items, NEW stamp \in 1 .. MaxStamp,
           NEW priority \in Priorities, Merge(w, stamp, priority)
    PROVE  \A v \in Items : Stays(v) \/ Moves(v)
<1>1. CASE item[w].state = "absent" /\ Write(w, NewRow(stamp, priority))
  <2>1. item'[w] = NewRow(stamp, priority) => Moves(w)
    BY <1>1 DEF Merge, Moves, Appears
  <2> QED BY <1>1, <2>1, OneMoves DEF Merge, IInv
<1>2. CASE IsActive(w) /\ Write(w, Merged(w, stamp, priority))
  <2>1. item'[w] = Merged(w, stamp, priority) => Moves(w)
    BY <1>2 DEF Merge, Moves, IsMerged
  <2> QED BY <1>2, <2>1, OneMoves DEF Merge, IInv
<1> QED BY <1>1, <1>2 DEF Merge

\* The compare of versions: what the caller saw is what the row holds.
LEMMA CurrentSaw ==
    ASSUME IInv, NEW a \in Owners \cup Workers, Current(a)
    PROVE  /\ view[a].w \in Items /\ IsActive(view[a].w)
           /\ item[view[a].w].version < MaxVersion
           /\ view[a].what = What(item[view[a].w])
BY DEF IInv, TypeOK, View, Viewed, Current

LEMMA RequestMoves ==
    ASSUME WorkAssumption, IInv, NEW o \in Owners, NEW type \in Types, Request(o, type)
    PROVE  \A v \in Items : Stays(v) \/ Moves(v)
<1> DEFINE w == view[o].w
<1>1. w \in Items /\ IsActive(w) /\ item[w].version < MaxVersion /\ view[o].what = What(item[w])
  BY CurrentSaw DEF Request
<1>2. Write(w, Asked(item[w], type)) /\ saw' = [saw EXCEPT ![w] = view[o].what]
  BY DEF Request
<1>3. saw'[w] = What(item[w]) /\ \A v \in Items \ {w} : saw'[v] = saw[v]
  BY <1>1, <1>2 DEF IInv, TypeOK
<1>4. item'[w] = Asked(item[w], type) => Moves(w)
  BY <1>1, <1>3 DEF Moves, IsAsked
<1> QED BY <1>1, <1>2, <1>3, <1>4, OneMoves DEF IInv

LEMMA CloseMoves ==
    ASSUME WorkAssumption, IInv, NEW a \in Owners \cup Workers, Current(a),
           Write(view[a].w, Close(item[view[a].w], "resolved")),
           saw' = [saw EXCEPT ![view[a].w] = view[a].what]
    PROVE  \A v \in Items : Stays(v) \/ Moves(v)
<1> DEFINE w == view[a].w
<1>1. /\ w \in Items /\ IsActive(w) /\ item[w].version < MaxVersion
      /\ view[a].what = What(item[w])
  BY CurrentSaw
<1>2. saw'[w] = What(item[w]) /\ \A v \in Items \ {w} : saw'[v] = saw[v]
  BY <1>1 DEF IInv, TypeOK
<1>3. item'[w] = Close(item[w], "resolved") => Moves(w)
  BY <1>1, <1>2 DEF Moves, IsClosed
<1> QED BY <1>1, <1>2, <1>3, OneMoves DEF IInv

LEMMA BumpMoves ==
    ASSUME WorkAssumption, IInv, NEW w \in Items, IsActive(w), item[w].version < MaxVersion,
           Write(w, [item[w] EXCEPT !.version = @ + 1]), saw' = saw
    PROVE  \A v \in Items : Stays(v) \/ Moves(v)
<1>1. item'[w] = [item[w] EXCEPT !.version = @ + 1] => Moves(w)
  BY DEF Moves, IsBumped
<1> QED BY <1>1, OneMoves DEF IInv

LEMMA ApplyMoves ==
    ASSUME WorkAssumption, IInv, NEW p \in Pollers, Apply(p)
    PROVE  \A v \in Items : Stays(v) \/ Moves(v)
<1>1. PICK c \in batch[p] : \/ Allowed(c.row) /\ Unmoved(c) /\ WriteApplied(c)
                            \/ UNCHANGED <<item, over, late>>
  BY DEF Apply
<1>2. saw' = saw
  BY DEF Apply
<1>3. CASE UNCHANGED <<item, over, late>>
  BY <1>2, <1>3 DEF Stays, Kept
<1>4. CASE Allowed(c.row) /\ Unmoved(c) /\ WriteApplied(c)
  <2>1. c \in Copy /\ c.w \in Items
    BY DEF IInv, TypeOK, Copy
  <2>2. /\ c.row = item[c.w] /\ (c.over => over[c.w])
        /\ c.row.pending.type \in Polled /\ c.row.pending.expected = c.row.version - 1
    BY <1>4 DEF Unmoved, IInv, Copied
  <2>3. /\ item'[c.w] = Applied(c)
        /\ \A v \in Items \ {c.w} : item'[v] = item[v] /\ over'[v] = over[v]
    BY <1>4, <2>1, WriteAppliedRow DEF IInv
  <2>4. IsApplied(c.w)
    BY <1>2, <1>4, <2>1, <2>2, <2>3 DEF IsApplied, Unmoved
  <2> QED BY <1>2, <2>1, <2>3, <2>4 DEF Moves, Stays, Kept
<1> QED BY <1>1, <1>3, <1>4

\* Every step leaves an item as it is or moves it in one of six ways.
LEMMA StepMoves ==
    ASSUME WorkAssumption, IInv, [Next]_vars
    PROVE  \A v \in Items : Stays(v) \/ Moves(v)
<1>1. ASSUME NEW w \in Items, NEW stamp \in 1 .. MaxStamp, NEW priority \in Priorities,
             Merge(w, stamp, priority)
      PROVE  \A v \in Items : Stays(v) \/ Moves(v)
  BY <1>1, MergeMoves
<1>2. ASSUME NEW w \in Items, Regroup(w)
      PROVE  \A v \in Items : Stays(v) \/ Moves(v)
  BY <1>2, BumpMoves DEF Regroup
<1>3. ASSUME NEW w \in Items,
             \/ \E a \in Owners \cup Workers : Look(a, w)
             \/ DigestShows(w) \/ DigestEnds(w) \/ SnoozeEnds(w) \/ DeadlinePasses(w)
      PROVE  \A v \in Items : Stays(v) \/ Moves(v)
  <2>1. item' = item /\ saw' = saw /\ \A v \in Items : over[v] => over'[v]
    BY <1>3 DEF Look, DigestShows, DigestEnds, SnoozeEnds, DeadlinePasses, IInv, TypeOK
  <2> QED BY <2>1 DEF Stays, Kept
<1>4. ASSUME NEW o \in Owners, NEW type \in Types, Request(o, type)
      PROVE  \A v \in Items : Stays(v) \/ Moves(v)
  BY <1>4, RequestMoves
<1>5. ASSUME NEW o \in Owners, Complete(o)
      PROVE  \A v \in Items : Stays(v) \/ Moves(v)
  BY <1>5, CloseMoves DEF Complete
<1>6. ASSUME NEW k \in Workers, ResolveWork(k)
      PROVE  \A v \in Items : Stays(v) \/ Moves(v)
  BY <1>6, CloseMoves DEF ResolveWork
<1>7. ASSUME NEW k \in Workers, MarkAutomation(k)
      PROVE  \A v \in Items : Stays(v) \/ Moves(v)
  <2>1. view[k].w \in Items /\ IsActive(view[k].w) /\ item[view[k].w].version < MaxVersion
    BY <1>7, CurrentSaw DEF MarkAutomation
  <2> QED BY <1>7, <2>1, BumpMoves DEF MarkAutomation
<1>8. ASSUME NEW p \in Pollers, Apply(p)
      PROVE  \A v \in Items : Stays(v) \/ Moves(v)
  BY <1>8, ApplyMoves
<1>9. ASSUME NEW p \in Pollers, Poll(p) \/ FailPoll(p)
      PROVE  \A v \in Items : Stays(v) \/ Moves(v)
  BY <1>9 DEF Poll, FailPoll, Stays, Kept
<1>10. CASE UNCHANGED vars
  BY <1>10 DEF vars, Stays, Kept
<1> QED BY <1>1, <1>2, <1>3, <1>4, <1>5, <1>6, <1>7, <1>8, <1>9, <1>10 DEF Next

\* A row that moves gets a higher version and keeps its type.
LEMMA MovedRow ==
    ASSUME WorkAssumption, IInv, NEW w \in Items, Moves(w)
    PROVE  /\ item'[w] \in Row /\ item'[w].version > item[w].version
           /\ item'[w].version # 0 /\ item'[w].state # "absent"
           /\ item'[w].pending # NoAction => item'[w].pending.expected < item'[w].version
<1>1. /\ item[w] \in Row
      /\ item[w].version = 0 <=> item[w].state = "absent"
      /\ item[w].pending # NoAction => item[w].pending.expected < item[w].version
  BY DEF IInv, TypeOK
<1>2. item[w].version \in Nat
  BY <1>1 DEF Row, WorkAssumption
<1>3. IsActive(w) => item[w].state # "absent" /\ item[w].version > 0
  BY <1>1, <1>2 DEF IsActive, Active
<1>4. item[w].pending # NoAction => item[w].pending.expected \in Nat
  BY <1>1 DEF Row, Pending, NoAction, WorkAssumption
<1>5. CASE Appears(w)
  BY <1>1, <1>5, FirstRow DEF Appears
<1>6. CASE IsMerged(w)
  <2>1. PICK stamp \in 1 .. MaxStamp, priority \in Priorities : item'[w] = Merged(w, stamp, priority)
    BY <1>6 DEF IsMerged
  <2>2. /\ item'[w] \in Row /\ item'[w].version = item[w].version + 1
        /\ item'[w].pending = item[w].pending /\ item'[w].state \in {item[w].state, "open"}
    BY <1>6, <2>1, MergedRow DEF IsMerged, IInv
  <2> QED BY <1>1, <1>2, <1>3, <1>4, <1>6, <2>2 DEF IsMerged
<1>7. CASE IsBumped(w)
  <2>1. /\ item'[w] \in Row /\ item'[w].version = item[w].version + 1
        /\ item'[w].pending = item[w].pending /\ item'[w].state = item[w].state
    BY <1>1, <1>7, RaisedRow DEF IsBumped
  <2> QED BY <1>1, <1>2, <1>3, <1>4, <1>7, <2>1 DEF IsBumped
<1>8. CASE IsAsked(w)
  <2>1. PICK type \in Types : item'[w] = Asked(item[w], type)
    BY <1>8 DEF IsAsked
  <2>2. item[w].version > 0 /\ item[w].version < MaxVersion /\ item[w].state # "absent"
    BY <1>3, <1>8 DEF IsAsked
  <2>3. /\ item'[w] \in Row /\ item'[w].version = item[w].version + 1
        /\ item'[w].pending = [type |-> type, expected |-> item[w].version]
        /\ item'[w].state = item[w].state
    BY <1>1, <2>1, <2>2, AskedRow
  <2> QED BY <1>2, <2>2, <2>3
<1>9. CASE IsClosed(w)
  BY <1>1, <1>2, <1>3, <1>9, ClosedRow DEF IsClosed
<1>10. CASE IsApplied(w)
  <2>1. PICK c \in Copy : /\ c.w = w /\ c.row = item[w]
                          /\ c.row.pending.type \in Polled
                          /\ c.row.pending.expected = c.row.version - 1
                          /\ item'[w] = Applied(c)
    BY <1>10 DEF IsApplied
  <2>2. /\ item'[w] \in Row /\ item'[w].version = item[w].version + 1
        /\ item'[w].pending = NoAction /\ item'[w].state # "absent"
    BY <1>10, <2>1, AppliedRow DEF IsApplied, IInv
  <2> QED BY <1>2, <2>2
<1> QED BY <1>5, <1>6, <1>7, <1>8, <1>9, <1>10 DEF Moves

----------------------------------------------------------------------------
(* The parts of the invariant. *)

\* The variables keep their shape; what the rows hold is MovedRow's.
Shaped ==
    /\ item' = [v \in Items |-> item'[v]]
    /\ over' \in [Items -> BOOLEAN] /\ late' \in [Items -> BOOLEAN]

Rest ==
    /\ shown' \in [Items -> 0 .. MaxVersion + 1]
    /\ view' \in [Owners \cup Workers -> View]
    /\ batch' \in [Pollers -> SUBSET Copy]
    /\ faults' \in 0 .. MaxFaults
    /\ saw' \in [Items -> Seen]

LEMMA WriteShaped ==
    ASSUME TypeOK, NEW w \in Items, NEW row, Write(w, row)
    PROVE  Shaped
BY DEF TypeOK, Write, Shaped

LEMMA WriteAppliedShaped ==
    ASSUME TypeOK, NEW c \in Copy, WriteApplied(c)
    PROVE  Shaped
BY DEF TypeOK, WriteApplied, Shaped, Copy

LEMMA SameShaped ==
    ASSUME TypeOK, UNCHANGED <<item, over, late>>
    PROVE  Shaped
BY DEF TypeOK, Shaped

\* What an asker saw fits, and so does a row's activity.
LEMMA SeenType ==
    ASSUME TypeOK
    PROVE  /\ \A w \in Items : What(item[w]) \in Seen /\ item[w].version \in 0 .. MaxVersion + 1
           /\ \A a \in Owners \cup Workers : view[a].what \in Seen /\ view[a].w \in Items
BY DEF TypeOK, What, Seen, Row, View

LEMMA ShapeStep ==
    ASSUME WorkAssumption, IInv, [Next]_vars
    PROVE  Shaped /\ Rest
<1> USE DEF IInv
<1>1. ASSUME NEW w \in Items, NEW stamp \in 1 .. MaxStamp, NEW priority \in Priorities,
             Merge(w, stamp, priority)
      PROVE  Shaped /\ Rest
  BY <1>1, WriteShaped DEF Merge, Rest, TypeOK
<1>2. ASSUME NEW w \in Items, Regroup(w)
      PROVE  Shaped /\ Rest
  BY <1>2, WriteShaped DEF Regroup, Rest, TypeOK
<1>3. ASSUME NEW w \in Items, NEW a \in Owners \cup Workers, Look(a, w)
      PROVE  Shaped /\ Rest
  <2>1. [w |-> w, version |-> item[w].version, what |-> What(item[w])] \in View
    BY SeenType DEF View
  <2> QED BY <1>3, <2>1, SameShaped DEF Look, Rest, TypeOK
<1>4. ASSUME NEW w \in Items, DigestShows(w) \/ DigestEnds(w)
      PROVE  Shaped /\ Rest
  <2>1. 0 \in 0 .. MaxVersion + 1
    BY DEF WorkAssumption
  <2> QED BY <1>4, <2>1, SeenType, SameShaped DEF DigestShows, DigestEnds, Rest, TypeOK
<1>5. ASSUME NEW w \in Items, SnoozeEnds(w) \/ DeadlinePasses(w)
      PROVE  Shaped /\ Rest
  BY <1>5 DEF SnoozeEnds, DeadlinePasses, Shaped, Rest, TypeOK
<1>6. ASSUME NEW o \in Owners, NEW type \in Types, Request(o, type)
      PROVE  Shaped /\ Rest
  BY <1>6, SeenType, WriteShaped DEF Request, Rest, TypeOK
<1>7. ASSUME NEW o \in Owners, Complete(o)
      PROVE  Shaped /\ Rest
  BY <1>7, SeenType, WriteShaped DEF Complete, Rest, TypeOK
<1>8. ASSUME NEW k \in Workers, ResolveWork(k) \/ MarkAutomation(k)
      PROVE  Shaped /\ Rest
  BY <1>8, SeenType, WriteShaped DEF ResolveWork, MarkAutomation, Rest, TypeOK
<1>9. ASSUME NEW p \in Pollers, Poll(p)
      PROVE  Shaped /\ Rest
  <2>1. Copies \subseteq Copy
    BY DEF Copies, Copy, TypeOK
  <2> QED BY <1>9, <2>1, SameShaped DEF Poll, Rest, TypeOK
<1>10. ASSUME NEW p \in Pollers, Apply(p)
       PROVE  Shaped /\ Rest
  <2>1. PICK c \in batch[p] : /\ batch' = [batch EXCEPT ![p] = @ \ {c}]
                              /\ WriteApplied(c) \/ UNCHANGED <<item, over, late>>
    BY <1>10 DEF Apply
  <2>2. c \in Copy
    BY DEF TypeOK
  <2>3. Shaped
    BY <2>1, <2>2, WriteAppliedShaped, SameShaped
  <2> QED BY <1>10, <2>1, <2>3 DEF Apply, Rest, TypeOK
<1>11. ASSUME NEW p \in Pollers, FailPoll(p)
       PROVE  Shaped /\ Rest
  <2>1. faults + 1 \in 0 .. MaxFaults
    BY <1>11 DEF FailPoll, TypeOK, WorkAssumption
  <2> QED BY <1>11, <2>1, SameShaped DEF FailPoll, Rest, TypeOK
<1>12. CASE UNCHANGED vars
  BY <1>12, SameShaped DEF vars, Rest, TypeOK
<1> QED BY <1>1, <1>2, <1>3, <1>4, <1>5, <1>6, <1>7, <1>8, <1>9, <1>10, <1>11, <1>12 DEF Next

LEMMA TypeStep ==
    ASSUME WorkAssumption, IInv, [Next]_vars
    PROVE  TypeOK'
<1>1. Shaped /\ Rest
  BY ShapeStep
<1>2. \A w \in Items :
          /\ item'[w] \in Row
          /\ item'[w].version = 0 <=> item'[w].state = "absent"
          /\ item'[w].pending # NoAction => item'[w].pending.expected < item'[w].version
  <2> TAKE w \in Items
  <2>1. CASE Stays(w)
    BY <2>1 DEF Stays, Kept, IInv, TypeOK
  <2>2. CASE Moves(w)
    BY <2>2, MovedRow
  <2> QED BY <2>1, <2>2, StepMoves
<1>3. item' \in [Items -> Row]
  BY <1>1, <1>2 DEF Shaped
<1> QED BY <1>1, <1>2, <1>3 DEF Shaped, Rest, TypeOK

\* A poller's batch loses rows, or is what the table holds now.
LEMMA BatchStep ==
    ASSUME IInv, [Next]_vars, NEW p \in Pollers, NEW c \in batch'[p]
    PROVE  \/ c \in batch[p]
           \/ c \in Copies /\ item' = item /\ over' = over
<1> USE DEF IInv
<1>1. ASSUME NEW q \in Pollers, Poll(q)
      PROVE  \/ c \in batch[p]
             \/ c \in Copies /\ item' = item /\ over' = over
  BY <1>1 DEF Poll, TypeOK
<1>2. ASSUME NEW q \in Pollers, Apply(q) \/ FailPoll(q)
      PROVE  c \in batch[p]
  BY <1>2 DEF Apply, FailPoll, TypeOK
<1>3. ASSUME batch' = batch
      PROVE  c \in batch[p]
  BY <1>3
<1> QED BY <1>1, <1>2, <1>3 DEF Next, Merge, Look, Regroup, DigestShows, DigestEnds, SnoozeEnds,
             DeadlinePasses, Complete, Request, ResolveWork, MarkAutomation, vars

\* A screen stays, or shows what the table holds now.
LEMMA ViewStep ==
    ASSUME IInv, [Next]_vars, NEW a \in Owners \cup Workers
    PROVE  \/ view'[a] = view[a]
           \/ /\ item' = item
              /\ \E w \in Items :
                    view'[a] = [w |-> w, version |-> item[w].version, what |-> What(item[w])]
<1> USE DEF IInv
<1>1. ASSUME NEW w \in Items, NEW b \in Owners \cup Workers, Look(b, w)
      PROVE  \/ view'[a] = view[a]
             \/ /\ item' = item
                /\ view'[a] = [w |-> w, version |-> item[w].version, what |-> What(item[w])]
  BY <1>1 DEF Look, TypeOK
<1>2. ASSUME view' = view
      PROVE  view'[a] = view[a]
  BY <1>2
<1> QED BY <1>1, <1>2 DEF Next, Merge, Poll, Apply, FailPoll, Regroup, DigestShows, DigestEnds,
             SnoozeEnds, DeadlinePasses, Complete, Request, ResolveWork, MarkAutomation, vars

LEMMA CopiedStep ==
    ASSUME WorkAssumption, IInv, [Next]_vars
    PROVE  Copied'
<1> SUFFICES ASSUME NEW p \in Pollers, NEW c \in batch'[p]
             PROVE  /\ c.row.pending.type \in Polled
                    /\ c.row.pending.expected = c.row.version - 1
                    /\ c.row.version <= item'[c.w].version
                    /\ c.row.version = item'[c.w].version
                          => c.row = item'[c.w] /\ (c.over => over'[c.w])
  BY DEF Copied
<1>1. CASE c \in batch[p]
  <2>1. /\ c.row.pending.type \in Polled /\ c.row.pending.expected = c.row.version - 1
        /\ c.row.version <= item[c.w].version
        /\ c.row.version = item[c.w].version => c.row = item[c.w] /\ (c.over => over[c.w])
    BY <1>1 DEF IInv, Copied
  <2>2. c.w \in Items /\ c.row.version \in Nat /\ item[c.w].version \in Nat
    BY <1>1 DEF IInv, TypeOK, Copy, Row, WorkAssumption
  <2>3. CASE Stays(c.w)
    BY <2>1, <2>3 DEF Stays, Kept
  <2>4. CASE Moves(c.w)
    <3>1. item'[c.w].version \in Nat /\ item'[c.w].version > item[c.w].version
      BY <2>2, <2>4, MovedRow DEF Row, WorkAssumption
    <3> QED BY <2>1, <2>2, <3>1
  <2> QED BY <2>2, <2>3, <2>4, StepMoves
<1>2. CASE c \in Copies /\ item' = item /\ over' = over
  <2>1. PICK w \in Items : Processable(w) /\ c = [w |-> w, row |-> item[w], over |-> over[w]]
    BY <1>2 DEF Copies
  <2>2. item[w].version \in Nat
    BY DEF IInv, TypeOK, Row, WorkAssumption
  <2> QED BY <1>2, <2>1, <2>2 DEF Processable
<1> QED BY <1>1, <1>2, BatchStep

LEMMA ViewedStep ==
    ASSUME WorkAssumption, IInv, [Next]_vars
    PROVE  Viewed'
<1> SUFFICES ASSUME NEW a \in Owners \cup Workers
             PROVE  /\ view'[a].version <= item'[view'[a].w].version
                    /\ item'[view'[a].w].state \in Active
                          /\ view'[a].version = item'[view'[a].w].version
                          => view'[a].what = What(item'[view'[a].w])
  BY DEF Viewed, IsActive, What
<1>1. CASE view'[a] = view[a]
  <2> DEFINE w == view[a].w
  <2>1. /\ view[a].version <= item[w].version
        /\ item[w].state \in Active /\ view[a].version = item[w].version => view[a].what = What(item[w])
    BY DEF IInv, Viewed, IsActive
  <2>2. w \in Items /\ view[a].version \in Nat /\ item[w].version \in Nat
    BY DEF IInv, TypeOK, View, Row, WorkAssumption
  <2>3. CASE Stays(w)
    BY <1>1, <2>1, <2>3 DEF Stays, Kept
  <2>4. CASE Moves(w)
    <3>1. item'[w].version \in Nat /\ item'[w].version > item[w].version
      BY <2>2, <2>4, MovedRow DEF Row, WorkAssumption
    <3> QED BY <1>1, <2>1, <2>2, <3>1
  <2> QED BY <2>2, <2>3, <2>4, StepMoves
<1>2. ASSUME NEW w \in Items, item' = item,
             view'[a] = [w |-> w, version |-> item[w].version, what |-> What(item[w])]
      PROVE  /\ view'[a].version <= item'[view'[a].w].version
             /\ view'[a].what = What(item'[view'[a].w])
  <2>1. item[w].version \in Nat
    BY DEF IInv, TypeOK, Row, WorkAssumption
  <2> QED BY <1>2, <2>1
<1> QED BY <1>1, <1>2, ViewStep

LEMMA SawnStep ==
    ASSUME WorkAssumption, IInv, [Next]_vars
    PROVE  Sawn'
<1> SUFFICES ASSUME NEW w \in Items, Asking(item'[w])
             PROVE  saw'[w] = What(item'[w])
  BY DEF Sawn, Asking, What
<1>1. /\ item[w] \in Row /\ item[w].version \in Nat
      /\ item[w].pending # NoAction => item[w].pending.expected < item[w].version
      /\ item[w].pending # NoAction => item[w].pending.expected \in Nat
      /\ Asking(item[w]) => saw[w] = What(item[w])
  BY DEF IInv, TypeOK, Row, Pending, NoAction, WorkAssumption, Sawn
<1>2. CASE Stays(w)
  BY <1>1, <1>2 DEF Stays, Kept
<1>3. CASE Appears(w)
  BY <1>3, FirstRow DEF Appears, Asking
<1>4. CASE IsMerged(w)
  <2>1. PICK stamp \in 1 .. MaxStamp, priority \in Priorities : item'[w] = Merged(w, stamp, priority)
    BY <1>4 DEF IsMerged
  <2>2. item'[w].version = item[w].version + 1 /\ item'[w].pending = item[w].pending
    BY <1>4, <2>1, MergedRow DEF IsMerged, IInv
  <2> QED BY <1>1, <2>2 DEF Asking
<1>5. CASE IsBumped(w)
  <2>1. item'[w].version = item[w].version + 1 /\ item'[w].pending = item[w].pending
    BY <1>1, <1>5, RaisedRow DEF IsBumped
  <2> QED BY <1>1, <2>1 DEF Asking
<1>6. CASE IsAsked(w)
  <2>1. PICK type \in Types : item'[w] = Asked(item[w], type)
    BY <1>6 DEF IsAsked
  <2>2. What(item'[w]) = What(item[w])
    BY <1>1, <2>1 DEF Asked, What, Row
  <2> QED BY <1>6, <2>2 DEF IsAsked
<1>7. CASE IsClosed(w)
  BY <1>1, <1>7, ClosedRow DEF IsClosed, Asking
<1>8. CASE IsApplied(w)
  <2>1. item'[w].pending = NoAction
    BY <1>1, <1>8 DEF IsApplied, Applied, Row
  <2> QED BY <2>1 DEF Asking
<1> QED BY <1>2, <1>3, <1>4, <1>5, <1>6, <1>7, <1>8, StepMoves DEF Moves

\* A merge makes a P0 only of a P0 or of a fresh event that is one.
LEMMA MergedPriority ==
    ASSUME WorkAssumption, TypeOK, NEW w \in Items, NEW stamp \in 1 .. MaxStamp,
           NEW priority \in Priorities
    PROVE  /\ Merged(w, stamp, priority).state
                 = IF Wakes(w, stamp, priority) THEN "open" ELSE item[w].state
           /\ Merged(w, stamp, priority).acked = item[w].acked
           /\ Merged(w, stamp, priority).priority = P0
                 => item[w].priority = P0 \/ (Fresh(w, stamp) /\ priority = P0)
           /\ item[w].priority # P0 /\ Fresh(w, stamp) /\ priority = P0
                 => Merged(w, stamp, priority).priority = P0
<1>1. item[w] \in Row
  BY DEF TypeOK
<1>2. Max2(item[w].priority, priority) \in {item[w].priority, priority}
  BY <1>1, Max2Type DEF Row, WorkAssumption, Ranks, P0
<1>3. priority = P0 /\ item[w].priority # P0 => Max2(item[w].priority, priority) = P0
  BY <1>1 DEF Row, Ranks, P0, Max2
<1>4. /\ Merged(w, stamp, priority).state
            = IF Wakes(w, stamp, priority) THEN "open" ELSE item[w].state
      /\ Merged(w, stamp, priority).acked = item[w].acked
      /\ Merged(w, stamp, priority).priority
            = IF Fresh(w, stamp) THEN Max2(item[w].priority, priority) ELSE item[w].priority
  BY <1>1 DEF Merged, Row
<1> QED BY <1>2, <1>3, <1>4

LEMMA HiddenStep ==
    ASSUME WorkAssumption, IInv, [Next]_vars
    PROVE  HiddenP0IsAcknowledged'
<1> SUFFICES ASSUME NEW w \in Items,
                    item'[w].state \in {"snoozed", "dismissed"}, item'[w].priority = P0
             PROVE  item'[w].acked
  BY DEF HiddenP0IsAcknowledged
<1>1. /\ item[w] \in Row
      /\ item[w].state \in {"snoozed", "dismissed"} /\ item[w].priority = P0 => item[w].acked
  BY DEF IInv, TypeOK, HiddenP0IsAcknowledged
<1>2. CASE Stays(w)
  BY <1>1, <1>2 DEF Stays, Kept
<1>3. CASE Appears(w)
  BY <1>3, FirstRow DEF Appears
<1>4. CASE IsMerged(w)
  <2>1. PICK stamp \in 1 .. MaxStamp, priority \in Priorities : item'[w] = Merged(w, stamp, priority)
    BY <1>4 DEF IsMerged
  <2>2. ~Wakes(w, stamp, priority) /\ item[w].state = "snoozed"
    BY <1>4, <2>1, MergedPriority DEF IsMerged, IInv, IsActive, Active
  <2>3. item[w].priority = P0
    BY <2>1, <2>2, MergedPriority DEF Wakes, IInv
  <2> QED BY <1>1, <2>1, <2>2, <2>3, MergedPriority DEF IInv
<1>5. CASE IsBumped(w)
  BY <1>1, <1>5, RaisedRow DEF IsBumped
<1>6. CASE IsAsked(w)
  BY <1>1, <1>6 DEF IsAsked, Asked, Row
<1>7. CASE IsClosed(w)
  BY <1>1, <1>7, ClosedRow DEF IsClosed
<1>8. CASE IsApplied(w)
  <2>1. PICK c \in Copy : /\ c.w = w /\ c.row = item[w] /\ c.row.pending.type \in Polled
                          /\ Allowed(c.row) /\ item'[w] = Applied(c)
    BY <1>8 DEF IsApplied
  <2>2. /\ item'[w].state = StateAfter(c) /\ item'[w].priority = item[w].priority
        /\ item'[w].acked = (item[w].acked \/ c.row.pending.type = "ack_p0")
    BY <1>1, <2>1 DEF Applied, Row
  <2>3. CASE c.row.pending.type \in Hiding
    BY <2>1, <2>2, <2>3 DEF Allowed
  <2>4. CASE c.row.pending.type = "ack_p0"
    BY <2>2, <2>4
  <2>5. CASE c.row.pending.type = "progress"
    BY <2>2, <2>5 DEF StateAfter
  <2> QED BY <2>1, <2>3, <2>4, <2>5 DEF Polled
<1> QED BY <1>2, <1>3, <1>4, <1>5, <1>6, <1>7, <1>8, StepMoves DEF Moves

----------------------------------------------------------------------------
(* The theorems. *)

LEMMA InitInv ==
    ASSUME WorkAssumption, Init
    PROVE  IInv
<1>1. /\ "absent" \in States /\ NoAction \in Pending /\ 0 \in Ranks /\ 0 \in 0 .. MaxStamp
      /\ 0 \in 0 .. MaxVersion + 1 /\ 0 \in 0 .. MaxFaults
  BY DEF States, Pending, Ranks, P0, WorkAssumption
<1>2. AbsentRow \in Row /\ Nothing \in Seen
  BY <1>1 DEF AbsentRow, Row, Nothing, Seen
<1>3. Unseen \in View
  BY <1>1, <1>2 DEF Unseen, View, WorkAssumption
<1>4. TypeOK
  BY <1>1, <1>2, <1>3 DEF Init, TypeOK, AbsentRow
<1>5. Copied /\ HiddenP0IsAcknowledged
  BY DEF Init, Copied, HiddenP0IsAcknowledged, AbsentRow
<1>6. Viewed
  BY <1>3 DEF Init, Viewed, IsActive, Active, AbsentRow, Unseen, View
<1>7. Sawn
  BY DEF Init, Sawn, Asking, AbsentRow
<1> QED BY <1>4, <1>5, <1>6, <1>7 DEF IInv

LEMMA Invariance == Spec => []IInv
<1>1. Init => IInv
  BY InitInv, WorkAssumption
<1>2. IInv /\ [Next]_vars => IInv'
  BY WorkAssumption, TypeStep, CopiedStep, ViewedStep, SawnStep, HiddenStep DEF IInv
<1> QED BY <1>1, <1>2, PTL DEF Spec

\* The rows, screens, batches and clock flags of every reachable state have their types, and
\* an accepted action is older than its row: every write raises the version (upsert_work_item_v2,
\* request_work_item_action_v2, exactPatch).
THEOREM TypeCorrect == Spec => []TypeOK
<1>1. IInv => TypeOK
  BY DEF IInv
<1> QED BY <1>1, Invariance, PTL

\* However many items, owners, automations and bridges: no unacknowledged P0 is snoozed or
\* dismissed (applyWorkAction on a row read earlier, the wake of upsert_work_item_v2).
THEOREM P0StaysInSight == Spec => []HiddenP0IsAcknowledged
<1>1. IInv => HiddenP0IsAcknowledged
  BY DEF IInv
<1> QED BY <1>1, Invariance, PTL

\* A closed item never changes (the terminal branch of upsert_work_item_v2, the state filters
\* of every compare).
THEOREM ClosedStays == Spec => ClosedIsFinal
<1>1. ASSUME IInv, [Next]_vars, NEW w \in Items, item[w].state \in Closed
      PROVE  item'[w] = item[w]
  <2>1. Stays(w) \/ Moves(w)
    BY <1>1, WorkAssumption, StepMoves
  <2> QED BY <1>1, <2>1 DEF Stays, Kept, Moves, Appears, IsMerged, IsBumped, IsAsked, IsClosed,
               IsApplied, IsActive, Active, Closed
<1>2. IInv /\ [Next]_vars => [\A w \in Items : item[w].state \in Closed => item'[w] = item[w]]_vars
  BY <1>1
<1> QED BY <1>2, Invariance, PTL DEF Spec, ClosedIsFinal

\* Whoever hides or closes an item had seen what it holds at that moment: the compares of
\* request, poll, completion and automation leave no gap between them.
THEOREM HidersSaw == Spec => HiddenWasSeen
<1> DEFINE Hides(w) == /\ IsActive(w)
                      /\ \/ item'[w].state \in Closed
                         \/ item'[w].state = "snoozed" /\ item[w].state # "snoozed"
<1>1. ASSUME IInv, [Next]_vars, NEW w \in Items, Hides(w)
      PROVE  saw'[w] = What(item[w])
  <2>1. item[w] \in Row
    BY <1>1 DEF IInv, TypeOK
  <2>2. ~Stays(w)
    BY <1>1 DEF Stays, Kept, IsActive, Active, Closed
  <2>3. ~Appears(w)
    BY <1>1 DEF Appears, IsActive, Active
  <2>4. ~IsMerged(w)
    <3>1. ASSUME NEW stamp \in 1 .. MaxStamp, NEW priority \in Priorities, IsActive(w),
                 item'[w] = Merged(w, stamp, priority)
          PROVE  item'[w].state \in {item[w].state, "open"}
      BY <1>1, <3>1, WorkAssumption, MergedPriority DEF IInv
    <3> QED BY <1>1, <3>1 DEF IsMerged, IsActive, Active, Closed
  <2>5. ~IsBumped(w)
    BY <1>1, <2>1, WorkAssumption, RaisedRow DEF IsBumped, IsActive, Active, Closed
  <2>6. IsAsked(w) \/ IsClosed(w) => saw'[w] = What(item[w])
    BY DEF IsAsked, IsClosed
  <2>7. ASSUME IsApplied(w)
        PROVE  saw'[w] = What(item[w])
    <3>1. Asking(item[w]) /\ saw'[w] = saw[w]
      BY <2>7 DEF IsApplied, Asking, NoAction, Polled, Hiding
    <3> QED BY <1>1, <3>1 DEF IInv, Sawn
  <2> QED BY <1>1, <2>2, <2>3, <2>4, <2>5, <2>6, <2>7, WorkAssumption, StepMoves DEF Moves
<1>2. IInv /\ [Next]_vars =>
          [\A w \in Items :
             /\ IsActive(w)
             /\ \/ item'[w].state \in Closed
                \/ item'[w].state = "snoozed" /\ item[w].state # "snoozed"
             => saw'[w] = What(item[w])]_vars
  BY <1>1
<1> QED BY <1>2, Invariance, PTL DEF Spec, HiddenWasSeen

\* A snooze that has not ended is broken only by the owner's progress or by an item that
\* becomes a P0 (v_wake_snooze, applyWorkAction on an ended snooze).
THEOREM SnoozeStays == Spec => SnoozeKept
<1> DEFINE Asleep(w) == item[w].state = "snoozed" /\ ~over[w]
           Rises(w) == \/ item[w].pending.type = "progress"
                       \/ item'[w].priority = P0 /\ item[w].priority # P0
<1>1. ASSUME IInv, [Next]_vars, NEW w \in Items, Asleep(w),
             item'[w].state \in Active \ {"snoozed"}
      PROVE  Rises(w)
  <2>1. item[w] \in Row /\ (item[w].priority = P0 => item[w].acked)
    BY <1>1 DEF IInv, TypeOK, HiddenP0IsAcknowledged
  <2>2. ~Stays(w) /\ ~Appears(w)
    BY <1>1 DEF Stays, Kept, Appears
  <2>3. ASSUME IsMerged(w)
        PROVE  Rises(w)
    <3>1. PICK stamp \in 1 .. MaxStamp, priority \in Priorities : item'[w] = Merged(w, stamp, priority)
      BY <2>3 DEF IsMerged
    <3>2. Wakes(w, stamp, priority)
      BY <1>1, <3>1, WorkAssumption, MergedPriority DEF IInv
    <3>3. Fresh(w, stamp) /\ priority = P0 /\ item[w].priority # P0
      BY <1>1, <2>1, <3>2 DEF Wakes
    <3> QED BY <1>1, <3>1, <3>3, WorkAssumption, MergedPriority DEF IInv
  <2>4. ~IsBumped(w)
    BY <1>1, <2>1, WorkAssumption, RaisedRow DEF IsBumped
  <2>5. ~IsAsked(w)
    BY <1>1, <2>1 DEF IsAsked, Asked, Row
  <2>6. ~IsClosed(w)
    BY <1>1, <2>1, WorkAssumption, ClosedRow DEF IsClosed, Active
  <2>7. ASSUME IsApplied(w)
        PROVE  Rises(w)
    <3>1. PICK c \in Copy : /\ c.w = w /\ c.row = item[w] /\ (c.over => over[w])
                            /\ c.row.pending.type \in Polled /\ item'[w] = Applied(c)
      BY <2>7 DEF IsApplied
    <3>2. item'[w].state = StateAfter(c) /\ ~c.over
      BY <1>1, <2>1, <3>1 DEF Applied, Row
    <3> QED BY <1>1, <3>1, <3>2 DEF StateAfter, Polled, Hiding, Active
  <2> QED BY <1>1, <2>2, <2>3, <2>4, <2>5, <2>6, <2>7, WorkAssumption, StepMoves DEF Moves
<1>2. IInv /\ [Next]_vars =>
          [\A w \in Items : Asleep(w) /\ item'[w].state \in Active \ {"snoozed"} => Rises(w)]_vars
  BY <1>1
<1> QED BY <1>2, Invariance, PTL DEF Spec, SnoozeKept

\* Every write of a row raises its version: a row a poller has in its batch, whatever merged,
\* was asked, completed or applied in between, is the present row or is told apart from it by
\* the version the conditional PATCH compares; so is what a screen shows.
THEOREM VersionTellsApart == Spec => [](Copied /\ Viewed)
<1>1. IInv => Copied /\ Viewed
  BY DEF IInv
<1> QED BY <1>1, Invariance, PTL
=============================================================================
