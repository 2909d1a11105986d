-------------------------- MODULE P0DeliveryProofs --------------------------
(***************************************************************************)
(* Theorems about the notices of a P0.  The argument: until the            *)
(* acknowledgement is applied the record in the payload only moves         *)
(* forward, so a new generation has left no trace yet; a claim is won on   *)
(* the version the sweep listed, which the acknowledgement raises; and as  *)
(* long as nothing was late, a bridge that works is the only one, and the  *)
(* record is its own.                                                      *)
(***************************************************************************)
EXTENDS P0Delivery, TLAPS

Working(b) == bridge[b].step \in {"search", "post", "settle", "again"}

\* Who says delivered has seen the message, and it stays.
SaidIsShown ==
    /\ \A b \in Bridges :
         bridge[b].step \in {"settle", "again"} /\ bridge[b].outcome = "delivered"
             => channel[bridge[b].generation] > 0
    /\ poll.on /\ poll.delivery.status = "delivered" => channel[poll.delivery.generation] > 0
    /\ poll.delivery.status = "none" <=> poll.delivery.generation = 0

\* Whatever was read before the acknowledgement was applied was read from an older version.
ReadsAreOlder ==
    /\ \A b \in Bridges : bridge[b].step = "listed" =>
         /\ bridge[b].version <= item.version
         /\ item.acked => bridge[b].version < item.version
    /\ poll.on => poll.version <= item.version /\ poll.version <= MaxVersion
    /\ poll.on /\ item.acked => poll.version < item.version
    /\ item.acked => item.asked = 0
    /\ item.asked <= MaxVersion

\* Until the acknowledgement nothing is ahead of the record.
NothingAhead ==
    ~item.acked =>
        /\ \A g \in Generations : g > delivery.generation => channel[g] = 0 /\ air[g] = 0
        /\ \A b \in Bridges : Working(b) => bridge[b].generation <= delivery.generation

\* If nothing was late, one bridge works at a time, on a record that is its own, and posts only
\* what is not there.
OneWorks ==
    late = 0 =>
        /\ \A g \in Generations : channel[g] <= 1 /\ air[g] = 0
        /\ \A b, c \in Bridges : Working(b) /\ Working(c) => b = c
        /\ \A b \in Bridges : bridge[b].step = "post" => channel[bridge[b].generation] = 0
        /\ \A b \in Bridges : Working(b) /\ ~item.acked => Holder(b) /\ ~delivery.due

IInv ==
    /\ TypeOK
    /\ SaidIsShown
    /\ ReadsAreOlder
    /\ NothingAhead
    /\ OneWorks
    /\ DeliveredIsShown

-----------------------------------------------------------------------------
(* The values of the state. *)

ItemRow == [version : Versions, active : BOOLEAN, acked : BOOLEAN, asked : {0} \cup Versions]
PollRow == [on : BOOLEAN, version : {0} \cup Versions, delivery : Delivery]
BridgeRow == [step : Steps, version : {0} \cup Versions, status : Statuses,
              generation : 0 .. MaxAttempts, outcome : Outcomes]

Types ==
    /\ item \in ItemRow
    /\ delivery \in Delivery
    /\ poll \in PollRow
    /\ bridge \in [Bridges -> BridgeRow]
    /\ channel \in [Generations -> Nat]
    /\ air \in [Generations -> Nat]
    /\ faults \in 0 .. MaxFaults /\ late \in 0 .. MaxLate
    /\ delivery.status = "none" <=> delivery.generation = 0
    /\ \A b \in Bridges : Working(b) =>
         bridge[b].generation \in Generations /\ bridge[b].status \in {"claimed", "reconciling"}

LEMMA TypeForm == TypeOK <=> Types
BY DEF TypeOK, Types, ItemRow, PollRow, BridgeRow, Working

LEMMA TypeFormNext == TypeOK' <=> Types'
BY DEF TypeOK, Types, ItemRow, PollRow, BridgeRow, Working

LEMMA Numbers ==
    /\ Versions \subseteq Nat /\ {0} \cup Versions \subseteq Nat /\ Generations \subseteq Nat /\ 0 .. MaxAttempts \subseteq Nat
    /\ \A g \in 0 .. MaxAttempts : g # 0 <=> g \in Generations
    /\ \A g \in Generations : g \in 0 .. MaxAttempts
BY P0Assumption DEF Versions, Generations

\* Of the row and of what was read from it.
LEMMA RowValues ==
    ASSUME TypeOK
    PROVE  /\ item.version \in Versions /\ item.asked \in {0} \cup Versions /\ item.acked \in BOOLEAN
           /\ poll.version \in {0} \cup Versions /\ poll.delivery \in Delivery /\ poll.on \in BOOLEAN
           /\ delivery.generation \in 0 .. MaxAttempts /\ delivery.status \in Statuses
BY TypeForm DEF Types, ItemRow, PollRow, Delivery

LEMMA BridgeValues ==
    ASSUME TypeOK, NEW b \in Bridges
    PROVE  /\ bridge[b] \in BridgeRow
           /\ bridge[b].version \in {0} \cup Versions
           /\ bridge[b].generation \in 0 .. MaxAttempts
           /\ bridge[b].status \in Statuses
           /\ bridge[b].step \in Steps
BY TypeForm DEF Types, BridgeRow

LEMMA IdleRow == Idle \in BridgeRow /\ Idle.step = "idle" /\ NoDelivery \in Delivery /\ NoPoll \in PollRow
BY P0Assumption, Numbers DEF Idle, NoDelivery, NoPoll, BridgeRow, PollRow, Delivery, Steps, Statuses,
   Outcomes, Unsettled, Versions

LEMMA FaultBound == ASSUME TypeOK PROVE /\ Fault => faults' \in 0 .. MaxFaults
                                        /\ Late => late' \in 0 .. MaxLate /\ late' # 0
BY P0Assumption DEF TypeOK, Fault, Late

LEMMA InitInv == Init => IInv
<1> SUFFICES ASSUME Init PROVE IInv  OBVIOUS
<1>1. 1 \in Versions /\ 0 \in 0 .. MaxFaults /\ 0 \in 0 .. MaxLate
  BY P0Assumption DEF Versions
<1>2. Types
  <2>1. item \in ItemRow
    BY <1>1 DEF Init, ItemRow
  <2> QED  BY <1>1, <2>1, IdleRow DEF Types, Init, Working, Idle, NoDelivery
<1>3. SaidIsShown /\ DeliveredIsShown
  BY DEF Init, SaidIsShown, DeliveredIsShown, Idle, NoDelivery, NoPoll
<1>4. ReadsAreOlder
  BY P0Assumption DEF Init, ReadsAreOlder, Idle, NoPoll
<1>5. NothingAhead /\ OneWorks
  BY DEF Init, NothingAhead, OneWorks, Working, Idle, NoDelivery
<1> QED  BY <1>2, <1>3, <1>4, <1>5, TypeForm DEF IInv

-----------------------------------------------------------------------------
(* The item beside the sweeps. *)

\* A change of the row that nobody has read yet.
LEMMA RaiseInv == ASSUME IInv, Merge \/ Resolve \/ AskAck PROVE IInv'
<1>1. /\ item' \in ItemRow /\ item'.version = item.version + 1 /\ item'.version <= MaxVersion
      /\ item'.acked = item.acked
      /\ item'.asked \in {item.asked, item'.version}
      /\ item'.asked # item.asked => ~item.acked
      /\ item.version \in Nat
  <2>1. item \in ItemRow /\ item.version \in Nat /\ item.version < MaxVersion
    BY RowValues, Numbers, TypeForm DEF IInv, Types, Merge, Resolve, AskAck, Changes
  <2>2. item.version + 1 \in Versions /\ item.version + 1 <= MaxVersion
    BY <2>1, P0Assumption DEF Versions
  <2>3. item'.version = item.version + 1 /\ item'.acked = item.acked /\ item' \in ItemRow
    BY <2>1, <2>2 DEF Merge, Resolve, AskAck, ItemRow
  <2>4. item'.asked \in {item.asked, item'.version} /\ (item'.asked # item.asked => ~item.acked)
    BY <2>1 DEF Merge, Resolve, AskAck, ItemRow
  <2> QED  BY <2>1, <2>2, <2>3, <2>4
<1>2. UNCHANGED <<delivery, poll, bridge, channel, air, faults, late>>
  BY DEF Merge, Resolve, AskAck
<1>3. TypeOK'
  BY <1>1, <1>2, TypeForm, TypeFormNext DEF IInv, Types, Working
<1>4. SaidIsShown' /\ DeliveredIsShown'
  BY <1>2 DEF IInv, SaidIsShown, DeliveredIsShown
<1>5. ReadsAreOlder'
  <2>1. \A b \in Bridges : bridge[b].version \in Nat
    BY BridgeValues, Numbers DEF IInv
  <2>2. poll.version \in Nat /\ item.asked \in Nat
    BY RowValues, Numbers DEF IInv
  <2> QED  BY <1>1, <1>2, <2>1, <2>2 DEF IInv, ReadsAreOlder
<1>6. NothingAhead' /\ OneWorks'
  BY <1>1, <1>2 DEF IInv, NothingAhead, OneWorks, Working, Holder
<1> QED  BY <1>3, <1>4, <1>5, <1>6 DEF IInv

LEMMA PollAckInv == ASSUME IInv, PollAck PROVE IInv'
<1>1. poll' \in PollRow /\ poll'.on /\ poll'.version = item.version /\ poll'.delivery = delivery
  BY RowValues, TypeForm DEF IInv, Types, PollAck, PollRow
<1>2. UNCHANGED <<item, delivery, bridge, channel, air, faults, late>>
  BY DEF PollAck
<1>3. TypeOK'
  BY <1>1, <1>2, TypeForm, TypeFormNext DEF IInv, Types, Working
<1>4. SaidIsShown' /\ DeliveredIsShown'
  BY <1>1, <1>2, TypeForm DEF IInv, Types, SaidIsShown, DeliveredIsShown
<1>5. ReadsAreOlder'
  <2>1. item.asked = item.version /\ item.version \in Nat /\ item.version # 0
    BY RowValues, P0Assumption DEF IInv, PollAck, Versions
  <2> QED  BY <1>1, <1>2, <2>1 DEF IInv, ReadsAreOlder
<1>6. NothingAhead' /\ OneWorks'
  BY <1>2 DEF IInv, NothingAhead, OneWorks, Working, Holder
<1> QED  BY <1>3, <1>4, <1>5, <1>6 DEF IInv

LEMMA ApplyAckInv == ASSUME IInv, ApplyAck PROVE IInv'
<1>1. poll' = NoPoll /\ poll' \in PollRow /\ ~poll'.on /\ poll'.delivery = NoDelivery
  BY IdleRow DEF ApplyAck, NoPoll
<1>2. UNCHANGED <<bridge, channel, air, faults, late>> /\ poll.on
  BY DEF ApplyAck
<1>3. SaidIsShown'
  BY <1>1, <1>2 DEF IInv, SaidIsShown, NoDelivery
<1>4. CASE item.version = poll.version /\ item.active
  <2>1. item.version \in Nat /\ item.version <= MaxVersion
    BY <1>2, <1>4, RowValues, Numbers DEF IInv, ReadsAreOlder
  <2>2. /\ item' \in ItemRow /\ item'.version = item.version + 1 /\ item'.acked /\ item'.asked = 0
        /\ delivery' = poll.delivery
    <3>1. item.version + 1 \in Versions
      BY <2>1, P0Assumption DEF Versions
    <3> QED  BY <1>4, <3>1, TypeForm DEF IInv, Types, ItemRow, ApplyAck
  <2>3. TypeOK'
    BY <1>1, <1>2, <2>2, RowValues, TypeForm, TypeFormNext DEF IInv, Types, Working, SaidIsShown
  <2>4. DeliveredIsShown'
    BY <1>2, <2>2 DEF IInv, SaidIsShown, DeliveredIsShown
  <2>5. ReadsAreOlder'
    <3>1. \A b \in Bridges : bridge[b].version \in Nat
      BY BridgeValues, Numbers DEF IInv
    <3> QED  BY <1>1, <1>2, <2>1, <2>2, <3>1, P0Assumption DEF IInv, ReadsAreOlder
  <2>6. NothingAhead' /\ OneWorks'
    BY <1>2, <2>2 DEF IInv, NothingAhead, OneWorks, Working
  <2> QED  BY <1>3, <2>3, <2>4, <2>5, <2>6 DEF IInv
<1>5. CASE ~(item.version = poll.version /\ item.active)
  <2>1. UNCHANGED <<item, delivery>>
    BY <1>5 DEF ApplyAck
  <2>2. TypeOK'
    BY <1>1, <1>2, <2>1, TypeForm, TypeFormNext DEF IInv, Types, Working
  <2>3. DeliveredIsShown' /\ ReadsAreOlder' /\ NothingAhead' /\ OneWorks'
    BY <1>1, <1>2, <2>1 DEF IInv, DeliveredIsShown, ReadsAreOlder, NothingAhead, OneWorks, Working, Holder
  <2> QED  BY <1>3, <2>2, <2>3 DEF IInv
<1> QED  BY <1>4, <1>5

LEMMA FallsDueInv == ASSUME IInv, FallsDue PROVE IInv'
<1>1. /\ delivery' \in Delivery /\ delivery'.status = delivery.status
      /\ delivery'.generation = delivery.generation /\ delivery'.owner = delivery.owner
  BY TypeForm DEF IInv, Types, Delivery, FallsDue
<1>2. UNCHANGED <<item, poll, bridge, channel, air, faults>> /\ late' \in 0 .. MaxLate
  BY FaultBound, TypeForm DEF IInv, Types, FallsDue
<1>3. TypeOK'
  BY <1>1, <1>2, TypeForm, TypeFormNext DEF IInv, Types, Working
<1>4. SaidIsShown' /\ DeliveredIsShown' /\ ReadsAreOlder' /\ NothingAhead'
  BY <1>1, <1>2 DEF IInv, SaidIsShown, DeliveredIsShown, ReadsAreOlder, NothingAhead, Working
<1>5. OneWorks'
  <2>1. CASE \E b \in Bridges : Holder(b)
    <3>1. late' # 0
      BY <2>1, FaultBound DEF IInv, FallsDue
    <3> QED  BY <3>1 DEF OneWorks
  <2>2. CASE ~\E b \in Bridges : Holder(b)
    <3>1. late' = late
      BY <2>2 DEF FallsDue
    <3> QED  BY <1>1, <1>2, <2>2, <3>1 DEF IInv, OneWorks, Working
  <2> QED  BY <2>1, <2>2
<1> QED  BY <1>3, <1>4, <1>5 DEF IInv

-----------------------------------------------------------------------------
(* A sweep. *)

\* The row of b changes, the others' do not.
Becomes(b, row) == bridge' = [bridge EXCEPT ![b] = row]

LEMMA Moved ==
    ASSUME TypeOK, NEW b \in Bridges, NEW row \in BridgeRow, Becomes(b, row)
    PROVE  /\ bridge' \in [Bridges -> BridgeRow]
           /\ bridge'[b] = row
           /\ \A c \in Bridges \ {b} : bridge'[c] = bridge[c]
BY TypeForm DEF Types, Becomes

\* What the operators write into it.
LEMMA Rows ==
    ASSUME TypeOK, NEW b \in Bridges
    PROVE  /\ Ends(b) => Becomes(b, Idle)
           /\ \A step \in Steps : \E row \in BridgeRow :
                /\ row.step = step /\ row.version = bridge[b].version /\ row.status = bridge[b].status
                /\ row.generation = bridge[b].generation /\ row.outcome = bridge[b].outcome
                /\ Goes(b, step) => Becomes(b, row)
           /\ \A outcome \in Outcomes : \E row \in BridgeRow :
                /\ row.step = "settle" /\ row.version = bridge[b].version /\ row.status = bridge[b].status
                /\ row.generation = bridge[b].generation /\ row.outcome = outcome
                /\ ToSettle(b, outcome) => Becomes(b, row)
<1>1. bridge[b] \in BridgeRow /\ bridge \in [Bridges -> BridgeRow]
  BY TypeForm DEF Types
<1>2. Ends(b) => Becomes(b, Idle)
  BY DEF Ends, Becomes
<1>3. ASSUME NEW step \in Steps
      PROVE  \E row \in BridgeRow :
                /\ row.step = step /\ row.version = bridge[b].version /\ row.status = bridge[b].status
                /\ row.generation = bridge[b].generation /\ row.outcome = bridge[b].outcome
                /\ Goes(b, step) => Becomes(b, row)
  <2> DEFINE row == [bridge[b] EXCEPT !.step = step]
  <2>1. row \in BridgeRow
    BY <1>1 DEF BridgeRow
  <2>2. Goes(b, step) => Becomes(b, row)
    BY DEF Goes, Becomes
  <2>3. /\ row.step = step /\ row.version = bridge[b].version /\ row.status = bridge[b].status
        /\ row.generation = bridge[b].generation /\ row.outcome = bridge[b].outcome
    BY <1>1 DEF BridgeRow
  <2> HIDE DEF row
  <2> QED  BY <2>1, <2>2, <2>3
<1>4. ASSUME NEW outcome \in Outcomes
      PROVE  \E row \in BridgeRow :
                /\ row.step = "settle" /\ row.version = bridge[b].version /\ row.status = bridge[b].status
                /\ row.generation = bridge[b].generation /\ row.outcome = outcome
                /\ ToSettle(b, outcome) => Becomes(b, row)
  <2> DEFINE row == [bridge[b] EXCEPT !.step = "settle", !.outcome = outcome]
  <2>1. row \in BridgeRow
    BY <1>1 DEF BridgeRow, Steps
  <2>2. ToSettle(b, outcome) => Becomes(b, row)
    BY <1>1 DEF ToSettle, Becomes, BridgeRow
  <2>3. /\ row.step = "settle" /\ row.version = bridge[b].version /\ row.status = bridge[b].status
        /\ row.generation = bridge[b].generation /\ row.outcome = outcome
    BY <1>1 DEF BridgeRow
  <2> HIDE DEF row
  <2> QED  BY <2>1, <2>2, <2>3
<1> QED  BY <1>2, <1>3, <1>4

\* Steps of a bridge that leave the payload and the channel alone: it ends, lists, or goes on
\* with what it works on.
LEMMA BridgeInv ==
    ASSUME IInv, NEW b \in Bridges, NEW row \in BridgeRow, Becomes(b, row),
           UNCHANGED <<item, delivery, poll, channel, air, late>>, faults' \in 0 .. MaxFaults,
           row.step \in {"search", "post", "settle", "again"}
              => Working(b) /\ row.generation = bridge[b].generation /\ row.status = bridge[b].status,
           row.step \in {"settle", "again"} /\ row.outcome = "delivered" => channel[row.generation] > 0,
           row.step = "post" => channel[row.generation] = 0,
           row.step = "listed" => row.version = item.version /\ ~item.acked
    PROVE  IInv'
<1>1. /\ bridge' \in [Bridges -> BridgeRow]
      /\ bridge'[b] = row
      /\ \A c \in Bridges \ {b} : bridge'[c] = bridge[c]
  BY Moved DEF IInv
<1>2. /\ \A c \in Bridges : Working(c)' => Working(c)
      /\ \A c \in Bridges : Working(c)' => /\ bridge'[c].generation = bridge[c].generation
                                           /\ bridge'[c].status = bridge[c].status
  BY <1>1 DEF Working
<1>3. TypeOK'
  BY <1>1, <1>2, TypeForm, TypeFormNext DEF IInv, Types
<1>4. SaidIsShown' /\ DeliveredIsShown'
  BY <1>1 DEF IInv, SaidIsShown, DeliveredIsShown
<1>5. ReadsAreOlder'
  <2>1. item.version \in Nat
    BY RowValues, Numbers DEF IInv
  <2> QED  BY <1>1, <2>1 DEF IInv, ReadsAreOlder
<1>6. NothingAhead'
  BY <1>2 DEF IInv, NothingAhead
<1>7. OneWorks'
  <2> SUFFICES ASSUME late = 0 PROVE OneWorks'
    BY DEF OneWorks
  <2>1. \A c, d \in Bridges : Working(c)' /\ Working(d)' => c = d
    BY <1>2 DEF IInv, OneWorks
  <2>2. \A c \in Bridges : bridge'[c].step = "post" => channel[bridge'[c].generation] = 0
    BY <1>1 DEF IInv, OneWorks
  <2>3. \A c \in Bridges : Working(c)' /\ ~item.acked => Holder(c)' /\ ~delivery.due
    BY <1>2 DEF IInv, OneWorks, Working, Holder
  <2> QED  BY <2>1, <2>2, <2>3 DEF IInv, OneWorks
<1> QED  BY <1>3, <1>4, <1>5, <1>6, <1>7 DEF IInv

LEMMA EndsInv ==
    ASSUME IInv, NEW b \in Bridges, Ends(b), faults' \in 0 .. MaxFaults,
           UNCHANGED <<item, delivery, poll, channel, air, late>>
    PROVE  IInv'
<1>1. Becomes(b, Idle)
  BY Rows DEF IInv
<1> QED  BY <1>1, IdleRow, BridgeInv

LEMMA ListInv == ASSUME IInv, NEW b \in Bridges, List(b) PROVE IInv'
<1> DEFINE row == [Idle EXCEPT !.step = "listed", !.version = item.version,
                               !.status = delivery.status, !.generation = delivery.generation]
<1>1. row \in BridgeRow /\ row.step = "listed" /\ row.version = item.version
  BY RowValues DEF IInv, BridgeRow, Idle, Steps, Outcomes
<1>2. Becomes(b, row) /\ ~item.acked /\ UNCHANGED <<item, delivery, poll, channel, air, faults, late>>
  BY DEF List, Becomes
<1>3. faults' \in 0 .. MaxFaults
  BY <1>2, TypeForm DEF IInv, Types
<1> HIDE DEF row
<1> QED  BY <1>1, <1>2, <1>3, BridgeInv

\* No claim on what was listed before the acknowledgement wins after it.
LEMMA NoClaimAfterAck ==
    ASSUME IInv, item.acked, NEW b \in Bridges, bridge[b].step = "listed"
    PROVE  ~AsListed(b)
<1>1. item.version \in Nat
  BY RowValues, Numbers DEF IInv
<1>2. bridge[b].version < item.version
  BY DEF IInv, ReadsAreOlder
<1> QED  BY <1>1, <1>2 DEF AsListed

\* What both claims come to: the record is the claimer's, or nobody's if the answer was lost;
\* what it says was not acknowledged, and if nothing was late nobody else works.
LEMMA ClaimedInv ==
    ASSUME IInv, NEW b \in Bridges, NEW row \in BridgeRow, Becomes(b, row),
           UNCHANGED <<item, poll, channel, air, late>>, faults' \in 0 .. MaxFaults,
           AsListed(b), bridge[b].step = "listed", delivery.due,
           delivery' \in Delivery, delivery'.status \in {"claimed", "reconciling"},
           ~delivery'.due, delivery'.status = "reconciling" => delivery'.owner = b,
           delivery'.generation \in Generations, delivery'.generation >= delivery.generation,
           \/ row = Idle
           \/ /\ row.step \in {"search", "post"} /\ row.generation = delivery'.generation
              /\ row.status = delivery'.status
              /\ row.step = "post" => delivery'.generation > delivery.generation
    PROVE  IInv'
<1>1. /\ bridge' \in [Bridges -> BridgeRow]
      /\ bridge'[b] = row
      /\ \A c \in Bridges \ {b} : bridge'[c] = bridge[c]
  BY Moved DEF IInv
<1>2. ~item.acked
  BY NoClaimAfterAck
<1>3. Idle.step = "idle"
  BY IdleRow
<1>4. /\ \A c \in Bridges \ {b} : Working(c)' <=> Working(c)
      /\ Working(b)' => row.generation = delivery'.generation /\ row.status = delivery'.status
      /\ row.step \in {"idle", "search", "post"}
  BY <1>1, <1>3 DEF Working
<1>5. TypeOK'
  <2>1. delivery'.status # "none" /\ delivery'.generation # 0
    BY P0Assumption DEF Generations
  <2> QED  BY <1>1, <1>4, <2>1, TypeForm, TypeFormNext DEF IInv, Types
<1>6. SaidIsShown' /\ DeliveredIsShown'
  BY <1>1, <1>4 DEF IInv, SaidIsShown, DeliveredIsShown
<1>7. ReadsAreOlder'
  BY <1>1, <1>4 DEF IInv, ReadsAreOlder
<1>8. NothingAhead'
  <2>1. delivery.generation \in Nat /\ delivery'.generation \in Nat
    BY RowValues, Numbers DEF IInv
  <2>2. \A c \in Bridges : Working(c) => bridge[c].generation <= delivery'.generation
    <3>1. \A c \in Bridges : bridge[c].generation \in Nat
      BY BridgeValues, Numbers DEF IInv
    <3> QED  BY <1>2, <2>1, <3>1 DEF IInv, NothingAhead
  <2>3. \A g \in Generations : g > delivery'.generation => channel[g] = 0 /\ air[g] = 0
    BY <1>2, <2>1, Numbers DEF IInv, NothingAhead
  <2> QED  BY <1>1, <1>4, <2>1, <2>2, <2>3 DEF NothingAhead
<1>9. OneWorks'
  <2> SUFFICES ASSUME late = 0 PROVE OneWorks'
    BY DEF OneWorks
  <2>1. \A c \in Bridges : ~Working(c)
    BY <1>2 DEF IInv, OneWorks
  <2>2. \A c, d \in Bridges : Working(c)' /\ Working(d)' => c = d
    BY <1>4, <2>1
  <2>3. \A c \in Bridges : bridge'[c].step = "post" => channel[bridge'[c].generation] = 0
    <3>1. row.step = "post" => channel[row.generation] = 0
      BY <1>2, <1>3 DEF IInv, NothingAhead
    <3>2. \A c \in Bridges \ {b} : bridge'[c].step # "post"
      BY <1>1, <2>1 DEF Working
    <3> QED  BY <1>1, <3>1, <3>2
  <2>4. \A c \in Bridges : Working(c)' => c = b
    BY <1>4, <2>1
  <2>5. Working(b)' => Holder(b)'
    BY <1>1, <1>4 DEF Working, Holder
  <2> QED  BY <2>2, <2>3, <2>4, <2>5 DEF IInv, OneWorks
<1> QED  BY <1>5, <1>6, <1>7, <1>8, <1>9 DEF IInv

LEMMA ClaimInv == ASSUME IInv, NEW b \in Bridges, NEW lost \in BOOLEAN, Claim(b, lost) PROVE IInv'
<1>1. faults' \in 0 .. MaxFaults /\ UNCHANGED <<item, poll, channel, air, late>>
  BY FaultBound, TypeForm DEF IInv, Types, Claim
<1>2. CASE Claimable(b)
  <2> DEFINE g == bridge[b].generation + 1
             row == IF lost THEN Idle
                    ELSE [bridge[b] EXCEPT !.step = "post", !.status = "claimed", !.generation = g]
  <2>1. /\ AsListed(b) /\ delivery.due /\ Retriable /\ bridge[b].step = "listed"
        /\ delivery.generation = bridge[b].generation
    BY <1>2 DEF Claim, Claimable, IsDue, SameGeneration, Unsettled
  <2>2. g \in Generations /\ g > delivery.generation /\ delivery.generation \in Nat
    BY <2>1, RowValues, P0Assumption DEF IInv, Retriable, Generations
  <2>3. /\ delivery' = [status |-> "claimed", generation |-> g, due |-> FALSE, owner |-> NoBridge]
        /\ Becomes(b, row)
    BY <1>2 DEF Claim, Becomes
  <2>4. delivery' \in Delivery
    BY <2>2, <2>3, Numbers DEF Delivery, Statuses, Unsettled
  <2>5. row \in BridgeRow /\ (row = Idle \/ (row.step = "post" /\ row.generation = g /\ row.status = "claimed"))
    BY <2>2, BridgeValues, IdleRow, Numbers DEF IInv, BridgeRow, Steps, Statuses, Unsettled
  <2> HIDE DEF g, row
  <2>6. g >= delivery.generation
    BY <2>2, Numbers
  <2> QED  BY <1>1, <2>1, <2>2, <2>3, <2>4, <2>5, <2>6, ClaimedInv
<1>3. CASE ~Claimable(b)
  BY <1>1, <1>3, EndsInv DEF Claim
<1> QED  BY <1>2, <1>3

LEMMA ClaimReconciliationInv ==
    ASSUME IInv, NEW b \in Bridges, NEW lost \in BOOLEAN, ClaimReconciliation(b, lost) PROVE IInv'
<1>1. faults' \in 0 .. MaxFaults /\ UNCHANGED <<item, poll, channel, air, late>>
  BY FaultBound, TypeForm DEF IInv, Types, ClaimReconciliation
<1>2. CASE Reconcilable(b)
  <2> DEFINE row == IF lost THEN Idle ELSE [bridge[b] EXCEPT !.step = "search", !.status = "reconciling"]
  <2>1. /\ AsListed(b) /\ delivery.due /\ TakenOver(b) /\ bridge[b].step = "listed"
        /\ delivery.generation = bridge[b].generation
    BY <1>2 DEF ClaimReconciliation, Reconcilable
  <2>2. delivery.generation \in Generations /\ delivery.generation \in Nat
    BY <2>1, RowValues, Numbers, TypeForm DEF IInv, Types, TakenOver, Unsettled
  <2>3. /\ delivery' = [delivery EXCEPT !.status = "reconciling", !.due = FALSE, !.owner = b]
        /\ Becomes(b, row)
    BY <1>2 DEF ClaimReconciliation, Becomes
  <2>4. /\ delivery' \in Delivery /\ delivery'.status = "reconciling" /\ ~delivery'.due
        /\ delivery'.owner = b /\ delivery'.generation = delivery.generation
    BY <2>3, TypeForm DEF IInv, Types, Delivery, Statuses, Unsettled
  <2>5. /\ row \in BridgeRow
        /\ \/ row = Idle
           \/ row.step = "search" /\ row.generation = delivery.generation /\ row.status = "reconciling"
    BY <2>1, BridgeValues, IdleRow DEF IInv, BridgeRow, Steps, Statuses, Unsettled
  <2>6. delivery'.generation >= delivery.generation
    BY <2>2, <2>4
  <2> HIDE DEF row
  <2> QED  BY <1>1, <2>1, <2>2, <2>3, <2>4, <2>5, <2>6, ClaimedInv
<1>3. CASE ~Reconcilable(b)
  BY <1>1, <1>3, EndsInv DEF ClaimReconciliation
<1> QED  BY <1>2, <1>3

LEMMA SearchInv == ASSUME IInv, NEW b \in Bridges, Search(b) PROVE IInv'
<1> DEFINE g == bridge[b].generation
<1>1. Working(b) /\ UNCHANGED <<item, delivery, poll, channel, air, late>>
  BY DEF Search, Working
<1>2. g \in Generations /\ channel[g] \in Nat
  BY <1>1, TypeForm DEF IInv, Types
<1>3. faults' \in 0 .. MaxFaults
  BY FaultBound, TypeForm DEF IInv, Types, Search
<1>4. CASE Found(g) /\ ToSettle(b, "delivered")
  <2>1. PICK row \in BridgeRow :
            /\ row.step = "settle" /\ row.status = bridge[b].status
            /\ row.generation = g /\ Becomes(b, row)
    BY <1>4, Rows DEF IInv, Outcomes
  <2> QED  BY <1>1, <1>3, <1>4, <2>1, BridgeInv DEF Found
<1>5. CASE ~Found(g) /\ Goes(b, "post")
  <2>1. PICK row \in BridgeRow :
            /\ row.step = "post" /\ row.status = bridge[b].status
            /\ row.generation = g /\ Becomes(b, row)
    BY <1>5, Rows DEF IInv, Steps
  <2>2. channel[g] = 0
    BY <1>2, <1>5 DEF Found
  <2> QED  BY <1>1, <1>3, <2>1, <2>2, BridgeInv
<1>6. CASE ToSettle(b, "reconcile_pending")
  <2>1. PICK row \in BridgeRow :
            /\ row.step = "settle" /\ row.status = bridge[b].status /\ row.outcome = "reconcile_pending"
            /\ row.generation = g /\ Becomes(b, row)
    BY <1>6, Rows DEF IInv, Outcomes
  <2> QED  BY <1>1, <1>3, <2>1, BridgeInv
<1> QED  BY <1>4, <1>5, <1>6 DEF Search

\* A message more in the channel or on its way, or none: the bridge that posted it settles.
LEMMA PostedInv ==
    ASSUME IInv, NEW b \in Bridges, bridge[b].step = "post", NEW outcome \in Outcomes,
           ToSettle(b, outcome), UNCHANGED <<item, delivery, poll>>, faults' \in 0 .. MaxFaults,
           outcome = "delivered" => channel' = [channel EXCEPT ![bridge[b].generation] = @ + 1],
           \/ /\ channel' = [channel EXCEPT ![bridge[b].generation] = @ + 1]
              /\ UNCHANGED <<air, late>>
           \/ UNCHANGED <<channel, air, late>>
           \/ /\ air' = [air EXCEPT ![bridge[b].generation] = @ + 1] /\ Late
              /\ UNCHANGED channel
    PROVE  IInv'
<1> DEFINE g == bridge[b].generation
<1>1. PICK row \in BridgeRow :
        /\ row.step = "settle" /\ row.version = bridge[b].version /\ row.status = bridge[b].status
        /\ row.generation = g /\ row.outcome = outcome
        /\ Becomes(b, row)
  BY Rows DEF IInv
<1>2. /\ bridge' \in [Bridges -> BridgeRow]
      /\ bridge'[b] = row
      /\ \A c \in Bridges \ {b} : bridge'[c] = bridge[c]
  BY <1>1, Moved DEF IInv
<1>3. Working(b) /\ g \in Generations
  BY TypeForm DEF IInv, Types, Working
<1>4. /\ channel' \in [Generations -> Nat] /\ air' \in [Generations -> Nat]
      /\ \A h \in Generations : channel[h] \in Nat /\ channel'[h] >= channel[h]
      /\ \A h \in Generations \ {g} : channel'[h] = channel[h] /\ air'[h] = air[h]
      /\ channel'[g] \in {channel[g], channel[g] + 1}
      /\ outcome = "delivered" => channel'[g] > 0
  BY <1>3, TypeForm DEF IInv, Types
<1>5. \A c \in Bridges : /\ Working(c)' <=> Working(c)
                         /\ bridge'[c].generation = bridge[c].generation
                         /\ bridge'[c].status = bridge[c].status
  BY <1>1, <1>2, <1>3 DEF Working
<1>6. late' \in 0 .. MaxLate
  BY FaultBound, TypeForm DEF IInv, Types
<1>7. TypeOK'
  BY <1>2, <1>4, <1>5, <1>6, TypeForm, TypeFormNext DEF IInv, Types
<1>8. SaidIsShown' /\ DeliveredIsShown'
  <2>1. \A h \in Generations : channel[h] > 0 => channel'[h] > 0
    BY <1>4
  <2>2. \A c \in Bridges \ {b} : bridge'[c].step \in {"settle", "again"} /\ bridge'[c].outcome = "delivered"
                                   => channel'[bridge'[c].generation] > 0
    <3>1. \A c \in Bridges : Working(c) => bridge[c].generation \in Generations
      BY TypeForm DEF IInv, Types
    <3> QED  BY <1>2, <2>1, <3>1 DEF IInv, SaidIsShown, Working
  <2>3. outcome = "delivered" => channel'[bridge'[b].generation] > 0
    BY <1>1, <1>2, <1>4
  <2>4. poll.delivery.generation \in 0 .. MaxAttempts
    BY RowValues DEF IInv, Delivery
  <2>5. poll.on /\ poll.delivery.status = "delivered" => channel'[poll.delivery.generation] > 0
    BY <2>1, <2>4, Numbers DEF IInv, SaidIsShown
  <2>6. DeliveredIsShown'
    BY <2>1, RowValues, Numbers, TypeForm DEF IInv, Types, DeliveredIsShown
  <2> QED  BY <1>1, <1>2, <2>2, <2>3, <2>5, <2>6 DEF IInv, SaidIsShown
<1>9. ReadsAreOlder'
  BY <1>1, <1>2 DEF IInv, ReadsAreOlder
<1>10. NothingAhead'
  <2>1. ~item.acked => g <= delivery.generation
    BY <1>3 DEF IInv, NothingAhead
  <2>2. delivery.generation \in Nat
    BY RowValues, Numbers DEF IInv
  <2> QED  BY <1>3, <1>4, <1>5, <2>1, <2>2, Numbers DEF IInv, NothingAhead
<1>11. OneWorks'
  <2>1. CASE late' # 0
    BY <2>1 DEF OneWorks
  <2>2. CASE late' = 0
    <3>1. late = 0 /\ air' = air
      BY <2>2, FaultBound DEF IInv
    <3>2. channel[g] = 0
      BY <3>1 DEF IInv, OneWorks
    <3>3. \A h \in Generations : channel'[h] <= 1 /\ air'[h] = 0
      BY <1>4, <3>1, <3>2 DEF IInv, OneWorks
    <3>4. \A c \in Bridges : bridge'[c].step # "post"
      BY <1>1, <1>2, <1>3, <3>1 DEF IInv, OneWorks, Working
    <3>5. \A c, d \in Bridges : Working(c)' /\ Working(d)' => c = d
      BY <1>5, <3>1 DEF IInv, OneWorks
    <3>6. \A c \in Bridges : Working(c)' /\ ~item.acked => Holder(c)' /\ ~delivery.due
      BY <1>5, <3>1 DEF IInv, OneWorks, Holder, Working
    <3> QED  BY <3>3, <3>4, <3>5, <3>6 DEF OneWorks
  <2> QED  BY <2>1, <2>2
<1> QED  BY <1>7, <1>8, <1>9, <1>10, <1>11 DEF IInv

LEMMA PostInv ==
    ASSUME IInv, NEW b \in Bridges, Post(b) \/ PostRefused(b) \/ PostUnanswered(b) PROVE IInv'
<1>1. faults' \in 0 .. MaxFaults
  BY FaultBound, TypeForm DEF IInv, Types, Post, PostRefused, PostUnanswered
<1>2. CASE Post(b)
  BY <1>1, <1>2, PostedInv DEF Post, Answered, Outcomes
<1>3. CASE PostRefused(b)
  BY <1>1, <1>3, PostedInv DEF PostRefused, Answered, Outcomes
<1>4. CASE PostUnanswered(b)
  <2>1. /\ bridge[b].step = "post" /\ ToSettle(b, "reconcile_pending")
        /\ UNCHANGED <<item, delivery, poll>>
    BY <1>4 DEF PostUnanswered, Answered, Unanswered
  <2>2. \/ /\ channel' = [channel EXCEPT ![bridge[b].generation] = @ + 1]
           /\ UNCHANGED <<air, late>>
        \/ UNCHANGED <<channel, air, late>>
        \/ /\ air' = [air EXCEPT ![bridge[b].generation] = @ + 1] /\ Late
           /\ UNCHANGED channel
    BY <1>4 DEF PostUnanswered
  <2> QED  BY <1>1, <2>1, <2>2, PostedInv DEF Outcomes
<1> QED  BY <1>2, <1>3, <1>4

LEMMA LandsInv == ASSUME IInv, NEW g \in Generations, Lands(g) PROVE IInv'
<1>1. UNCHANGED <<item, delivery, poll, bridge, faults, late>> /\ air[g] > 0
  BY DEF Lands
<1>2. /\ channel' \in [Generations -> Nat] /\ air' \in [Generations -> Nat]
      /\ \A h \in Generations : channel[h] > 0 => channel'[h] > 0
      /\ \A h \in Generations \ {g} : channel'[h] = channel[h] /\ air'[h] = air[h]
  BY TypeForm DEF IInv, Types, Lands
<1>3. TypeOK'
  BY <1>1, <1>2, TypeForm, TypeFormNext DEF IInv, Types, Working
<1>4. SaidIsShown' /\ DeliveredIsShown'
  <2>1. \A c \in Bridges : Working(c) => bridge[c].generation \in Generations
    BY TypeForm DEF IInv, Types
  <2>2. /\ poll.delivery.status = "delivered" => poll.delivery.generation \in Generations
        /\ delivery.status = "delivered" => delivery.generation \in Generations
    BY RowValues, Numbers, TypeForm DEF IInv, Types, Delivery, SaidIsShown
  <2> QED  BY <1>1, <1>2, <2>1, <2>2 DEF IInv, SaidIsShown, DeliveredIsShown, Working
<1>5. ReadsAreOlder'
  BY <1>1 DEF IInv, ReadsAreOlder
<1>6. NothingAhead'
  <2>1. air[g] # 0
    BY <1>1, TypeForm DEF IInv, Types
  <2> QED  BY <1>1, <1>2, <2>1 DEF IInv, NothingAhead, Working
<1>7. OneWorks'
  <2>1. late # 0
    BY <1>1, TypeForm DEF IInv, Types, OneWorks
  <2> QED  BY <1>1, <2>1 DEF OneWorks
<1> QED  BY <1>3, <1>4, <1>5, <1>6, <1>7 DEF IInv

LEMMA SettleInv == ASSUME IInv, NEW b \in Bridges, Settle(b) PROVE IInv'
<1>1. /\ UNCHANGED <<item, poll, channel, air, faults, late>> /\ Ends(b) /\ Working(b)
      /\ bridge[b].step \in {"settle", "again"}
  BY DEF Settle, Working
<1>2. CASE ~Settleable(b)
  <2>1. delivery' = delivery
    BY <1>2 DEF Settle
  <2>2. faults' \in 0 .. MaxFaults
    BY <1>1, TypeForm DEF IInv, Types
  <2> QED  BY <1>1, <2>1, <2>2, EndsInv
<1>3. CASE Settleable(b)
  <2>1. /\ bridge' \in [Bridges -> BridgeRow]
        /\ bridge'[b] = Idle
        /\ \A c \in Bridges \ {b} : bridge'[c] = bridge[c]
    BY <1>1, Rows, Moved, IdleRow DEF IInv
  <2>2. /\ bridge[b].generation = delivery.generation /\ bridge[b].generation \in Generations
        /\ bridge[b].outcome \in Outcomes
    BY <1>1, <1>3, TypeForm DEF IInv, Types, Settleable, Holder, BridgeRow
  <2>3. delivery' = [status |-> bridge[b].outcome, generation |-> delivery.generation,
                     due |-> FALSE, owner |-> NoBridge]
    BY <1>3 DEF Settle
  <2>4. /\ delivery' \in Delivery /\ delivery'.generation = delivery.generation
        /\ delivery'.status = bridge[b].outcome /\ delivery'.status # "none"
    BY <2>2, <2>3, RowValues DEF IInv, Delivery, Outcomes, Statuses, Unsettled
  <2>5. \A c \in Bridges : Working(c)' <=> Working(c) /\ c # b
    BY <1>1, <2>1, IdleRow DEF Working
  <2>6. TypeOK'
    <3>1. delivery'.generation # 0
      BY <2>2, <2>4, P0Assumption DEF Generations
    <3> QED  BY <1>1, <2>1, <2>4, <2>5, <3>1, TypeForm, TypeFormNext DEF IInv, Types
  <2>7. SaidIsShown' /\ DeliveredIsShown'
    BY <1>1, <2>1, <2>2, <2>4, IdleRow DEF IInv, SaidIsShown, DeliveredIsShown
  <2>8. ReadsAreOlder'
    BY <1>1, <2>1, IdleRow DEF IInv, ReadsAreOlder
  <2>9. NothingAhead'
    BY <1>1, <2>1, <2>4, <2>5 DEF IInv, NothingAhead
  <2>10. OneWorks'
    <3> SUFFICES ASSUME late = 0 PROVE OneWorks'
      BY <1>1 DEF OneWorks
    <3>1. \A c \in Bridges : ~Working(c)'
      BY <1>1, <2>5 DEF IInv, OneWorks
    <3>2. \A c \in Bridges : bridge'[c].step # "post"
      BY <3>1 DEF Working
    <3> QED  BY <1>1, <3>1, <3>2 DEF IInv, OneWorks
  <2> QED  BY <2>6, <2>7, <2>8, <2>9, <2>10 DEF IInv
<1> QED  BY <1>2, <1>3

LEMMA FailsInv == ASSUME IInv, NEW b \in Bridges, SettleFails(b) \/ Crash(b) PROVE IInv'
<1>1. /\ faults' \in 0 .. MaxFaults /\ UNCHANGED <<item, delivery, poll, channel, air, late>>
  BY FaultBound DEF IInv, SettleFails, Crash
<1>2. CASE Ends(b)
  BY <1>1, <1>2, EndsInv
<1>3. CASE /\ SettleFails(b) /\ Goes(b, "again")
           /\ bridge[b].step = "settle" /\ bridge[b].outcome = "delivered"
  <2>1. PICK row \in BridgeRow :
            /\ row.step = "again" /\ row.status = bridge[b].status /\ row.outcome = bridge[b].outcome
            /\ row.generation = bridge[b].generation /\ Becomes(b, row)
    BY <1>3, Rows DEF IInv, Steps
  <2>2. Working(b) /\ channel[bridge[b].generation] > 0
    BY <1>3 DEF IInv, SaidIsShown, Working
  <2> QED  BY <1>1, <1>3, <2>1, <2>2, BridgeInv
<1> QED  BY <1>2, <1>3 DEF SettleFails, Crash

LEMMA NextInv == IInv /\ [Next]_vars => IInv'
<1> SUFFICES ASSUME IInv, [Next]_vars PROVE IInv'  OBVIOUS
<1>1. CASE UNCHANGED vars
  <2>1. TypeOK'
    BY <1>1 DEF IInv, TypeOK, vars
  <2>2. SaidIsShown' /\ ReadsAreOlder' /\ DeliveredIsShown'
    BY <1>1 DEF IInv, SaidIsShown, ReadsAreOlder, DeliveredIsShown, vars
  <2>3. NothingAhead' /\ OneWorks'
    BY <1>1 DEF IInv, NothingAhead, OneWorks, Working, Holder, vars
  <2> QED  BY <2>1, <2>2, <2>3 DEF IInv
<1>2. CASE Next
  BY <1>2, RaiseInv, PollAckInv, ApplyAckInv, FallsDueInv, LandsInv, ListInv, ClaimInv,
     ClaimReconciliationInv, SearchInv, PostInv, SettleInv, FailsInv DEF Next, Sweep
<1> QED  BY <1>1, <1>2

-----------------------------------------------------------------------------
(* The theorems. *)

\* Every reachable state is well typed: no generation past the last one, whatever fails.
THEOREM TypesRight == Spec => []TypeOK
<1>1. IInv => TypeOK  BY DEF IInv
<1> QED  BY <1>1, InitInv, NextInv, PTL DEF Spec

\* What is recorded as delivered is in the channel, also after an acknowledgement has written
\* an older record back.
THEOREM RecordedIsShown == Spec => []DeliveredIsShown
<1>1. IInv => DeliveredIsShown  BY DEF IInv
<1> QED  BY <1>1, InitInv, NextInv, PTL DEF Spec

\* Any number of bridges, refusals, lost answers and crashes posts no generation twice, unless
\* a message or the end of a lease came late.
THEOREM PostedOnce == Spec => []DuplicateOnlyWhenLate
<1>1. IInv => DuplicateOnlyWhenLate  BY DEF IInv, OneWorks, DuplicateOnlyWhenLate
<1> QED  BY <1>1, InitInv, NextInv, PTL DEF Spec

THEOREM AckSilences == Spec => SilentAfterAck
<1> DEFINE A == item.acked /\ delivery'.status \in {"claimed", "reconciling"}
                   => delivery'.status = delivery.status
<1>1. IInv /\ [Next]_vars => [A]_vars
  <2> SUFFICES ASSUME IInv, Next, item.acked PROVE A
    OBVIOUS
  <2>1. delivery' = delivery => A
    OBVIOUS
  <2>2. CASE ApplyAck
    <3>1. item.version # poll.version
      BY <2>2, RowValues, Numbers DEF IInv, ReadsAreOlder, ApplyAck
    <3> QED  BY <2>1, <2>2, <3>1 DEF ApplyAck
  <2>3. CASE FallsDue
    <3>1. delivery'.status = delivery.status
      BY <2>3, TypeForm DEF IInv, Types, Delivery, FallsDue
    <3> QED  BY <3>1
  <2>4. ASSUME NEW b \in Bridges, NEW lost \in BOOLEAN, Claim(b, lost) \/ ClaimReconciliation(b, lost)
        PROVE  A
    <3>1. delivery' = delivery
      BY <2>4, NoClaimAfterAck DEF Claim, ClaimReconciliation, Claimable, Reconcilable
    <3> QED  BY <2>1, <3>1
  <2>5. ASSUME NEW b \in Bridges, Settle(b) PROVE A
    <3>1. CASE Settleable(b)
      <4>1. bridge[b].outcome \notin {"claimed", "reconciling"}
        BY BridgeValues DEF IInv, BridgeRow, Outcomes
      <4> QED  BY <2>5, <3>1, <4>1 DEF Settle
    <3>2. CASE ~Settleable(b)
      BY <2>1, <2>5, <3>2 DEF Settle
    <3> QED  BY <3>1, <3>2
  <2>6. CASE \/ Merge \/ Resolve \/ AskAck \/ PollAck \/ \E g \in Generations : Lands(g)
    BY <2>1, <2>6 DEF Merge, Resolve, AskAck, PollAck, Lands
  <2>7. ASSUME NEW b \in Bridges,
               \/ List(b) \/ Search(b) \/ Post(b) \/ PostRefused(b) \/ PostUnanswered(b)
               \/ SettleFails(b) \/ Crash(b)
        PROVE  A
    BY <2>1, <2>7 DEF List, Search, Post, PostRefused, PostUnanswered, Answered, SettleFails, Crash
  <2> HIDE DEF A
  <2> QED  BY <2>2, <2>3, <2>4, <2>5, <2>6, <2>7 DEF Next, Sweep
<1> QED  BY <1>1, InitInv, NextInv, PTL DEF Spec, SilentAfterAck

\* A generation is new when it is claimed: no message of it is in the channel or under way.
THEOREM ClaimedIsFresh == Spec => FreshGeneration
<1> DEFINE A == delivery'.status = "claimed" /\ item' = item /\ delivery'.generation # delivery.generation
                   => channel[delivery'.generation] = 0 /\ air[delivery'.generation] = 0
<1>1. IInv /\ [Next]_vars => [A]_vars
  <2> SUFFICES ASSUME IInv, Next, item' = item, delivery'.generation # delivery.generation
               PROVE  channel[delivery'.generation] = 0 /\ air[delivery'.generation] = 0
    BY DEF vars
  <2>1. ~ApplyAck
    <3>1. ASSUME ApplyAck PROVE FALSE
      <4>1. item' # item
        <5>1. item.version \in Nat /\ item \in ItemRow
          BY RowValues, Numbers, TypeForm DEF IInv, Types
        <5>2. delivery' # delivery
          OBVIOUS
        <5>3. item'.version = item.version + 1
          BY <3>1, <5>1, <5>2 DEF ApplyAck, ItemRow
        <5> QED  BY <5>1, <5>3
      <4> QED  BY <4>1
    <3> QED  BY <3>1
  <2>2. ~FallsDue
    BY TypeForm DEF IInv, Types, Delivery, FallsDue
  <2>3. ASSUME NEW b \in Bridges, NEW lost \in BOOLEAN, Claim(b, lost)
        PROVE  channel[delivery'.generation] = 0 /\ air[delivery'.generation] = 0
    <3>1. Claimable(b) /\ bridge[b].step = "listed" /\ delivery'.generation = bridge[b].generation + 1
      BY <2>3 DEF Claim
    <3>2. ~item.acked
      BY <3>1, NoClaimAfterAck DEF Claimable
    <3>3. delivery'.generation = delivery.generation + 1 /\ delivery.generation < MaxAttempts
      BY <3>1 DEF Claimable, SameGeneration, IsDue, Retriable, Unsettled
    <3>4. delivery'.generation \in Generations /\ delivery'.generation > delivery.generation
      BY <3>3, RowValues, P0Assumption DEF IInv, Generations
    <3> QED  BY <3>2, <3>4 DEF IInv, NothingAhead
  <2>4. ASSUME NEW b \in Bridges, NEW lost \in BOOLEAN, ClaimReconciliation(b, lost) PROVE FALSE
    BY <2>4, TypeForm DEF IInv, Types, Delivery, ClaimReconciliation
  <2>5. ASSUME NEW b \in Bridges, Settle(b) PROVE FALSE
    BY <2>5, TypeForm DEF IInv, Types, Delivery, Settle
  <2>6. ~(\/ Merge \/ Resolve \/ AskAck \/ PollAck \/ \E g \in Generations : Lands(g))
    BY DEF Merge, Resolve, AskAck, PollAck, Lands
  <2>7. ASSUME NEW b \in Bridges,
               \/ List(b) \/ Search(b) \/ Post(b) \/ PostRefused(b) \/ PostUnanswered(b)
               \/ SettleFails(b) \/ Crash(b)
        PROVE  FALSE
    BY <2>7 DEF List, Search, Post, PostRefused, PostUnanswered, Answered, SettleFails, Crash
  <2> QED  BY <2>1, <2>2, <2>3, <2>4, <2>5, <2>6, <2>7 DEF Next, Sweep
<1> QED  BY <1>1, InitInv, NextInv, PTL DEF Spec, FreshGeneration

\* Unless a message or a bridge was late, the conditional writes of the claim functions let one
\* bridge work on a P0 at a time, on a record that is its own, however many sweep at once.
THEOREM OneBridgeWorks == Spec => []OneWorks
<1>1. IInv => OneWorks
  BY DEF IInv
<1> QED BY <1>1, InitInv, NextInv, PTL DEF Spec
=============================================================================
