# Formal models of the Village operations system

The repository runs the back office of an equipment-rental shop: a Google Apps Script backend over spreadsheets, a Supabase database, a Next.js dashboard used on phones, a bridge process (`tools/kakao-dom-bridge/server.mjs`) beside the KakaoTalk window, and Slack as the staff's inbox. What can go wrong in ways tests hardly reach lies in the parts that keep durable state between processes that die, repeat themselves and overlap. Two such parts are modelled here: **Work Orchestrator v2** (digests, work items, P0 notices) and the **full-shop inventory audit** (sessions, photos, the mirror into the sheet); the others follow the plan below.

Paths without a prefix are relative to the repository root; `migrations/` is `supabase/migrations/`, `wo/` is `tools/work-orchestrator-v2/`.

## 1. Inventory

| Component | State | Operations | What is hard | What makes it correct |
|---|---|---|---|---|
| Digest tables (`migrations/20260829030730_…foundation.sql`) | `digest_runs`, `digest_message_parts`, counters of `work_items_v2` | claim, recovery claim, prepare, claim and settle a part, diverge, fail, finalize, list, claim and record cleanups | leases that run out under a working holder, several generations per slot, answers lost after a commit | attempts are counted once, published evidence is final, the replacement chain stays linear, cleanup never takes the newest digest |
| Digest runner (`wo/digest-runner.mjs`, `wo/slack-client.mjs`) | locals of one cycle, Slack's channel | `runDigestCycle`: recovery window, current window, delivery, reconciliation, cleanup backlog | crash between post and record, ambiguous Slack answers, messages that appear late, two processes | one message per attempt, complete digests, the previous digest goes and the new one stays |
| Digest scheduler (`server.mjs:1462-1660`) | timer, schedule gate, one flag | start a cycle | restarts overlap | one cycle per process |
| Work items (`foundation.sql`, `…heybilli_inbox.sql`, `…heybilli_completion.sql`, `wo/work-items.mjs`, `wo/work-actions.mjs`) | `work_items_v2`: state, priority, pending action, version | merge of source events, owner requests, completion, automation, action poller, regrouping | stale screens, late or repeated events, two pollers, the clock ending snoozes | nobody acts on what he has not seen, closed stays closed, a P0 is not hidden unacknowledged |
| P0 delivery (`…p0_delivery.sql`, `…p0_reconciliation.sql`, `server.mjs:3099-3400`) | `payload.p0_delivery`: generation, attempt, reconciliation lease | claim, settle, claim reconciliation, settle it | ambiguous posts, leases, acknowledgement in between | at most three generations, none claimed after an acknowledgement, no second post of one unless its message was late, a P0 left alone is shown and repeated |
| Immediate notices and their cleanup (`wo/immediate-notifications.mjs`, `wo/notice-cleanup.mjs`) | notification receipts | switched off in both operating modes (`wo/contracts.mjs:162-181`) | – | – |
| Owner cases, language, fresh start (later migrations) | payload fields, archive | regroup, rewrite, archive | version compare | regrouping never disturbs a pending action |
| Gateway channel (`tools/kakao-dom-bridge/hermes-gateway-channel.mjs`) | job files with leases and revisions | submit, claim, supersede, report, apply, recover | a newer revision under a leased job, restart between claim and side effect | a superseded job applies nothing, a side effect is applied once |
| Bridge intake, recovery relay, audit | queues on disk and in Supabase | intake, hold, relay | mostly I/O around the gateway | – |
| Inventory audit, offline queues (`apps/today-dashboard/lib/inventory-audit/offline.ts`, `evidenceQueue.ts`) | IndexedDB queues | – | no component imports them, only tests do | – |
| Inventory audit, sessions (`migrations/20260714093945_…`, `20260715…`, `components/inventory-audit/`) | sessions, snapshots, observations, decisions, confirmations, the equipment ledger | start, save, delete, submit, cancel, confirm items, review, recount, approve | screens that are old, counting beside confirming, ledger writes by others | a decision is made on the whole count and the ledger row the owner was shown, what was confirmed is not overruled |
| Inventory audit, photos (`full_inventory_audit.sql`, `lib/inventory-audit/evidence.ts`) | `evidence_refs`, a private bucket | reserve, upload, complete; abort, remove, finalize | two stores without a common transaction, handlers that die or overlap, uploads that land late | an uploaded photo has its object, a discarded one does not, nothing moves after the submission |
| Inventory audit, mirror (`migrations/20260714093951_…`, `lib/server/inventoryAuditMirrorCore.mjs`) | attempts with a ten-minute lease, the sheet | claim, read, write through a script, read again, complete, fail | a script that outlives its call, an HTTP error that hides it, ledger rows written between two reads | but for such a hidden script the sheet never goes back and synced means equal |
| Completion state (`migrations/20260731041845_…`, `20261104003832_…`) | flags with revisions | toggle, mirror | toggles out of order | older revisions never win |
| Kit packing (`migrations/2026102810…`, `lib/data/packingCheckQueue.ts`) | versioned manifest, client queue | check, edit, confirm, reconcile | unknown outcome with further checks queued | the confirmed manifest is the checked one |
| Photo upload queue (`lib/data/photoUploadQueue.ts`) | IndexedDB jobs | enqueue, claim, upload, retry | replay after a lost answer | one photo per client key |
| Dashboard store and writeback, GAS backend, payments, guides, radars | sheets and UI state | many handlers | one script lock; data rules | rules over rows rather than protocols |
| Local clerk, Toss plug-in, Slack syncs, reconciliation, watcher extension, user interfaces | – | – | I/O, screens, third-party SDKs | – |

**Interaction.** Source events (Kakao, Gateway, automation) are merged into work items. A runner lists actionable items, prepares a digest over their versions, posts it to Slack part by part, finalizes it (counting the items it shows) and takes the previous digest down. While a prepared digest is unfinished it *bars* owner actions on the versions it shows. Owners act from the Heybilli screen or a Slack button; the action is stored on the row with a version and applied later by the bridge's poller. P0 items are escalated separately until acknowledged: a bridge posts notices and keeps the record in the item's payload, which the acknowledgement writes back as a whole. In an inventory audit staff count a draft on their phones, photos go to a bucket beside it, the owner confirms or approves on a screen, the approval writes the equipment ledger, and the dashboard's server carries the ledger over to the sheet.

`PROJECT.json` lists every component with its status and each hazard with its line and the properties that cover it.

## 2. Plan

1. `DigestStore`, `DigestRun`, `DigestBoard`: tables, runner, abstract promise. **Done.**
2. `WorkItem`: life cycle of an item, its actors and the action poller. **Done.**
3. `P0Delivery`: notices of a P0 item. **Done.**
4. `AuditSession`, `AuditEvidence`, `AuditMirror`: the inventory audit. **Done.**
5. `GatewayChannel`: job files, superseding revisions, application claims. Abstract promise: a superseded job applies nothing, a side effect is applied once.
6. `CompletionState` and `KitPacking`, with an abstract "last revision wins" register for each to implement.
7. `WorkItem` composed with `DigestStore`: the barrier of an abandoned digest, counters against concurrent merges.
8. Proofs: every safety property of every run, and the refinement of `DigestBoard`. **Done**; the modules of 5 to 7 bring theirs.

## 3. Modules

### DigestStore, DigestRun, DigestBoard

`DigestStore` has the tables. `run[<<slot, generation>>]` is a row of `digest_runs` (`state`, `live` and `token` for the lease, `manifest`, `prev` for `previous_digest_run_id`), `part[rid][p]` a row of `digest_message_parts` (delivery, attempts, retry, coordinate, cleanup and its lease), `item[w]` the version and the inclusion counter of a work item. Each SQL function is one operator named after it (`ClaimDigestRun`, `PrepareDigestParts`, `ClaimDigestPartDelivery`, …, `RecordDigestPartCleanup`); a function is one transaction, so one step. Its guards are the function's `where` clauses and early returns, including the retire loop inside finalize and record. An exception leaves the store as it is.

`DigestRun` has the runners. `rn[r]` is the program counter and the locals of `runDigestCycle`; one action is one `await`: a store or Slack call with what the runner does with its answer. `Call` gives a store call its three outcomes (answered; committed with the answer lost; not executed). `Post` and `Search` give Slack's: posted, refused, rate-limited, ambiguous with the message posted, not posted, or posted later (`inflight`, `LateMessage`). `Crash` drops the locals at any await. The database clock enters as `ExpireLease`, `ExpireCleanup` and `RetryDue`; reports are read in `ReadReport` and may change between two claims of a slot (`Manifests` abstracts their content: how many parts, which items). The scheduler (`digestRunning`, 60 s timer, `cleanupEnabled` as in the v2 mode) is `StartCycle`: one cycle per runner at a time, any number in a row. Slack is modelled as not removing duplicates by `client_msg_id`, which is what the runner's own search is for.

`DigestBoard` is the promise to the channel's reader: a digest is planned once, its messages are pinned, it is published only when all are there, and a message comes down only after a later digest is published. `DigestRun` implements it under the mapping at the end of `DigestRun.tla` (property `BoardKept`, which is also proved).

### WorkItem

`item[w]` is the row of a `work_key`: state, priority rank, acknowledgement, latest activity (which stands for title, summary and payload of the freshest event), version and pending action. `over` and `late` say that the clock has passed `snoozed_until` and the deadline of a pending snooze. `view[a]` is what a screen or an automation job last read, `batch[p]` the rows a poller has read and not yet processed. `saw` is auxiliary: what the last accepted asker had seen.

| Action | Code |
|---|---|
| `Merge` | `upsert_work_item_v2` (`foundation.sql:299-533`; the later wrappers, `inbox.sql:216` and `…semantic_owner_cases.sql:36`, validate and add payload in the same transaction) |
| `Request`, `Complete` | `request_work_item_action_v2` (`inbox.sql:255`), `complete_heybilli_work_item_v2` |
| `ResolveWork`, `MarkAutomation` | `transitionWorkAutomation` (`wo/supabase-store.mjs:1706`) |
| `Regroup` | the update of `reconcile_heybilli_owner_cases_v2` |
| `Poll`, `Apply`, `FailPoll` | `createWorkOrchestratorActionPoller` (`server.mjs:1183`), `processPendingWorkAction` and `applyWorkAction`, and the conditional PATCH of `applyPendingWorkActionPatchV2` |
| `Look` | the listing the screen shows, or the row returned to a worker |
| `DigestShows`, `DigestEnds` | the barrier of an unfinished prepared digest, raised and lowered by the environment |
| `SnoozeEnds`, `DeadlinePasses` | the clock |

### P0Delivery

One P0 item. `delivery` is `payload.p0_delivery`: its status, generation, whether its time has come (`due`: ten minutes after opening, `next_at`, or the end of the lease) and who holds a reconciliation. `bridge[b]` is where a sweep is and what it listed: `List`, then `Claim` and `Post`, or `ClaimReconciliation`, `Search` and `Post`, then `Settle` and its one repetition (`server.mjs`, the sweep of P0 notices). `PollAck` and `ApplyAck` are the poller of `WorkItem` seen from here: the acknowledgement writes back the whole payload it read, under a version that claims and settlements do not raise. `channel` and `air` are Slack: a message is there, or comes later. `late` counts the two things no code can exclude: a message that appears after the search for it, and a lease that runs out under a bridge still working.

The claim functions' due test is made at the clock of the step instead of the sweep's, which only allows more; a reconciliation token is its holder, since a bridge holds one at a time.

### AuditSession

`ledger[i]` is the version of an equipment row and what wrote it, `sess[s]` a session with snapshot, decisions and confirmations, `obs[o]` an observation, `screen[k]` what an owner's screen loaded. Quantities are versions: the properties ask which row a decision was made on and which it replaces. Each database function of the three migrations is one action under its name; `StaffWrite` obeys the row-level policy of an open draft, `ServiceWrite` (stock messages) does not. The phone rebases a save that is refused as stale on the row it finds (`InventoryAuditMvp.tsx`), so any save may follow any other.

A confirmation keeps four things: the ledger row it replaced (`before`) and the one the screen showed (`shown`), the observations the screen's totals were taken from (`rows`) and those of the moment, which the function names as its source in the ledger (`source`). The code compares the first two by way of the snapshot; it compares nothing of the last two: the screen always sends the totals it loaded (`InventoryAuditReview.tsx:123-131`), the route prefers them to its own (`checkpoint/route.ts:96-102`), and `approve_inventory_audit_items` writes them. So a count edited between the load and the confirmation is overruled unseen, and then locked. The model reaches such states, and no property denies them: `ConfirmedRowsStay` is about `source` after the confirmation, and `DecidedOnAllRows` about the review, where a screen that may decide holds the final count.

### AuditEvidence

`ref[p]` is the entry of photo `p` in `evidence_refs`, `object[p]` its object, `flying[p]` an upload storage still works on, `call[c]` a request handler at one of its steps, `form[f]` a form on a phone. POST goes `Reserve`, `Upload`, `Complete` (or `Discard`); DELETE goes `Abort`, `Remove`, `Finalize`; every database function and every storage request is one action, `Die` ends a handler between two of them. The form draws a fresh id for each try, as the page does.

### AuditMirror

`attempt[a]` is a row of the delivery table, `handler[a]` the request that works on it (claim, page-by-page reads of the ledger, diff, write, second read, complete or fail), `script[a]` the sheet's script, elsewhere: `Begin` takes the lock of the sheet's scripts or gives up (`sheetAPI.js:2473-2475`), `Write` writes one row, `Stop` ends it anywhere. Its call ends in one of three ways. `Answer` comes when the script is over. `BreakOff` is a call without an answer: the lease is kept, and `LeaseExpires` waits for handlers (45 s) and scripts (6 min), which are over within its ten minutes. `Refused` is an HTTP error or an answer that cannot be read, which may come at any moment, while the script waits or writes too: the code takes it for the end of the write, fails the attempt and frees the lease (`inventoryAuditMirrorCore.mjs:371-378`, `mirror/route.ts:200-211`).

After `Refused` the code has no hold on that script. Its rows may come while the next attempt reads, writes or verifies, or after it was completed, and then the sheet goes back under a synced session. The three properties say how far this reaches: `late` collects what a script wrote after its call was refused early and its lease given up, `Stray(i)` is a row that shows such a write, and only stray rows may be wrong. Every other script, also one that outlives its call or was stopped between two rows, is held to the full promise; without the exemption TLC finds all three properties violated. The sheet's other writers (Slack notes, stock confirmations, people) are not in the model: what is shown of the sheet is what the mirror does to it.

## 4. Runs

| Run | What it shows | Instance | States |
|---|---|---|---|
| `digest_runners` | Two runners overlapping: `TypeOK`, `NewestDigestShown`, `OneAttemptOnePost`, `CountedOncePublished`, `EvidenceIsFinal` | 2 runners, 2 slots, 2 attempts, 2 faults | 831,886 |
| `digest_history` | Reports that change under a slot, and digests of two parts: `OneOpenGeneration`, `CleanedIsGone`, `ReplacedIsGone`; refinement of `DigestBoard` (`BoardKept`); liveness `PredecessorCleaned`, `LastDigestDelivered` | 1 runner, 2 slots × 2 generations, 3 manifests, one version of the item, 1 fault | 24,805 |
| `digest_duplicate` | **Violated**: `NoDuplicatePost` | 1 slot, 2 faults | – |
| `digest_orphan` | **Violated**: `AtMostOneCurrentDigest` | 2 slots, 1 fault | – |
| `work_items` | `TypeOK`, `HiddenP0IsAcknowledged`, `HiddenWasSeen`, `ClosedIsFinal`, `SnoozeKept`; liveness `AcceptedIsProcessed` | 1 item, 1 owner, 1 automation, 2 pollers, versions to 4 | 171,978 |
| `work_stranded` | **Violated**: `AcceptedIsApplied` | 1 poller, versions to 4 | – |
| `p0_delivery` | `TypeOK`, `DuplicateOnlyWhenLate`, `DeliveredIsShown`, `FreshGeneration`, `SilentAfterAck`; liveness `NoticeAppears`, `RemindersRepeat` | 2 bridges, 3 generations, versions to 3, 1 fault, 1 late event | 925,602 |
| `audit_sessions` | `TypeOK`, `OneDraft`, `DraftFreezesStaff`, `ConfirmedRowsStay`, `ConfirmedAsShown`, `ConfirmationStands`, `DecidedOnAllRows`, `SubmittedCountStays` | 2 items, 2 observations saved twice, 2 sessions, 1 screen, 1 outside write | 1,362,164 |
| `audit_overwrite` | **Violated**: `AppliedAsShown` | as above, observations saved once | – |
| `audit_evidence` | `TypeOK`, `UploadedIsStored`, `DiscardedIsRemoved`, `SubmittedPhotosStay` | 2 photos, 1 form, 2 handlers, 2 faults | 39,747 |
| `audit_stuck` | **Violated**: `NothingUnsentBlocks` | 1 fault | – |
| `audit_mirror` | `TypeOK`, `ApprovedReachedSheet`, `SyncedMatches`, `SheetNeverGoesBack` | 2 items, 2 sessions, 2 attempts, versions to 3, 2 faults | 2,739,838 |

**Disagreements with the documents.** (1) `digest_duplicate`: after an ambiguous post whose search errs or comes too early, the part is settled as failed and posted again without a search; the design says an ambiguous post is reconciled before a retry and not duplicated. (2) `digest_orphan`: a digest posted but not finalized before its slot passes is nobody's predecessor and stays beside the next one. (3) `work_stranded`: a source event merged between an accepted owner action and the poll raises the version, so the action is pending for ever and no poll reads it again. (4) `audit_stuck`: a photo whose upload failed leaves a pending reference, the next try uses a fresh id and nothing discards the old one, so the draft can be neither submitted nor cancelled. (5) `audit_overwrite`: saving the review stamps the ledger row of that moment, so the approval replaces a row written after the one the owner was shown, where the design asks for a conflict. `PROJECT.json` quotes the lines.

One more is not a run of its own: `test/inventoryAuditMirrorRoute.test.js:108` says that outcome-unknown write failures preserve the active lease, while an HTTP error to the write, whose outcome is as unknown, does not; the exemption in the properties of `audit_mirror` (section 3) is its effect.

**Bounds.** `MaxSlot`, `MaxGen`, `MaxAttempts`, `MaxParts`, `MaxTime`, `MaxStamp`, `MaxVersion`, `MaxSessions` and `MaxWrites` cap counters in guards; `MaxFaults` is a budget of failures, crashes and lost answers, `MaxLate` one of the two late events of `P0Delivery`. Two slots and two generations give every link of the replacement chain an older and a newer end; digests of two parts appear in `digest_history`, where completeness is the question. Two faults allow a failure while recovering from one. The code's three digest attempts are two in the runs: the third differs from the second only in being the last, which `MaxAttempts` is; the three generations of a P0 are three.

Two cases lie outside the instances. An item that changes under a digest, so that finalize raises, is reached in `digest_runners` (safety) but not in `digest_history` (liveness), where a second version makes the check too long. Three refused posts of one P0, after which it is silent, need three faults; `p0_delivery` has one, and its liveness properties exempt a P0 whose generations are used up.

Items of `WorkItem` do not interact except through a digest, so one suffices; four versions allow look, request, merge and application in any order. Two bridges, handlers or attempts are an old and a new one; two items in the audit are one that is confirmed and one that is not. Every safety property that a passing run checks, and the refinement, is also proved for every bound (section 5).

`CHECK_DEADLOCK FALSE` is used in the runs of `WorkItem`, `P0Delivery`, `AuditSession` and `AuditMirror`, where a closed item, a silenced notice, approved sessions or spent attempts and bounds really end everything.

**Fairness.** A digest runner's own next step is weakly fair (the 60 s timer starts a cycle, every call has a time-out) and the clock passes leases and retry times; nothing forces time's ticks, reports, faults or Slack's late messages. In `WorkItem` only the pollers are fair (their `setInterval` in `server.mjs:7011-7014`); owners, automations and sources may stay silent. `AcceptedIsProcessed` speaks of an accepted action *nothing overtakes*; `AcceptedIsApplied` is the stronger sentence of the document and fails. In `P0Delivery` each bridge's sweep is weakly fair (`server.mjs:7022-7025` starts it again and again) and so is the clock (`FallsDue`); faults, acknowledgements and source events are not. The audit modules state no fairness: people count, review and press the button when they like, and the code retries nothing by itself.

## 5. Proofs

All theorems hold for every value of the constants allowed by the named assumptions: `StoreAssumption` and `RunnerAssumption` (finitely many runners and tokens, with more tokens than leases a slot and its runners can remember, which is what a fresh uuid amounts to), `WorkAssumption`, `P0Assumption`, `AuditAssumption`, `EvidenceAssumption` and `MirrorAssumption` (the bounds are numbers, the special values are not among the ordinary ones).

* `DigestRunProofs`: `TypeCorrect`. Types alone are not inductive: a runner at a call must have a claimed run in its locals, so `TypeInv` adds `Focused`. The lemmas follow the calls; the interesting ones say that a predecessor exists whenever one is chosen (a finite set of runs has a latest member) and that a token is left to draw.
* `DigestHistoryProofs`: `GenerationsInOrder` (`OneOpenGeneration`) and `EvidenceStaysFinal` (`EvidenceIsFinal`). Every step either `Evolves` the rows (an open row moves on, evidence kept) or `Begins` a generation; `HistoryInv` has three parts: `Blank` (absent rows are empty), `Settled` (a diverged generation has no attempt open) and `OneOpenGeneration`. `Settled` is what makes the third inductive: without it a diverged generation could still be settled under its successor.
  The same description of a step gives `ChainInOrder` (the links of the chain lead back, to the diverged generation before or to a published digest of an earlier slot; no run states it): links are set when a generation begins and lead to a row that is already closed or diverged, and closed rows do not reopen. With it, `RetireLoopResult` shows that the retire loops, which the code runs row by row, end in the set that the model's `Retire` computes at once, whatever their order: among the rows wrongly left over one would have no other below it, and so could be retired.
* `DigestChannelProofs`: `NoAttemptPostedTwice` (`OneAttemptOnePost`), `CountsPublishedOnly` (`CountedOncePublished`), `CleanedMessagesGone` (`CleanedIsGone`), `ReplacedMessagesGone` (`ReplacedIsGone`), `NewestStaysShown` (`NewestDigestShown`), the refinement `BoardImplemented` (`BoardKept`), and three statements no run makes: `OnlyOlderDeleted` (no step takes a message out of the channel but the recorded one of a digest older than a published one, which `BoardKept` does not say of messages that are not recorded), `DuplicatesBounded` (a part has at most as many messages as attempts, so what `digest_duplicate` shows is bounded) and `RecordedIsThere` (a recorded message stays until a later digest is published). `Next` has many calls, each with several outcomes, so the proof first shows (`StepMoves`) that every step is one of the few things `Moves` allows it to do to runs, parts, items, channel and runners; then each part of the invariant is kept by any step so described, and each kind of step is a step of the board or a stutter. The invariant `ChannelInv` has these parts besides the properties themselves:
  - `Sent`: whatever is in the channel or may still come carries an attempt the table has counted. This is what makes a freshly claimed attempt new.
  - `Apart`: a message is not both there and on its way.
  - `Laid`: the parts are those of the manifest, and nothing is sent before it.
  - `Recorded`: a stored coordinate is spent (no message with it can come any more) and in the channel until a cleanup is claimed. Without "spent" a late message could undo a recorded deletion.
  - `CleanedLate`, `Complete`, `Emptied`: only closed digests older than a published one are cleaned, published ones have all parts recorded, replaced and retired ones have none left.
  - `Working`: a runner about to record a coordinate saw the message, one about to delete works on a claimed part, one about to record a deletion saw the message go. It carries what was true at one await to the call after the next.
* `WorkItemProofs`: `TypeCorrect`, `P0StaysInSight` (`HiddenP0IsAcknowledged`), `HidersSaw` (`HiddenWasSeen`), `ClosedStays` (`ClosedIsFinal`), `SnoozeStays` (`SnoozeKept`), and `VersionTellsApart` (`Copied` and `Viewed` below). The inductive invariant `IInv` adds to the types that a poller's copy and a screen agree with the row as long as the versions are equal (`Copied`, `Viewed`) and that the asker of an action that can still be processed had seen what the row holds (`Sawn`). The key lemma `StepMoves` shows that a step leaves an item as it is or moves it in one of six ways, and `MovedRow` that each of them raises the version; stale knowledge therefore never compares equal.
* `P0DeliveryProofs`: `TypesRight`, `RecordedIsShown` (`DeliveredIsShown`), `PostedOnce` (`DuplicateOnlyWhenLate`), `AckSilences` (`SilentAfterAck`), `ClaimedIsFresh` (`FreshGeneration`), and `OneBridgeWorks` (`OneWorks` below). `SaidIsShown` says that a bridge, or a payload the poller carries, that says delivered is right; `ReadsAreOlder` that whoever read the row before the acknowledgement was applied holds an older version than the row's; `NothingAhead` that until the acknowledgement a generation that was not claimed has left no trace; `OneWorks` that as long as nothing was late a bridge at work is the only one and, unacknowledged, the record is its own.
* `AuditSessionProofs`: `TypesRight`, `DraftIsOnly` (`OneDraft`), `StaffIsHeld` (`DraftFreezesStaff`), `RowsStay` (`ConfirmedRowsStay`), `OwnerSawConfirmed` (`ConfirmedAsShown`), `ConfirmedForGood` (`ConfirmationStands`), `WholeCountDecided` (`DecidedOnAllRows`), `SubmittedIsFinal` (`SubmittedCountStays`). The properties need each other and two facts about screens. `ScreenShowsSnapshot`: the snapshot of an item moves with its confirmation only, so whoever may still confirm it shows the row the database compares. `ReviewIsFinal`: a screen that may review loaded the session after its draft, which never comes back, and so holds its final count and all its confirmations. `DraftIsUndecided` keeps decisions out of drafts, `UnstartedIsBlank` whatever a number not yet given could carry.
* `AuditEvidenceProofs`: `TypesRight`, `UploadedStays` (`UploadedIsStored`), `DiscardsTakeDown` (`DiscardedIsRemoved`), `SubmittedStays` (`SubmittedPhotosStay`). `RemoversSawTombstone` says that only a handler past a tombstone, which is final, takes an object down; `PastDraftSettled` that a session that has left its draft has nothing half done for the functions that do not look at it.
* `AuditMirrorProofs`: `TypesRight`, `ApprovedReaches` (`ApprovedReachedSheet`), `SheetStaysForward` (`SheetNeverGoesBack`), `SyncedShowsLedger` (`SyncedMatches`), and `OneMirrorWorks` (the first two of what follows). `OneHolder` says that at most one attempt holds the lease, `WorkersHold` that whoever reads or writes the sheet does, but for a script that was refused early. `StepsFit` ties a script to its handler's step; `SheetBehind`, `ApprovedBehind` and `ReadBehind` say that neither the sheet, nor an approval, nor what was read is ahead of the ledger. `CarriesSheet`, `CarriesNewest` and `CarriesApproved` say that what a holder read of the ledger, and writes or will write, is no older than what the sheet shows, than what any script still at work carries, and than what a synced session approved; the second keeps the first when a refused script writes. `VerifiedStays` says that a sheet found equal stays so until the attempt is completed. Only it and the properties need the exception of `Stray` rows: the proofs show that a refused script spoils the rows it writes and no others.

Every strengthening, and the statements that no run makes, were first checked by TLC on the instances of the component's runs.

**Only model-checked.** Liveness (`PredecessorCleaned`, `LastDigestDelivered`, `AcceptedIsProcessed`, `NoticeAppears`, `RemindersRepeat`): the proof system does not reason about fairness. The five sentences of the documents that the code does not keep are refuted by TLC's counterexamples. What the proofs take from `Retire` is its definition as the union of retirable sets; that this union is the end of the loop is proved for a chain that leads back (`RetireLoopResult`), while that the loop terminates is plain (each round retires a row) and not stated.

## 6. Not modelled

* Text: message rendering, payload fields, summaries, categories, order of listings. A digest is the number of its parts and the items it shows.
* `cleanupEnabled = false`, immediate notices and notice cleanup: off in every configuration the cutover contract accepts.
* The poller's limit of ten rows per poll, and several rows per `work_key` (a closed row is final, so a key never gets a second one through the merge).
* Search windows and history paging of Slack: a search finds a message that is there, or errs.
* The limit of ten targets of `list_digest_cleanup_backlog_v2` (`foundation.sql:1552`): `CleanupBacklog` lists them all, of which the instances have fewer. A runner that stops in the middle of the list is in the model as a crash, so a shorter list does nothing new.
* The limit of fifty rows of a P0 sweep; the text of a notice.
* The resolution of temporary observations inside `approve_inventory_audit`: the review, which alone writes decisions, refuses a session that has one.
* The sheet's other writers beside the mirror (`lib/server/slackEquipment.ts`, `syncEquipmentMasterNotes`, stock confirmations, people), and whether anybody asks for the mirror again: nothing in the code does.
* The offline queues of the inventory audit, which no page uses.
* The components of section 1 that the plan has for later, and those listed as data, presentation or I/O, each with its reason in `PROJECT.json`.
