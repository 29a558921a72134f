# Kivou: a TLA+ development

Kivou watches public procurement, turns notices into signals for suppliers,
sells access to them by subscription, alerts customers by mail and prospects
new customers through a founder-reviewed mail queue. It is a Python monolith
(`src/src/signals`) over one PostgreSQL database: two API workers, a dozen
systemd timers that start short-lived worker processes, and external services
that offer no transaction with the database (Instantly for prospect mail, SMTP
for alerts, Stripe for billing, model and company-data providers).

The code that is hard to test is therefore always of one shape: *a row is
written, an external call is made, a row is written*, by several processes, any
of which may die, be slow, lose its lease, or have its answer lost. This
development models the places where that shape decides about mail sent to third
parties, about money, or about what customers get to see; it model-checks them
on small instances, and proves for every instance the central safety results of
the prospect mail, the alerts, the checkout, the acquisition runtime, the
campaign operations, the replies, the contact lookups and the sentence queue.

Contents: [inventory](#inventory) · [modules](#modules) · [runs](#runs-and-bounds) ·
[fairness](#fairness) · [proofs](#proofs) · [findings](#findings) ·
[not modelled](#what-is-not-modelled) · [plan](#plan)

## Inventory

`PROJECT.json` lists every component with its sources and its hazards with their
lines. The ones that keep state across an external call or between processes:

| component (`src/src/signals/…`) | state | operations | interacts with |
|---|---|---|---|
| Founder actions `prospection_actions/service.py` | `prospect_target` | approve, correct, reject, regenerate, enqueue a batch | the worker, through row locks taken `NOWAIT` |
| Send queue and worker `queue.py`, `worker.py`, `delivery.py` | `prospect_send_request`, `prospect_send_item`, the accounting in `result` | reserve, claim, guard, declare, create campaign, import lead, verify, accept, fail, cancel, wait, activate, finish | founder actions; Instantly; kill-switch file |
| Delivery webhooks `webhook.py`, `unsubscribe.py`, `conversion/service.py` | delivery columns of `prospect_target`, `prospect_delivery_event` | fold an event, click, unsubscribe | the worker's rows; Instantly |
| Interrupted-send recovery `recovery.py` | the same rows | rebuild the items of a legacy request | the worker |
| Alert delivery `alerts/` | `signal_alert_delivery`, `signal_alert_job_lease` | acquire, visit accounts, queue, retry, suppress, send, record | feed, plan, preferences; SMTP |
| Billing checkout `billing/attempts.py`, `checkout.py` | `billing_checkout_attempt` | check, reserve, resume, record, fail, close, expire | Stripe sessions; webhooks |
| Stripe webhooks `billing/webhooks.py`, `service.py` | `billing_subscription`, `stripe_webhook_event` | close the attempt, fetch, synchronise, record | Stripe; checkout; entitlements |
| Plan change `billing/plan_change.py` | scheduled change and sequence number | upgrade, downgrade, cancel | the same subscription row |
| Acquisition runtime `acquisition_runtime/` | lease with generation, cycle, stages, attempts, provider runs | acquire, resume, begin, reserve, call, finish, replay, abandon | providers; campaign operations run under its guard |
| Campaign operations `campaigns/` | campaign, members, `acquisition_provider_operation` | reserve, seal, claim, call, read back, bind, confirm, reconcile, stop, pause | Instantly; webhooks; kill switch |
| Responses `responses/` | `acquisition_response_evaluation`, opt-outs, outcomes | reserve, settle, claim, judge, retry, finalise | campaign webhooks; opportunities |
| Opportunities `acquisition/store.py`, `state.py` | event streams and their projection | create, append under an expected version, record an outcome | acquisition runtime, responses |
| Ingestion `ingestion/` | checkpoint with window end and cursor | plan or resume a cycle, acquire, process, record | public sources |
| Contact lookup `client_value/contact_lookup.py` | lookup row with lease, credits of the month | reserve, call, finish, view, purge | supplier directory, whose trigger purges too |
| Model budget `model_runtime/budget.py` | counter of the day, journal of calls | reserve, succeed, fail | every caller of a model |
| "Pour vous" sentences `personalization/` | queue rows with a lease | enqueue, purge, claim, write, requeue | model budget |

What makes each correct, in one line:

- *Send queue*: one campaign and one lead per target in spite of a provider
  without idempotency keys; no cancelled mail goes out; a batch always settles.
- *Alerts*: a signal is tried a bounded number of times and no more often mailed
  than tried; a batch goes to the recipient it was made for; one account's batch
  cannot stop the accounts after it; every batch settles.
- *Checkout*: an account never has two sessions it could pay; the subscription
  row ends up saying what Stripe says; who paid gets access.
- *Plan change*: one change in force per account, each sent to Stripe once.
- *Acquisition runtime*: no paid call outside the reserved envelope, none by a run
  that lost its lease, none for a result that is there; a cycle goes on exactly
  where it stopped.
- *Campaigns*: a creation or an import is never repeated blindly; what the rows
  confirm is so at Instantly; who was stopped is not mailed.
- *Delivery events, responses, opportunities*: rows say what was received, in
  whatever order and however often it came.
- *Ingestion*: no notice is stepped over. *Credits, budget*: nothing is spent
  beyond the limit, nothing counted twice. *Sentences*: what was generated stays.

## Modules

| module | models |
|---|---|
| `ProspectSend` | founder actions, reservation, worker, Instantly |
| `MCProspectSend` | its instances (own mailboxes, symmetry of workers and targets) |
| `ProspectSendProofs` | theorems about it |
| `AlertPromise` | what alert delivery promises, per account and signal |
| `AlertDelivery` | job lease, account cycle, batches, attempts, SMTP; instantiates `AlertPromise` |
| `AlertDeliveryProofs` | theorems about it |
| `Checkout` | checkout attempts, Stripe sessions, webhooks, subscription row |
| `MCCheckout` | its instances |
| `CheckoutProofs` | theorems about it |
| `AcquisitionRuntime` | lease, cycle, stages, attempts, paid provider runs |
| `AcquisitionRuntimeProofs` | theorems about it |
| `CampaignOperations` | campaign, members, provider operations, Instantly, webhooks |
| `DeliveryProjection` | prospect delivery events, clicks and unsubscriptions on the target row |
| `ResponseEvaluation` | reservation, claim, judgement and effects of a reply |
| `OpportunityStream` | the event stream of an opportunity and its projection |
| `IngestionCycles` | checkpoint, cycle and cursor of a public source |
| `ContactLookup` | lookup row, credits, supplier directory |
| `ModelBudget` | counter of the day and journal of model calls |
| `ForYouQueue` | queue of generated sentences |
| `FoldLemmas` | induction over numbers and finite sets, sums over tables |
| `CampaignProofs` | theorems about `CampaignOperations` |
| `LedgerProofs` | theorems about `DeliveryProjection`, `ResponseEvaluation`, `OpportunityStream` and `ModelBudget` |
| `LeaseProofs` | theorems about `ContactLookup`, `ForYouQueue` and `IngestionCycles` |
| `MCLeases` | instances of the runtime, lookups, sentences and ingestion |
| `MCLedgers` | instances of campaigns, delivery events, replies, streams and budget |

The modules `MCLeases` and `MCLedgers` hold several components that share no state. A behaviour of
theirs is one of one component, chosen by `part` in the initial state; the others
stay as they start. They compose nothing, they only let one TLC run answer for
several small models.

Every module states an abstraction of its data at its head. `PROJECT.json` maps
each definition to the lines it stands for. An operator whose comment begins
*Mutant of* is a plausible mistake in the definition that follows it; it is used
only to make sure that a property can fail.

### ProspectSend

One action per transaction. A `_mutation_guard` block (`worker.py`) keeps the
request, item and target rows locked across its provider call, so guard, call
and commit are one step whose alternatives are the ways it can be cut short: the
call is refused, it lands but is answered with an error, or the process dies
after it landed and before the commit. Between guards everything interleaves:
other workers, founder edits, leases that run out, the kill switch, Instantly's
verification.

| variable | code |
|---|---|
| `tgt`, `req`, `item` | the three tables, reduced to the columns the control reads |
| `queue` | items by `(next_attempt_at, position)` |
| `ledger`, `confirmed` | `result["accounting"]`: declared POSTs and booked imports |
| `campaigns`, `leads`, `mails`, `verdict`, `active` | Instantly |
| `wk` | each process: position in `_process` and its claim snapshot |
| `kill`, `faults` | the kill-switch file; disturbances used |

Founder actions `Approve`, `Correct`, `Reject`, `RegeneratePendingMail`,
`EnqueueSend`; worker actions `Claim`, `Process`, `DeclareOperation`,
`CreateCampaign`/`FindCampaign`, `ImportLead`/`FindLead`, `Verify`,
`GetVerification`, `Accepted`, `Failed`, `VerificationPending`,
`VerificationErrored`, `Activate`, `ActivationHeld`, `FinalizeWithoutPost`,
`ReconciliationRequired`, and for each guard the check of the claimed target
(`CheckTarget`, `RejectChangedTarget`, `FinishAlreadySent`).

Abstractions: a campaign is named by its request and a lead id is the pair of
campaign and owner; the pages of a provider listing are one scan; read receipts
are left out (they gate nothing); when an item becomes due is open, but the
order of the candidate query is kept, because it matters (`NoStrandedItem`); a
lease id is the identity of its process; supplier-directory and suppression
checks only refuse an action; a POST has landed or not when its caller goes on;
all requests are of one day; the limit of 100 declarations, the path of a
missing opportunity key and legacy requests are left out.

### AlertDelivery

A cycle takes the job lease once (`Start`), visits the accounts in order
(`NextAccount`), reads one (`Read`), decides (`SuppressBatch`, `QueueBatch`,
`RetryBatch`, `Exhaust`, `Blocked`, `AllGone`, `NothingToDo`), submits the mail
with no transaction open (`SmtpSend`) and records the result in a second
transaction (`MarkSent`, `MarkUnsuccessful`, `PersistenceFails`). The lease is
not renewed, so cycles overlap; read and decide are separate steps because READ
COMMITTED lets another cycle commit between two statements. A conflict of row
counts (`DeliveryStateConflict`) ends the account as in the code.

Abstractions: time is only "the lease or backoff is over" and "the interval has
elapsed", either of which may become true at any moment, so the results hold for
every clock, lease length and cadence; batch key and Message-ID are the set of
signals they hash; plan, preferences and address are one context value, which is
what the fingerprint is; the first `limit` signals of the feed are any eligible
nonempty subset of at most `MaxSignals`; which of several due batches is the
oldest is left open; the owner id is the process. `Init` includes the rows older
releases left (queued without a batch, or without a context). Rendering,
analytics events, the dry run and the initialisation of preferences are left
out: the job reads nothing they write.

`AlertPromise` is the contract: *new → live → sent or closed* per signal, with
at most `MaxAttempts` tries, never more copies than tries, and *sent* only after
a copy went out. `AlertDelivery!Promise` reads a row's status as a phase and its
`attempt_count` as the tries, and `KeepsPromise` says the job implements it.

### Checkout

One account (all rows are keyed by it). A request is five steps, because Stripe
is called between its statements: the subscription check, the look at the
attempt, the conditional insert or update, the call, and the second transaction
(`RecordSession` or `FailAttempt`). A webhook is three: fetch (with
`close_attempt`, whose row lock is held until commit), read of the stored row,
and write. Requests use the time at which they came in, so a deadline that
passes under them is seen only by the next one.

Stripe is external: one session per idempotency key, a refused key stays
refused, a session ends at the deadline it was given (one clock for both sides),
a subscription it announced exists, and events are delivered until acknowledged,
in any order, several in the same second. `created` has the resolution of a
second, so `clock` may stand still between events. Left out: live mode, events
that are acknowledged without effect, price and coupon lookup, territories and
milestones, which refuse or follow and change none of these rows.

`record_session` sets `open` whatever the status, so it may reopen an attempt
that a faster webhook has closed; this is modelled and only delays the account
until the attempt's deadline.

### AcquisitionRuntime

Overlapping runs of `run_once`, each a token of the lease. A run acquires the
lease (`AcquireLease`, generation + 1), resumes or creates the cycle, and takes
its stages one by one: `BeginAttempt` or `ReplayAttempt`, `ReserveStageCost`,
`BindStageProposal`, then either `UnpaidAction` or the paid path of the domain
(`AlreadyDone`, `StartRun`/`ResumeStarted`, `CallProvider`, `FinishRun`), and
`FinishStage` with its checkpoint. `guard` is the lease row locked from the start
of a provider run to its end (`AcquisitionRuntimeExecutionGuard.protect`), which
is what `FencedCalls` is about. `InterruptRun` is SIGTERM, `CrashRun` loses locks
and leaves the lease, `LeaseExpires` may come at any moment, and `AbandonCycle` is
the operator's, without a lease. Costs are units of one call; the paid stages
(supplier discovery, research, contacts) are `Paid`, the last ones `Handoff`.

### CampaignOperations

One campaign, one worker at a time (its caller holds the guard above). `Claim`,
`BeforeCall` (the live checks), `Call` and its variants (`CallRefused`,
`CallUnknown`, `PauseLeadRefused`), `AfterCall` (the checks again), `Bind` and
`Confirm` are transactions or calls of their own, and webhooks, windows, withdrawn
authorizations and the kill switch come between any two of them. An unknown
outcome ends in `RECONCILE_REQUIRED` and `Reconcile`/`ReconcileCreate`. The client
refuses to pause a lead, so stopping a member means pausing its campaign. Sealing,
activation and expiry are called by tests and tools only at this commit; they are
modelled as the service offers them.

### DeliveryProjection, ResponseEvaluation, OpportunityStream

`DeliveryProjection`: webhooks, clicks and unsubscriptions by several processes
update one target row under its lock; `ProjectionExact` compares the row with a
fold over the set of what was received. `ResponseEvaluation`: a reply is reserved
by the webhook, perhaps settled there, otherwise claimed, judged outside any
transaction and finalised in one with its effects. `OpportunityStream`: writers
read a version, and append under it; a repeated key is answered from the stream.

### IngestionCycles

`source` is one of three kinds: `window` (SIMAP, BOAMP) reads its days in one
piece, `decp` day by day with an offset, `ted` page by page. A run starts by
resuming the cursor or planning a fresh cycle from the checkpoint less the
overlap; it then acquires a unit, processes its notices one at a time and records
cursor and window end. Between any two steps the run may end (limit, time, error,
kill), days pass and notices appear, at most `Overlap` days late: that is the
assumption the overlap stands for. `due` and `promised` are history: what was
public when the current, or the last finished, cycle was planned.

### ContactLookup, ModelBudget, ForYouQueue

`ContactLookup`: requests for one company reserve the row under a lease, re-check
before each paid call and write their result; the directory's trigger and `view`
purge what belongs to another organisation. `ModelBudget`: calls reserve their
estimate under the row lock of the day and settle later, perhaps on the next day;
the provider bills at most the estimate. `ForYouQueue`: claims are serialised,
results are written by identity, whoever holds the lease.

## Runs and bounds

All runs end within about two minutes on two cores. Deadlock is not checked where
bounded edits, changes and faults run out and the system may rightly stop.

| run | instance | shows |
|---|---|---|
| `send_faults` | 1 request, 2 targets, 2 workers, edits up to version 3, 2 faults | `TypeOK`; no duplicate at Instantly; no stranded item; the ledger announces every POST; no cancelled mail in a sending campaign; the sent mail is the one shown; the kill switch stops POSTs; outcomes are final |
| `send_requests` | 1 target, 2 requests, 2 workers, version 4, cap 2 | a target is held by one request and mailed once |
| `send_settles` | 2 requests, 2 targets, 1 worker, cap 1, 1 fault | no more is accepted than the cap; liveness: every reserved batch settles |
| `alert_batches` | 1 account, 2 signals, 2 cycles, legacy rows, 2 contexts, 2 disturbances | batches stay consistent; mail goes to its context; `AlertPromise` is implemented; liveness: every batch settles |
| `checkout_places` | 2 requests, 3 attempts, 1 fault | `TypeOK`; never two payable sessions, also when a call outlives its attempt |
| `checkout_events` | 2 subscriptions in turn, 1 change, 1 fault | the row catches up with Stripe; what ended stays ended; liveness: who paid gets access |
| `checkout_overlap` | 2 handlers, 1 subscription, 1 change | violated: finding 1 |
| `checkout_late` | 1 request, 2 attempts | violated: finding 2 |
| `leases` | runtime: 1 cycle of a paid and a handoff stage, 2 processes, 3 acquisitions, 2 faults; lookup: 2 requests, 2 organisations, 2 months, quota 1; sentences: 2 rows, 3 workers; ingestion: 3 days, 3 notices, overlap and pages of 1 | calls are reserved, fenced and bought once; the checkpoint is exact and no finished stage is met again; results belong to the organisation they were bought for, at most one call comes late, the quota holds; a generated sentence stays; no notice is skipped |
| `ledgers` | campaign: 1 member, 2 attempts, 1 change, 1 failure; delivery: 2 processes, 2 events; replies: 2, 2 evaluators, 3 claims; stream: 2 writers, 6 events; budget: 2 calls, 2 days | no blind repeat; stops hold at Instantly; confirmations are true; the row is the fold of what was received; effects match the verdict; the stream is sound and outcomes stand; counter, journal and bill agree |
| `campaign_kill` | 1 member | violated: finding 3 |
| `response_exhausted` | 1 reply | violated: finding 4 |

Three runs bound combinations, not only numbers. In `send_faults` a founder edit
under a running batch comes with one fault, and two faults without one
(`EditsOrFaults`); in `leases` an abandonment is the only disturbance of its
behaviour (`AbandonedOrFaulty`); in `ledgers` changes of the world come before
both windows are closed (`ChangedOrClosed`). `MaxDisturbances` of `AlertDelivery`
bounds changes and faults together. Without these restrictions the same
properties were checked by hand once: `send_faults` with 2.2 million states,
`leases` and `ledgers` with 2.2 and 2.6 million (three model calls), alerts with
two faults and one change for safety, a campaign of two members with 5 million
(one change, no failure), 9 million (one failure, no change) and the first 14
million (one of each), six notices of ingestion with 3.6 million.

Why the bounds are enough: two workers, cycles, requests or handlers are what a
race needs, and every one of these protocols is arbitrated by a row that a third
contender meets in the same states as the second. Two targets or signals
distinguish "this one" from "a sibling" (queue order, batch agreement, blocked
activation). Two faults let an effect land unseen and its retry fail again.
Three attempts are needed for a late refusal to free the place of the second and
let in the third; a payment is announced by two events and a change by one more,
which is enough for one to overtake another. For the properties
marked below the proofs remove the bounds altogether. `MaxSeconds` limits
only how far payments and changes move Stripe's clock: it binds in
`checkout_places`, whose properties relate no times, and not in `checkout_events`.
A third lease acquisition lets a run take over from one that took over; the cycle
of ingestion that outlasts a day needs three days and an overlap of one.

`checkout_events` has one handler on purpose: with two the order of webhooks is
not kept, which is finding 1.

## Fairness

Only what the deployment gives:

- *Send*: `kivou-prospect-send.timer` starts a worker five seconds after the last
  one ended, and the candidate query is ordered by `next_attempt_at`, so a due
  request is not passed over for ever (strong fairness of `Claim`); a started
  worker runs on; a lease runs out; Instantly ends a verification. Kill switch,
  founder, faults: none. `SendSettles` assumes the kill switch stays off.
- *Alerts*: `kivou-alerts.timer` is hourly (strong fairness of `Start`, which
  competes with a running cycle); a started cycle runs on; leases and backoffs
  run out. `AlertSettles` assumes the public URL stays configured, since without
  it the job defers every batch.
- *Checkout*: a started webhook runs on, and while an event is not acknowledged
  Stripe goes on delivering (which one comes next is left open). Nobody has to
  pay, no request has to go on, and no deadline has to pass.

The other modules state safety only: whether a cycle, a campaign or a lookup goes
on depends on operators, on providers and on dated windows, and the code promises
no more than that nothing wrong happens until then.

Crashes, rollbacks and lost answers are actions without fairness, in bounded
number, so that liveness is shown *after* them.

## Proofs

The theorems hold for any number of processes and rows of each kind (requests,
targets, workers; accounts, signals, cycles; runs, stages, keys; replies,
evaluators, members; events, writers, calls; organisations, months, days), and for
any caps, budgets, page sizes and bounds. The only assumptions are the named ones of
the modules: `ConstantsAssumption` (in `ProspectSend`, `AlertDelivery`, `Checkout`),
`RuntimeAssumption`, `CampaignAssumption`, `LookupAssumption`, `VerdictsAssumption`,
`BudgetAssumption`, `StreamAssumption`, `DeliveryAssumption` and
`IngestionAssumption`. They say that constants are of the right kind, that `Nil` and
the other markers of absence are none of the values they stand against, and that
what is counted or summed (requests, targets, cycles, model calls) is finite. TLC
evaluates them on the runs. Two hypotheses of single theorems are marked in the
table: `OwnMailboxes` and `OneHandler`, see below.

| theorem | module | states |
|---|---|---|
| `TypeCorrect` | `ProspectSendProofs` | `Spec => []TypeOK` |
| `SendStandsAlways` | " | `Spec => []SendStands` |
| `NoCancelledMailGoesOut` | " | `Spec => []ActiveOnlyResolved` |
| `NoDuplicates` | " | `Spec => []NoDuplicateAtProvider` |
| `KillSwitchHonoured` | " | `Spec => KillSwitchStopsPosts` |
| `NoItemIsStranded` | " | `Spec => []NoStrandedItem` |
| `ReservationsAreHeld` | " | `Spec => []ReservationHeld` |
| `OutcomesStay` | " | `Spec => OutcomesAreFinal` |
| `SentMailStaysCurrent` | " | own mailboxes: `Spec => []SentMailIsCurrent` |
| `LedgerCovers` | " | own mailboxes: `Spec => []LedgerCoversProvider` |
| `NobodyIsMailedTwice` | " | own mailboxes: `Spec => []MailedOnce` |
| `CapIsKept` | " | `Spec => []CapKept` |
| `AlertTypeOK` | `AlertDeliveryProofs` | `Spec => []TypeOK` |
| `AlertNoPoisonBatch` | " | `Spec => []NoPoisonBatch` |
| `AlertMailedUnderItsContext` | " | `Spec => []MailedUnderItsContext` |
| `AlertKeepsPromise` | " | `Spec => KeepsPromise` (refinement of `AlertPromise`) |
| `TypeCorrect` | `CheckoutProofs` | `Spec => []TypeOK` |
| `PlacesAlwaysStand` | " | `Spec => []PlacesStand` |
| `OneSessionToPay` | " | `Spec => []OnePayableSession` |
| `RowCatchesUp` | " | one handler: `Spec => []SyncedWhenQuiet` |
| `EndedIsNotRevived` | " | one handler: `Spec => EndedStaysEnded` |
| `NoOlderEventAlone` | " | one handler: `Spec => NeverAnOlderEvent` |
| `RuntimeFencedCalls` | `AcquisitionRuntimeProofs` | `RuntimeSpec => []FencedCalls` |
| `RuntimeNoTerminalRestart` | " | `RuntimeSpec => []NoTerminalRestart` |
| `RuntimeCheckpointExact` | " | `RuntimeSpec => []CheckpointExact` |
| `RuntimeEnvelopeCovers` | " | `RuntimeSpec => []EnvelopeCovers` |
| `RuntimeCallsCovered` | " | `RuntimeSpec => []CallsCovered` |
| `RuntimeBoughtOnce` | " | `RuntimeSpec => BoughtOnce` |
| `ResponsesMatchVerdict` | `LedgerProofs` | `ResponseSpec => []EffectsMatchVerdict` |
| `DeliveryProjectionExact` | " | `DeliverySpec => []ProjectionExact` |
| `OpportunityStreamSound` | " | `StreamSpec => []StreamSound` |
| `OpportunityOutcomesStand` | " | `StreamSpec => OutcomesStand` |
| `ModelBudgetKept` | " | `BudgetSpec => []BudgetKept` |
| `CampaignNoBlindRepeat` | `CampaignProofs` | `CampaignSpec => []NoBlindRepeat` |
| `CampaignStopsHold` | " | `CampaignSpec => []StopsHold` |
| `CampaignConfirmationsTrue` | " | `CampaignSpec => ConfirmationsTrue` |
| `LookupResultsBelong` | `LeaseProofs` | `LookupSpec => []ResultsBelong` |
| `LookupOneLateCall` | " | `LookupSpec => []OneLateCall` |
| `LookupSpentWithinQuota` | " | `LookupSpec => []SpentWithinQuota` |
| `QueueGeneratedStays` | " | `ForYouSpec => GeneratedStays` |
| `IngestionNothingSkipped` | " | `IngestionSpec => []NothingSkipped` |

*TypeOK* of `ProspectSend`. Rows are records updated field by field, so a lemma per kind of row
(`TargetRowType`, `RequestRowType`, `ItemRowType`, `ClaimType`) says which
updates stay in the type; each action then cites those it uses. The part that is
not routine is that a claim that reads a verification has a lead and one that
declares has an operation.

*SendStands* is the inductive invariant behind `ActiveOnlyResolved`, which is not
inductive: that a sending campaign holds only resolved leads depends on why an
item failed, on what a worker elsewhere may still do, and on what the ledger
knows of imports nobody recorded. The argument: a permit was declared
(`ClaimStands`), so whatever lands was declared; a declared lead has an item and
a recorded campaign; if that item was cancelled rather than refused by the
provider, its request is *blocked* (`RejectChangedTarget` asks the ledger, not the
lead id on the row); activation requires an unblocked request with nothing left
to settle; and the owner of a request, while it is before an outcome, has its
item still running, so nothing it does can resurrect a settled one. Frame lemmas
(`LocalStands`, `KeptStands`, `SameRowsStand`) confine each action to the request
and the process it touches; there is then one lemma per guard.

*NoDuplicates* and *KillSwitchHonoured* rest on `OnlyPosts` (nothing but a
permitted POST changes the provider) and `PostAddsOne` (a POST is made only where
the scan before it found nothing).

*HeldInv* is behind `NoItemIsStranded`, `ReservationsAreHeld` and `OutcomesStay`. That an
item does not stay running when its request is given back, or beside a second one,
rests on the claim query: it takes the first due item, so after a crash it must
find the item that was left running before any other. `Queued` says why it does:
every item is in the queue, and nothing before a running one is open, since only an
item that stops running is moved behind its siblings. `OwnerHolds` (the running
item is the one its owner claimed) and `LiveRuns` (a live lease is that of a running
request) complete it. A guarded step of a worker touches one request and one target
(`Works`); `WorksHeld` shows once that such a step keeps the invariant, and there is
one lemma per guard that the step is of this kind.

*MailInv* is behind the three theorems with own mailboxes. Between the snapshot of a mail and its
acceptance the founder may edit it at any point where no row is locked. The
argument is the version: an item's version is never ahead of its target's, an edit
makes a new one, and as long as the two agree the mail the claim carries, and the
mail of a lead that has landed, is the target's (`ItemMail`, `ClaimMail`); the guard
of an acceptance compares them. A lead on record is the target's own (`Belongs`),
the verdict a claim read is that lead's and does not change, and a sent item's
target names its request, so two requests cannot both have sent it. These theorems
assume `OwnMailboxes`, that no two targets share an address, as the instances of
the runs do: `find_lead` knows a lead by its address alone, and with a shared one
`SentMailIsCurrent` and `LedgerCoversProvider` are false (see *Shared mailbox*
below). It is a hypothesis of these theorems only. The invariants were checked with
TLC on the instances of the runs before they were proved.

*CapInv* is behind `CapKept`. What a day uses is a sum over the requests: of a live
one what it reserved, of an ended one what it sent. Only `enqueue_send` adds to it,
and it compares the sum with the cap first; every other step lets the request it
touches use the same or less, because a request never has more items than it
reserved, and its `sent` column, when it ends, is the number of its accepted items
(`Sized`). The accepted items of all requests, which `CapKept` counts as pairs, are
then no more than the sum.

*PlacesStand* is the inductive invariant behind `OnePayableSession`, which says
nothing of calls and webhooks under way and so is not inductive. An attempt is
*gone* when its deadline has passed or its session was refused, completed or
expired; gone is stable (`GoneStays`, from `EndsStay`), and a session is open or
payable only before its deadline. The row always holds the attempt drawn last,
and an attempt is replaced only when it is gone. What must be shown for this is
that a closed row means a gone attempt, although three parties write it: a
request fails its attempt only after Stripe refused its key, a webhook that
closes it carries an event Stripe emitted when that very session ended, and
`record_session` only ever reopens. Every attempt but the last is then gone, and
a payable session can only be the last one's.

*SyncInv* is behind the three theorems about the subscription row. A webhook writes
what it fetched, not what its event announced, so the row may be ahead of the event
it was written for and behind Stripe. The invariant: a row, or a fetched state, that
is not Stripe's any more has the event of the latest version still to come
(`RowFollows`, `Follows`). For that event to be written when it comes, it must not
be found stale: versions are announced in order and the latest one last
(`StripeSays`), and the time on the row is that of an event of the subscription. An
ended state is Stripe's for good, so whoever fetches after it was written fetches it
too. These theorems assume `OneHandler`, that webhooks are handled one at a time, as
`checkout_events` does; `NoOlderEventAlone` says that the statement finding 1 refutes
with two is true with one, so the overlap is its only cause. `SyncInv` was checked
with TLC with two changes (4.8 million states) before it was proved.

*AlertInv* is behind the four results about alerts. A cycle reads a batch in one
transaction and records its result in another, with no lease to keep others away,
so none of the properties is inductive. What a cycle may rely on (`Carries`) is
that the rows it read are still in its batch and its context and that every other
row of that batch is suppressed, since no transaction takes a row out of a batch
and a batch is never extended. `NoPoisonBatch` follows once rows without a batch
are known to be untried (`RowShape`, which the rows of older releases satisfy). For
the refinement, `Counted` says that copies plus submissions under way do not exceed
the attempts counted; `AlertStep` then shows of every step, with the primed
invariant, that each row takes a step of `AlertPromise` or none (`RowsPromise`),
from which `KeepsPromise` follows.

*RuntimeInv.* Only the run that owns the lease writes, so the invariant splits in
what is true of the store whoever comes next, and of the owner alone. Of the store:
the stages of a cycle are those that succeeded, one frontier and those never begun
(`At`, `Frontier`), `next_stage` is that frontier (`CycleOK`), and each attempt's
calls are covered by what it reserved and by its replay (`Money`). Of the owner
(`Fits`): its stage is the frontier, and at each point of the walk what it has paid
for is on record. A run that lost the lease says nothing: tokens are unique and
never of a later generation (`Tokens`), so it never owns the lease again, and its
writes are refused. `CheckpointExact` needs more than it says, namely that a
suppressed cycle has no next stage, or its cases would overlap. For `CallsCovered`
each cycle has a `Ledger`: its `spent` is the sum, over stages and attempts, of what
the attempts reserved. Most steps keep every `reserved` and so both sides; a new
attempt reserves nothing; `reserve_stage_cost` adds one envelope to one attempt and
to `spent`, and only where the budget has room; a replayed attempt keeps its
envelope, so it is not counted again. That a step of a run writes the rows of one
stage of one cycle (`LedgerOfStage`) reduces the double sum to one term.

*ResponseInv* is `EffectsMatchVerdict` with the types of rows and evaluators: a
verdict is written in the transaction that writes its effects.

*DeliveryInv* is behind `ProjectionExact`. Whoever writes the target's row holds its
lock (`RowLocked`), so the row a transaction read is the row it writes over; between
transactions the row is exact (`RowExact`). What one event does is monotone: a mark
keeps the earliest time, a status only gives way to a stronger one. `_target_values`
folds the new events and those on record in order, so what the fold yields is shown
by induction on the set of events, taking the last of them off: for each mark the
earliest of its times, the strongest status, and the kind of the last reply. Events
received twice are the same element of the set, and a click or an unsubscription
through a link only ever lowers a time or raises the status.

*StreamInv* is behind the two results about opportunities: `StreamSound`, with what an
append that is under way may rely on (`AppendsStand`). A writer reads the row, decides
and then inserts; the insert succeeds only if the version is still the one it read,
and then the row is the one it read, its mutation is not in the stream yet and the
reducer accepts it. Replaying a longer stream is replaying the shorter one and one
event more (by induction on its length), so an accepted append keeps row and replay
together. `OutcomesStand` follows since no transition of the reducer leads from a
ranked state to a lower one, or out of `NO_SEND`.

*BudgetInv* is behind `BudgetKept`. The counter of a day is locked from its read to
its write (`CountersLocked`), so what a reservation compared with the budget still
stands when it is written; every row of the journal contributes a share to the two
columns of its day, a step changes one row, and the columns change by the difference
of its shares. The provider bills a call no more than it reserved
(`BilledAsReserved`), from which the bill of a day is below the two columns, and they
are within the budget.

*CreationInv* is
behind `NoBlindRepeat`: as long as the creation may still be called (its operation
is not planned yet, planned or retryable, or its worker is before the call), no
more campaigns exist than read-backs were refused. It needs that the operation a
worker is at is in flight (`WorkerOK`), so that nobody else claims it meanwhile.

*StopInv* is behind `StopsHold` and `ConfirmationsTrue`. It follows a lead from its
import to the activation. Nothing but the creation runs before the stored id is one
of Instantly's (`KnownInv`); nothing sends, is queued or is about to be activated
before the batch is sealed, and then no import is open (`SealInv`). Until its import
is settled a member is RESERVED, and a lead that is there means that the import is
in flight past its call, or to be reconciled; a retry, which could be stopped as
unexposed, is reached only through a reconciliation that found no lead or a
read-back that was refused (`LeadInv`). That is the first half of `StopsHold`. For
the second, stops of webhooks and windows plan the campaign's pause with them, so
what remains is the time before any pause is planned (`UnplannedInv`): the release
cannot have run, the one activation is not claimed again while the campaign sends,
and from the check before its call to the check after it nobody is stopped and
bound, since members are queued or excluded for good by then and the second check,
when it refuses, plans the pause itself. The kill switch is the exception (finding
3). `CalledInv` says that what a worker has asked for is there; with it a
confirmation by the worker is true, and `ShowsKinds` says so of a reconciliation. As
the worker is alone, steps are of two kinds: those around it (`AroundKeeps`), and
its own, with one lemma per step and four for what they share (`StopsEnd`,
`StopsRefused`, `StopsExposed`, `FrameKeeps`). The invariant was checked with TLC on
the run's instance, and on part of one with two members.

*LookupInv.* A reservation is the row that names an attempt, and a later one names
a later attempt, so one that was lost does not come back: `OneLateCall`. Credits
are a sum of units; `Recorded` counts the units
recorded by a month's attempts as a set of pairs *(attempt, unit)*, each credit
spent or about to be spent being one of them, and `SpentWithinQuota` is the
cardinality of a product. *QueueOK* is the type of the sentence queue;
`GeneratedStays` is an action property over it.

*IngestInv* is behind `NothingSkipped`. A day `x` is *settled* when every notice of a
day so long before it that it cannot appear any more is stored (`Settled`); the
checkpoint's window end is settled, so a cycle that begins an overlap before it looks
wherever something can be missing. What is due when a cycle is planned contains all
that can be public by then (`Planned`), so when all of it is stored the day of the
plan is settled, and may become the window end: the day of the cycle, not of the run
that ends it. In between, `Progress` says what a cursor stands for. Of DECP: the days
before `next` are done, and of that day the places up to `offset`, if its total is
still the one on the cursor; notices are only added, so an equal total means the
same list and the same places. Of TED: whatever is neither stored nor pending has a
place behind the pages that were read; the newest come first, so a notice that
appears pushes others to later places, never to earlier ones, and a page may show
one twice but misses none. Both are statements about `stored` alone, so a run that
dies takes nothing with it. TLC checked the invariant on two instances first.

Sums and folds are proved by induction over a *set*: `NatInductive` and
`FiniteInductive` (`FoldLemmas`) speak of the set of numbers, or of subsets, for
which something holds, since the library's induction theorems take an operator, which
the provers cannot instantiate. The lemmas about sums (a sum changes by what one
entry changes, a sum of smaller entries is smaller) rest on them.

Every safety property of the passing runs is proved. Only model-checked: all
liveness, since fairness is beyond the prover, and the properties of the runs that
look for a violation.

## Findings

Each is a run whose property states what the repository says and which the code
violates; `PROJECT.json` quotes the lines.

1. `checkout_overlap`: the stored event time is compared without a row lock and
   not repeated in the update, so of two webhooks handled at once the older can
   be written last, with the older state.
2. `checkout_late`: an attempt stops blocking at its deadline whatever became of
   its session; if the payment's events are late, a second session can be opened
   and paid. The same second bill has another way in: the subscription is checked
   several Stripe calls before the place is reserved (`checkout.py:79`), and a
   webhook that stores it and closes its attempt in between leaves the place free.
   `PaidLeadsToAccess` has its last case because of it: the events of the second
   subscription are recorded as conflicts and not looked at again, so it gives no
   access even after the first has ended.
3. `campaign_kill`: when the kill switch is set while an activation is in flight,
   the refusal after the call stops the members and plans the pause of each lead,
   which the client refuses; the pause of the campaign is not planned.
4. `response_exhausted`: claims lost to crashes and provider errors count as
   attempts; the claim after the last one is refused by the resolver, and the reply
   is neither finalised nor reviewed.

Seen while modelling, and not runs:

- *Shared mailbox.* `find_lead` reconciles by address alone (`delivery.py:172`); of
  two targets of a batch with one mailbox the second is marked sent on the first
  one's lead, and its own mail is never imported.
- *Alert cadence.* The cadence is asked only when a batch is queued
  (`alerts/job.py:597`): the retry of a batch in backoff goes out in the interval
  in which another was sent.
- *Abandoned cycle.* `abandon_cycle` needs no lease; a run inside the cycle may
  still complete it, so a cycle is `SUCCEEDED` with stages that never ran
  (`store.py:374`). `CheckpointExact` leaves abandoned cycles out.
- *Third call.* A timed-out provider call is retried as a new attempt after its
  replay (`domain.py:1695`); the runbook promises there is never a third call.
- *429 on a read-back.* A read-back refused with 429 makes a creation retryable
  (`campaigns/worker.py:420`) although it may have landed; `NoBlindRepeat` counts
  these and allows one more campaign for each. For a lead it means that a retry
  whose live check is refused stops the member as unexposed although its lead is in
  the campaign, and is mailed if the others are activated; `StopsHold` speaks of
  leads the row knows, and of unknown ones only while no read-back was refused.
- *Key of a pause.* The pause an expired window plans has the key of an earlier one
  (`campaigns/worker.py:902`); once that is confirmed the second does nothing. Two
  webhooks of one member at once lose a status (`webhooks.py:803`), and a lead is
  looked for on the first page only (`worker.py:650`).
- *Late sentence worker.* One whose budget ran out puts rows back that another has
  completed; they are generated, and paid, again (`for_you_worker.py:269`).
- *Model calls that died* leave their reservation in the counter of their day, and a
  lost answer releases what was billed (`budget.py:265`).
- *Same total.* DECP restarts a day whose total changed; a notice withdrawn and one
  added between two batches leave the total, and the offset steps over a notice.
  A unit that always fails keeps its source at its cursor.
- *Aborted transaction.* After the `IntegrityError` of a lost insert,
  `attempts.reserve` queries again on the same connection, which PostgreSQL refuses.
  The request ends either way, but as a server error instead of
  `checkout_in_progress`. `record_session` may reopen an attempt that was closed
  meanwhile and delays the account until its deadline.

## What is not modelled

Connectors, document extraction, matching, scoring and text generation (functions
of text and numbers without state); the accounts, feed and dashboard API (one
transaction per request); read models, reporting and operator consoles; table
declarations and migrations; the front end and the service units, which appear
here only as fairness. These are most of the repository's lines: of some 160 000,
the modules map eleven thousand, those that change shared rows around an external
call. Of the modelled components, `PROJECT.json` says what each leaves out.

Also left for later: recovery of interrupted sends, plan changes, acquisition
programs and census, circuit breakers, card intelligence.

## Plan

1. *Plan change* (`billing/plan_change.py`) beside `Checkout`, then composed with it
   on the subscription row: sequence numbers as idempotency keys; a cancellation
   that reached Stripe and was not committed, after which a repeated request is
   answered `scheduled` without one; `event_created_at = now` and later events.
2. *Recovery of interrupted sends* (`recovery.py`), with legacy rows as initial
   states of `ProspectSend`.
3. *Circuit breakers and acquisition programs*, around `AcquisitionRuntime`.
4. An abstract reservation that `ModelBudget` and `ContactLookup` both implement.

Theorems next: with these, those about the composition on the subscription row. The
type invariants of the components in `LedgerProofs` and `LeaseProofs` are parts of
their inductive invariants and have no theorem of their own.
