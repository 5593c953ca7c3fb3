# Untch: a TLA+ development

Untch lets an agent buy things from x402 providers with somebody else's money:
a policy engine judges the spend, an operator may have to approve it, the
caller funds it on one rail, Untch pays the provider on another, and a receipt
is anchored on chain.  This directory holds TLA+ models of that program, the
TLC configurations that check them, and proofs that TLAPS checks.

The first part is an inventory of the whole system, the second the plan, the
rest describes what is modelled, checked and proved today: the life of one
purchase in the Consumer Pack, where the money moves; the escalation that asks
an operator; the paid approvals that share one budget; and the receipts that
go on chain.

## 1. The system

| part | where | state it keeps | operations | what is hard | what makes it correct |
|---|---|---|---|---|---|
| intent state machine | `packages/consumer-core/src/state.ts` | none (a frozen map) | `canTransition`, `assertTransition` | which edges are missing | no edge re-arms a payment; terminal states have no way out |
| intent store | `packages/consumer-core/src/repo-pg.ts`, migrations 007 and 008 | intents, quotes, approvals, funding receipts, execution rows, capabilities, ledger groups, outbox | compare-and-set `transition`, guarded inserts, updates by id | each call is one transaction, two calls are not | uniqueness: one receipt, one unconsumed capability, one group of a kind per intent |
| orchestrator | `services/asp/src/consumer/orchestrator.ts` | none of its own | one method per stage, two sweeps | every `await` is a place to be overtaken or to die | one payment, on record, funded, approved; one discharge of the obligation |
| ticks | `services/asp/src/consumer/wiring.ts` | timers | execution tick (2 s), sweep (30 s), outbox (1 s), nonces | ticks overlap, on one instance and on several | each work item is taken up again after a death |
| HTTP routes | `services/asp/src/consumer/{handlers,routes,operator-routes,funding-price}.ts` | none | search, quote, execute, fund, operator intent | replays, concurrent calls on one intent, a price that is read before it is paid | no request can do what its intent is not ready for |
| treasury router | `packages/consumer-core/src/treasury.ts` | capabilities, pauses | `issueCapability`, `pay`, `reconcile` | caps and float are read, then spent, by many intents | single use; caps and float never exceeded |
| ledger | `packages/consumer-core/src/ledger.ts` | append-only groups | one builder per kind | groups written by different actors | balanced groups; a completed intent owes nothing |
| provider adapters | `packages/consumer-providers/src` | none | discover, quote, execute, getStatus, verifyDelivery | an answer that never comes, or comes as an error after the money left | what may have happened is never called impossible |
| budget reservation | `packages/consumer-core/src/budget-reservation.ts` | reservations | create, supersede, lapse; consume and release have no caller yet | two kinds of caller reserve from one budget under different locks | the sum of live reservations stays under the budget |
| x402 service calls | `packages/consumer-core/src/x402-service-calls.ts`, `x402-reconciler.ts` | calls, attempts by nonce | upsert, record attempt, finalize, reconcile | evidence asked for before the transaction, by two finalizers | nothing is asked before it is paid, nothing paid is forgotten |
| approvals | `packages/consumer-core/src/approval*.ts` | requests, decision tokens, deliveries | claim a requote, decide, supersede, expire, deliver | two channels decide at once while a requote is paid; four kinds of lock | one outcome; a retired request keeps no authority; no deadlock |
| escalation | `packages/escalation/src` | escalations, codes, a delayed queue | create, handle inbound, expire, sweep | answer against timeout | one terminal state; a timeout denies |
| policy engine | `packages/policy-engine/src` | spend windows | evaluate under a per-partition lock | concurrent evaluations, several processes | approved spend never exceeds a window's cap |
| policy store | `packages/policy-store/src` | policies, versions | create, update, pause | chain first, database second | the stored hash follows the registered one |
| receipt writer | `packages/receipt-writer/src` | receipts, batches | enqueue, claim, batch, anchor, reconcile | death between submission and record | every receipt anchored once or honestly failed |
| outbox and event stream | `services/asp/src/consumer/dispatcher.ts` | outbox rows, subscribers | drain, publish, replay | replay and live delivery on several instances | a subscriber misses nothing |
| registry and breaker | `packages/consumer-core/src/registry.ts` | providers, breaker state | gates | cooldown, half-open | an open breaker lets nothing through |
| accounts, links, sign-in | `packages/consumer-core/src/account*.ts`, `services/asp/src/consumer/auth.ts` | nonces, link tokens, sessions | issue, consume, link | replay of a single-use token | a nonce is consumed once |
| activity index | `packages/consumer-core/src/activity-index.ts` | chain events, cursors, cases | ingest, mark reorg, allocate | reorganisations | totals equal the events counted |
| x402 guard | `packages/x402-guard/src` | none | preflight, poll, pay | a challenge that changes between check and payment | what is paid is what was checked |
| governance watcher | `packages/gov-watch/src` | a block cursor | tick, fan out | failure between alert and cursor | no event is skipped |
| contracts | `contracts/src` | vault, registries, receipts, writers | spend, register, anchor, schedule | a timelock, nonces, pauses | spends within the policy, each intent once |
| trust bureau, proof engine, reports, canon, shared | `packages/*` | none that is shared | scoring, grading, encoding | numeric edges | pure functions |
| service shell, web, docs | `services/asp/src`, `apps/*` | none | routing and pages | | |

How they meet: a request runs a few orchestrator methods and returns; ticks on
every instance run the others.  They share nothing but database rows.  The
orchestrator calls the policy engine, the escalation gateway, the treasury,
one adapter and the receipt enqueuer; each state change writes an outbox event
in its own transaction, which the dispatcher delivers.

## 2. The plan

1. **The life of one intent** (done): `IntentStates`, `IntentStore`,
   `ConsumerIntent`, `PurchasePromise`, proofs.
2. **Escalation** (done): `Escalation` with its abstract specification
   `OperatorPromise` (one answer, never taken back), proofs.
3. **Receipts** (done): `ReceiptPipeline`, proofs.
4. **Approvals under one budget** (done): `ApprovalAuthority`, which composes the
   paid preflight, the x402 finalizer, the decision and the supersession, because
   what is hard about them is how their transactions meet; proofs.
5. `TreasuryRouter`: several intents over one float and one daily cap; is a cap
   kept, and by how much may it be passed?  Also the five-per-tick limit and the
   tick that throws.
6. `ApprovalDelivery` (leases, buttons) and `OutboxStream`: at-least-once pipelines.
7. The two-step policy update of the policy store.
8. `Vault`: `UntchVault` with `SpendIntentRegistry`, and the writer timelock.
9. If room is left: sign-in nonces, the guard, the watcher's cursor, the breaker.

Each gets one run for safety and, where something must happen, progress; a type
invariant and an inductive invariant are proved for each, and a refinement where
there is an abstract specification.

## 3. The modules

| module | what it is |
|---|---|
| `IntentStates` | the adjacency map, the judge of an edge, the expirable and the terminal states |
| `IntentStore` | the rows of one intent and every guarded write of the purchase path |
| `ConsumerIntent` | the orchestrator, run by requests, execution ticks and sweepers; the world; fairness |
| `PurchasePromise` | the abstract specification: where the money is, how often it was paid out, what the intent says |
| `ConsumerIntentProperties` | safety, the refinement mapping, the inductive invariant, who carries an intent, progress, and three documented statements that the code does not keep |
| `MCConsumerIntent` | the instance TLC runs, with its symmetry |
| `ConsumerIntentProofs`, `ConsumerCarryProofs` | the theorems and their proofs; those about stranded intents, unbooked ends and the operator |
| `Escalation` | one escalation: creation raced by a retry, fan-out, answers, timeout job, sweep, polls; fairness |
| `OperatorPromise` | the abstract specification: an operator that answers once |
| `EscalationProperties`, `MCEscalation`, `EscalationProofs` | what it owes, the refinement mapping and one refuted statement; the instance; the theorems |
| `ReceiptPipeline` | receipts, batches, the loops of any number of workers, the chain; fairness |
| `ReceiptPromise` | the abstract specification: a receipt grouped once, recorded only as what the chain has |
| `ReceiptProperties`, `MCReceipts`, `ReceiptProofs`, `ReceiptPromiseProofs` | what it owes, the refinement mapping and one refuted statement; the instance; the theorems; the refinement |
| `ApprovalAuthority` | the transactions that ask, pay for, answer and replace an approval under one policy, with every lock |
| `GrantPromise` | the abstract specification: authority is born from a yes, once, and dies with its question |
| `ApprovalProperties`, `MCApproval`, `ApprovalProofs` | what they owe each other, the refinement mapping and one refuted statement; the instance; the theorems |
| `ApprovalPromiseProofs`, `ApprovalWaitsProofs` | the refinement; who waits for whom, and which questions are live together |

### `ConsumerIntent`: state and code

| variable | code |
|---|---|
| `state`, `needsApproval` | `consumer_intents.state`, `approval_required` |
| `approval` | the `consumer_approvals` row: its outcome and the policy version it binds |
| `receipt`, `ledger` | the funding receipt; the kinds of ledger group written |
| `cap` | the one unconsumed capability: none, live, or expired and still in the way |
| `execs` | the execution rows, by attempt |
| `windowOpen`, `quoteFresh`, `rowsOld` | `expires_at`, the quote's expiry and the reconciler's 120 s, as facts that lapse |
| `policyVersion`, `operator` | the stored policy; what a poll of the escalation pipeline answers |
| `charges`, `paid` | what the outside world did: payments of the funding route, payments to the provider |
| `pc`, `local` | where each run stands between two awaits, and what it read before |

A *run* is one HTTP request, one tick's work on this intent, or one sweep.
Every `await` on the store, the provider or the operator is a step, and the
label names what comes next.  Where the code reads, decides and then writes
with a compare-and-set, the read is one action and the write another, with the
value read kept in `local` (`seen`, `heard`, `version`, `row`).  Where a method
passes literal states to `transition`, the read before it does not matter and
has no step.  A `transition` that fails throws; the caller either ends there,
goes on where the code catches, or enters the catch block of `executeIntent`.

The definitions follow the order of the methods: `BeginOffer` to `PublishOffer`
(discover, quote), `ReadPolicy` to `RewriteApproval` (`runPolicy`), `PollApproval`
to `ApplyOutcome` (`resolveApproval`), `BeginFunding` to `QueueExecution`
(the funding leg), `BeginExecution` to `MarkRefundPending` (`executeIntent` and its
failure paths), `BeginVerify` to `Complete`, then the two sweeps.  `PROJECT.json`
names the lines of each.

The section *FAULTY VARIANTS* of `ConsumerIntent` holds actions with one mistake
each.  No specification uses them; each property has one that breaks it when it
takes the place of the action it varies, so that the properties are known to
depend on the code.

### `ConsumerIntent`: what is abstracted

- One intent at a time.  Rows of different intents meet only in the float and
  the caps, which are the next module; here the treasury may refuse.
- Amounts are one unit: the funding is whole or absent (`confirmFunding` refuses
  less), and each discharge moves all of it.
- The policy engine's verdict, the registry, the breaker and the flags are free
  choices at the place where they are asked.
- The provider settles a payment or does not, then answers, errs or goes silent.
  A status query may say FULFILLED even of what was not paid: StableDomains answers
  by domain, and the domain of a renewal is active already.
- The escalation gateway is modelled by its contract: asked once, it answers
  once or never (`OperatorAnswers`, `PollApproval`).  `OperatorPromise` states that
  contract; `Escalation` is shown to keep it towards the guard, and `AsksOnce` that
  a purchase uses it so, however many requests run the policy.  What the
  production bridge makes of the answer is `IntentHearsDenial`, below.
- Reaching the funding handler means the middleware settled, as `routes.ts` says.
- `createIntent` is the initial state; the idempotency key makes a replay find
  the same row.
- A human's resolution of `MANUAL_REVIEW` happens in SQL, outside the code, and
  is not modelled; nothing modelled reaches `CANCELLED` or `REFUNDED`.
- Verification receipts, previews, and everything that reads only.

### `Escalation`

| variable | code |
|---|---|
| `status`, `owner`, `confirmed` | the row of `escalations`: its status, whose id and code it has, the channels confirmed |
| `needsTwo`, `capped` | `dualChannelAbove` and the channel caps against the amount, fixed at the start |
| `clock` | `code_expires_at`: before, at, past |
| `ask`, `todo`, `inbox`, `jobs` | where a `createEscalation` stands, what it has delivered, the delayed jobs in Redis |
| `inbound`, `consent` | the `handleInbound` calls between read and write; on what channels the operator really said yes |
| `polling`, `heard`, `relayed` | `getState` past the deadline; what guards and consumer intents were told |

Every write is `Transition`, the conditional UPDATE; a call that read the row
first keeps only its verdict, and the UPDATE judges again.  A retried preflight
is a second asker: the loser of the insert goes on with an id that is no row's,
which is why its notifications and its job come to nothing.  A late poll answers DENIED whether
or not its UPDATE found the row open; if an answer was faster, the next poll says
APPROVED, so `HeardMatchesRow` lets a guard hear both, but only past the deadline.  Codes, messages and
the operator's identity are three kinds of sender.

### `ReceiptPipeline`

| variable | code |
|---|---|
| `queued`, `batchOf` | `receipts.status = QUEUED`, `receipts.batch_id` |
| `quarantined` | `untch_artifact_annotations` |
| `batch` | the table `batches`: status and `tx_hash` |
| `loop` | where each loop of each worker stands: its list, its batch, its attempt |
| `tx`, `drops`, `faults` | the chain's fate of each transaction; how often it dropped one or a loop died |

Flushers claim (two transactions see each other through SKIP LOCKED), submit and
retry; recoverers take PENDING batches a dead process left; reconcilers look up
inclusion and confirm at depth.  A receipt's status is its batch's once it has
one, since every write changes both.  The triggers of migration 022 are in
`Refused` and `PastTrigger`.  Redis ticks are hints and have no step: the timers
of `worker.ts` do the work.  `BatchMaxSize`, `MaxBatches`, `Txs`, `MaxDrops` and
`MaxFaults` are bounds.

### `ApprovalAuthority`

| variable | code |
|---|---|
| `request`, `replaces`, `lineage` | `untch_approval_requests`: state, `supersedes_approval_request_id`, `quote_lineage_id` |
| `call`, `attempt` | `untch_x402_service_calls.state`, `untch_x402_payment_attempts.state` |
| `fee` | what became of the service fee on the chain |
| `hold` | `untch_budget_reservations.status`; LAPSED is an ACTIVE row past `expires_at`, which no exposure counts and a requote still names |
| `decisions` | `untch_approval_decisions` |
| `tx` | where each database transaction stands, which is also what it has locked (`Has`) and waits for (`Awaited`) |
| `locked` | the rows each expiry sweep's one `UPDATE` has locked so far; it waits for the other overdue ones (`Asked`) |

Postgres makes a transaction's writes visible at its commit, so each action but
the last takes one lock and decides under it where to go, and the last one writes
everything.  `Abort` may end any transaction before that: a death, a rollback, a
deadlock victim.  The definitions follow the code: `Submit` to `CommitApproved`
(preflight), `Press` to `Approve` (`actOnApproval`), `LockOverdue` to `AbortSweep`
(`PgApprovalStore.expire`, which three jobs and two reads call: it locks the overdue
rows one by one, in no order the statement states, and expires at its commit those
still PENDING),
`AskAuthority` to `Activate` (`finalizeSettlement`, run by the settled response and
by the reconciler with evidence asked for before the transaction).

What is abstracted: every amount is one; an intent names its request, call and
reservation (the unique indexes make that so, and a renewed request is another
intent); bindings, tokens and nonces are a refusal the model may always take; a
clock read before a lock counts as read after it; the facilitator never calls one
fee both settled and lost, so the throw for a confirmed request that is not
PROVISIONAL is out of reach; a second paid attempt on one call, day keys, and the
reconciler's limit of 20 are left out.  A sweep's snapshot may be older than the
answer to a row it locks, so it may lock any row that was ever asked.  The lineage
key of `finalizeSettlement` is in the model and in `WaitsAreKnown`; with one
PROVISIONAL request per lineage (migration 031) nobody is ever kept waiting by it.
Two things met on the way and not stated
as properties: a refused supersession throws and leaves `updated_at` as it was, so
twenty such calls would fill the reconciler's list for ever; and no job runs
`expireStaleReservations` (`workers/job-wiring.ts` wires `approvals.expire` instead),
which is why LAPSED holds keep their ACTIVE status here.

## 4. The runs

| run | instance | asks | bounds |
|---|---|---|---|
| `intent_requests` | 2 requests, 1 worker, 1 sweeper | `PaymentFunded`, `NoPaymentWithoutApproval`, `DischargedOnce`, `AsksOnce` | 2 charges, no deaths, 1 policy edit |
| `intent_workers` | 1 request, 2 workers, 1 sweeper | `TypeOK`, `PaidAtMostOnce`, `PaymentOnRecord`, `PaidNeverRefunded`, `CompletedIsSettled`, `OnlyFaultsStrand`, `EndsAreBooked`, `KeepsPromise` | 1 charge, 1 death, 2 policy edits |
| `intent_progress` | 1 of each, under `FairSpec` | `QueuedIsPickedUp`, `DeliveryIsVerified`, `LapsedIsExpired`, `UndisturbedSettles` | 1 charge, 1 death, 1 policy edit |
| `failed_after_payment` | 1 of each | `FailedMeansNothingMoved`, refuted | no deaths |
| `expired_with_money` | 1 of each | `ExpiredHoldsNoMoney`, refuted | no deaths |
| `ambiguous_in_flight` | 1 of each, under `FairSpec` | `AmbiguousIsResolved`, refuted | 1 death |
| `escalation_answers` | 2 askers, 2 answers under way, 1 guard, 2 channels, under `FairSpec` | `TypeOK`, `ApprovedByConsent`, `HeardMatchesRow`, `OnlyForward`, `KeepsOperatorPromise`, `GuardHearsDecision` | none |
| `escalation_bridge` | 1 asker, 1 answer, 1 waiting intent, under `FairSpec` | `IntentHearsDenial`, refuted | none |
| `receipt_anchoring` | 2 flushers, 1 recoverer, 1 reconciler, 1 receipt, under `FairSpec` | `TypeOK`, `ConfirmedIsFinal`, `RecordedWasSent`, `ClaimedOnce`, `QuarantineIsKept`, `KeepsReceiptPromise`, `EnqueuedIsSettled` | 2 batches, 2 transactions, 1 drop, 1 death |
| `receipt_quarantine` | 1 of each | `NeverAnchored`, refuted | 1 batch, no drop, no death |
| `approval_races` | 1 preflight, 2 channels, 2 finalizers, 1 sweep, 3 intents of which 2 escalate, a budget of 1 | `TypeOK`, `PaidBeforeAsked`, `SupersessionIsExact`, `OvershootIsOne`, `WaitsAreKnown`, `PaidStaysListed`, `AuthorityByConsent`, `OneLivePerLineage`, `OneOutcome`, `KeepsGrantPromise` | none |
| `approval_budget` | 1 of each, 2 intents, a budget of 1 | `ExposureWithinDaily`, refuted | none |

Why these bounds are enough for what they ask: two requests are what it takes
to race a poll, a rewrite of the approval row, a charge or a funding request
against another; two workers are what it takes for a tick to overtake another
between any two awaits, and the reconciler makes a third; a second charge shows
the duplicate receipt, a second policy edit an approval voided after it was
given.  One death reaches every await, since it may strike any of them.  The
proofs carry the safety results to every number of runs, deaths, charges and
edits.

For the others: two askers race one `pollRef`, two calls of `handleInbound` are what
two channels, or one channel twice, need.  A second batch exists when a second
flusher claims what the first one released; two transactions are a resubmission
beside the original, and one drop or death falls anywhere.  Two channels and two
finalizers are each role racing itself; one plain intent, one escalated and its
requote are what competes for a budget of one, and any of the three may be a
requote of either escalated one.  One sweep meets every other transaction; two that
meet each other are in the proof.  One preflight is enough for the locks, since
preflights of one policy exclude each other from their first step to their last.

Runs are interchangeable within their role, so the two safety runs use that
symmetry; the liveness runs use none; `approval_races` uses that of the
channels, the finalizers and the escalated intents.  Deadlock is not checked, in
any run: an intent that is finished or waits for a caller who never comes, an
escalation decided, a receipt settled, an approval nobody answers, are at rest.
Circles of waiting transactions are what `WaitsAreKnown` is about instead.  It
allows two kinds, both of which occur.  An answer holds the request and waits for
the call, a finalizer that repeats itself on that finished call holds the call and
waits for the request.  And a sweep holds one overdue row and waits for another:
another sweep may hold the two the other way round, and a requote's preflight may
hold the row it replaces while it waits for the call of a finalizer that waits for
the sweep's row.  Postgres ends either with one victim.

### Fairness

`startConsumerWorkers` starts a tick on a timer whatever became of the last one, so
each tick is weakly fair in starting its work (`BeginExecution`, `BeginVerify`,
`FindExpirable`, `FindAmbiguous`), a run that has begun goes on (`Continue`: Node
resumes a settled promise), and execution rows grow old.  Nothing obliges a
caller to ask, a payer to pay, an operator to answer, a clock to pass an expiry
or a policy to be edited.  Deaths are never fair, and bounded by `MaxFaults`.

`Escalation`: time passes, the thirty-second sweep runs, a poller polls again.
Neither an answer nor the delayed job is owed.  `ReceiptPipeline`: the loops are
timers that keep going, the RPC does not refuse every send for ever and the chain
does not drop or revert every transaction (strong fairness of `Send` and `Include`).
Nobody has to re-drive, and a loop that died starts again clean.
`ApprovalAuthority` has no fairness: what its hazards ask is safety, and the one
thing that must happen, that a paid question is asked, is stated as
`PaidStaysListed`, the part of it the code is responsible for.  The liveness of the
whole, checked at this size, takes TLC longer than the safety run by far.

### What the refuted statements show

- **`FailedMeansNothingMoved`.**  `FAILED_AFTER_PAYMENT` is for errors after which the
  provider "definitely did not" act.  Any HTTP error that answers the request
  carrying the payment is classified by its status alone, as free of side
  effects; the intent then fails with no settlement on the ledger although the
  provider may have been paid.
- **`ExpiredHoldsNoMoney`.**  The receipt is one transaction, the move to `FUNDED`
  another.  A sweep between them expires the intent, and `EXPIRED` has no exit:
  the money stays booked as an obligation nothing refunds.
- **`AmbiguousIsResolved`.**  When the provider says it fulfilled, the reconciler
  settles the execution row and leaves the intent in `PROVIDER_PAYMENT_PENDING`.  If
  its worker is dead, nothing ever looks at it again.
- **`IntentHearsDenial`.**  The bridge reads `status` off the view `getState`
  returns, which has it one level down, so a consumer intent that polls hears
  PENDING for ever, of a denial as of an approval.
- **`NeverAnchored`.**  Only the claim looks at the annotations.  A receipt annotated
  after it is still sent to the chain; the trigger then refuses the record of it,
  and the loop sends again.
- **`ExposureWithinDaily`.**  A preflight locks `policy:<id>`, an answer
  `untch.policy.budget.<id>`.  Each sees the reservations the other has not
  committed as absent, and both reserve the last unit.  `OvershootIsOne` bounds the
  damage: each door excludes itself, so it is one grant.  Giving both one key is no
  repair by itself: then a requote that holds it waits for the row of the request
  an answer holds, and the answer for the key, a circle `WaitsAreKnown` finds.

## 5. What is proved

### The purchase

`ConsumerIntentProofs` proves, for any sets of requests, workers and sweepers, any
bound on charges, deaths and policy edits, and nothing assumed but that the
roles are disjoint and the bounds are natural numbers:

| theorem | says |
|---|---|
| `TypeCorrect` | `Spec => []TypeOK` |
| `Invariance` | `Spec => []IInv` |
| `PaysOnce` | the provider is paid at most once |
| `PaysOnRecord` | a payment has its row, and there is no second attempt |
| `PaysFromFunding` | no payment before the funding is booked |
| `NeverPaidAndRefunded` | a paid intent is never refunded |
| `DischargesOnce` | the obligation is discharged at most once |
| `CompletesSettled` | a completed intent is settled |
| `PaysAsApproved` | an escalated purchase needs the operator's yes |
| `PromiseKept` | `ConsumerIntent` implements `PurchasePromise` |

None of the safety properties is inductive.  That the provider is paid once,
say, depends on where runs stand: a run past the commit could pay again were
another already past it.  `IInv` adds to `TypeOK` what the code relies on without
saying so:

- `OneSpender`: at most one run is between the commit and the rail, nothing has
  been paid while it is, and the states that may have paid are never left for
  one that has not;
- `RowsMatch`: the execution row comes with the commit, so a run that is about
  to write one finds none;
- `LedgerMatchesState`: `RECOGNITION`, `REFUND` and `SUSPENSE_MOVE` each belong to the
  states of one branch, and no run leaves one branch for another;
- `PaidIsBooked`: an intent that says it paid did, and booked it;
- `OperatorAgreed`: the operator is asked by the one run that moved the intent to
  `AWAITING_APPROVAL`, and an approval heard by any run was really given.

`TypeNext` shows the types inductive, `SafeNext` the five parts, action by action;
the theorems follow.  `StepRefines` then maps every action under `IInv` to a step of
`PurchasePromise` or to a stutter, and `PromiseKept` adds the initial states.

`ConsumerCarryProofs`, under the same assumptions:

| theorem | says |
|---|---|
| `FaultsAloneStrand` | with no run cut short and no store call that throws, an intent in a state no tick lists is being carried out of it |
| `EndsBooked` | a pending refund is booked; with no fault, so is every funded intent that failed before payment or went to review, or a run is about to book it |
| `OperatorAskedOnce` | a purchase uses the operator's side as `OperatorPromise` allows |

No tick lists `PROVIDER_PAYMENT_PENDING`, `PROVIDER_PAID` or `DELIVERY_VERIFIED`, so
the run that brought the intent there is the only one that owes it anything.  The
first proof follows that run: each of its steps, its catch blocks included, keeps
it at a label that leads out (`Onward`), and it gives up only when its
compare-and-set finds that another has moved the intent.  Every other step leaves
labels and state alone or moves the intent elsewhere (`Aside`).  One case takes more than `IInv`: the run
that is about to book the recognition would stop if the group existed, so
`Closers` says that one run closes an intent and finds it unbooked.

`EndsBooked` is about the two ways out that move the state first and book in a second
transaction (`failBeforePayment`, `handlePostPaymentFailure`).  What it adds to `IInv`:
an intent no money was taken for, which then fails, has no payer on the way either, so
that it never comes to need a refund (`Unfunded`), and a run about to mark the refund
finds it booked.  Every step but the few that end, fund or book leaves all this alone
(`Beside`).  A death in between leaves the money an obligation, which
is why the property speaks of `faults = 0`.  `FAILED_AFTER_PAYMENT` is no such end: nothing
books it, with a fault or without, which is `FailedMeansNothingMoved` again.

`OperatorAskedOnce` closes a chain: `OperatorKept`, below, shows that `Escalation` keeps
`OperatorPromise`, and `OperatorAskedOnce` that `ConsumerIntent` assumes nothing more
of its operator.  (Whether the bridge between them carries the answer is another
matter: `IntentHearsDenial`.)

### The other components

For any sets of actors, channels, intents, batches and transactions and any
budget, under the named assumptions of each module (finite sets, disjoint roles,
bounds that are natural numbers):

| module | theorems |
|---|---|
| `EscalationProofs` | `Typed`, `ApprovalsAreConsent`, `GuardsHearTheRow`, `RowsMoveForward`, `OperatorKept` (`Escalation` implements `OperatorPromise`) |
| `ReceiptProofs` | `ReceiptsTyped`, `ConfirmedStays`, `RecordsAreTrue`, `ClaimsAreExclusive`, `QuarantineHolds` |
| `ReceiptPromiseProofs` | `ReceiptsArePromised` (`ReceiptPipeline` implements `ReceiptPromise`) |
| `ApprovalProofs` | `ApprovalsTyped`, `AskedIsPaid`, `RequotesRetire`, `OvershootBounded`, `NothingPaidIsForgotten`, `OutcomesAreFinal` |
| `ApprovalPromiseProofs` | `AuthorityIsConsent`, `GrantsArePromised` (`ApprovalAuthority` implements `GrantPromise`) |
| `ApprovalWaitsProofs` | `CirclesAreKnown`, `LineagesLiveOnce` |

The inductive invariants say what the code relies on between a read and a write:

- `Escalation`: a call about to approve has a genuine yes on a channel that is not
  capped, and was right about the number of channels or will be (`VerdictsJustified`,
  `ConfirmedByConsent`); a poll about to say no saw the deadline pass (`PollsJustified`).
- `ReceiptPipeline`: the rows a flusher holds locked are claimable and nobody
  else's; a transaction hash in a frame, on a list or on record is that of a
  transaction sent for that batch (`SentHeld`, `ListHeld`, `SubmittedHasTx`); a loop
  about to confirm has seen it final (`DepthHeld`).
- `ApprovalAuthority`: what a transaction may rely on given the locks it holds
  (`Roles`), which of them exclude which (`Apart`), the agreement of fee, call,
  attempt and request (`Ledger`), and `Slack`: live authority, plus one for each door
  with a grant under way, stays within the budget plus one.

Four results take more than these invariants:

- **`ReceiptsArePromised`** maps a receipt to known once it has a row and a batch to
  anchored once a transaction that logs it is too deep for a reorg.  A loop writes
  the batch it remembers, so the proof adds `WorkHeld`, that the batch in a frame
  or on a list was created, and `Numbered`, that the next number is free, so that a
  claim never joins a group that exists.
- **`GrantsArePromised`** first forgets the locks: `GrantSteps` shows that whatever
  the transactions do, a step does one of nine things to questions, holds and
  decisions.  `Consent` relates the three, is kept by each of the nine, and gives
  both `AuthorityByConsent` and the step of `GrantPromise`.  The limit is `Slack`'s.
- **`CirclesAreKnown`** is about circles of any length, of any number of
  transactions.  `OneWait` turns each wait into one of a few kinds, by what the
  waiter and the holder are doing; `NoWaitBack` and `CirclesRepeat` show that no
  circle can be made of them without an answer and a finalizer that repeats itself
  on the same finished call.  `SweepWaits` lets a sweep into a circle only beside
  another sweep or a preflight that holds a row it still wants.  That takes three facts `IInv` does not have: one
  unpaid question per lineage (`Lineages`), what a preflight saw of it under the
  policy's lock (`Claims`), and one finalizer at a time on a call (`Owners`).
- **`LineagesLiveOnce`** says that two questions about one piece of work are never live
  together.  The index of migration 031 covers PROVISIONAL rows, and that of PENDING
  rows says nothing of an APPROVED one, nor of the budget it holds.  `Kin` strengthens
  the property: a question on its way to be asked replaces the one there is, if any.
  It rests on `Lineages`, on `Priors` (a preflight past the check of its claim holds
  the row of the question it replaces, so no answer, requote or expiry comes
  between) and on `Consent`.  A requote the engine approves outright is left out, since
  it retires nothing: `x402-service-calls.ts:656` warns of just that pair.

Only model-checked: progress (`QueuedIsPickedUp`, `DeliveryIsVerified`,
`LapsedIsExpired`, `UndisturbedSettles`, `GuardHearsDecision`, `EnqueuedIsSettled`),
since liveness under fairness is beyond the prover; and the refuted statements,
which TLC's counterexamples settle.  Every safety property a passing run checks,
invariant, action property or refinement, has a theorem.

## 6. Not modelled

Everything section 2 plans, with its reason in `PROJECT.json`; besides, the user
interfaces, the documentation site, scripts and deployment, the scoring and
grading functions (pure, over large inputs), byte-level encodings, and the
outside services: providers, facilitators, chains and chat channels appear only
as the answers the code must cope with.

Two deaths have no recovery in the code, so no progress property is stated for
them: a worker that dies after the commit and before the execution row, and one
that dies in `PROVIDER_PAID` or in `DELIVERY_VERIFIED`.  Safety holds through both, and
`OnlyFaultsStrand` says that nothing less strands an intent there, with one addition
met while stating it: a store call that throws between `PROVIDER_PAID` and
`PROVIDER_ACKNOWLEDGED` enters the catch block, whose transition starts from
`PROVIDER_PAYMENT_PENDING` and so fails, and the intent stays paid and unlisted.
`faults` counts both, and the property is about runs without either.  Provider
errors, refusals, lost compare-and-sets and overtaking runs strand nothing.

## 7. Running

    tlc -config IntentWorkers.cfg MCConsumerIntent      # any of the .cfg files
    tlapm ConsumerIntentProofs.tla                      # or any other *Proofs module
