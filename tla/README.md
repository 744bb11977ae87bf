# HUAKAI in TLA+

HUAKAI is a multi-tenant LLM gateway written in Go on PostgreSQL. A client's
request reserves money, gets a slot on an upstream account, is sent upstream, its
answer is delivered, and the real cost is settled. Around that are the services a
user pays through, the guards that keep traffic away from what does not answer, and
the background work that does again what failed. This directory models these parts
where concurrency, failure and money meet, checks them with TLC on small instances
and proves the properties that matter most with TLAPS.

All paths below are relative to `src/backend/`. PROJECT.json lists components,
runs, mutants, hazards, theorems and, for every definition, the lines it models.

## 1. Inventory

| Component | State | What makes it hard | What makes it correct |
|---|---|---|---|
| Claim gate, wallet holds (`internal/billing/claim_gate.go`, `balancehold.go`) | `billing_ledger_claims`, `balance_holds`, `user_balances` | concurrent reservations on one wallet, revived claims, lost commit answers | hold in step with claim, wallet = sum of holds, at most one charge |
| Settler (`internal/billing/settler.go`, `settler_retry.go`) | the same, `billing_events`, `usage_records` | retries, Serializable snapshots, stale callers, usage rows that cannot be stored | one event per attempt, committed is final, delivered is never aborted |
| Pool slots, queue wait (`internal/pool/...`) | `pool_slot_acquisitions`, `in_flight_count`, an in-process queue | three places that decrement, admission under an advisory lock, giving up while one is served | count = acquired slots <= cap; everyone is answered |
| Lease sweeper (`internal/billing/lease_sweep.go`) | a claim between two statements | works on what it read before | reservations end, successors are spared |
| Settlement intents and sweeper (`internal/settlementintent`) | `settlement_intents`, versioned | best-effort writes, late writes, stale reads | terminal status tells the truth, leftovers close |
| Recovery and dead-letter queue (`internal/settlementrecovery`, `internal/dlq`) | `usage_record_dlq` | at-least-once, leases that run out under a worker | paid once and in the end; only the holder marks a row |
| Relay request (`internal/embeddingshttp`, `gatewayhttp`) | a goroutine | crashes and lost answers anywhere | who received pays, who did not does not |
| Payments and refunds (`internal/payment`) | orders, audits, refunds, refund requests, the wallet | repeated and late callbacks, two phases, partial refunds against held money | fulfilled once, no more paid back than credited, caps |
| Vouchers, balance ledger, subscriptions (`internal/voucher`, `balanceledger`, `subscription`) | codes, entries, terms | idempotency keys, caps, renewals against older reads | each key acts once, entries explain balances |
| User sessions (`internal/usersession`) | sessions, token generations | rotation against revocation in three statements | one live token per family, a replay ends the family |
| Upstream credentials, authentication cooldown, channel health, breaker (`credentialworker`, `authcooldown`, `channelhealth`, `circuitbreaker`) | one record per account or key, mirrors of replicas | verdicts that arrive after the state they judge | late verdicts change nothing newer; traffic comes back |
| Quota reservations (`internal/quota`, `quotaenforce`) | reservations, windows, slots, jobs | claims revived under a compensation | windows are what reservations used, everything is settled or parked |
| Media tasks (`internal/mediatask`) | `media_tasks` and their claims | submissions nobody knows the outcome of | money moves once and every task ends |
| Hermes confirmation and recovery (`internal/hermesconfirm`, `hermesrecovery`) | tokens, a journal, audit rows | unanswered commits, leases, a worker beside its request | executed once, audited exactly once |
| Event bus, log sink (`internal/eventbus`, `logsink`) | bounded queues | overflow, timeouts, shutdown | critical work done or taken back, counters add up |
| Retry budget; provider adapters; HTTP surfaces; audit hash chain | a counter; none; none; a chain | little that is concurrent | not modelled (section 8) |

A request calls the claim gate (Tx1), inserts its intent, asks the selector for a
slot (which writes the token onto the claim), dispatches, marks the intent
`delivering` (the **delivery gate**), writes the response and settles (Tx2) or
aborts. If settling fails after delivery, the payload goes to the recovery queue or,
if that fails too, onto the intent. The lease sweeper aborts claims nobody finished
unless there is evidence of delivery: an undelivered recovery row or an intent in
`delivering`, `settling` or `failed`. The intent sweeper gives intents of finished
attempts their terminal status and publishes the payload of failed ones again. All
of them meet only in the database. The other components touch these only through
the wallet, the claim's status and the account's eligibility, which their modules
let anybody change as the code allows.

## 2. Modules

| Module | What it models |
|---|---|
| `ChargeContract` | what the billing core promises a customer: a claim freezes an amount and ends charged (once, for ever) or freed (and may be tried again) |
| `Sums` | SUM(...) over the rows of a table, by counting coins |
| `BillingLedger` | the tables as functions of their keys, one action per transaction; refines `ChargeContract` |
| `SettlementPipeline` | the ledger EXTENDED by its callers: requests, intents, recovery rows, lease and intent sweepers, faults |
| `SlotAdmission` | the slot transaction under the binding's lock, the account cap, token write-back, releases, orphan sweep, queue wait |
| `DeadLetterQueue` | one lane: enqueue or keep, leases, fencing, retries, quarantine, replay handlers |
| `Payments` | orders of one user, callbacks, confirmations, both phases, the expiry sweeper, refunds and refund requests, the wallet with its held money |
| `Vouchers`, `BalanceAdjustments`, `Subscriptions` | redemption; credits and debits by hand; terms, renewals and their workers |
| `UserSessions` | login under the device limit, refresh with its cached lookup, rotation, replay, logout, password change and reset |
| `CredentialRefresh` | one account's refresh: scan, storm slot, lock, load, call, storing, health, the operator's rotation |
| `QuotaReservations` | reservations of claims that are aborted and revived, settlement, jobs, stale sweep |
| `MediaTasks` | one task, video or not: leases, submission, polling, orphans, unknown submissions, the sweeper |
| `HermesConfirm`, `HermesRecovery` | confirmation tokens with the account switch they guard; the journal of the dead-letter replay |
| `CircuitBreaker`, `ChannelHealth`, `AuthCooldown` | the breaker of one key; one account's health; one account's cooldown with two replicas |
| `EventBus`, `LogSink` | bounded queues, workers, timeouts, shutdown |
| `Background` | what runs behind the requests, together, and what it does not undo |
| `MCBillingLedger`, `MCSettlementPipeline` | instances of these two |
| `MCMoney`, `MCUpstreams`, `MCRequests`, `MCBackground`, `MCProgress`, `MCOutcomes` | suites of instances of the others |
| `..._proof`, `Sums_proof` | the proofs |

The suites put several components side by side. They share no state, so a behaviour
of a suite is a behaviour of one of them (`side`) while the rest stay in their
initial states: the states add up instead of multiplying, and no behaviour of any
is lost. Where one component is checked on two instances, each is a side.

How state corresponds. A table is a function of its key; a row that does not exist
has a status of its own. A goroutine is a record with a control state and what it
remembers of its reads. Each database call of a goroutine is one step; a
transaction that commits is one atomic step and one that rolls back is none, except
where its snapshot matters: an abort takes two steps (`AbortBegin`, the snapshot and
the evidence check, and the commit), because a Serializable snapshot does not see a
concurrent UPDATE of another table. A call that fails either took effect or did not.
Money is a small number and the many cost columns one; fingerprints, tenants and
formats are part of a row's identity; leases are booleans that time may set, or
distances to now.

Definitions named `X_Suffix` and commented "Fault:" are faulty variants of `X` and
take no part in any specification. PROJECT.json names, for every property of a
passing run, one of them that breaks it. A suite property has several conjuncts, and
the other variants in the modules each falsify it through another one.

What a reader should know of single modules:

* `BillingLedger` leaves callers out: any of them may run at any time, with an
  attempt or a slot as stale as it likes. Top-ups and refunds are in `Payments`. The
  replay of a parked usage row looks and inserts in two steps (its NOT EXISTS has no
  unique index behind it), so that the `Replayers` that have the row in hand at once
  may store it once each; `DeadLetterQueue` says how they come to.
* `SettlementPipeline`: `LeaseOutlivesAttempt` (no attempt runs longer than the 30
  minutes of its lease; the code relies on it and enforces it nowhere) and
  `SweepIsPrompt` (no other attempt is reserved between the sweeper's selection and
  its abort) are operational assumptions; both values are explored.
* `Payments`: a callback stamped before the deadline is honoured after it
  (`EarlyStamps`), so the cap of the day is stated for the orders that are not
  overdue. Caps, and the user's advisory lock, are a recharge's own
  (`OpenRecharge`, `payment/order.go:93`): the portal, the purchase of a subscription
  and an administrator create orders without either (`CreateOrder`), which count in
  a recharge's check but are not held by it, so `CapsHold` is about recharges. Holds
  are charged for no more than was held; overruns are in `BillingLedger`. Rewards and
  the legacy replay of split refund transactions are left out.
* `Vouchers`: a redemption that fails rolls back whole. `BalanceAdjustments`: keys
  are locked, balances compared by row version.
* `Subscriptions`: one user, serializable transactions. When a plan has moved to
  another group a charge may renew a subscription of that group, so the chain of the
  ledger is only stated for plans that stay (`SubscriptionBooks` for the others). An
  operator's grant is not held to the latest expiry, everything else is
  (`OnlyGrantsPassLimit`); the instances let time reach so near to it that grants end
  beyond it.
  Left out: suspended tenants, the editing of a user's group, reminders.
* `UserSessions`: which family is oldest is arbitrary; drift detection is an
  arbitrary revocation; the `confirm` device mode is left out.
* `QuotaReservations`: one metric; the others move by the same code. Left out:
  observe and manual policies, budgets, cache hits (which settle at cost 0).
* `SlotAdmission`: one process, one account, one binding; SERIALIZABLE appears as
  first-updater-wins on the account's row. Nobody edits the cap while requests run. A
  claim whose delivery has begun is refused to every abort; only its request, or a
  recovery of it, ends it.
* `DeadLetterQueue`: the usage handler takes any usage row of the claim for its own
  (`dlq/handlers.go:131`), so a row may be delivered with nothing stored
  (`otherUsage`).
* `MediaTasks`: an orphan row that was attached, closed or charged stays what it is;
  no second row is opened for the job.
* `AuthCooldown`: two replicas of one account; a persisting statement (2 s) is much
  shorter than the window (30 s). `OldCredentialCannotDisable` and `DeadStaysOut`
  hold only while no statement fails. `ChannelHealth`: distances instead of instants,
  one leader; latency verdicts take the steps of 5xx and are left out.
* `EventBus`: `wiring` is what the process registered before it served: its handlers in
  the order `Emit` reaches them, those it waits for first, their queues and workers. TLC
  takes one critical and one async handler, and one async handler alone. A handler's
  goroutine survives its timeout and Stop. `LogSink`: one worker, two priorities.
* `HermesRecovery`: one dead-letter row; a live holder's lease expires only as a
  fault (its 2 minutes exceed the 90 s and 10 s of the steps under it).

## 3. Runs

| Run | Instance | What it shows |
|---|---|---|
| `ledger_wallet` | 2 claims of one user (balance 3), 2 slots, 1 account of cap 1, costs 1 and 2, 2 attempts | `TypeOK`, `HoldFollowsClaim`, `WalletBooks`, `SlotBooks`, `UsageBooks`, `CommittedIsFinal`, `ImplementsContract` |
| `pipeline_safety` | 2 requests of one claim, 2 slots, 2 attempts, 2 faults; no attempt outlives its lease | delivered is never aborted, only delivered attempts pay, terminal intents tell the truth |
| `pipeline_hazards` | the same without faults; leases may end early and the sweeper be slow | nobody pays for nothing and recovery loses nothing all the same; every step is a ledger transaction |
| `pipeline_liveness` | 1 request of 2 attempts, 2 faults, fair | recovery completes, reservations end or keep evidence, intents close |
| `money` | payments (two top-ups; a top-up and a subscription order), hand adjustments, vouchers, subscriptions (two instances) | the safety suites below, and `DecisionsStand`: no step undoes what was decided |
| `upstreams` | breaker, channel health, cooldown lane (with a fault; with a rotation) | probe accounting, strikes, resumes; `HealthKeepsOrder`: late signals change nothing newer |
| `requests` | sessions, quota, admission (an account of one or two slots, one place to wait) | the safety suites, and `RevokedFamilyIsDead` |
| `background` | Hermes confirmation and recovery, dead-letter queue (workers of one name, an operator, a poisoned row), bus (two wirings, two orders of stopping), sink, media tasks (video or not), refresh | the safety suites, and `FactsStand` |
| `progress` | queue, breaker, admission, quota, sink, refresh, health; fair | `RowsAreDecided`, `LimitsAreReturned`, `OutagesEnd` |
| `outcomes` | payments (callbacks stamped early), subscriptions, video (an administrator attaches, releases, closes and charges), Hermes recovery, bus; fair | `MoneyIsDecided`, `TasksEnd` |
| `usage_lost`, `stale_sweep` | as the ledger's and the pipeline's | two violations, section 6 |

The suites' conjuncts, beyond the types of each component:

* `PaymentSafety`: `FulfilledExactlyOnce`, `RefundsWithinCredit`,
  `ApprovedMeansRefunded`, `BooksAgree`, `HeldIsCovered`, `CapsHold`.
* `AdjustmentSafety`: `KeyMovesMoneyOnce`, `EntriesExplainBalances`,
  `NothingOverdrawn`, `AnswersAreTrue`. `VoucherSafety`: `CountedAndCapped`,
  `OncePerUser`, `OncePerKey`, `GivenIsRedeemed`, `SuccessIsRecorded`.
* `DecisionsStand`: `ClosedIsFinal`, `RefundFactsAreFinal`, `RevokedIsFinal`,
  `NeverExpiresRunningTerm`, `UsageSurvives`, `OptOutHolds`.
* `LaneSafety`: `BurstEscalatesOnce`, `ResumeHolds` and, while no statement fails,
  `OldCredentialCannotDisable`, `DeadStaysOut`. `DisableStands`:
  `OnlyOperatorLiftsDisable`. `HealthKeepsOrder`: `HealthTypeOK`, `CooldownNeverShortened`,
  `RampTakesItsTime`, `LateSignalHarmless`, `BanOutlivesItsCooldown`.
* `SessionSafety`: `OnlyNewestRefreshes`, `ExchangedOnce`, `ReplayEndsFamily`,
  `DeviceLimit`, `NoSessionOutlivesPassword`.
* `FactsStand`: `AuditIsFinal`, `OnlyHolderMarks`, `SettlementNeverShelved`,
  `DeliveredIsFinal`, `MoneyMovesOnce`, `RevocationHolds`.
* `RowsAreDecided`: `SettlementIsDelivered`, `EveryRowIsDecided`.
  `LimitsAreReturned`: `EveryoneIsAnswered`, `SlotComesBack`, `EndedIsClosed`,
  `SlotHeals`, `DueIsCalled`. `OutagesEnd`: `RecoversWhenHealthy`, `RampEnds`,
  `CancelledEnds`, `QueuesEmpty`.
* `MoneyIsDecided`: `PaidIsDecided`, `LapsedIsClosed`, `PastTermEnds`. `TasksEnd`:
  `TaskEnds`, `PendingIsSettled`, `PreparedIsAudited`, `EmitReturns`, `StopReturns`.

Bounds, and why they show the interesting cases. Two claims are what competes for a
wallet; the balance 3 with costs 1 and 2 admits both reservations, one only, and a
capture above what was frozen. Two `Replayers` are the worker whose lease ran out and
its successor. An `IntentBatch` of one is full of one stuck intent. Two attempts
(`MaxSeq`) make a stale caller and a successor. Two slots with cap 1 make the second
wait for the first. Two requests under one key are the client and its retry. `MaxFaults`
1 to 3 allows a lost answer and a crash after it; more repeat these. `MaxFailures`,
`MaxOverrides`, `MaxOps`, `MaxVersion`, `MaxGen`, `MaxTime`, `MaxEdits`, `MaxFlips`,
`MaxSpent`, `MaxResumes`, `MaxSleeps`, `MaxDefers`, `MaxTries` and `RetryBudget` bound
counters and actors outside the component; each is one above what its threshold needs. A
sum over two orders that exceeds the daily cap, a queue with room for one, a ramp of two
stages and two generations of a token are the smallest with a boundary to cross.
Callers, requests, workers and replicas are symmetric where no liveness is checked.
Deadlock is not checked: when everything is finished there is nothing to do.

## 4. Fairness

Where liveness is checked, every step of a goroutine whose process lives and every
worker driven by a ticker is weakly fair, as are the passing of time and the arrival
of what is in flight; what the lease sweeper picks is strongly fair, since it lists only
what it can abort. The intent sweeper's list is ordered by `updated_at` and cut off
after 100 rows, and the rows it skips (those of an attempt that is still reserving,
`settlementintent/sweeper.go:321`) keep their place in it. Its picks are therefore
strongly fair only while fewer such rows than a batch exist: `IntentsClose` promises
that intents close if time and again the batch is not stuck (`BatchIsStuck`), and
the code promises no more. In admission, nothing is assumed of the recovery of a
claim whose process died after its delivery began (`SettleLater`), and its slot is
what `SlotComesBack` excepts. In `LogSink` the worker's `select` is strongly fair in its
branches, since Go chooses among the ready ones at random. A crash, a failed call and
a lost answer are never fair and are bounded by `MaxFaults`: "finitely many faults",
not "no faults". A suite is as fair as the component whose behaviour it shows (the
disjuncts of `SideBySideFairness`). The breaker's recovery assumes that calls return
and traffic continues. `PaidIsDecided` assumes that the provider delivers a callback
again that was answered 503 or not at all. Attempt limits of settlement rows do not
exist in the code; those of parked usage rows are above `MaxFaults`.

## 5. Proofs

Every theorem holds for any sets and numbers the constants stand for, from the named
assumptions alone: `LedgerAssumption`, `PipelineAssumption`, `BreakerAssumption`,
`ConfirmAssumption`, `HermesAssumption`, `SessionAssumption`, `PaymentAssumption`,
`VoucherAssumption`, `AdjustmentAssumption`, `AdmissionAssumption`, `HealthAssumption`,
`QuotaAssumption`, `QueueAssumption`, `RefreshAssumption`, `MediaAssumption`,
`SinkAssumption`, `WiringsAssumption`. They say what kind of thing each constant is (and
that the sweeper is no request, and that a bus reaches the handlers it waits for first);
TLC evaluates them in every run. Two theorems about the pipeline also assume its timing
constants, as the run of the same property does.

| Theorem | Establishes | Argument |
|---|---|---|
| `TypesHold` | `TypeOK` | inductive by itself |
| `HoldsFollowClaims` | `HoldFollowsClaim` | inductive with `TypeOK`: each transaction moves claim and hold together |
| `SlotsAreAccountedFor` | `SlotBooks` | `InFlightIsAcquired` (a release takes one element out of `AcquiredOn`) and `TokenTaken` (a claim's token is a slot that was acquired) |
| `UsageIsAccountedFor` | `UsageBooks` | `UsageInv`, relative to one event per attempt: a parked row is of an attempt that has ended, only workers store it, and those stored and under way are no more than `Replayers` |
| `WalletsExplainThemselves` | `WalletBooks` | below |
| `CommittedStaysCommitted` | `CommittedIsFinal` | no transaction but the replay of its usage row is enabled on a committed claim |
| `LedgerImplementsContract` | `ImplementsContract` | initial states map to initial states; `Reserve` maps to `Freeze`, `Settle` and `CommitCacheHit` to `Charge`, `Abort` to `Free`, the rest to stuttering |
| `PipelineTypesHold`, `CallersUseLedger` | `PipelineTypeOK`, `UsesLedger` | `CallerInv`, below |
| `PipelineKeepsBooks` | the ledger's invariants in the pipeline, `UsageBooks` with its two-step replay included | from `CallersUseLedger` and the ledger's theorems |
| `ChargesAreEarned` | `NothingUnearnedNothingLost` | `Answered`: a cost is known only of an attempt whose client received bytes, and it is this cost a settlement charges |
| `DeliveredIsNeverAborted`, `PipelineIsSafe` | `DeliveredNeverAborted`, `PipelineSafety`, if `LeaseOutlivesAttempt` and `SweepIsPrompt` | `TimingInv`, below |
| `PaymentsAreSafe`, `ClosedStayClosed`, `RefundKeysActOnce` | `PaymentSafety`, `ClosedIsFinal`, `RefundFactsAreFinal` | `MoneyInv`, `CapsInv`, below |
| `VouchersAreSafe`, `RevokedStaysRevoked` | `VoucherSafety`, `RevokedIsFinal` | `VoucherInv`, below |
| `AdjustmentsAreSafe` | `AdjustmentSafety` | `AdjustInv`, below |
| `SessionsAreSafe`, `RevokedStayDead` | `SessionSafety`, `RevokedFamilyIsDead` | `SessionInv`, below |
| `AdmissionIsSafe` | `AdmissionSafety` | `AdmissionInv`, below |
| `QuotaIsSafe` | `QuotaSafety` | `QuotaInv`, below |
| `BreakerIsSound` | `BreakerSafety` | one inductive conjunction over the callers that hold a place |
| `BansOutliveCooldowns`, `CooldownsAreKept`, `RampsTakeTheirTime`, `LateSignalsAreHarmless` | the parts of `HealthKeepsOrder` | `HealthInv`, below |
| `HealthTypesHold`, `HealthIsKept` | `HealthTypeOK`, `HealthKeepsOrder` | from these |
| `ConfirmationsAreSafe` | `ConfirmSafety` | the lock's holder and the token's row decide who may write |
| `QueueIsSafe`, `OnlyHoldersMark`, `DeliveredStays`, `SettlementsAreNotShelved` | `QueueSafety` and the parts of `FactsStand` that are the queue's | `QueueInv`, below |
| `RefreshesAreSafe`, `RevokedStaysShut` | `RefreshSafety`, `RevocationHolds` | `RefreshInv`, below |
| `MediaTasksAreSafe`, `MediaMoneyMovesOnce` | `MediaSafety`, `MoneyMovesOnce` | `MediaInv`, below |
| `LogsAreSafe` | `SinkSafety` | `SinkInv`, below |
| `BusIsSafe` | `BusSafety` | `BusInv`, below |
| `ReplaysAreSafe`, `AuditsAreFinal` | `RecoverySafety`, `AuditIsFinal` | what each request and worker may still believe of the journal row under each version |
| `FactsAreFinal` | `FactsStand` of what runs side by side (`BackgroundSpec`) | from the theorems about the parts |

**Sums.** `Sums` counts: an amount of n is n coins, and a sum is the number of coins of
its rows. A sum is then moved by lemmas on cardinality (`Sums_proof`: a row changes,
comes, goes, or moves within a set) and needs no induction over data. That the coins
are finite is part of the invariants, since only finitely many rows have been written,
and so no set of claims, orders or keys is assumed to be finite.

**Wallets.** The ledger moves a wallet in three ways only: a freeze, a charge that ends
the freeze, a release. `WalletBooks` is proved for each of these, and every transaction
is shown to be one of them or to leave holds and wallets alone.

**Pipeline.** `CallerInv` says what a caller may still remember when it acts: attempt
numbers never exceed the claim's, a token is a slot of its claim, a settlement in any
hand has a price, a row that is being replayed is owned. With it every step of a
request, intent or sweeper, however stale, is a step of `LedgerNext` or leaves the
ledger's rows alone, and all that is proved of the ledger holds in the pipeline.

**Timing.** That an attempt whose response reached a client is never ended at zero cost
does not follow from any lock: an abort reads the gate in a snapshot that may be older
than the gate. It holds because the only abort that could be wrong is the sweeper's, and
the sweeper takes attempts whose lease has run out. `TimingInv` says who is where: one
request at a time works on a claim, on its present attempt; a lease does not end under a
request that lives; what the sweeper holds is expired and was not delivered, and stays so
while it waits; a delivered attempt is its claim's last, and is paid or has its evidence;
an intent agrees with the events of its attempt. Without the two assumptions the property
is false (`stale_sweep` and `AbortSparesDelivered`, section 6), so they are hypotheses of
the theorems and not left out of the model.

**Admission.** A count read before a lock decides nothing, so each limit rests on what its
own lock serialises. `AdmissionInv` says that a request of the binding is in its
transaction only under the session lock and past its count has room in the binding, that
past the increment it is alone on the account's row and has room there, and that a
request has no row before its commit and, once answered, keeps it while its claim is
open.

**Payments.** `MoneyInv` is `PaymentTypeOK`, the finiteness of the sums, that a draft's
row is not there yet, the four books and `HeldIsCovered`. Steps are of five kinds (nothing
moves, a credit, an activation, a refund, a hold or its settlement), with a lemma each.
`CapsInv` needs to know that a creation that is under way under a cap is alone among
recharges (the advisory lock) and fits beside those that are there as long as no order
comes to count that did not before;
`Onward` says what any other step may do to an order's status, and that none makes an
order count that is in time and did not count.

**Vouchers.** What a redeemer decides on is what it read when its transaction began.
`VoucherInv` says what that is worth (`ReadsTheRow`: a row not written since is the row
there is; first updater wins keeps all other redeemers out), that a redemption's row
carries its voucher's `single_use_per_user`, without which the second unique index would
not see it, and that the effect ledger holds exactly the redemptions of plans, so a
replay gives nothing again. The money given is a sum that grows by one row (`SumExtends`).

**Adjustments.** A clerk reads the keys in the snapshot it takes when it asks for the
advisory lock, so it may miss a row committed while it waited. `AdjustInv` says what saves
it (`SawTheTruth`): what a snapshot holds stays so, and if a clerk's own key was recorded
behind its snapshot, for the same request, then the row of that request's account has been
rewritten since, and the balance's compare-and-set sends the clerk back. The books are
sums of what credits brought less what debits took (`NetFollows`).

**Sessions.** `SessionInv` says what a request under way has read (`Shapes`), where in a
family's line each token is (`Lineage`: none beyond the newest, none of a family never
born, every older one consumed or revoked), that a family whose revocation has begun has
ended (`Ending`), and the properties. Steps are of three kinds: those that only end
things, a login, and a rotation.

**Quota.** The attempt, its job and the sweep close reservations by the same few
transactions, so the books (`QuotaBooks`: sums, overage, slots) are proved of these: a
reservation is made, marked, settled, released or reversed, and each lemma moves one term
of one window's sum. Who may run which is `AttemptsFollow` (the attempt that has the claim
is its latest, and only while the claim is reserving) and `SettledIsCommitted` (whatever is
on its way to be settled is of a committed claim): a late release then finds a claim that
is not aborted and leaves the revived attempt its reservation.

**Health.** A step rewrites at most one row. What it may make of it is said once
(`Changes`: a ramp starts at its first stage, stays, or climbs one stage that is over; a
cooling row keeps the later deadline; `Unaided`: without an operator no disabled row
ramps or is active again and only the last stage opens a ramping one), with a lemma for
each way to write a row: verdict, rollback, forced cooldown, start, advance, operator.
`WhoTouchesDisabled` says who else may move a disabled row: a request under way with its
credential, and no further than degraded or cooling down. `HealthInv` adds that a
window's samples are of attempts that have ended, that some row is the newest, and that
a ramp has lasted the shortest time of the stages behind it.

**Queue.** A worker acts on a lease it read some time ago, and its name does not fence it,
since replicas share names. `QueueInv` says what it may still rely on (`Knows`): while its
row has the deadline it read, it leased the row last and the count it read is the row's;
and what it saw stored, its own effect or another attempt's usage row, is stored. A new
lease has a deadline no worker of that row still
holds, which is why a mark under an old one finds no row.

**Refresh.** Exclusion rests on a session lock, and a session may end without its client
knowing. `AstrayBroke` counts: the refreshes that were given the lock and no longer have it
are no more than the sessions that broke, and these no more than the faults. `TokensGrow`
orders tokens by the version that stored them, and says that a new one is newer than the
one that was given for it; `TokenAtHand` then follows the live token: without a fault it is
in the row, or in the hands of a refresh whose compare-and-set will find its version.

**Media.** A row's lease can end under its worker, so any number of workers may be busy
with one task, and only what each compares when it writes keeps them apart. `OneSubmits`
is why there is one job: the step from queued to submitting is taken by a worker that
submits alone, and a row returns to queued only from a worker that was told there is no
job. `MoneyIsRead` is why product and money agree: a claim that is not reserving stays
as it is, so what a worker read of it still holds when the worker writes the row,
however late. A product whose claim was aborted under it has an orphan row, though maybe
one that is no longer open, and this is all `SucceededIsPaid` says (section 6).
`SweepFollowsLease` says that the lease of the claim of a task without video ends after
the task's timeout, and so the sweeper sees it no sooner.

**Log sink.** `SinkBooks` counts records by place: each is in one queue or in the batch, once,
so a step moves the balance by what it adds to each number (`BooksMove`), and a failed batch
is counted by level at least as often as it had different records (`BatchByLevel`).
`SinkEnding` follows the worker: it drains only once the sink is stopped, it ends with
both queues empty, and what joins them afterwards is tardy. `Early` is about the time before
`Start`, when every warning is in its queue or counted and none is counted while the queue
has room.

**Event bus.** `Places` says where an event's Emit is: the critical handlers behind it are
done, each of the others has its copy, and nothing ahead of it has one. Emit moves only
its own event, and whatever the workers, Stop or another event's drop do to its copies
leaves its place valid (`Calm`, `PlaceStays`). `Truth` is why a success is true: a copy is
done only after its goroutine committed, and a reply waiting for its caller is that of the
copy the caller stands at. `DropsKept` pairs each drop with the hook's call: an event that
makes room was not yet noticed there, so it brings a notice of its own. `QueueBooks` keeps
a queue's copies apart, and `CrewBooks` counts the workers that are busy or gone.

Left to TLC. All liveness, and every statement about ENABLED, which the provers cannot
handle. The quota instance TLC checks never spends more than was reserved; overruns
(`OverrunIsRecorded`) rest on `QuotaIsSafe`, which holds for every cost. The safety
suites of subscriptions and of authentication cooldowns, and the step properties
`DecisionsStand` and `DisableStands`, are only model-checked.

## 6. Where comments and code differ

Two of these are runs that end in a violation: `usage_lost` (`CommittedAttemptHasUsage`)
and `stale_sweep` (`SweepSparesSuccessor`). The others are definitions in their modules
that state what the comment says; checked as an INVARIANT or a PROPERTY of a small
instance of the module, each is violated.

| Definition (module) | What a comment says, and what the code does |
|---|---|
| `CommittedAttemptHasUsage` (`BillingLedger`) | every Tx2 leaves one usage record (`billing/settler.go:458`); a row parked for a committed attempt is dropped when an earlier attempt has one (`dlq/handlers.go:131`) |
| `SweepSparesSuccessor` (`SettlementPipeline`) | a recovery holds to the attempt it read (`settler_retry.go:109`); the lease sweeper aborts by claim id (`lease_sweep.go:124`) |
| `UndeliveredAttemptIsReleased` | a failed write must be able to abort (`settler.go:386`); its own open gate refuses the abort (`settler.go:390`) |
| `AbortSparesDelivered` | the evidence is checked under the claim's lock (`settler.go:384`); a gate opened after the snapshot is not seen |
| `TokenWrittenOnce` | no row means another selector wrote the token (`pool/binding/claim_gate.go:20`); a second write succeeds |
| `EffectStoredOnce` (`DeadLetterQueue`) | the key avoids duplicate effects (migration 0015:107); two workers of one row both insert its usage row |
| `NoLoginInsideReset` (`UserSessions`) | no login with the old password between revocation and commit (`auth_handler.go:636`); a disabled account enabled in between accepts one |
| `RevokedIsRetried` (`CredentialRefresh`) | the scan does not filter by health (`health_state.go:55`); it does (`mode_refresh.go:412`) |
| `NoSecondExchange` | the scheduler must not call the remote again (`refresh_persistence.go:12`); the next tick does |
| `OldFailuresAreVoid` | a rotation voids the old credential's failures (`postgres_store.go:500`); a late outcome is recorded without its version |
| `LeaseCoversTask`, of a video task (`MediaTasks`) | the lease follows TaskTimeout (`service.go:88`); the claim has the gate's 30 minutes (`store_money.go:41`) |
| `UnknownIsRecoverable` | an unknown task is recovered by hand (`worker.go:206`); its claim may have been swept during submission |
| `SlotOutlivesAttempt` (`QuotaReservations`) | the slot outlives the request (`quotaenforce/settler.go:18`); a reused reservation keeps the old lease |
| `NothingStaysFrozen` | two halves leave nothing frozen (`reconciliation_worker.go:104`); a claim with a parked job is passed over |
| `RunningWithinLimit` (`SlotAdmission`) | a global limit in flight (`bindings_admin.go:55`); a slot without a claim is swept after 90 s while its request runs on |
| `OldCredentialCannotDisable`, with faults (`AuthCooldown`) | a late verdict must not disable the new credential (`store.go:430`); a local disable moves to the new version |
| `DeadStaysOut`, with faults | entries the table lacks are kept (`persistence.go:92`); a reply that arrives later replaces them (`store.go:508`) |
| `PauseHolds`, `BanHolds` (`ChannelHealth`) | operators decide these states (`opsinspection/service.go:96`, `failover.go:72`); a late signal replaces them |
| `CooledReturnsByRamp` | only the coordinator ends a cooldown (`failover.go:108`); a signal within the window turns it into degraded |
| `StopLosesNothing` (`EventBus`) | the order of shutdown loses nothing (`lifecycle.go:210`); queued copies of the upper tiers are lost |
| `NoticeNamesTheDropped` | the log names the dropped event (`middleware.go:645`); it names the one submitted |
| `ChargedIsRenewed` (`Subscriptions`) | never charged without renewal (`store.go:60`); a plan that moved renews another subscription |
| `RenewalOnlyExtends` | a renewal can only extend (`activation.go:99`); an operator's grant is not capped, its renewal is |
| `ExecutedAsPreviewed` (`HermesConfirm`) | no stale preview is executed (`cache.go:112`); the plan is compared before the lock |
| `AlreadyMeansDelivered` (`HermesRecovery`) | processed or delivered by another (`tools_mutating_dlq_renew.go:93`); the row may be under another's lease |
| `FailedIsAuditedSo` | the failure is written to both logs (`mutate_tx.go:142`); a worker's success may replace it |
| `NoRowBesideJournal` | no error row beside the journal (`tools_mutate_handler.go:221`); an unanswered Prepare leaves both |

Beside these, the models show outcomes the code leaves to an operator, or to nobody,
which the properties name and except:

* A delivered video may be unpaid and on nobody's list. An administrator attaches an
  unknown submission, which reconciles its orphan row; the sweeper aborts the claim; the
  finished job finds nothing to charge (`mediatask/store_money.go:215`) and its new orphan
  row meets ON CONFLICT DO NOTHING (`store_orphan.go:33`), while a back charge needs a
  pending row (`store_orphan_backcharge.go:84`). `SucceededIsPaid` therefore accepts an
  orphan that was dealt with; `claim_swept_integration_test.go:104` covers the case
  without the attachment only.
* A task whose orphan was charged while the task was still to fail never ends: its abort
  meets a committed claim in every round (`store_money.go:334`). `TaskEnds` excepts it
  (`Stranded`).
* A process that dies after its delivery began leaves a slot acquired and
  `in_flight_count` raised for good: `settler.go:389` refuses the abort, which
  `lease_sweep.go:129` swallows, and the slot sweep passes over slots of reserving claims
  (`pool_slot_acquisitions.sql:78`). `SlotComesBack` excepts it.
* A hundred such claims fill the batch of the intent sweeper (section 4).
* A late signal of a banned account's own credential makes it degraded, which the
  selector lets in (`channelhealth/failover.go:103`), and a forced cooldown makes it
  cooling down, from where it ramps without an operator. `BanOutlivesItsCooldown` says
  that this takes a request that was under way with that credential, and that nothing
  else short of an operator moves a banned account.

`AbortSparesDelivered`, `TokenWrittenOnce` and `SweepSparesSuccessor` need an attempt
that outlives its 30 minute lease.

## 7. Hazards

PROJECT.json lists what is hard to test, each with the properties that would catch it.
A process that dies after the gate opened and before it settles leaves an intent in
`delivering` and a reserving claim that no worker decides
(`settlementintent/sweeper.go:321`). The code leaves it to an operator, so there is
nothing to promise of that claim; `ReservationEndsOrHasEvidence` says that this is the
only way a reservation stays open, `IntentsClose` how much of it the other intents bear.

## 8. Not modelled, and what comes next

The repository is some 300 000 lines, most of them generated queries, HTTP handlers,
conversion and administration without a protocol of their own; the modules map the
4 percent where the hazards are. Not modelled: the retry budget (a fixed-window
counter), provider adapters and protocol conversion, the HTTP surfaces, the audit hash
chain (hashing is out of a model checker's reach). Left out of modelled components: the
disabled intent tracker, `MarkFailed` without a payload, streaming and failover between
bindings, candidate ranking, several sweeper replicas (row locks with SKIP LOCKED keep
them apart within a statement, not between), the media guard of the lease sweeper in
the pipeline (it is in `MediaTasks`), and what section 2 names.

Next: the inductive invariants of the suites that have no proof yet.
