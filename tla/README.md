# Verification of unkey: rate limits, credits, the build gate and Compute billing

TLA+ models of the parts of unkey in which several processes share state and
no single request can be reasoned about alone. TLC checks each model on small
instances; TLAPS proves every safety property but one for every size.

| Module | Models | Checked by | Proved in |
|---|---|---|---|
| `Ratelimit` | request path of `internal/services/ratelimit` | `ratelimit_region`, `ratelimit_false_allow` | `RatelimitProof`, `RatelimitCountProof` |
| `RatelimitGlobal` | `global.go`, composed with `Ratelimit` | `ratelimit_global`, `ratelimit_propagation`, `ratelimit_torn_push` | `RatelimitGlobalProof` |
| `BuildSlot` | `svc/ctrl/worker/buildslot` and Deploy's gate | `buildslot`, `buildslot_liveness` | `BuildSlotProof` |
| `UsageLimiter` | `internal/services/usagelimiter` | `usage`, `usage_unlimited` | `UsageLimiterProof` |
| `ComputeBilling` | the Compute subscription: the dashboard's Stripe webhook and mutations, the checkout linker, ctrl's teardown | `billing`, `billing_stale_created` | `ComputeBillingProof` |
| `DeployCredits` | the usage credits a paid plan fee grants (`lib/stripe/deployCredits.ts`) | `credits` | `DeployCreditsProof` |
| `CreditLedger` | what the credits promise, abstractly; `DeployCredits` implements it | `credits` | `DeployCreditsProof` |
| `BuildGate` | what the build gate promises, abstractly; `BuildSlot` implements it | `buildslot` | `BuildSlotProof` |
| `CreditAccount` | what the usage limiter promises, abstractly; `UsageLimiter` implements it | `usage` | `UsageLimiterProof` |

`SumTheorems` has what the proofs need of sums over finite sets. `MC*.tla` give the constants of the small instances. `PROJECT.json` maps every
definition to the lines it stands for, and lists runs, seeded faults, hazards,
findings and theorems.

Run one with `tlc -workers 2 -config buildslot.cfg MCBuildSlot`, prove one with
`tlapm BuildSlotProof.tla`.

## 1. Inventory

Paths are relative to `src/`.

### Modelled

**Rate limiter, request path** (`internal/services/ratelimit/ratelimit.go`,
`service.go`, `origin.go`). Every replica keeps a `counterEntry` per window
cell: `val`, `speculative`, `globalCount`, `lastPushed`, the push threshold and
two gates (`once`, `staleMu`), all atomics without a common lock. `Ratelimit`
reads `val`, compares and commits with a CAS. `RatelimitMany` adds all costs
first, compares, and commits or rolls back. Both may first fetch the origin
(one Redis per region) because the entry is cold, stale or in strict mode.
Admissions are put into a bounded buffer that drops when full; replay workers
carry them to Redis and merge the answer. *Hard*: lock-free interleavings,
answers that are lost after the command was applied, restarts. *Correct means*:
no admission is forgotten, none is counted twice, one process never exceeds the
limit, a gate is never left closed.

**Rate limiter, cross-region counters** (`global.go`,
`db/queries/global_counters_*.sql`). A push tick publishes counts above a
threshold into a MySQL table with `GREATEST`, chunk by chunk; a pull tick merges
the own region's row into `val` and the sum of the others into `globalCount`.
*Hard*: `val` and `speculative` are read by two loads, writes fail half way,
several replicas write the same row, pulls apply old snapshots. *Correct means*:
rows are backed by admissions, no feedback between regions, counts get there.

**Build slots** (`svc/ctrl/worker/buildslot/*`,
`svc/ctrl/worker/deploy/queue_gate.go`, the order of compensations in
`deploy_handler.go`). A Restate virtual object per workspace keeps active slots
and two wait lists (production, preview). `AcquireOrWait` grants, or audits and
then grants or queues; `Release` frees and promotes; `ExpireSlot`, a delayed
call, renews, reschedules or reclaims a lease. Deploy invocations wait on an
awakeable with a timeout. *Hard*: invocations die without compensation, the
audit fails half way, a timeout races a grant, Deploy is sent twice, the limit
changes, rows end under a build. *Correct means*: no slot leaks, none is idle while
somebody waits, a build keeps the one it was granted, the limit and the order hold.

**Usage limiter** (`internal/services/usagelimiter/redis.go`, `limit.go`,
`pkg/buffer/buffer.go`, `pkg/db/queries/key_update_credits_*.sql`). The credits of
a key live in a Redis counter per region, initialised on demand from a read
replica of the MySQL row; workers replay the charges to the row. If Redis does
not answer, the row is charged directly. Updates through the API change the row
and then drop the counter. *Hard*: racing initialisations, lost answers, a
backlog that is not in the row yet, shutdown with a full buffer. *Correct
means*: no overspending, no credit silently lost, counter and row agree, Close
never hangs.

**Compute billing** (`web/apps/dashboard/app/api/webhooks/stripe/route.ts`,
`lib/trpc/routers/stripe/{subscribe,cancel,change}Deploy*.ts`,
`lib/stripe/linkDeploySubscription.ts`, `svc/ctrl/services/deployment/
deprovision_compute.go`). Stripe is the source of truth for a workspace's Compute
subscription. `billing_subscriptions` says which subscription is the workspace's,
`workspace_billing.plan` gates deployments and every billing query, the `limits` row
holds the ceilings of the plan. Serverless functions write these copies: the user's
subscribe, cancel and change, the webhook for events on the subscription, the linker
after a checkout. A cancel goes through ctrl, which sends a teardown to Restate and
clears the plan last. *Hard*: Stripe delivers events late, twice and in any order;
the user also acts in Stripe's portal; Stripe may have charged when the call fails;
a function dies between two awaited calls; idempotency keys replay old answers and
are forgotten after a day; the alert about an orphan is best effort.
*Correct means*: nobody pays for two subscriptions, the copies end up as Stripe has
them, an entitlement ends with its subscription, a paid checkout is linked or
reported, and Compute does not run unbilled.

**Usage credits** (`lib/stripe/deployCredits.ts`, the two invoice handlers). A paid
invoice with a positive net plan fee is granted that much usage credit in Stripe,
which expires a grace after the period. An idempotency key (kept by Stripe for a
day) and a search of the grants for the invoice's id guard against repetition.
*Hard*: two events per payment, concurrent handlers, a create that succeeds without
an answer or whose failure is replayed, keys that expire, a billing config that does not
resolve. *Correct means*: credited once, in time, and read back as what was paid.

### Not modelled, or only at the border

| Part | State and operations | Why not (yet) |
|---|---|---|
| Window rotation, janitor (`ratelimit/janitor.go`, `sequence.go`) | windows by sequence number, eviction | needs a clock; planned |
| Circuit breaker (`pkg/circuitbreaker`) | three states, rolling counters | planned; here "open" is one way a call fails |
| SWR cache (`pkg/cache`) | entries, inflight set, revalidation queue | planned |
| Batch processor (`pkg/batch`) | flush on size or interval | planned |
| Deployment lifecycle, promotion, rollback, live routing (`svc/ctrl/worker/deploy`, `deployment`, `routing`) | statuses, desired state with nonces, live pointer | planned; `BuildSlot` only knows "active" or "ended" rows |
| Cluster sync, krane | versioned change stream, reconciliation with Kubernetes | depends on Kubernetes semantics outside the repository |
| frontline, heimdall, key verification, API routes | per-request functions over cached configuration, metering | little shared state besides the two limiters |
| vault | encryption over object storage | cryptography |
| RBAC, matchers, ids | pure functions | unit-tested |
| API subscription, team access, spend caps, month-end close | tiers, schedules, memberships, suspension | same shape as the Compute side; a later candidate |
| Rest of the dashboard, docs | user interface | not a protocol |

## 2. How the models correspond to the code

Conventions. One action is the code between two points at which another process
can interfere: an atomic operation, a Redis command, a SQL statement, a handler
of a virtual object. Histories (`committed`, `admitted`, `inflight`, `lost`,
`spent`, `applied`, `seenOrigin`, `disturbed`, `raised`, `paged`, `missed`) are read by properties
only. A definition commented "Seeded fault" is not part of the specification: it
is the definition after it with a plausible mistake, and PROJECT.json records
which property notices it.

### Ratelimit

`call[g]` is a goroutine with its program counter and locals. `Begin` enters
with a valid request. `FetchCold`/`FetchStale`/`StillFresh`/`MergeFetched` are
`EnsureFreshFromOrigin`, with `once.Do` and `staleMu` as gates; `FetchStrict`/
`MergeStrict` the strict fetch; `Prepared` ends `prepareCheck` with the snapshot
of `globalCount`. `Load`/`CasWins`/`CasLoses` are the CAS loop, `AddSpeculative`
to `BufferRequest` the batch. `ReplayIncrement`, `ReplayTimesOut`, `ReplayFails`
and `ReplayMerge` are `syncWithOrigin`; `Restart` replaces a pod.

Abstractions. The module looks at one instant of the sliding window: a cell is the
current window of one identifier, the weighted previous window is a number from
`Carry` that may differ at each decision. Whether a freshness deadline has passed
is left open, so every schedule of refreshes is included. `atomicMax` is one step:
its CAS loop only repeats when somebody else wrote, and giving up after
`maxCASRetries` looks like a fetch that failed. Integers are unbounded: counts are
bounded by limits and the overflow of 64 bits is out of reach in a window. Requests
that fail validation return before any state is touched.

### RatelimitGlobal

EXTENDS `Ratelimit` and adds the table, `lastPushed` and two goroutines per node.
`PushLoadVal` and `PushLoadSpeculative` are separate steps, as in the code.
`PushChunk` writes a chunk and advances `lastPushed`; `PushFails` is a write that
failed, or that succeeded without an answer. `PullQuery` takes a snapshot which
`PullApplyRegional` and `PullApplyImported` apply later, row by row. Every other
step is a step of `Ratelimit` that leaves these variables alone.

### BuildSlot

Restate runs the handlers of a virtual object one at a time and replays them from
a journal until they end, so each branch of a handler is one action; `inbox` is the
queue in front of it. `ticket` holds the wait lists (arrival numbers; `Precedes`
orders production before preview), `timers` counts the delayed `ExpireSlot` calls by
their renewal count. `Audits` is the set of outcomes of `auditDeployments`, partial
failure included; `Reclaims` and `HandOff` are `reclaimStaleSlots` and the promotion
after a release. `inv[d]` is the Deploy invocation; `entry`/`attempt` tell the
awakeables of a first and a second invocation apart.

Abstractions. A delayed call may arrive at any time after it was scheduled: no
property depends on the length of a lease. The build, topology, rollout and routing
are one build that succeeds or fails, between `BeginBuild` and `Finish`. A row is active or
ended. `DeploymentStep` is the beginning of Starting, Building, Deploying, Network and
Finalizing, each of which writes an active status over whatever the row says; it is an
action only where that changes something, and may happen at any time of the build. A
deleted row counts as ended, so that the model also lets a step bring one back, which the
UPDATE cannot. Virtual object handlers are not killed half way (Deploy invocations are).

`BuildGate` is the gate without calls, timers, audits and database: a set of holders, a
line and the limit. In one step a set of deployments leaves, the head of the line takes
the slots that were given up, and perhaps a newcomer gets a slot that is left over or
the last place in line. It says nothing of who leaves and when, which the leases and audits decide.
`BuildSlot` implements it with `holders <- active` and `place <- ticket`
(`ImplementsGate`). The one liberty is `raised`: nothing wakes waiters when the limit
goes up, so a newcomer may get a new slot before them.

### UsageLimiter

One key, because keys share nothing but the buffer. Each Redis command
(`decrementIfExists`, `SETNX`), each query and each lock of the buffer is a step. A
Redis failure may or may not have applied the command. `EnterBuffer`/`SendChange`
are `Buffer` with its read lock: a waiting `Close` keeps new readers out while earlier
ones wait for room. `Close`, `CloseBuffer`, `CloseTimesOut`, `DrainOne`,
`CloseReturns` are the shutdown; `Exit` ends the process at any time. `UpdateCredits`
is the API's transaction and `Invalidate` what follows it. `replica` lags behind
`credits` by any amount. NULL is -1, and `Charged` makes of it what the SQL does.

Abstractions. The read before the transaction of `updateCredits`, which only decides
whether the key is unlimited, is made in the same step on the lagging replica. A change carries only its
cost. The daily refill is not modelled; it is another update of the row.

`CreditAccount` is an account per region: a request asks, and in one step is admitted and
charged or denied. It has no row, replica, replay or shutdown, and makes no promise after the
first disturbance (the counter expires or is bypassed, Redis does not answer, the
row is updated). `UsageLimiter` implements it with `left <- redis` and `request` what
`Seen` shows of a request: all steps before the decision are "asking", those with which an
admitted request buffers its change "admitted" (`ImplementsAccount`). `Openings` says what
an account may start with: the key's credits with one region; with several, what the
others' charges have left of them in the row.

### ComputeBilling

One workspace. `stripe[s]` is what Stripe knows of subscription `s`; `row`, `plan` and
`limits` are the three tables; `inv[w]` is an invocation of the dashboard with what it
has read so far. Every awaited call to Stripe, MySQL or ctrl is a step, a transaction
is one step. `Updated*`, `Created*`, `Deleted*` and `Mirror` are the webhook's
branches, `Link*` the linker, `Subscribe` to `Release`, `Cancel` to `CancelLimits` and
`Change` to `ChangeTx` the mutations, `DeprovisionGate` to `ClearWorkspaceDeployPlan`
ctrl's `DeprovisionCompute`, which three of them call. `Fail` is any of these calls
throwing: a webhook answers 500 and gets its event again, subscribeDeploy releases its
claim. A call that takes effect and throws all the same is its step followed by `Fail`, or
by a `Finish` that loses its 200. Two writes of subscribeDeploy behave differently and are
actions of their own: `ClaimLost`, as the claim is made before the `try` and nobody gives
it back, and `SubscribeTxLost`, after which the `catch` takes back the plan of the
subscription that has just been recorded. `Page` is the Slack alert about an orphaned
subscription, which is skipped without a URL and whose failure is swallowed. `minted` is the
chain of idempotency keys of subscribeDeploy: key 1 is `deploy-subscribe:<workspace>`, key
*k*+1 is derived from the dead subscription key *k* gave, so the *k*-th key has made the
*k*-th subscription. `KeysExpire` makes Stripe forget the chain so far, `forgotten` is its
length, and the next subscribe starts behind it.
`sent` says whether the teardown key, made of the subscription and `updated_at`, has
been used for the row as it is now.

*Races.* The eventual agreement of copies and Stripe is not unconditional in this code.
Ten schedules break it, and `Races` says which of them an instance allows (`Only`).
With `Races = {}` (run `billing`) everything else still happens: any order and
repetition of events, failures at any call; the portal, checkouts, the end of the
period and the teardown come between any two steps of an invocation, deployments
between invocations. What each race breaks, alone:

| Race | What happens | Breaks |
|---|---|---|
| `stale_created` | a created event arrives after its subscription changed | `MirrorConverges` (finding 4), `LimitsConverge` |
| `overlap` | two functions run at once, e.g. the deleted handler and a resubscribe whose row it deletes | `EntitlementEnds`, `MirrorConverges`, `LimitsConverge`, `NoSilentOrphan` |
| `stuck_claim` | subscribe fails and so does the release of its claim, or the claim commits and throws: a plan without a subscription | `EntitlementEnds`, `MirrorConverges`, `LimitsConverge` |
| `other_plan` | a retry with another plan replays the first subscription, and the plan asked for is written | `MirrorConverges`, `LimitsConverge` |
| `unlinked_cancel` | a checkout is cancelled before it is linked, refused by the linker, then resumed | `NoSilentOrphan`, `MirrorConverges` |
| `deploy` | a deployment passes the gate while a plan is being cleared or a claim is held | `ComputeIsBilled` |
| `deduped_teardown` | a retry of the teardown on an unchanged row is dropped, although something was deployed since the first | `ComputeIsBilled` |

| `key_expired` | Stripe forgets the key of a live subscription that is not recorded, a day after a subscribe that charged and failed; the retry mints a second one | `OneLiveMinted` |
| `lost_commit` | the transaction of subscribe commits and throws, the plan is released, and no update of the subscription is still to come | `MirrorConverges` |
| `lost_page` | the alert about an orphaned checkout is not sent or not delivered, and the webhook answers 200 | `NoSilentOrphan` |

Each property is proved (section 5) whenever the races that break it are excluded, with the
others allowed: `OneLiveMinted` needs only `key_expired` away, any number of concurrent
subscribes and retries with other plans being allowed (the run has one function at a
time). Two theorems exclude more than the table: `EntitlementEnds` is proved for chains of up
to three, and the proof of `LimitsConverge` also leaves out `lost_commit`.

Abstractions. A subscription is active (perhaps cancelling) or over: `past_due` and
`incomplete` are left out, first charges fail whole (`error_if_incomplete`), unpaid
delayed checkouts are not linked and produce their event when paid. `cancel_at` and
`cancel_at_period_end` are one flag. Stripe drops an idempotency key after 24 hours; in the
model it may do so at any time when no function runs, as functions live for minutes, and
drops the whole chain at once, because a key behind the first is only found through the
answer of the first. A replay with other parameters is either answered (`other_plan`) or
refused (`Decline`). The retrieve and update of `cancelDeploySubscription` are one step.
An event `updated` about the schedule only changes nothing. The gate is in enforcing
mode and there is no plan override. Spend suspension is kept only as a change of
`updated_at`. `Teardown` stops everything in one step. Team memberships, audit logs,
the other alerts and the API product's limits are left out; `paged` records the one alert a
property is about, the orphaned subscription.

### DeployCredits and CreditLedger

`handler[w]` is a function that answers `invoice.paid` or `invoice.payment_succeeded`.
`Skip`, `SkipUnresolved` and `Receive` are `grantDeployCreditsForInvoice` up to the search:
there is nothing to grant; or there is, but `deployBillingConfig` returns null (a
lookup_key without an active price) or knows none of the invoice's prices after a reprice,
which the webhook answers with 200 as well; or the handler goes on. `missed` remembers the
events that were lost this way. `List` is the search for a grant of the invoice,
`CreateFirst`, `CreateReplay` and `CreateRefused` the create under a key that Stripe does not know, remembers, or would
refuse because `expires_at` has passed. `Fail` is a call that throws; a failed create
may be remembered under its key and fail again until the key expires. The amounts,
`NetDeployFee` and `ExpiresAt`, are computed from the invoice's lines as the code does.

`CreditLedger` has three variables (`paid`, `now`, `credits`) and credits a paid
invoice in one step. `DeployCredits` implements it with `credits <- grants`,
`Entitled` the invoices with a positive net fee and `Expiry <- ExpiresAt`
(`ImplementsLedger`).

Abstractions. The list of grants is one snapshot. Creation and expiry are on Stripe's
clock and the check before them on the function's: here both are `now`. Stripe stops
delivering after three days; the model bounds failures instead. Which lines are plan fees
is fixed: an invoice some of whose fee lines a reprice has made unknown, and which is then
granted another amount, is not modelled. `periodTotalCents` is
returned and stored by no caller. The payment alerts after the grant are left out.

## 3. Properties and runs

Passing runs:

| Run | Instance | Shows |
|---|---|---|
| `ratelimit_region` | 1 region, 2 nodes, 2 cells, 3 calls (single cost 1, batch of cost 1 and 2, limit 2), 1 worker, buffer of 1, 1 restart | `TypeOK`, `OwnCommitsCounted`, `NoPhantomCount`, `SpeculativeCoversInflight`, `NodeAdmissionBound`, `OriginConservation`, `GateHasOwner` |
| `ratelimit_global` | 2 regions, 3 nodes, 1 cell, 2 single calls, no replay | `NoPhantomCount`, `RowsBackedByAdmissions`, `LastPushedIsPublished`, `NoFeedback` |
| `ratelimit_propagation` | 2 regions, 1 node each, 1 call, replay, 1 restart | `CountsPropagate` |
| `buildslot` | 3 deployments (one production, one without recorded invocation), limit 1 or 2 and changing | `TypeOK`, `TrackedHasTimer`, `NoIdleSlot`, `GrantsRespectLimit`, `PromotionOrder`, `ImplementsGate` |
| `buildslot_liveness` | 2 deployments, one sent twice, 1 renewal, limit 1 | `BuildKeepsSlot`, `LeaseRunsOut`, `EverySlotIsReturned`, `EveryWaitEnds` |
| `usage` | 1 region, 2 replicas, 2 requests of cost 1 or 2, 2 credits, buffer of 1, 1 update | `TypeOK`, `NoOverspend`, `ChargeConservation`, `CounterMatchesRow`, `CloseNeverStuck`, `CloseEnds`, `ImplementsAccount` |
| `billing` | 2 subscriptions, 2 plans, 1 function at a time, 3 user actions, 2 failures, 1 lost answer | `TypeOK`, `OneLiveMinted`, `EntitlementEnds`, `MirrorConverges`, `LimitsConverge`, `NoSilentOrphan`, `ComputeIsBilled` |
| `credits` | 3 invoices (a period that ends, its renewal with usage and a discount, a downgrade), 2 functions, 2 failures, 1 lost answer, configs that do not resolve | `GrantOnce`, `AllowanceIsPaid`, `ImplementsLedger`, `CreditArrives` |

Runs that find a violation (section 6): `ratelimit_false_allow`,
`ratelimit_torn_push`, `usage_unlimited`, `billing_stale_created`.

Why these bounds. Three calls are the least at which a batch, a competing request
and a request that arrives after the rollback meet on one cell; limit 2 lets a window
be empty, partly and completely full; a batch over two cells shows its state between
them. A one-slot buffer is full after one admission, so the drop and the wait for room
happen. In `ratelimit_global` two nodes of a region write the same row while the third
reads it from outside; replay is left out there because it only raises `val` to what
the region admitted, which `ratelimit_region` shows; restarts are in
`ratelimit_propagation`, where a node that starts cold learns its region's count from the
table again, and in the proofs, which cover both. Batches are left out of these runs
because `RowsBackedByAdmissions` does not hold with them: `ratelimit_torn_push` shows
it. In `buildslot` three deployments and a limit that moves between 1 and 2 give one
holder and two waiters of different class, or a reclaim that frees several slots. In
`usage` two requests race to create the counter in every order; cost 2 on two credits
gives exactly enough, and not enough. `CloseNeverStuck` says that a Close under way
always has something that can move, itself or the worker or sender it waits for, and
`CloseEnds` that what it waits for only shrinks. `buildslot_liveness` has the deployment
that is sent twice: the second attempt is what could take the slot of a build with a late
release (`BuildKeepsSlot`) or renew a lease (`LeaseRunsOut`).

In `billing` two subscriptions are the least for a conflict, a repointed row and a corpse
in the chain of keys; three actions give subscribe, cancel and subscribe again, or
subscribe, change and a cancel in the portal; a failure at any step, followed by the
retry, which may fail in turn, and one repeated event give the partial failures and the
replays; two failures are what a commit that throws after an earlier failed attempt
takes. The eventual properties are stated of quiet states, in which no function runs and Stripe has nothing
to deliver: TLC reaches every such state, so they say where the system can come to
rest. In `credits` the first period's credits are in their grace while the second's are
granted, and expire within the run (the second's do not); two failures allow a lost answer
and a remembered failure on the same invoice, and any delivery may meet an unresolved
config, so that one event of a payment is missed and the other granted, or both missed.

`MaxRestarts`, `MaxUpdates`, `MaxRenewals`, `Resent`, `Capacity`, `BufferCap`,
`MaxRequests`, `MaxFailures`, `MaxRedeliveries` and `MaxTime` bound
what the code leaves unbounded or sets to large numbers. `CHECK_DEADLOCK FALSE`
everywhere: once all requests are answered nothing has to happen.

`VIEW View` in the two large rate limiter runs merges states that differ only in the
locals of calls that have returned, in a fetched count that has been merged, and in
`seenOrigin`. No action reads them again, and no property of these runs does, except for
their types.
In `buildslot` it merges states that differ only in the awakeable of
an invocation past the gate, in the attempt stored for a deployment that no longer waits,
and in the row of a deployment whose invocation is gone and which the gate will not look
at again. Of these too the run's properties read the types only.

Symmetry permutes calls, interchangeable nodes, preview deployments, subscriptions and
plans in runs that check no liveness.

## 4. Fairness

* `RatelimitGlobal`: weak fairness of the push and pull goroutines (`repeat.Every`
  keeps ticking, goroutines are scheduled), strong fairness of a successful write: a
  database that is asked again and again eventually answers. Requests and restarts are
  not assumed. `CountsPropagate` is about a count that has crossed its threshold when
  no further restart comes; below the threshold the code does not publish by design.
* `BuildSlot`: strong fairness of a lease check that can settle (Restate delivers
  delayed calls, a failing check is rescheduled and some attempt gets through). Nothing
  is assumed of Deploy or of the inbox: slots come back from the leases alone.
* `DeployCredits`: weak fairness of the functions that run; strong fairness of the
  delivery of each invoice's events, because Stripe retries what was not answered with
  200 and starts a new function when others are busy; weak fairness of the expiry of
  keys, without which a remembered failure would fail for ever. Success is not assumed:
  failures are bounded, so retrying gets through. `CreditArrives` is empty for an
  invoice whose period closes first, which is when the code stops granting, and for one
  whose `invoice.paid` was answered 200 under an unresolved config.

## 5. Proofs

TLC covers the instances above; the theorems hold for all constants that satisfy the
modules' ASSUMEs: a topology function, natural costs and limits, natural or positive
bounds, null values that are no ids, and finitely many deployments, regions, nodes,
requests, workers and invoices where they are counted or summed. Each theorem is the usual
three facts, that the invariant holds initially, that every step preserves it (one lemma
per action or group of actions) and that it implies the property.

**SumTheorems.** Admissions, charges and amounts are sums, `SumFunctionOnSet` of the
community modules, which is a recursive fold over a finite set. The theorems of the
library that do induction take an operator as parameter; here induction is done on
sets instead: the set of all subsets for which a claim holds contains the empty set and is
closed under adding one element. From it follow: a sum is an integer, is monotone, changes by
the difference when one term changes, adds up term by term, and does not see terms that
are zero.

**RatelimitProof.** `TypeCorrect`: `Spec => []TypeOK`. `AdmissionsAreKept`:
`Spec => []OwnCommitsCounted`. Not inductive alone: that the CAS writes back what it
compared, or that the undo of request *i* finds its cost in `inflight`, needs the
locals of the calls. The invariant is `TypeOK /\ CallsWellFormed /\ OwnCommitsCounted`;
`CallsWellFormed` says that a call that is under way has a node, requests and an index
in range. The step that carries the argument: every write to `val` is a maximum, a CAS
or an addition, so `val - inflight` never falls below `committed`.

**RatelimitCountProof.** What the counters mean. `Part(what, call)` is the set of the
requests of a batch that are announced, held in `val`, pending a decision, approved, or
committed but not buffered, and `Shares` sums their costs over goroutines.

* `SpeculativeCovers` (`SpeculativeCoversInflight`). `ShareInv` says that `inflight` and
  `speculative` are exactly such sums. A batch announces before it counts and takes the
  announcement back after the count, so the one covers the other.
* `AdmissionsConserved` (`OriginConservation`). `FlowInv`: what a region admitted is in
  Redis, in a buffer, with a goroutine on its way to one, or lost.
* `CountsAreBacked` (`NoPhantomCount`). `PhantomInv` adds `Backed`: every count on its way
  into `val`, fetched or acknowledged, was admitted.
* `AdmissionsFit` (`NodeAdmissionBound`). The bound is not inductive, as several
  batches can be pending at once. `BatchesFit` quantifies over every set of
  pending batches: if all of them were approved, the sum would fit the limit, or one of
  them has read a count as large as the sum and will be refused by it.
* `GatesAreOwned` (`GateHasOwner`). `GateInv`: a taken gate has exactly one goroutine inside,
  and whoever has passed the gate of a request finds the entry warm.

**RatelimitGlobalProof.** `SharingKeepsTheCounts`: with push, pull and restarts of the
composition, `TypeOK`, `OwnCommitsCounted`, `SpeculativeCoversInflight`,
`NodeAdmissionBound`, `OriginConservation` and `GateHasOwner` still hold.
`PushesArePublished` (`LastPushedIsPublished`): the row is raised before `lastPushed`.
`RowsAreBacked`, `ImportsAreForeign` (`NoFeedback`) and `SharedCountsAreBacked`
(`NoPhantomCount`) hold while there are no batches. The hypothesis `Batches = {}` is
necessary, finding 2 is the counterexample: a push that loads `val` and
`speculative` around a rollback publishes what nobody admitted. `SharingInv` ties the
loaded values, rows, snapshots and imports to what was admitted, all at once, as each
feeds the next.

**BuildSlotProof.** `TypeCorrect`, `LeaseCheckNeverLost` (`[]TrackedHasTimer`) and
`LimitRespected` (`GrantsRespectLimit`, an action property). The invariant is
`TypeOK /\ TrackedHasTimer`; the lemmas show that `Armed` and `Rearmed` leave a pending
call for everybody who becomes or stays tracked, and that `Heads` promotes no more than
the room. The cardinalities come from `FiniteSetTheorems`.
`WorkConserved` (`NoIdleSlot`) and `PromotionsInOrder` (`PromotionOrder`, an action
property) rest on `WorkInv`: nobody holds and waits at once, and every handler
that frees a slot promotes until lists or room are used up. `SlotKeptWhileBuilding`
(`BuildKeepsSlot`, an action property) is about two attempts of one deployment whose calls
share the inbox, and about rows that end under a build and are written over by its next
step, so that it cannot say that an active build holds a slot (section 6). `GateOrder` is
the order that makes it safe: no call is from an attempt that has not started; an attempt
is unknown to the service before its acquire is served; that acquire is behind every
release of its predecessors; so no release is left for an attempt that waits or builds;
and one that was granted and has not begun, with an active row, holds. From then on
`SlotsStay` goes through the handlers: each that takes a slot has found the row ended or
ends it.

`GateImplemented` (`ImplementsGate`): `WorkInv` is enough for the refinement.
`HandOffLeaves`: a release or a reclaiming lease check is a departure, after which the
head of the lists moves up. `GrantEnters`: an acquire that finds a slot free is an
arrival, past nobody by `NoIdleSlot`. `AuditArrives`: an acquire at capacity is a
departure of the dead together with the caller's arrival; `ReclaimMoves` shows that
the slots the audit found go to the lists first and that the caller gets one only when
these are empty, and `NextTicketIsLast` that it queues behind everybody.

`LeasesRunOut` (`LeaseRunsOut`, an action property): `ChecksLeft`
weighs each pending check with the renewals it has left. A renewal moves one check up by one
(`RenewalUsesUp`), a failed check is scheduled as it was, and scheduling for newcomers
and promoted deployments touches nobody who held a slot before (`ArmLease`). This is the
ranking argument of `EverySlotIsReturned` and `EveryWaitEnds`; that the checks are
delivered and answered is their fairness, and stays with TLC.

**UsageLimiterProof.** `CreditsNotOverspent`: `Spec => []NoOverspend`. The invariant
adds to the types that a request under way has a node (`Placed`), that only an update
leads to `Invalidate` (`UpdateDisturbs`), and `Undisturbed`: until the first disturbance
row, replica and what any request has read are at most `Initial`; a counter that does not
exist has spent nothing; and one that does satisfies `redis + spent <= Initial`. Lemma
`Admits` is the heart: both ways to admit, the script and the initialisation that wins
the SETNX, keep that sum. `ChargesConserved` (`ChargeConservation`): `Debt` is the sum of
what requests, buffers and workers still carry, and each step moves a charge from one of these to
the next, to the row or to `lost`. `CounterAgrees` (`CounterMatchesRow`) needs
`OneCounter`: before the counter exists, the row, its replica and whoever is about to
create the counter have `Initial`; from then on the counter is the row without the debt
and what was lost. `TypeCorrect` needs this too, as `lost` contains a sum.

`LimitIsAtomic` (`ImplementsAccount`): to these invariants `AccountInv` adds `OnNode`,
that only requests under way run on a node (so an exit fails exactly those), and
`Steady`: until the first disturbance nobody falls back to the row, and a request that
lost the race to create the counter finds it. `SeenIs` and `SeenNext` say what a request
looks like at each of its steps. The decision is the script or the SETNX:
`OpeningBalance` shows that what the winner of the SETNX has read is an amount the account
may open with, `Initial` itself with one region by `OneCounter`. Every other step of
`Limit` is seen as none, a confirmation or a failure.

`CloseShrinks` (`CloseEnds`, an action property): a sender counts 3, a buffered change 2,
one that is being replayed 1, so sending, taking, replaying, draining and a crash each
lower the count, and while Close is under way no request of that node gets the lock.

**ComputeBillingProof.** `TypeCorrect`, for any `Races`, any number of concurrent
functions and any bounds, and `OneLiveSubscription` (`[]OneLiveMinted`), with every race
but `key_expired`. That at most one subscription of the chain is live follows from where
each subscribe stands in it. The invariant `ChainInv` says that the subscriptions of the
chain exist and that, behind the part whose keys are forgotten, all but the last are over,
as are those of all keys before the one a subscribe is about to create under, or to
confirm. Dead stays dead, so a create that finds its key unused appends behind a chain of
corpses, and one that finds it used mints nothing. The compare-and-set on the plan is not
needed for this: two subscribes past it still share the chain. Across a forgotten key
another argument is needed, `KeptInv`: a live subscription behind a forgotten key is the
recorded one (that is what excluding `key_expired` grants when the key goes) and stays
recorded for as long as it is live, so every subscribe finds it and none gets to create,
and there is no other live one.

The quiet-state properties are proved for any number of functions, subscriptions, plans,
failures, redeliveries and requests, each without the races of section 2 that break it:

| Theorem | Property | Races excluded | Invariant |
|---|---|---|---|
| `ComputeStaysBilled` | `ComputeIsBilled` | `deploy`, `deduped_teardown` | `BilledInv` |
| `NoCheckoutIsForgotten` | `NoSilentOrphan` | `overlap`, `unlinked_cancel`, `lost_page` | `CheckoutsTracked` |
| `EntitlementsEnd` | `EntitlementEnds` | `overlap`, `stuck_claim` | `EndInv` |
| `PlanFollowsStripe` | `MirrorConverges` | `overlap`, `stale_created`, `stuck_claim`, `other_plan`, `unlinked_cancel`, `lost_commit` | `SyncInv` |
| `LimitsFollowStripe` | `LimitsConverge` | `overlap`, `stale_created`, `stuck_claim`, `other_plan`, `lost_commit` | `SyncInv` |

`Facts` is common to them: types, the chain, and what each invocation must have read to be
where it is (`DataInv`), with all races. Without `overlap`, `AloneInv` adds that one
invocation runs and that what it read of the tables is still so. What Stripe and
the portal do meanwhile is never excluded, so each invariant says either that the copies are
right or that something is under way that will put them right (`Handling`: the event is
still to be delivered, or its handler runs; `Claimed`: a subscribe holds the claim and
will write or release). When nothing is under way only the first is left.
`BilledInv`: whoever may clear the plan has dispatched the teardown, or found nothing to tear
down. `CheckoutsTracked`: a live checkout is recorded, reported or its event handled.
`EndInv`: a subscription about to be recorded is live or its deleted event is
waiting; a dead one that is recorded has its deleted event handled; without a row there is
nothing but a claim. `SyncInv`: what the invocation is about to write fits Stripe, or Stripe has
an event about it. `EntitlementsEnd` is stated for chains of up to three subscriptions:
`subscribeDeploy` checks the answers under the first three keys against Stripe, not the
one under the fourth (section 6).

**DeployCreditsProof.** `TypeCorrect`, `AtMostOneGrant` (`Spec => []GrantOnce`) and
`LedgerImplemented` (`Spec => ImplementsLedger`), for all invoices, lines, handlers and
bounds. Neither guard is enough alone: the search misses a grant made after it, the key
is forgotten. The invariant ties them: `KeyGuards` says that while a handler is about to
create for an invoice, either there is no grant of it or its key is remembered as
granted. Stripe keeps a key for a day and a function lives for minutes, which is the
guard of `KeyExpires` and the assumption this rests on. Only events of paid invoices are
under way (`EventsPaid`), and a handler works on an entitled one (`HandlerOK`), so a create
that takes effect is the ledger's `Credit` and every other step a `Pay`, a `Tick` or a
stutter. `AllowanceAdequate` (`AllowanceIsPaid`): what `deployIncludedCreditCents` reads
when no event is left is the sum of the net fees paid for the period, of all payments
whose `invoice.paid` was handled under a resolved config or that the other event granted.
`Announced` is the added invariant: a payment that is due is granted, or its `invoice.paid`
is to be delivered, at work or missed; and by `GrantsKnown` a grant is of a paid, entitled
invoice.

Only model-checked: the four liveness properties (`CountsPropagate`,
`EverySlotIsReturned`, `EveryWaitEnds`, `CreditArrives`), because fairness is out of the
prover's reach, and `CloseNeverStuck`, which speaks of ENABLED, as the prover has no
rules for it. Written with the guards in place of ENABLED it would hold in every state by
propositional logic and say nothing of the actions, so it is left as it is. The safety
halves of two of them are theorems, `LeasesRunOut` and `CloseShrinks`.

## 6. Findings

1. **A rolled-back batch can make a node forget an origin count**
   (`ratelimit_false_allow`). `ratelimit.go:249-250` says the window of the optimistic
   increments "may cause false denials but never false allows". An origin count merged
   with `atomicMax` while the batch's cost is in `val` is hidden under it, and the
   rollback takes it away. A later request is admitted over the limit this process had
   already read.
2. **The push loop can publish a rolled-back batch** (`ratelimit_torn_push`).
   `service.go:95-98` says such a batch "cannot leak its temporary count". The loads of
   `val` and `speculative` at `global.go:101` are two; a rollback between them leaves the
   cost in the first and out of the second, and `GREATEST` keeps the row.
3. **A late charge ends an unlimited key** (`usage_unlimited`).
   `key_update_credits_decrement.sql` sets `remaining_requests` to 0 unless it is at
   least the cost, and that comparison is not true of NULL. A charge replayed after the
   key was set to unlimited leaves it with 0 credits.
4. **A late created event puts an old plan back** (`billing_stale_created`).
   `route.ts:916-918` says of the created handler that "it deliberately does no DB
   writes", and `444-445` that writes must come from the live subscription because events
   are not ordered. Line 948 mirrors the event's snapshot. Delivered after a plan change
   or a cancel it restores the first plan and its limits, and no event follows that
   corrects it.

Observed while modelling, without a run:

* `queue_gate.go:96-97` says production deployments "always receive a slot
  immediately"; at capacity `AcquireOrWait` queues them too, first in line.
* `DeploymentStep` writes an active status unconditionally (`deployment_step.go:55`). A build
  whose lease is reclaimed past its renewals, or that was cancelled while the call that
  cancels the invocation failed, is not stopped: its row says failed or cancelled until its
  next step makes it active again, and it goes on without a slot, so that more builds than
  the limit run.
* `usagelimiter.Close` returns when the buffer is empty although a worker may still be
  replaying the change it took.
* `Invalidate` only drops the counter of the region that served the update.
* The other races of `ComputeBilling` (section 2), among them: the deleted handler
  deletes the row by workspace and product, also when it meanwhile points at a new
  subscription; the release of a claim is tried once; an updated handler that fails after
  ctrl has cleared the plan finds it equal on the retry and leaves the limits of the paid
  plan until the subscription ends. A subscribe retried more than a day after a charge that
  was not recorded mints a second live subscription (`key_expired`). A transaction of
  subscribe that commits and throws leaves a renewing, recorded subscription without a plan,
  and a later subscribe is refused because it is recorded and live (`lost_commit`). The
  alert about an orphan is the only trace of it outside the logs and may be lost
  (`lost_page`).
* `deployCredits.ts:115-118` reports a config that does not resolve as nothing to grant, and
  the webhook answers 200 (`route.ts:1162-1184`, `1224-1239`). `deployBilling.ts:27-33` says
  this happens transiently too, and that callers have to tell the two apart; the credit of
  an invoice whose events are delivered in that window is never granted. The same holds for
  a renewal on a price that a reprice has replaced, once the cached config is refreshed.
* `subscribeDeploy.ts:240-247` retrieves the subscription after each of the first three
  creates. The answer of a fourth, under a key that was already used, is recorded as it
  was at its creation; if that subscription is over, nothing deletes the row again.
* The fallback of `Limit` reads the row and charges it in two statements; two requests
  can both be admitted on the last credit (the row stays at 0).

## 7. Plan

In this order, each with its own module, instance and, where it says so, proof.

1. *Rate limiter with a clock*: window rotation, strict deadlines, janitor. Does an
   evicted entry or deadline lose a count that a request is about to add?
2. *Circuit breaker* and *SWR cache*: every transition sets the deadline the next one
   reads; the revalidation queue never blocks the cache.
3. *Deployment lifecycle*: final status against cancellation and force-fail, scheduled
   desired states that are superseded, promotion and rollback against live routing.
4. *Billing*: the API product beside Compute (which limits each keeps), spend suspension
   against teardown and resume.
5. *Abstract specifications*: the rate limiter as one counter per region and process with
   bounded staleness, above `Ratelimit` and `RatelimitGlobal`; the Compute subscription as
   one state that Stripe and the workspace agree on, above `ComputeBilling`. The build gate,
   the credits of a key and the usage credits have theirs.
6. *Proofs*: the refinements of 5 from the invariants of section 5.
