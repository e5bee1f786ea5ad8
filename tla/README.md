# Verification of the Green Angels shop backend

TLA+ models of the NestJS backend in `src/`: what happens to an order from its submission to its payment, its stock, its
document in the ERP, its e-mails and its points, and the services around it (changes that come in from the ERP, carts, locks,
photos of reviews, dispatch days, prices). TLC checks the models on small instances; TLAPS proves safety properties for every size of
the instance. `PROJECT.json` lists, in machine-readable form, the components, the runs, the lines of code each definition
stands for, the hazards and the theorems.

1. [The system](#1-the-system)
2. [The modules and the code](#2-the-modules-and-the-code)
3. [The runs](#3-the-runs)
4. [Fairness](#4-fairness)
5. [The proofs](#5-the-proofs)
6. [Where the code and its comments disagree](#6-where-the-code-and-its-comments-disagree)
7. [What is not modelled](#7-what-is-not-modelled)
8. [What is left](#8-what-is-left)

## 1. The system

The backend is one NestJS program that may run as several processes over one PostgreSQL database (Prisma), one Redis
(BullMQ queues, locks, short-lived records) and external services: Stripe, Monobank, the ABRA Flexi ERP, carriers, a mail
server. A handler is an async function: between two `await`s nothing else of the same process runs, at an `await` anything
may. Database transactions take `FOR UPDATE` locks in a few places only; elsewhere a handler reads, waits and writes.

| Component | State | Operations | What is hard | What makes it correct | Module |
|---|---|---|---|---|---|
| Order creation idempotency (`orders.service.ts` `create`, `order-idempotency.service.ts`) | Redis lock and result record per key, orders | look up, lock, wait, look up again, create, store, release | concurrent and repeated submissions, locks without owner that expire, a throw after the commit | one order per key, an answer only to the same checkout, every request answered | `OrderIdempotency`, `CheckoutPromise` |
| Stripe payments and payment lifecycle (`stripe.payment-provider.ts`, `order-payment-lifecycle.service.ts`) | status and payment columns, Checkout Sessions, claimed events | pay, webhook, sync, cancel, expire, pay again, late refund | late, repeated and reordered events, money after a cancellation, two sessions, crashes after a commit | one outcome; fulfilled means paid; every charge settles; stock returns | `CardPayment`, `PaymentPromise` |
| Monobank payments (`monopay.service.ts`) | invoice, its status and date in the order | create, replace, webhook, sync, late refund | reordered webhooks compared with a stale date, replaced invoices | one outcome, fulfilled means paid; money is answered by fulfilment or by a refund request | `MonoPayment`, `PaymentPromise` |
| ERP order export and storno (`flexi.service.ts`, `flexi.queue.service.ts`, `flexi.processor.ts`) | ERP columns, two jobs with fixed ids, the document | export, manual sync, storno, reconcile at start | lost answers, exhausted attempts, dropped duplicate jobs, cancellation during an export | the row is honest; nothing unpaid is sent; exports settle; cancelled documents are taken back | `ErpExport` |
| Order administration and checkout stock (`orders.service.ts`) | order status, local stock, `stockReleasedAt` | reserve, cancel by patch, remove, release, compensate | two checkouts for the last piece, unconditional writes after a stale read, stock taken over from the ERP between two steps, deadlocks | no piece sold twice, stock and reservations add up but for what refused checkouts leave | `CheckoutStock` |
| Order e-mails (`order-communication.service.ts`, `queue/`) | Communication rows, e-mail jobs | enqueue, claim, send, mark, send by hand | retries, a crash between send and mark, two administrators | each mail once unless nobody could know; a paid order is confirmed | `OrderMail` |
| Referral points (`referrals.service.ts`) | ledger, attributions | preview, redeem, restore, credit | the balance is copied from the last entry | the balance is the sum of entries and never negative | `PointsLedger` |
| Carts (`carts.service.ts`) | carts and their lines | sync, merge at sign-in, close for an order | a cart found before a transaction is closed or handed over inside it | a cart is closed only for its order, and then it is closed | `Carts` |
| ERP inbound synchronisation (`flexi-live-sync.service.ts` and neighbours) | poll cursor, refresh jobs, dirty bits, failures | webhook, poll, refresh, update and enable | coalescing, a cursor that passes changes, a bridge over changes during a full refresh | every change is remembered until it is shown | `FlexiInbound` |
| Warehouse mirror, Nova Poshta directory, ERP sync lock | Redis locks | acquire, heartbeat, release | a lock that expires under its holder | one run at a time | `SyncLock` (the locks only) |
| Review requests and pending media (`review-request.service.ts`) | files, two Redis sets, a clean-up job | upload, remove, submit, clean up | removal and clean-up racing a submit, uploads racing each other, failures that are swallowed | an attached photo is kept unless its customer removed it, an orphan goes unless nobody knows of it any more | `ReviewMedia` |
| Pricing, promo codes and ERP lines (`pricing/`, `orders.service.ts`, `flexi.service.ts`) | the quote, the order's totals and line snapshots | quote, apply codes, place, export | a dozen roundings that have to agree: lines, percents, shares, packaging units, stripped tax | discounts are what they say; the ERP document is the order to the cent | `OrderPricing`, `LinePrice`, `CheckoutTotals`, `Money` |
| Dispatch calendar (`dispatch-calendar.service.ts`) | none | add open days | boundaries, a calendar with no open day | the count-th open day | `DispatchDays` |

The other components (sign-in, stock notifications, withdrawals, the retired change journal, catalogue,
settings, media files, invoices, carriers, accounts, inquiries, reference data, wiring) are listed in `PROJECT.json` with the
reason they are left out; section 7 says more about those that matter. The `hazards` of `PROJECT.json` name the line where
each difficulty bites and the properties that watch it.

How the components meet. `create` closes over everything at checkout: it reserves stock and redeems points in one transaction
(`CheckoutStock!Reserve`, `PointsLedger!Commit`, both under the lock of the order counter), asks for a payment
(`CardPayment` and `MonoPayment` start there), exports at once, waits for the export or leaves it to the payment (`ErpExport`
has `Pay` and `EnqueuePaid` in place of the payment), queues the mails (`OrderMail`) and closes the cart (`Carts`). A
cancellation ends the payment, gives the stock back (`CardPayment!Release` in one step, `CheckoutStock` in full), takes the
ERP document back and sends mails. Each module keeps what it needs of its neighbours: `CardPayment` counts the exports asked
for, `ErpExport` has the payment as one step, `CheckoutStock` and `PointsLedger` the export as an outcome.

## 2. The modules and the code

A step of every module is what the code does between two awaits that other processes can observe: one transaction, one
Redis call, one queue call, one request to an external service. Names follow the code.

### OrderIdempotency, CheckoutPromise

`OrderIdempotency.tla` is `OrdersService.create` and `OrderIdempotencyService`. `pc[r]` is the place of request `r` in
`create`; `lock` and `result` are the Redis records of a key; `orders` the committed orders, each named by the request that
created it (a request creates at most one); `answer` what the request returned or threw.

| Code | Model |
|---|---|
| `normalizeKey` is null, straight to `executeCreate` | `StartUnkeyed` |
| `getMatchingResult` / `assertFingerprintMatch` (three places) | `ReadRecord` with its label, `MatchedAnswer` |
| `tryAcquireLock` (SET NX EX) | `SetNx` in `TryLock` and `TryLockAgain` |
| `waitForMatchingResult`, its deadline | `Poll`, `WaitOver` |
| second look-up under the lock | `Recheck` |
| `executeCreate`: throws before commit, commits, compensates a rejected connected checkout, throws after commit | `CreateRejected`, `CommitOrder`, `Compensate`, `ThrowsAfterCommit` |
| `storeResult`, its failure that keeps the lock | `StoreResult` |
| `finally { releaseLock }`: DEL without an owner | `Release` |
| TTLs of 120 s and 24 h, process death | `LockExpires`, `ResultExpires`, `Crash` |

`CONSTANT Faults` selects the failures of an instance, so that each property is stated under the weakest conditions it
needs. `CheckoutPromise.tla` is what a key promises, with no lock and no record: at most one order per key, an answer only
to the same checkout, an announced order stays. `KeepsPromise` is the refinement, with `orders` as itself and the answers as
the clients receive them.

### CardPayment, PaymentPromise

One order paid by card. `status`, `pay`, `sid`, `source`, `overdue`, `released` are columns of the order (`overdue` stands
for `paymentExpiresAt` and the 10 minutes of grace); `session` is the state of each Checkout Session at Stripe; `events` the
webhooks Stripe has not seen acknowledged; `claimed` the `StripeWebhookEvent` rows; `job[w]` the call a worker is in.

| Code | Model |
|---|---|
| `createPayment` at checkout and on a retry | `Mint`, `Record` |
| `retryConfirmationPayment` | `StartRetry`, `ExpireOld`, `Mint`, `Record`, `Window` |
| `handleWebhook`, `claimWebhookEvent` | `Deliver`, `Claim`, then `ApplySuccess` or `MarkFailed`, `Return` |
| `syncByOrderNumber` | `StartSync`, `Retrieve` |
| `applyPaymentSuccess` under `FOR UPDATE`, then the export | `ApplySuccess`, `Export` |
| `handleLatePayRefund`, `refundSessionPayment` | `Refund`, `WriteRefund` |
| `cancelUnpaidOrder`: peek, ask Stripe, transaction, close, side effects | `Peek`, `PayState`, `Cancel`, `Close`, `Release` |
| `expireUnpaidCardOrders`, every 5 minutes | `StartExpire`, then as above |
| Stripe and the customer (external): `Delayed` are the sessions that may be paid by a method that settles later | `Pay`, `PayAsync`, `Settle`, `SessionExpires`, `CloseSession` |

`PaymentPromise.tla` is what paying online promises, with no provider, events, locks or workers: an order is decided once; it is
fulfilled against money or the word of a method that settles later; money goes back once, for a cancelled order. `KeepsPromise` is
the refinement: `outcome` is `status`, and the money of a session follows from its state (`MoneyOf`). The payment, the fulfilment, the
cancellation and the refund are steps of the promise, all the rest is a stutter. `MonoPayment` refines the same promise, with the
status of the order row and the invoices. What the promise leaves open is whether money is ever answered (`ChargesSettle`,
`ChargeIsAnswered`) and that it is taken once (finding 2).

### ErpExport

One order and its document. `row` holds the ERP columns (state, whether the external id is set, whether the native id is);
`doc` the document in the ERP; `queue` the two BullMQ jobs whose ids are fixed per order, with the attempts made; `pc` and
`saw` where the worker, an administrator, the cancellation and the payment are and the columns they read; `terms` how the
order was placed.

| Code | Model |
|---|---|
| `queue.add` with a `jobId`: ignored while a job of that id exists, kept ones included | `Added`, `End`, `Forget` |
| `runExportOrderJob`: skip, RETRYING, export, write outcome, retry or give up | `Take`, `Check`, `Mark`, `Written`, `Retry` |
| `exportOrder`: already synced, GET by external id, PUT, exception document | `Read`, `Lookup`, `Put`, `Exception` |
| `syncErp` | `StartSyncErp`, then the same steps as `admin` |
| `cancelUnpaidOrder` / `patch`, `applyRel003CancelSideEffects` | `CancelUnpaid` / `StartPatch` and `CancelRow`, `RemoveJob`, `CancelPending` |
| `stornoOrder`, `runStornoOrderJob` | `StornoRead`, `StornoGet`, `Storno`, `StornoWrite`, `StornoFailed` |
| payment, `enqueueExportOrderAfterOnlineCardPaid` | `Pay`, `EnqueuePaid` |
| restart, stalled jobs, `reconcilePendingErpExports` | `Restart` |

### CheckoutStock

Several checkouts, cancellations and deletions over a few plants. `stock` holds uncommitted changes too: `rowLock` says whose
row they are, and a transaction that ends badly takes `done` back (`Rollback`).

| Code | Model |
|---|---|
| `executeCreate`: order number from the counter row, conditional decrements, commit | `Begin`, `Reserve`, `Commit` |
| the awaited export of a connected checkout | `Accepted`, `Kept`, `ErpRefuses` |
| `checkStock` after a refusal, `applyCheckoutStockHints` | `Short`, `ErpRefuses`, `Hint` |
| `compensateFailedConnectedCheckout` | `Compensate`, `CompensateDelete` |
| `patch` to CANCELLED: read, unconditional update, side effects | `StartCancel`, `Update`, `Effects` |
| `releaseLocalStockReservation` | `LockOrder`, `GiveBack`, `Released` |
| `remove` | `StartRemove`, `LockOrder`, `GiveBack`, `Released`, `Delete` |
| PostgreSQL (external): one of two transactions that wait for each other is aborted | `Deadlocked` |

### MonoPayment

One order and the invoices the bank issued for it. `proc[w]` is a webhook or sync: what it read of the order (`saw`, `id`)
and the message it applies. `reversed` are the invoices the shop asked the bank to pay back.

| Code | Model |
|---|---|
| `createInvoiceForOrder`, at checkout and on a retry | `StartRetry`, `RemoveOld`, `CreateInvoice` |
| `handleWebhook`, `syncByOrderNumber` | `HandleWebhook`, `SyncByOrderNumber`, `FetchStatus` |
| `applyInvoiceStatus`: drop by date, write the status, or hand a success to the lifecycle | `DropOutdated`, `RecordStatus`, `ApplySuccess` |
| `handleLatePayRefund` for Monobank | `Refund`, `RecordRefund` |
| `cancelUnpaidOrder` for Monobank | `CancelUnpaid`, `RemoveCancelled` |
| the bank and the customer (external) | `BankMoves`, `SetStatus` |

### OrderMail

The e-mails of one card order, each with a job of fixed id and a `Communication` row of unique key; `worker` is the e-mail
worker, `request` the administrators who send by hand; `sent` counts what the provider accepted; `cuts` the failures after
which nobody in the program can know whether a mail was sent.

| Code | Model |
|---|---|
| `enqueueOrderEmail` at payment, cancellation and late payment | `Enqueued` in `Pay`, `Cancel`, `LatePay` |
| the worker and `sendBundle` with its two branches | `TakeJob`, `ReadOrder`, `EndJob` |
| `claim`, the provider, `markSent`, `markFailed`, the stamp on the order | `Claim`, `CheckCancelled`, `Send`, `MarkSent`, `MarkFailed`, `Stamp` |
| `sendManualCustomerEmail`: one transaction from claim to mark | `ManualClaim`, `ManualDuplicate`, `ManualSend`, `ManualCommit` |

### Carts

The carts of one customer, who is a guest and then signs in. A cart has an id; requests remember ids across awaits.

| Code | Model |
|---|---|
| `syncCart`, `ensureCart` | `StartSync`, `WriteSync` |
| `executeCreate` notes the open cart, commits with `cartId` | `StartCheckout`, `CreateOrder` |
| `clearOriginatingCartAfterSuccessfulOrder`, `closeCartForOrder`; the same on a replay | `FindCartToClose`, `CloseCart`, `Replay` |
| `applyMerge` with its four strategies | `StartMerge`, `Reassign`, `StoreMerged`, `Dispose` |

### PointsLedger

`ledger` is the sequence of `ReferralLedgerEntry` rows of one customer, each with the balance after it.

| Code | Model |
|---|---|
| `previewPointsRedemption` | `PreviewPointsRedemption` |
| the order's transaction with `writePointsRedemption`, under the lock of the counter | `Begin`, `ReadBalance`, `Commit`, `RollBack` |
| the export's answer, the compensation | `Accepted`, `ErpRefuses`, `Restore` |
| `creditReferrerPoints` | `StartCredit`, `ReadForCredit`, `WriteCredit` |

### FlexiInbound

The state of an object is the number of the change that produced it: `site[o]` is the state the catalogue shows, `Latest(o)`
the one the ERP has. `job[o]` is the BullMQ job `flexi-refresh:<key>`, `dirty` the Redis bits; `proc` holds the webhook
handler, the poll, the worker and the administrator's "update and enable"; `bridge` what the last has gathered.

| Code | Model |
|---|---|
| the ERP changes an object and sends a webhook (external) | `Change`, `LoseHook` |
| webhook, `enqueueFromChangeEntries`, `enqueueRefresh` | `Deliver`, `LookUp`, `Enqueue` |
| `pollChangesLive` with `collectChangeNotifications` | `StartPoll`, `Collect`, `Filter`, the steps of the enqueue, `Advance` |
| `processRefreshJob`, `consumeDirty`, attempts | `Take`, `Get`, `Apply`, `CheckDirty`, `Undirty`, `Finish` |
| `updateAndEnable`: full refresh, two bridges, registration | `Disable`, `Restart`, `Baseline`, `Fetch`, `Store`, `Pass`, `RefreshNext`, `Refreshed`, `NextPass`, `EndBridge`, `Register`, `Abandon` |

### SyncLock

One Redis key and the runs that want it, under the three protocols of the code: `"flexi"` looks at the owner in heartbeat and
release, `"plant"` only in the release, `"np"` in neither. `TryAcquire` is SET NX EX, `Heartbeat` and `Extend` the two calls of a
heartbeat, `End`, `ReadOwner` and `Release` the `finally`; `Late` and `Expire` the clock. An expiry exactly between the owner check and the delete of
a release is left out.

### ReviewMedia

`disk` is the storage, `pending` and `manifest` the two Redis sets of a link, `attached` the photos of its review.

| Code | Model |
|---|---|
| `uploadMediaByToken`, `registerPendingMediaInRedis`, undo and deletion; a request that dies | `StartUpload`, `Store`, `Register`, `Count`, `Undo`, `Compensate`; `LoseUpload` |
| `schedulePendingMediaCleanup`, which swallows a failure of the queue | `Schedule`, `Enqueues` |
| `removePendingMediaByToken`: checks, SREM of the pending photo, SREM of the manifest, deletion | `StartRemove`, `TakeOut`, `Unlist`, `Remove` |
| `submitByToken`, then the release of both sets | `StartSubmit`, `Commit`, `Release`, `LoseSubmit` |
| revocation, regeneration, expiry | `Die` |
| `processPendingMediaCleanup` and its attempts; an error, or a worker that dies, in the middle | `StartCleanup`, `Look`, `Clean`, `EndCleanup`; `BreakOff`, `CleanerDies` |
| the lock of the clean-up, left behind and expired | `Locked`, `Lapse` |

### DispatchDays

`Walk` is one turn of the loop of `addOpenDays` (`dispatch-calendar.service.ts`); weekdays are remainders of day numbers.

### OrderPricing, with Money, LinePrice, CheckoutTotals

An order on its way from the cart to the ERP, in whole cents. `Money` holds the roundings, `LinePrice` what a line costs,
`CheckoutTotals` the totals of a checkout; `OrderPricing` walks through quote, order and document. `basket` is the cart, `awaiting` the codes that
wait for the delivery's amount, `used` those that count as applied. `PriceAssumption` says what carts, rules, codes and
settings are: what `validateDto` of the rules and of the codes and `normalizeCartCheckoutSettings` let through, in cents and whole
percents. The carts, codes and settings that TLC prices are in `PriceCases`.

| Code | Model |
|---|---|
| `resolveDualOfferLine`, `resolveOfferSide`, `buildDiscountRuleCandidates` | `DualOffer`, `Side`, `RuleOffers`, `StackOffer`, `InTurn` |
| `computeLinePromoUnitPrice` | `WithPercent`, `Improves` |
| `PricingService.quote`: lines, then percents on products, on shipping, fixed amounts, presents | `Quote`, `PassOver`, `PercentOnProducts`, `PercentOnShipping`, `FixedOff`, `Gift` |
| `computeCheckoutTotals` with delivery, packaging, codes on the delivery, cash on delivery, tax | `Totals` and its steps `Fees`, `BeforeCod`, `WithCod`, `Kept`, `TaxOf`, `Grand`; `Delivery`, `Packages`, `ShippingPromos`, `CodFee`, `CodOffered` |
| `executeCreate`: codes that must apply, totals that must pass, line snapshots | `PlaceOrder`, `Snapshot`, `Presents` |
| `exportOrder`: the lines and the check before sending | `DocumentLines`, `ProductLine`, `PackagingLines`, `Copied`, `ExportOrder` |
| ABRA Flexi (external): the tax of each line | `LineTax` |

### The two groups: OrderLife, Services

`OrderLife` and `Services` put the components of an order's life, and of the services around it, side by side, each with constants
and variables of its own, and name the property of each (`StockAddsUp == Shelf!StockAddsUp`). The theorems of `OrderLifeProofs` and
`ServicesProofs` are about these properties, for every value of the constants. `MCOrderLife` and `MCServices` check the same
definitions: the variable `scenario` chooses one component at the start, the variables of the others rest, and a component at
rest satisfies its properties in its initial state. Most scenarios are the instances of `OrderLife` and `Services`; those that need
other constants are instances of `MCOrderLife` and `MCServices`. `MCOrderLife` extends the requests of `MCOrderIdempotency` as well
(scenario "once"), `MCServices` extends `DispatchDays` and `OrderPricing` (scenarios "days", "prices").

## 3. The runs

| Run | Instance | Distinct states | Shows |
|---|---|---|---|
| `order_life` | fifteen scenarios, below | 154 284 | what must happen once in an order's life happens once, and what must follow follows |
| `services` | nine scenarios, below | 196 876 | the same of the services around the orders |
| `card_safe` | 2 workers, 2 sessions, one of which may settle later; events, syncs, expiry job, retries; crashes, failing Stripe requests | 2 298 654 | the payment implements `PaymentPromise`; refunds and released stock only for cancelled orders, a true refund record, no fulfilment without money |
| `card_live` | 2 workers, 2 sessions; cancellations, expiry job, retries; no failures | 201 970 | charges settle, stock returns, paid orders are exported, no order waits for ever |
| `erp_safe` | card and cash on delivery, online and offline acceptance; all calls overlapping; every failure, 2 failures, 2 attempts, 1 restart | 2 905 892 | the row is honest about document and storno, the queue sends only what is paid |
| `idem_retry` | as scenario "once", `executeCreate` may throw after its commit | violation | finding 1 |
| `card_twice` | 2 workers, 2 sessions; no failures | violation | finding 2 |
| `erp_race` | cash on delivery, accepted offline; overlapping cancellation; no failures | violation | finding 3 |
| `erp_offline` | card, accepted offline; no overlap, no failures | violation | finding 4 |
| `flexi_idle` | one object, polls and lost webhooks | violation | finding 5 |
| `mono_replaced` | two invoices, one request at a time, cancellation and retry | violation | finding 6 |
| `rc_percent` | reverse charge, with and without a percent off a line | violation | finding 7 |

Scenarios of `order_life`:

| Scenario | Component | Instance | Property |
|---|---|---|---|
| once | `OrderIdempotency` | 3 keyed requests (one with another fingerprint), 1 without key; failing lock calls and writes, rejects, compensation, crash | `OneOrderPerKey`, `KeepsPromise` |
| answers | `OrderIdempotency` | 3 requests (two with one fingerprint, one with another); every failure, expiries and failing reads included | `AnswersAreRight`, `AllAreAnswered` |
| single | `CardPayment` | 2 workers, 1 session that may settle later, syncs; every failure | `ExportedOnce` |
| withdrawn | `CardPayment` | 2 workers, 1 session, sync and cancellation; crash, repeated events | `ExportedOnce` |
| export | `ErpExport` | bank transfer and cash on delivery; every failure, 4 failures, 3 attempts, 1 restart | `ExportSettles` |
| storno | `ErpExport` | card and cash on delivery; no overlap; 3 failures, 3 attempts | `CancelReachesErp` |
| shelf | `CheckoutStock` | local and external inventory; 2 carts with the same 2 plants in opposite order, two pieces of each plant there, of one plant one order wants both; the ERP may accept, keep, not answer or refuse either, and has one piece of that plant and none of the other; one order is cancelled and removed; crash | `StockAddsUp`, `CheckoutsDoNotDeadlock` |
| returned | `CheckoutStock` | the same shelf, one order, cancelled twice and removed | `StockAddsUp` |
| notified | `MonoPayment` | 1 invoice, 4 changes of status, one request at a time, repeated and reordered webhooks, sync, cancellation | `PaidStaysPaid`, `ChargeIsAnswered` |
| charged | `MonoPayment` | 1 invoice, 2 requests at a time, crash, failing refund, cancellation | `ChargeIsAnswered` |
| replaced | `MonoPayment` | 2 invoices, retry | types |
| confirmed | `OrderMail` | a payment; 2 failures, 2 attempts; refusals, crashes, lost answers | `EachMailOnce`, `PaidIsConfirmed` |
| apologies | `OrderMail` | a cancellation and a late payment | `EachMailOnce` |
| by hand | `OrderMail` | 3 requests with one key; refusals, timeouts | `EachMailOnce` |
| points | `PointsLedger` | 2 checkouts that wish 3 of 5 points, 3 requests that reward 2 friends; no stock, refusals | `BalanceIsTheSum` |

Scenarios of `services`:

| Scenario | Component | Instance | Property |
|---|---|---|---|
| days | `DispatchDays` | 2 dates, 3 counts, 5 sets of weekdays, 3 sets of dates, 12 turns | `LandsOnOpenDay` |
| racing | `FlexiInbound` | 1 object, 2 changes at any moment, webhook and poll, crash, one failed request | `StaleIsRemembered` |
| polled | `FlexiInbound` | the same without changes at the moments named below, with lost webhooks | `ChangesArrive` |
| enabled | `FlexiInbound` | the same with "update and enable" and no poll | `ChangesArrive` |
| shopping | `Carts` | 3 carts, 2 checkouts, 2 syncs, every merge strategy, a failing close | `ClosedForItsOrder`, `OrderedCartEnds` |
| owned, ownerless | `SyncLock` | 3 runs; overrun and crash, for the protocols with owner; crash, for the one without | `LiveHoldersExclude` |
| prices | `OrderPricing` | with the tax: 31 carts, 17 lists of codes, 5 settings; under reverse charge: 9 carts without percents, 7 lists, 5 settings | `DiscountIsTrue`, `DocumentIsTheOrder` |
| photos | `ReviewMedia` | 2 photos where 1 is allowed, removals, 2 submits, 2 attempts of the clean-up, 2 failures of Redis, storage, queue or a process | `AttachedIsKept`, `NeverTooMany`, `OrphansGo` |

Why the bounds are enough.

- *Requests.* The protocol of a key distinguishes a holder, one that waits and one that arrives later; the third keyed
  request carries another fingerprint, the fourth no key. Keys are independent: all state is indexed by key and a request has one.
- *Sessions, invoices and workers.* A session matters as the one the row points to or as an older one: two suffice, and `Mint`
  fails when none is left. Every pair of calls is interleaved; three calls at once are not checked, but the proved properties
  hold for any number of workers and sessions. `exports` is counted to 2, enough to see that 1 is exceeded. `card_safe` leaves
  the cancellation by the customer to `card_live` and to scenario "withdrawn"; its code is that of the expiry job but for the deadline.
- *ERP failures.* `MaxTries` is 3 in the code; `erp_safe` uses 2 because its properties do not depend on the number. Scenario
  "export" admits more failures than attempts, so the last attempt is reached and passed. "storno" has three attempts after the
  call of the cancellation itself and three failures: with more, nothing tries again. One restart is enough to lose every call
  once. "storno" excludes overlap because with it the property is false (finding 3), and lost answers because an export that took
  effect without an answer leaves no native id, and the storno is then skipped when a look-up fails.
- *Stock.* Two carts and two plants are the smallest circle of locks; an order that wants both pieces of a plant makes one of the
  checkouts fail, and an ERP that has one of them has some of the line but not all. An order may be refused and cancelled at once.
  The ERP's figure is put on the shelf of a line that is short, and the compensation then adds the whole line; the pieces of an order
  cancelled during the awaited export come back twice. `StockAddsUp` states both as `Surplus`, and that a shelf gains nothing else.
  What the ERP has when it refuses is a constant: two checkouts are told the same figure. Lines of one plant are one line, as `stockNeeds` adds them up before a
  transaction takes or gives back; `checkStock` and the hints look at each line by itself, so that two lines of a plant which are
  short only together are not hinted, where here they are. Stock that the ERP sends, or that the check before an order
  takes over (`orders.service.ts:2745`), is not here: it overwrites a shelf whatever is reserved, and no balance survives it.
- *Monobank.* Four dates let a card fail and be tried again. Two requests at once compare their dates with the same stale one
  and `PaidStaysPaid` is then false: it is claimed of scenario "notified", which has one worker; the hazard says so. A replaced invoice makes
  `ChargeIsAnswered` false (finding 6).
- *E-mails.* One worker, as the queue is configured; with two, `EachMailOnce` is false because `claim` lets PENDING pass.
- *Points.* Credits and restores take no lock; where they overlap a checkout the balance is wrong, and the constant `Overlap`
  keeps them apart. Three of five points asked for twice make the second redemption smaller than its preview.
- *Inbound.* One object suffices: objects share only the cursor, and the poll treats what it collects as a set. Two changes let one
  arrive while the other is being refreshed. `Calm` leaves out changes between the GET and the end of the refresh job (the dirty bit
  can then be set after it was looked at, and stays without a job until the next change: remembered, not arriving), polls that find
  nothing (finding 5) and polls beside "update and enable".
- *Carts.* Three carts are as many as two checkouts and a sign-in can need; one line tells an empty cart from another.
- *Locks.* Three runs: one that outlives its lock, its successor, and the third whom a wrong release would let in. Without an owner and
  with overrun the property is false, and known: the scenario "ownerless" has crashes only.
- *Photos.* One photo more than allowed, and one submit more than can succeed: a second submission comes where one photo is and
  nothing fails. Photos are alike, and so are submissions, so that one of each may be the first. Two failures exhaust the attempts
  of the clean-up, let its worker die with the lock and the queue fail as well, or let a failed upload keep its file. A removal may
  take a photo between the ownership check of a submission and its commit: `AttachedIsKept` lets that happen to a photo of a review and
  nothing else. What is left behind for ever has names in `OrphansGo`: `Abandoned` (no manifest lists it), and a job that was not
  scheduled, has given up, or met a lock left behind. A clean-up that takes longer than its lock is not here.
- *Prices.* Amounts do not divide evenly; every way to combine rules, every kind and scope of code, and each fee on both sides of its
  limits occurs. Percents and tax rates are whole numbers and half a cent goes up; the code rounds binary fractions, where a half may
  fall below. One fixed code, alone or with percents that reach the delivery, because two may take more than there is (section 6).
  A single kind of container stands for pallets. Under reverse charge there are no
  percents, because with them the property is false (finding 7).

`CHECK_DEADLOCK FALSE` is set in every run: all requests can be answered, an order can be finished, and then nothing is left to do.

For every property of a passing run the module holds a faulty variant of an operator ("Faulty variant of ..."), a bug
one could write in that place; with it TLC finds the property violated. They are not used by the specifications.

## 4. Fairness

- `OrderIdempotency`: weak fairness of each request's own steps. Awaits return or throw, the wait loop has a deadline, and
  a crashed request is in a final state. Nothing is assumed about crashes, expiries or other requests.
- `CardPayment`: weak fairness of the steps of a call that has begun; strong fairness of delivering an event, because Stripe
  redelivers until it sees a 2xx and a worker is free again and again; strong fairness of the expiry job, a repeatable
  BullMQ job every 5 minutes (`queue.service.ts:47`); weak fairness of the deadline, which is a clock. Nobody is assumed to pay,
  cancel, sync or retry. An instance can retry only while it has sessions left, so `AwaitingEnds` speaks of a customer who
  stops retrying.
- `ErpExport`: weak fairness of each process's steps and of handing out queued jobs. Nobody is assumed to pay, cancel or sync.
- `MonoPayment`: weak fairness of requests and of the administrator's calls once begun; strong fairness of the notification of a
  success, which the bank repeats until it is answered.
- `OrderMail`: weak fairness of the worker.
- `FlexiInbound`: weak fairness of what has begun, of the worker, of delivering a webhook that is not lost, and of the backup poll.
  The poll is a repeatable job only if `backupPollEveryHours` is configured (0 by default): without it a lost webhook is not made
  up for. Nobody is assumed to press "update and enable".
- `Carts`: weak fairness of a checkout that has begun. `ReviewMedia`: weak fairness of requests and of the clean-up job.
- `SyncLock`, `DispatchDays` and `OrderPricing`: none; no liveness is claimed of them.

In the groups of scenarios one fairness condition stands for those of several components: only one scenario is under way, so the
condition is that of its component. Where it also joins processes of one component (`FlexiWorks`) this is not stronger:
the steps joined are finitely many between steps of the environment, which are bounded, so that they come to an end together.

## 5. The proofs

| Module | About | Results |
|---|---|---|
| `OrderIdempotencyProofs` | `OrderIdempotency`, `CheckoutPromise` | `TypeCorrect`, `ReplayIsSafe`, `AnswersStand`, `CreatorsExclude`, `KeyCreatesOnce`, `Implements` |
| `CardPaymentProofs` | `CardPayment`, `PaymentPromise` | `TypeCorrect`, `Implements`, `RefundsAreLate`, `RefundRecordHolds`, `PaidBeforeProcessing`, `ExportsOnce` |
| `ErpExportProofs` | `ErpExport` | `TypeCorrect`, `RowIsHonest`, `CancelIsHonest`, `UnpaidIsNotSent` |
| `CheckoutStockProofs` | `CheckoutStock` | `StockIsBalanced`, `CheckoutsGoOn` |
| `OrderLifeProofs` | `OrderLife`: `OrderMail`, `MonoPayment`, `PointsLedger`, and `OrderIdempotency`, `CardPayment`, `CheckoutStock` as instances | `MailsOnce`, `PaidStands`, `MonoImplements`, `PointsAddUp`, `AnswersHold`, `ExportStands`, `StockStands` |
| `ServicesProofs` | `Services`: `SyncLock`, `Carts`, `ReviewMedia`, `FlexiInbound` | `LocksExclude`, `CartsClose`, `PhotosAreKept`, `PhotosAreFew`, `ChangesAreRemembered` |
| `DispatchDaysProofs` | `DispatchDays` | `LandsRight` |
| `OrderPricingProofs` | `OrderPricing`, with `LinePrice`, `CheckoutTotals`, `Money` | `DiscountsStand` |

They hold for every set of requests, keys, sessions, workers, orders, carts, invoices, photos, ERP objects, every number of attempts and
failures, every calendar, every cart, rule, code and shop, and all faults unless a theorem says otherwise. A theorem rests on the assumptions its module names about the
constants (`...Assumption`), or on a hypothesis of its own: `StockHypothesis`, `MailHypothesis`, `MonoHypothesis` and
`OneAtATime`, `PointsHypothesis`, `LockHypothesis`, `CartHypothesis`, `MediaHypothesis`,
`CardHypothesis`, `FlexiHypothesis`. Most of what they ask is that numbers are
numbers and names are told apart. What goes beyond:

- `StockHypothesis`: a variant is one line of a cart (section 3, *Stock*); the pieces of a line and what the ERP has are any numbers.
- `OneAtATime`: requests about a Monobank payment do not overlap and the order has one invoice. Two that overlap compare with the
  same stale date, and `PaidStaysPaid` is false; what a replaced invoice does is finding 6.
- `PointsHypothesis`: rewards and restores do not overlap a checkout, `~Overlap`. Nothing in the code keeps them apart, and where
  they meet points are lost: the theorem says that nothing else loses any.
- `LockHypothesis`: where the lock has no owner (Nova Poshta), no run outlives it.
- `OneMint` (in `CardHypothesis`): one session, or no retry. With two sessions a retry may record the second one just after the first
  was paid: `createPayment` then overwrites `paymentStatus`, the success of the second session passes for a first one, and TLC shows
  the order exported again. What paying twice leads to is the run `card_twice` (finding 2).
- `FlexiHypothesis`: where webhooks get lost, or somebody presses "update and enable", the instance is calm: the poll runs only when
  there is something to find and not beside the enabling, and nothing changes while its own refresh is past the GET, in the second
  bridge, or between an empty pass and the end of a bridge. And not both: enabling, too, moves the cursor beyond the last change
  (finding 5). Without either part the property is false: with `hookLost` and `enable` TLC shows a change lost after an enabling that
  found nothing, without `Calm` one that arrives between an empty pass and the end of the bridge.

The scenarios of the runs satisfy each of them.

**OrderIdempotency.** `TypeCorrect` and `ReplayIsSafe` need nothing: a record that names an order belongs to its key
(`RecordsOfKey`). `LockWorks`, if no lock expires, shows that a request between `SetNx` and `Release` has its lock
(`HoldersHaveLocks`), so the DEL without an owner deletes the caller's own lock; mutual exclusion follows (`CreatorsExclude`).
`OneOrder` adds, under `BenignFaults` (no expiry, no failed read, no throw after the commit), `OneInv`: an order of a key is
recorded, or its creator is about to record it, or a lock that nobody holds shields it (`KeyedOrdersGuarded`), and a creator
sees no record (`CreatorsSeeNoRecord`). Without these `OneOrderPerKey` is not inductive: nothing in it keeps a second request
out of `executing`. `KeyCreatesOnce` is the property alone. `Implements` shows that
an answer names a recorded order (its step `AnswersSound`), and that every step of `create` is a step of `CheckoutPromise` or a stutter: `CommitOrder` is `Make`, `Compensate` of
an order nobody was told of is `Unmake`, the last step of a request is `Confirm` or `Refuse`. `AnswersStand` is what a client is told, under
every fault: an order in an answer or a record has a creator past the point where `executeCreate` can take it back (`AnswersSettled`).
That an answered order exists is not inductive alone: the record that is answered next must name one that stays as well.

**CardPayment.** `TypeCorrect` carries along that a job has a session where its next step needs one. `MoneyIsSafe` proves `RefundsAreLate` and `RefundRecordHolds` together with
`JobsAreBacked`: a call about to refund, close or release runs for a cancelled order, and one about to write "refunded" has a
refunded session. `PaidBeforeProcessing` proves `FulfilledMeansPaid`: every event and every call that leads to `ApplySuccess`
names a session that completed, a completed session that is not of a delayed method is paid, and a paid one is refunded only for
a cancelled order. `ExportsOnce` rests on `ExportInv`: who is about to export has found the order unpaid and made it PROCESSING
under the row lock, nobody has exported before, and there is one of them; and a worker about to record a session is the one that
minted it, so that nothing is written over a success. That `exports` is at most 1 says nothing of a second worker on its way.
`Implements` takes the fulfilment from `FulfilledMeansPaid` and the refund from `JobsAreBacked`; that the order is decided once
follows from the status read under the row lock.

**ErpExport.** `TypeCorrect`; `DocumentsAreKnown`: whoever is about to write SYNCED, a native id or CANCEL_SYNCED has seen the
document, or its storno, and documents only move on. `RowIsHonest` and `CancelIsHonest` follow although worker, administrator and
cancellation overwrite each other's rows. `UnpaidIsNotSent`: the worker past `Check` has a sendable order, and payment is not undone.

**DispatchDays.** `LandsRight` proves `LandsOnOpenDay` from `DayInv`: what remains and the open days behind the cursor add up to the
count, and if nothing remains the cursor is on an open day. `OneDayMore` is the step of the cardinality: one day more is one open
day more if it is open. The property alone says nothing of a loop under way.

**CheckoutStock.** `StockAddsUp` speaks of the moments without a transaction; `Balanced` of all of them, with `Committed`, the stock as
it would be if what is under way were rolled back. `Grows`: what refused checkouts may leave on a shelf is never taken back, so that
`Surplus` covers each figure of the ERP when it is written (`Asks`). The step of `Balanced` needs `ShelfInv`: a row is held by the transaction that has updated it
(`RowsHeld`), the lines done and those to do are the cart (`Carried`), and who gives a reservation back has an order that still has
one (`PhaseOf`): `releaseLocalStockReservation` looks at `stockReleasedAt` under the lock of the order. `ReservedCounts` counts the
pieces reserved before and after one order changes, `BalanceStep` goes through the actions (steps of `StockIsBalanced`). `CheckoutsGoOn` needs `RowsHeld` only: who
reserves holds the row of the order counter, so there is one of them. That a stock is never negative is part of `TypeOK`.

**MonoPayment.** A paid order carries the date of its charge (`PaidIsCharged`), nothing the bank says of an invoice is newer than the
invoice (`Said`), and the request under way has seen the order as it is (`RequestsTrue`): what is told late is outdated, and
`PaidStaysPaid` follows. The property alone says nothing of dates, and lets an older status be written next. `MonoImplements` needs neither
`OneAtATime` nor the dates, only `MonoMoney`: who says "success" says it of an invoice that was charged, and only a cancelled order is
paid back. So requests that overlap may spoil the columns of an order, its outcome they may not. No run checks this refinement.

**OrderMail.** `MailInv` counts: a mail not marked as sent has gone out at most as often as failures hid a sending (`cuts`); the
worker holds no mail that is marked; one administrator at a time is in the transaction of a manual mail.

**PointsLedger.** `BalanceIsTheSum` says of each entry that its balance goes on from the one before. `PointsInv` adds that one
transaction at a time is between its read and its write, and that what it has read is still the balance; `OneEntry` that an order has
one entry until it is refused, so that the compensation gives back what was taken.

**SyncLock.** `LockInv`: a run inside holds the lock or has outlived it, and one about to delete the key is its holder.

**Carts.** `CartInv`: an order names a cart that was made before it, and the cart about to be closed is linked to its order or gone,
whatever a merge has done in between.

**ReviewMedia.** `MediaInv`: while the link is valid a photo uploaded is stored unless its customer has removed it (`Kept`); what a
submission is about to attach was uploaded, so this is true of it whatever removals have run since the ownership check; and the
clean-up, which begins only when the link is dead, keeps what it saw attached. `PhotosAreFew` compares the photos that stay with all those listed when the last of them looked again.

**FlexiInbound.** `Remembered` lets the cursor stand for a change as long as it lies behind it; so the invariant has to say what the poll
holds when it is about to move it. `FlexiInv`: what is due is on record (`Noted`: a webhook under way, a waiting job, the dirty bit, a
refresh that has not read the object yet) or behind the cursor, and what the poll would move the cursor over is on record or
on its list (`Lists`). A lookup of a job that has changed since is no request any more (`Asks`): a job found kept or missing, and
active by now, was taken after the change and reads it. While `accepting` is off webhooks are dropped and nothing need be on record;
`BridgeInv` shows that "update and enable" owes the catalogue nothing when it turns it on again. `FromBaseline`: the catalogue is read
at or after the baseline. `InPass`: what is stale lies ahead of the pass, on its list or changed since the list was read (`Ahead`), or
is the refresh in hand (`Held`); an object refreshed once is not looked at again, so this needs every read to be fresh
(`ReadsAreFresh`). `SecondRound`: hence at the end of the first bridge, which also closes every failure, nothing is stale, and
nothing becomes so until the second one ends. `Latest(o)` is a maximum over the changes so far; `<2>c` is what one
change makes of it.

**OrderPricing.** `DiscountsStand` proves `DiscountIsTrue` for every cart of any length, every list of rules and codes, and every shop
that meet `PriceAssumption`. The property speaks of lines and of a stored order only; `PriceInv` says what the codes on their way have
done so far. `LinesAreTrue`: no unit is above its base and a percent is kept only with the price it makes, whatever rules (`SideIsTrue`)
and percents (`PercentStaysTrue`) were combined. `FixedCounts` follows the only fixed code through the quote: until it is looked at
nothing is off and only percents wait (`Unspent`), and because fixed codes come after all percents no line changes once it is
spent (`Spent`), so that what it was measured against is what the order has. `OrderCounts`: the stored totals are those of these lines
and codes. `DiscountFollows` then takes the totals apart: delivery before codes and boxes do not depend on the codes (`CollectedIs`),
the percents leave what was fixed alone (`PercentsLeave`), and `OnShippingIs` shows that the shares of a fixed code
(`allocateAmountByWeights`, with its rounding and its remainder) add up to the cent and none exceeds its part.
Sums, filters and the codes on the delivery are folds. `SetInduction` and `SequenceInduction` are induction with a set in place of a
predicate, from the least element of a set of numbers; `FoldLaws` says by it what a fold computes, for every function, and
`SumLaws`, `ChosenLaws`, `InTurnLaws` and `ShippingLaws` are its uses.

*Model-checked only*: the liveness properties (`AllAreAnswered`, `ChargesSettle`, `CancelReleasesStock`, `PaidIsExported`,
`AwaitingEnds`, `ExportSettles`, `CancelReachesErp`, `ChargeIsAnswered`, `PaidIsConfirmed`, `ChangesArrive`, `OrderedCartEnds`,
`OrphansGo`), which fairness and ENABLED put out of the prover's reach; and
`DocumentIsTheOrder`, which does not hold for all amounts: a unit has four places more than a cent, so a line of more than ten
thousand pieces need not give its amount back, and the tax of an order is not negative while that of a document whose
fixed code takes most of many tiny lines may be, by the rounding of each. It is a property of the amounts of `PriceCases`.
`TypesHold` gathers the types of all components of a group; the modules prove those their invariants need.

## 6. Where the code and its comments disagree

1. `idem_retry`, `OneOrderPerKey`. `orders.service.ts:2245` takes a released lock without a record for "no order yet".
   `executeCreate` can throw after its transaction committed (the payment provider fails in `createPaymentForOrder`, or the
   compensation itself fails); `finally` releases the lock and a retry with the same key commits a second order.
2. `card_twice`, `ChargedOnce`. `stripe.payment-provider.ts:356` documents a refund for "late-pay / duplicate charge". Its only
   caller handles cancelled orders: when "pay again" mints a second session while the first is being paid, both charges
   succeed and the second is answered with a no-op.
3. `erp_race`, `CancelReachesErp`. `flexi.queue.service.ts:225` removes the pending export "so cancel does not race an in-flight
   submit". An active job cannot be removed, does not look at the order again, and overwrites CANCEL_PENDING_ERP with SYNCED.
4. `erp_offline`, `ExportSettles`. A card order accepted offline is queued at once, skipped because it is unpaid, and its job is
   kept as completed; the export after payment has the same job id and BullMQ drops it. The order stays PENDING_ERP, after a restart
   too: the reconciliation adds the same job id and is dropped as long as the completed job is kept.
5. `flexi_idle`, `StaleIsRemembered`. The backup poll asks "strictly after stored baseline" (`flexi-live-sync.service.ts:75`);
   with nothing there the next version it stores is one that does not exist yet (`:92`), and the change that gets this number later
   is before every later start: if its webhook is lost, no poll finds it.
6. `mono_replaced`, `ChargeIsAnswered`. `applyPaymentSuccess` promises "CANCELLED → late-pay refund"
   (`order-payment-lifecycle.service.ts:76`). A success of an invoice that a retry has replaced is refunded on the invoice the order
   names now (`monopay.service.ts:372`), which was never paid; the bank refuses, and the money of the old one stays.
7. `rc_percent`, `DocumentIsTheOrder`. "Total-led RC: `sumZkl` wins" (`pricing/flexi-line-payable.ts:25`), and a test passes such a
   line to the check before the export (`flexi-order-export-mapping.spec.ts:826`). `exportOrder` passes copies without `sumZkl`
   (`flexi.service.ts:2093`): the line counts 0, and every export of an order under reverse charge with a percent is refused.

Seen while modelling, in the models' behaviour but claimed by no property: a session recorded after a cancellation stays
payable (its payment is refunded); a late `expired` event of an old session overwrites `stripePaymentId` and the label; the
expiry job can cancel an order whose window a retry has just moved, because it does not look at the deadline again;
a delayed method counts as paid before it settles; `syncErp` reports a queued retry although `queue.add` was dropped; two Monobank
webhooks at once may write the older status last; the second bridge of "update and enable" sets the cursor as in finding 5; a calendar with every weekday blocked yields a
closed day after 3660 turns; a redemption may cover less than the discount already in the order's total; the close of a cart deletes the lines synced after the
order, although `orders.service.ts:2212` speaks of a cart that "still matches this order's items"; the check before the export adds
the HUF fees of a HUF order to lines in EUR (`flexi.service.ts:2084`); two fixed codes on products may take off more than there is,
and the document, which has no floor at 0, is then refused; under reverse charge a delivery fee that includes the tax keeps it
unless the packaging fee includes it too (`checkout-totals.ts:767`).

Also seen, and part of what a property says: a compensation adds a whole line on top of the figure it has just taken over from the ERP
("no inventing", `flexi.service.ts:2508`): of three pieces on the shelf, all ordered, with two in the ERP, it makes five; and it gives back once
more what a cancellation during the awaited export has given back (`Surplus` in `StockAddsUp`). A photo that a customer removes
between the ownership check of a submission and its commit is missing from the review that names it (`AttachedIsKept`). A removal that storage fails, an
upload that dies, a clean-up that was never enqueued or that takes the lock of a dead worker for a success leave files for ever (`OrphansGo`).

## 7. What is not modelled

- In the modelled components: the content of orders, fingerprints, ERP documents, messages and mails (but for amounts in `OrderPricing`);
  payment documents after an export; `syncOrderFromFlexi`; un-cancelling by `patch` and its conditions on the status it reads; the manual confirmation
  of a bank transfer except for the reward it credits; settings that switch a mail off; the retention of draft carts; reviews of
  single products.
- The daily capacity of the dispatch calendar: the check reads the number of orders outside the order's transaction, so two
  checkouts can take the last place; no comment promises otherwise and the count is a setting an administrator corrects.
- The reconciliation of ERP orders (`flexi-order-reconcile.service.ts`), which pages with an offset over rows it changes; the file
  import and the change journal, which is retired; catalogue, settings, media, invoices, carriers, accounts: rows one administrator
  edits or requests that are translated. `PROJECT.json` gives the reason of each.
- Prices: which rules, price lists and delivery methods match a request; orders in HUF, prices without tax and the tariffs of the UA
  shop; the validity and compatibility of codes; the friend's and the points' discount, which have no line in the ERP.
- Sign-in: one-time passwords are compared and deleted in two Redis calls (a listed hazard).
- Time: deadlines are events that may happen in any order the code's clocks allow, not numbers.

## 8. What is left

In this order:

1. Proofs: that the check before the export passes, for bounded quantities.
2. One-time passwords and stock notifications: short read-then-write protocols of two actors.
3. The daily capacity of dispatch days, with two checkouts.
