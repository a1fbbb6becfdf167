# WEZU backend: a TLA+ development

WEZU is a FastAPI backend for a network of battery-swapping stations. Customers rent,
reserve and swap batteries and pay from a wallet or through Razorpay; logistics
orders move batteries between warehouses and stations; batteries report telemetry.
This directory models the parts of it that keep money, batteries and messages
straight when requests, webhooks and worker processes interleave or fail, checks
them with TLC on small instances, and proves the central properties with TLAPS for
every instance.

Paths below are relative to the repository (`app/...` is `src/app/...`).

## 1. Inventory

| Component | State | Operations | What is hard | What makes it correct |
|---|---|---|---|---|
| Rental lifecycle, `app/services/rental_service.py` | `rentals`, `payment_transactions`, promo counter | initiate, order payment, confirm, return; extensions, pauses, waivers | count before lock, clean-up in its own transaction, gateway order outside the transaction | one live rental per battery, paid once, promo limit, lifecycle |
| Battery custody, `app/services/battery_consistency.py` | `batteries`: status and location | `apply_battery_transition` | everybody writes it | the battery's row agrees with the rental, order or shelf that holds it |
| Swaps, `app/services/swap_service.py`, `app/api/v1/swaps.py` | `swap_sessions` | suggest, initiate, complete | reads before the row lock, objects not refreshed | no battery handed out twice or for a closed rental |
| Rental routes, `app/api/v1/rentals.py`, `app/api/admin/rentals.py` | – | create, confirm, return, terminate | writes that skip the service's guards | the lifecycle |
| Wallet, `app/services/wallet_service.py` | `wallets`, `transactions`, `wallet_withdrawal_requests`, `refunds` | credit, debit, transfer, recharge, withdraw, refund | repeated and reordered webhooks, concurrent debits | never negative, the ledger adds up, every effect once |
| Razorpay webhooks, `app/services/razorpay_webhook_service.py`, `app/api/webhooks/razorpay.py` | processing markers in Redis | enqueue, process | at-least-once delivery, two endpoints | each event takes effect once |
| Event streams and workers, `app/services/event_stream_service.py`, `app/workers/event_stream_worker.py` | Redis stream, group, pending list, dead-letter stream, markers | publish, read, ack, retry, dead-letter | crashes and Redis failures between any two commands | applied at most once, never dropped, always settled |
| Booking, `app/services/booking_service.py`, `app/api/v1/bookings.py`, `app/api/v1/customer_reservations.py` | `battery_reservations`, wallet rows | reserve, pay, update, cancel, expire | no lock anywhere; the balance is written from an unlocked read | one live reservation per user and battery, paid once, final when finished |
| Notification outbox, `app/services/notification_outbox_service.py`, `app/services/notification_service.py` | `notifications`, outbox rows | send now or later, stage, claim, send, sweep, delete | sending inside the claiming transaction; answers that never come; several rows for one notification | sent at least once, again only after a loss; both tables agree |
| Order realtime outbox, `app/services/order_realtime_outbox_service.py` | outbox rows, a dispatch lock in Redis | enqueue, claim, publish | the lock is skipped when Redis is down and may expire | the same channel; no lock stops it for good |
| Background runtime, `app/services/background_runtime_service.py` | leader lock in Redis | start, renew, stop | the lock runs out while work goes on | one process runs the background work |
| Orders, `app/api/v1/orders.py` | `logistics_orders`, order batteries, drivers | create, assign, dispatch, deliver, fail, retry, cancel, return | the order row is read without a lock | batteries on the road belong to an active order; one order per driver |
| Warehouse, `app/api/v1/manifests.py`, `app/api/v1/warehouse_structure.py`, `app/services/maintenance_service.py`, `app/services/inventory_service.py`, `app/api/v1/batteries.py` | manifests, shelves, batteries | receive, process, shelve, service, transfer, set status | writers that check nothing beside writers that check | shelf rows and locations agree; manifests are complete |
| Idempotency keys, late fees, settlement, delivery orders, dealers, KYC, support, analytics, authentication | their tables | see section 6 | see section 6 | – |

How they interact: routes call services in one database session per request;
services share rows and rely on PostgreSQL row locks (`SELECT ... FOR UPDATE`) where
they take any. Webhooks, MQTT messages and deferred notifications are published to
Redis Streams and consumed by worker threads, which call the wallet, telematics and
notification services in sessions of their own. The wallet stages notifications in
the outbox within its transactions. One API process, elected by a lock in Redis,
drains the order events.

`PROJECT.json` lists the main hazards, each at its line, with the properties that cover
it or the reason why none does.

## 2. The modules

| Module | Models | State ↔ code |
|---|---|---|
| `RentalService` | the service layer of rentals and swaps | `rental`, `battery`, `order`, `promoUsed` are rows; `req` is what an `initiate_rental` in flight has read |
| `Lending` | abstract: what the service layer promises about batteries | the `claim` on a battery, its `place`, the rentals `opened` so far |
| `RentalApi` | extends it with the routes that bypass or precede the service's locks | `swap` is `swap_sessions`; `call` is what a request has read and not committed |
| `Wallet` | wallet service and webhook handlers | `txn` is the ledger, oldest first; `gateway` the events Razorpay keeps sending; `paid` the payment id on an intent; `looking` and `marking` the older endpoint between its commits; `call` an `initiate_refund` between check and insert |
| `EventStream` | Redis Streams as the code uses them | `stream`, `group`, `since`, `next`, `pel`, `dlq`, `marker`; `applied` counts commits per event; `faults` is the fault model chosen at the start |
| `WebhookWorker` | the one-by-one loop (webhooks; the notification worker has the same shape) | `pc`, `batch` per consumer |
| `EffectOnce` | abstract: what a deduplicated stream promises | `open` events, their `effects`, those put `aside`; `reliable` deduplication |
| `TelematicsWorker` | the batch loop | also `mine` (`message_data_map`), `successful`, `failed`; the markers fail open |
| `AtLeastOnce` | abstract: what an outbox promises | `accepted`, `sends`, `confirmed`, `abandoned` messages |
| `RealtimeOutbox` | leadership and the order outbox, composed: who runs decides who dispatches | `leaderLock`, `dispatchLock`, `role`, `row`; `batch`, `sent`, `failed` are a round's open transaction |
| `NotificationOutbox` | deferred and staged notifications and their dispatch by worker and sweep | `notif`, `row` (by notification and who inserted it), `queue` (stream events); `missing` is what a sweep has found to insert; `batch`, `out`, `draft`, `sent` are a dispatcher's open transaction |
| `BatteryStock` | the battery and shelf tables, the active-order check and `apply_battery_transition` as logistics calls it | `battery`, `shelfOf`, and the order tables it consults |
| `Orders` | logistics orders over `BatteryStock` | `order`, `items`, `source` (dispatch events), `driver`; `req` is what a handler has read |
| `Warehouse` | manifests, shelves, maintenance and the unchecked writers over `BatteryStock` | `manifest`; `repair` is a maintenance sweep between check and write |
| `Logistics` | composes `Orders` and `Warehouse`; the properties | – |
| `Booking` | both families of reservation routes | `booking`, `due`, `balance`, `ledger`, `payments`; `req` is what a call has read |
| `*Proofs` | theorems | – |
| `MC*` | TLC instances; `MCBooking` also a view | – |

**Granularity.** PostgreSQL runs at READ COMMITTED. A call that locks every row it
decides on before it reads it is one action: nothing can come between. A call that
reads first and locks or writes later is split at that point. `initiate_rental` has
three steps (clean-up, which commits; the unlocked count; the locked rest),
`initiate_refund` two, the older webhook endpoint three (the credit, the lookup of the
intent, the write of its status), and each route of `RentalApi` a reading and a
committing step. The committing step of a swap works on the rental as it was read: SQLAlchemy's
identity map returns the loaded object unrefreshed when `execute_swap` selects the
row again, so its status check sees the old status; only the columns that changed
are written. An order's handler is split into its unlocked reads, the unlocked
driver check and the commit; only `assign_driver` looks up the driver's other orders
and commits in one action (`CommitAssign`), because it has locked the driver's row
before (`orders.py:2354-2360`), and the handlers that give a driver an order or take one
away write that row too (`_set_driver_status`), so that they commit before the lookup
or after the write. The exceptions need a stale commit before them or repeat the
assignment of the same driver, and the properties about drivers do not tell them apart.
A booking call has one action per read and one per commit, and so has a sweep of
notifications: nothing in the table keeps two sweeps from adding the same row. A dispatcher's claim, each call of a provider or of the channel, and its
commit are separate, because a crash between them is what an outbox is about. The
workers' steps are single Redis commands and database transactions.

**Ghosts.** Where the code has no lock, the strong claim is false and a weak one says
nothing. Some modules therefore record the overlaps that really happened, and the
properties speak of the rest: what the checks are worth on rows no overlap has
touched. They do not say that the overlap is harmless, and the hazards in
`PROJECT.json` say where one is excused. No action reads a ghost.

| Ghost | Records |
|---|---|
| `stale` (`Orders`) | some commit acted on a copy of order or driver that was no longer current |
| `torn` (`BatteryStock`) | batteries that a writer without lock or check has changed |
| `overtaken`, `doubled`, `miscounted` (`Booking`) | bookings written over a newer status; bookings inserted beside one their checks could not see; users whose balance was written over a newer one |
| `expired` (`RealtimeOutbox`) | the leader lock ran out under a live leader |
| `lost` (both outboxes) | how many sends of a row left no record, because the answer never came or the transaction that made them was rolled back |
| `unguarded` (`TelematicsWorker`) | readings some consumer took without a marker because Redis did not answer |

`TransitCustody` and `TransitHasOrder` hold whatever is stale; `OneRuns`,
`ResentOnlyIfLost` and the booking properties say exactly how far the overlap reaches.

**What is abstracted.** Money amounts of rentals, opening hours, charge levels and
promo dates only add reasons to refuse, which `InitiateRefuse` covers. A payment
window is open or over, a booking due or not. Amounts in wallets are small integers
(paise). Audit rows and events are left out. Which battery stands charged in which
station is left open in `Booking`. Preferences, templates and channels of a
notification only decide between the outcomes that are modelled.
`calculate_swap_fee` returns 0.0, so the wallet branch of the swap routes is dead.

**Assumptions about the code's environment.** Status columns round-trip the literals
the services write, as `docs/FLOW_EMULATION_FINDINGS.md` and the tests take for
granted, although some enums spell their members differently. A commit that raises
kept nothing. The notes of a Razorpay payment name the rental or user of its order.
Redis markers do not expire while an event is in flight (24 h), and the stream is not
trimmed (`REDIS_STREAM_MAXLEN`) before it is read.

**Columns the models lack.** Two queries name columns that their model classes do not
map. `create_rental_payment_order` and `confirm_rental_verified` select
`PaymentTransaction` by `reference_type` and `reference_id`, which
`app/models/payment.py` has not, so at this commit both raise an AttributeError after
the gateway has made its order. `_dispatch_claimed_row` reads
`notification.app_scope` (`app/services/notification_outbox_service.py:189`), which
`app/models/notification.py` has not, so every delivery from the outbox fails and ends
in the dead letter. The constants `PaymentColumns` and `Columns` say which of these
columns are mapped; the theorems hold for every value. `rental_service` and
`notification_outbox` give them all columns and so check the logic behind; no route
calls the two payment functions, so `RentalApi` is independent of them and is run with
none.

## 3. Runs

| Run | Bounds | Distinct states | Shows |
|---|---|---|---|
| `rental_service` | 2 users, stations, batteries, rentals, orders, workers; limit 1; promo limit 1 | 1.4 M | custody of batteries in both directions, one payment per rental, promo limit, lifecycle; implements `Lending` |
| `rental_api` | 2 rentals × 2 batteries, 2 workers, all routes | 1.6 M | reservations stay exclusive although the routes break much else |
| `wallet` | 2 users, ledger of 3 rows, amounts 1 and 2, 1 payment, all webhooks | 673 k | non-negative, ledger tallies, withdrawals agree with holds, success is final |
| `webhook_worker` | 2 consumers, 2 events, batch 2, 1 retry, 3 publications; two fault models | 3.1 M | with crashes and failing acks and publications: applied once, nothing dropped; with failing markers and late exceptions too: what is lost is marked; implements `EffectOnce` under both |
| `webhook_live` | as before without failures, fair | 42 k | every event is settled |
| `telematics_worker` | 2 good and 1 malformed event; two fault models: crashes with failing acks and publications, crashes with failing markers | 3.8 M | unless taken while Redis did not answer: stored once, and what is lost is marked |
| `logistics_orders` | 2 batteries, 2 orders, 1 driver, 2 clerks | 265 k | custody on the road; reservations and the driver's one order while nothing is stale |
| `logistics_warehouse` | 1 battery, order, shelf, manifest; 2 drivers; all writers | 299 k | custody, shelves and manifests beside writers that check nothing |
| `realtime_outbox` | 2 rows, 2 processes, 2 attempts, 2 disturbances, fair | 631 k | one process runs; resent only after a loss; implements `AtLeastOnce`; always settled |
| `notification_outbox` | 1 notification with up to 3 rows, 2 dispatchers, 3 attempts, 2 crashes, rollbacks or lost answers | 953 k | resent only after a loss; published means sent; tables agree; implements `AtLeastOnce` |
| `booking` | 2 users, batteries, bookings, workers; payments of 1, balance at most 1 | 1.9 M | the balance is the ledger, exclusiveness, paid once, finished is final |
| `telematics_rollback` (violation) | as `telematics_worker`, no failure but of a write or commit | – | a failing message makes the worker acknowledge rolled-back messages and skip the retries of later ones |

Why the bounds are enough to be interesting: two workers and two rows are what a
race takes; two stations let a battery come back elsewhere than it left; two orders
let one supersede the other, or compete for one driver. Three ledger rows hold a
recharge, a hold and its reversal, or a credit, its refund and a debit. Three
publications give a duplicate next to another event, and retries lengthen the stream
beyond them. A balance of 0 or 1 with payments of 1 is all a lost update needs: two
payments of one unit read the same balance. One payment may fail and be captured later,
and both endpoints may hear of either. One notification is enough, since a batch treats
its rows one by one and no row's decision looks at another notification (the theorems
are about any number); three attempts
let a lost answer, a rollback and an end follow each other. Two disturbances let one lock expire
while another process fails; two attempts give a row a retry and an end. `MaxTxn`,
`MaxPublished`, `MaxBalance` and `Budget` only stop growth, and `Free` in `Booking`
(unused primary keys) keeps calls from starting when no row is left. The batteries of
`logistics_orders` are touched by orders only (`Serviced` and `Manifests` are empty)
and those of `logistics_warehouse` by everybody.
Deadlock is not checked: bounded tables and ledgers fill up, and an idle system stops.
Symmetry is used only in runs without liveness properties. The view of `booking`
identifies states that differ in ledger or payment rows of users and bookings a ghost
names; no action reads these and no property looks at them.

Type invariants are theorems and are not checked again, except where a wrong bound
would show in it: the attempts of an event, in `webhook_worker`. The same goes for
`NeverOverdrawn`.

**The disagreement.** `telematics_rollback` states `NothingDropped`, which a comment of
the worker promises (the quote is in `PROJECT.json`, `findings`) and `WebhookWorker`
keeps.

**What else the models show.** The following behaviour is in the models. No claim that
holds covers it, so it has no property.

- Two requests of one user are counted before either reserves: two live rentals with
  a limit of one (`InitiateCount`), against `tests/test_rental_invariants.py:15`.
- Only the user's own next request releases a stale reservation (`InitiateCleanup`).
- The confirm route makes a closed rental active again, and terminate overwrites a
  return that came after its check (`ConfirmRental`, `TerminateCommit`).
- A swap completes for a rental that was returned meanwhile, and a battery is deployed
  for nobody, against `tests/test_flow_emulation.py:11`; two completions of one swap
  session both pass the check (`SwapCompleteRead`, `SwapCompleteCommit`).
- The older webhook endpoint credits a capture again (`LegacyCapture`), and a late
  `refund.created` reopens a processed refund, which is credited again
  (`RefundEvent`), against `docs/EXPECTED_FLOWS.md:300`.
- When the canonical endpoint has heard `payment.failed` of a payment and the older one
  then hears its capture, the older one credits the wallet with a new row and also sets
  the failed intent to success (`LegacyMark`): the status column shows the amount twice,
  the balance counts it once. `LedgerTallies` sums what was credited, so such an intent
  (`marked`) is not counted; its later capture is taken for a repetition.
- Two refunds of one transaction can be requested at once (`InitiateRefundRead`).
- After a rejected withdrawal the successful rows alone do not add up to the
  balance; all debits and the successful credits do (`LedgerTallies`).
- A second return of one order can be created while the first is open, when both
  requests read before either commits (`BeginReturn`, `CommitReturn`).
- A provider that accepts a message and times out is taken to have refused it, and the
  message is sent again (`NotDelivered`, `Unanswered`); sweeps that overlap can add two
  rows for one notification, each of which is sent (`Enqueue`).
- A reading that `_acquire_once` lets through because Redis does not answer can be
  stored twice, or be rolled back with its batch, acknowledged and forgotten without a
  marker (`MarkMessage`, `PersistFails`).
- Nothing calls the sweep of scheduled notifications, so a notification whose stream
  event is lost stays queued (`Sweep` is an action nobody must take), although
  `docs/BACKEND_COMPARISON_AND_MERGE_PLAN.md:163` speaks of guaranteed delivery.
- A booking expires only when somebody looks at it (`Expire`), although
  `docs/EXPECTED_FLOWS.md:148` has a periodic job do it; and no booking changes the
  battery's row, although `:147` says that it does.
- `customer_reservations.py` compares a naive time with an aware one, so a user with
  an active reservation is always refused (`FindNoActive`).
- A deposed leader goes on with the background work it started (`Renew`).

### Fairness

`WebhookWorker!FairSpec`: weak fairness of reading and of handling for every consumer,
and of creating the group. A worker is a thread in a loop whose read blocks for at
most `*_BLOCK_MS`; without crashes it keeps running. Producers are not fair.

`RealtimeOutbox!FairSpec`: weak fairness of each process's round, the loop of
`websocket_service.py` that sleeps and tries again, and of the expiry of the dispatch
lock, which Redis does by itself. `EventuallySettled` is conditional: it asks nothing
unless from some time on Redis stays up and some process runs. Starting, crashing,
renewing and Redis itself are not fair.

## 4. Refinement

`AtLeastOnce` says what a transactional outbox promises: a message is confirmed only
after it was sent, it may be sent again before that, and never after it is confirmed
or given up. Both outboxes implement it (`ImplementsChannel`, checked by TLC and
proved). The mapping is the identity on `sends`; accepted are the rows that exist,
confirmed the published ones. In `NotificationOutbox` a row may be closed as published
without a send of its own, because another row of the notification was delivered; such
a row maps to an abandoned message, and `PublishedWasSent` says separately that the
notification did go out.

`Lending` is the desk that the service layer of rentals and swaps amounts to: a battery
stands in a station or is out; a rental claims one that stands there unclaimed, takes
it out, exchanges it for another unclaimed one, brings it back, or gives its claim up
while the battery still stands where it was. `RentalService` implements it
(`ImplementsLending`): the claim on a battery is the set of live rentals that name it,
its place the station of its row, opened are the rentals whose row was inserted.
Requests in flight, payments and promo codes map to nothing. The clean-up gives up
several claims in one step, as it commits once. The routes do not implement it, which
is why `RentalApi` has no such property (section 3, "What else the models show").

`EffectOnce` says what a deduplicated stream promises: an event takes effect only while
it is open, and while the deduplication is reliable it does so once at most, and is
closed only after it did or was put aside. `WebhookWorker` implements it
(`ImplementsPromise`). Open are the events with an entry that was not read or not
acknowledged, aside is the dead-letter stream, and reliable stands for `MarkersHold`.
Where the markers do not hold the promise is the weaker one, and it is kept under every
set of faults. `TelematicsWorker` cannot implement it (`telematics_rollback`).

## 5. Proofs

All theorems hold for every value of the constants that satisfies the `ASSUME`s: any
number of users, rows, processes and attempts.

- `RentalProofs`, for the service layer: `TypeCorrect`, `BatteryCustody`, `RowsAgree`,
  `NoneLost`, `ReservationsHaveRentals`, `PaidExactlyOnce`, `LifecycleKept`,
  `PromoSlotsHold`. The four custody properties are inductive together (`Custody`),
  over the type invariant and the fact that a request past its first step names a user,
  a battery and a station (`ReqNamed`), so that what it reserves is a battery.
  `HeldByOne` alone is not inductive: that a reserved or rentable battery is not also
  held needs `BatteryAgrees`, and the clean-up needs `HeldByOne` to know that the
  battery it frees is nobody else's. `PaidOnce` and `PromoWithinLimit` are inductive
  over the type invariant: the limit is checked and the counter written under one lock
  of the promo code's row. `RentalsAreLoans` is the refinement of `Lending`; beside
  `Custody` it needs `Stands`: a battery is out of its station exactly while it is
  deployed. For each operation a lemma (`ReserveMoves`, `ConfirmMoves`, `ReturnMoves`,
  `SwapMoves`, `CleanupInPlace`) names the one or two batteries it touches and what
  becomes of their rows and claims, and the step of the desk follows. With the routes: `ApiTypeCorrect`, `PendingIsExclusive`. The
  routes break custody, so the argument cannot use it. It rests on the count of live
  rentals under the battery's row lock, and on the fact that a swap changes the battery
  only of a rental that is past payment (`SwapsPastPayment`): no route leads back to
  `pending_payment`.
- `WalletProofs`, for any number of orders and payments: `WalletTypeCorrect`,
  `WalletNeverNegative`, `SuccessfulRowsAreFinal`, `WithdrawalsAgree`,
  `BalanceIsLedgerTotal`. The strengthening (`RefersToRows`) says that a withdrawal names
  its user and amount, and that refunds and refund calls in flight refer to rows of the
  ledger, so that what is credited through them is an amount, to a user. For
  withdrawals, `Story` names the one reversal of a rejected request where the property
  counts it, and is inductive with `RefersToRows`; every other operation appends or
  settles rows of other categories. `SuccessIsFinal` needs it too: an approval finds the
  hold of a requested withdrawal still pending, so it overwrites no successful row. `BalanceIsLedgerTotal` (`LedgerTallies`) is about a
  sum over a ledger of any length. `Adds` relates a sequence of rows to a total by a
  function of running totals; that there is only one, the one `LedgerTotal` computes, is
  shown by taking the least index where two would differ (`LeastElement`, from the
  well-foundedness of the naturals), as the library's induction theorems take an
  operator and cannot be used. `AddsAppend` and `AddsExchange` then say what
  appending a row and settling a row in place do to the total. The inductive invariant
  `Tallies` has, beside the sum, `Sides`: a recharge row is a credit and a hold a debit,
  so that settling one changes the total by what the operation moves, or not at all; the
  older endpoint's second commit changes it by nothing, as it moves nothing.
- `WebhookWorkerProofs`: `StreamTypeCorrect` and, as long as Redis answers the marker
  commands and no handler raises after its commit, `AppliedAtMostOnce`. The invariant
  `Claimed` says that the consumer working on an event is the only one, that the event
  is marked and not applied, and that an applied event is marked: the marker is a lock
  that is only released by its owner before the effect. `LeftBehindOnlyByItsMarker`
  holds without that condition. It needs `Tracked` (an id in a batch is pending, and in
  one place of one batch) and `Kept`, which asks for an entry that nobody is about to
  acknowledge where the property asks for one that is not acknowledged yet.
  `NoEventDropped` adds `Marked`: while the markers hold, a marker stands for a
  committed effect or for a pending entry that will not be taken for a duplicate.
  `StreamKeepsPromise` is the refinement of `EffectOnce`. It puts these together:
  `Claimed` gives the guard of an effect, `NothingDropped` of the state after an
  acknowledgement the guard of a close, and `AckOpens` and `PublishOpens` say which
  events a single command on the stream opens or closes.
- `TelematicsWorkerProofs`: `TelematicsTypeCorrect`, `ReadingsAppliedOnce`,
  `LeftBehindOnlyByItsMarker`. A consumer here holds several markers at once, so
  `Claimed` speaks of positions: an event stands at one position of one consumer's list
  of marked entries, is marked and not stored. `Tracked` says that an id a consumer has
  yet to decide on is pending, in one place, and in nobody's list of decided ids; the
  latter is what keeps an acknowledgement from removing an entry that is still worked
  on. `Kept` as above. `Claimed` and `Kept` speak of the events that are not in
  `unguarded`: taking an event without a marker leaves those of all others as they were
  (`Unguards`), and a release that fails only keeps a marker. So both theorems hold under
  every set of faults. `NothingDropped` has no theorem: it is what
  `telematics_rollback` shows violated.
- `LogisticsProofs`: `LogisticsTypeCorrect`, `TransitIsKept`, `NoneStrandedOnTheRoad`,
  `ShelvesAgree`, `ManifestsComplete`, `ReservedForOrders`, `DriversCommitted`. The
  type invariant is inductive with the fact that a request's argument fits its
  operation (`ArgsFit`). The three statements about batteries are one inductive
  invariant (`Custody`). Every step of a warehouse writer is `Guarded`: but for
  batteries it marks torn, it moves none of an active order, sends none on the road and
  keeps shelf and location together, which is all the custody proof needs to know of
  it. `ReservedForOrder` is inductive with the orders in transit included (`SetAside`):
  a failed order that is retried takes its batteries back, and they must not be on the
  road for another one. `DriverCommitted` is inductive, stated without the set of
  carried orders (`Exclusive`), with `AssignsActive`: `assign_driver` refused an order
  that was over when it read the row. `DriverAssumption`: the NULL of an order without
  a driver is no driver's id.
- `RealtimeOutboxProofs`: `OutboxTypeCorrect`, `OneProcessRuns`, `ResentOnlyAfterLoss`,
  `OutboxIsAtLeastOnce`. `LocksHold`: rows of open transactions are unsettled and
  disjoint. `LeaderHoldsLock`: a lock with a process's token belongs to a leader.
  `SendsRecorded`: a send that was not lost is on record, or its transaction is open;
  without it neither the bound on sends nor the refinement follows.
- `NotificationOutboxProofs`: `NotificationTypeCorrect`, `RedeliveredOnlyAfterLoss`,
  `NotificationsAtLeastOnce`, `PublishedRowsWereSent`, `TablesAgree`. `Sound` holds the
  row locks, that notifications without rows have none in any open transaction, and that a
  sweep that is about to insert has no row of its own yet;
  `SendsRecorded` as above, with a send whose answer never came counted as lost when it
  is made; `Evidence`: whatever says delivered, in the tables or in an
  open transaction, is right; `Paired`: where a notification has one row, what a
  transaction decides about the row is what it writes about the notification.
- `BookingProofs`: `BookingTypeCorrect`, `WalletsNeverOverdrawn`, `BalanceIsTheLedger`,
  `LiveBookingsExclusive`, `PaidBookingsKept`, `FinishedBookingsFinal`. `Sound`: what a
  call in flight has read is consistent with itself (an amount to pay is covered by the
  balance it read). `RivalsGone`: the bookings a call saw when it chose are over when
  it inserts, or a late write brought one back. `Unpaid`: rows that do not exist have
  no payments.

Model-checked only: liveness (`EventuallySettled`, in both modules that have it),
because this prover supports neither fairness nor ENABLED. Every other property of a
passing run is a theorem.

## 6. Not modelled

- *Idempotency keys* (`app/services/idempotency_service.py`): two overlapping requests
  both find no record and both run; the second record meets the unique index in a
  savepoint and is ignored. The key therefore removes no behaviour of overlapping
  requests, which `Orders` models without it.
- *Late fees*: no reachable state has one. `apply_late_fee` acts on active rentals,
  whose `end_time` is NULL, and inserts that value into a NOT NULL column;
  `pay_late_fee` has no caller.
- *Dealer settlement and commission*: no working path writes a dealer's commission, so
  settlements aggregate seeded rows. Its own races (two runs for one month, two
  payments of one settlement, two resolutions of a dispute) all pass unlocked checks.
- *`process_refund` of returns* (`app/api/v1/orders.py`): what the gateway does with a
  repeated refund, after a crash before the commit, is not in the repository.
- *Enhanced payment routes* (`app/api/v1/payments_enhanced.py`): `/verify` and `/refund` set
  the status of one of the caller's transactions to success or refunded, outside
  `WalletService`, and move no balance. What `Wallet` says of the status of rows does not
  cover rows these routes have touched.
- *Delivery orders and restocking* (`app/services/logistics_service.py`): overwrites of
  single rows of another table; the one write to a battery is the kind `UpdateStatus`
  models.
- *Extensions, pauses and waivers of rentals*: they write columns of one rental row
  that no modelled guard reads.
- *Authentication* is a matter of security; MQTT and other device integrations are I/O,
  with their one effect (publishing) in `EventStream`; dealers, KYC, support, content
  and analytics are single-row CRUD and reports. These, the seeds, the migrations and
  the audit scripts make up most of the repository's lines.

Within the modelled parts: expiry of markers and trimming of streams; the inline
processing of a webhook when Redis is down at enqueue time; row locks one by one, and
so the deadlocks PostgreSQL resolves by aborting a transaction (the abort is the
failure the actions have); the count of rows on a shelf by two transactions at once;
the scheduler in a process of its own; outside production, the SMS service's answer of
success for a message that it could not send.

## 7. Plan

1. `Booking` and `Wallet` over one wallet table, in place of `Transact`.
2. Extensions, pauses and waivers in `RentalService`; the inline webhook path.

## 8. Running

    tlc -workers 2 -config MCRentalService.cfg MCRentalService
    tlapm RentalProofs.tla

The largest runs (`webhook_worker`, `telematics_worker`, `realtime_outbox`, `booking`)
take two to four minutes with two workers.
