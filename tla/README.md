# Kintsugi, specified

Kintsugi is a marketplace for one-of-a-kind objects: an Express API over
PostgreSQL (READ COMMITTED, row locks, conditional updates), with Stripe for
money, Kafka for notifications, Redis for limits and caching, timers in every
replica, and a Next.js frontend. This directory holds TLA+ modules for the parts
of it in which several actors meet on one row, the TLC runs that check them on
small instances, and TLAPS proofs for any instance.

`PROJECT.json` lists every component with its status, the runs, for each
property a plausible bug that breaks it, the lines of the source each definition
models, every hazard by line, and the theorems.

## The system

| Part | State it keeps | Operations | What is hard |
| --- | --- | --- | --- |
| Reservations (`lib/reservations.ts`) | `reservations` rows; `quantity`, `status` of `listings` | reserve, release, reclaim, sweep | several requests and sweepers on one listing; a read before the lock |
| Listing edits (`routes/seller.ts`, `lib/moderation.ts`) | the same listing rows; photos | publish, unpublish, quantity, delete, remove, restore | read, decide, write without a lock |
| Orders (`lib/orders.ts`, `routes/orders.ts`) | `orders` and their items | checkout, claim, pay, cancel, settle, sweep, reconcile | a charge outside any transaction; four paths settle one order |
| Payment client (`lib/paymentProvider.ts`) | intents at the provider (the stub keeps its own) | create, confirm, poll, cancel, refund | answers that are lost, late or refused |
| Webhooks (`routes/webhooks.ts`) | none | payment, refund, account, identity events | at least once, any order |
| Refunds (`lib/refunds.ts`) | `refunds`, `orders.refundedCents` | claim headroom, send, settle | claim, row, call and record are four steps |
| Returns, sales (`lib/returns.ts`, `lib/sales.ts`) | `return_requests`, fulfilment of a line | open, approve, refuse, escalate, ship, deliver, give up | an approval is only real with its refund |
| Payouts (`lib/payouts.ts`, `lib/payoutProvider.ts`, `jobs.ts`) | `payouts`, `payout_items`, `payout_debts`; the account at the provider | claim, net, send, retry, reverse | a refund that arrives while a transfer is pending |
| Outbox, relay (`lib/outbox.ts`, `lib/relay.ts`) | `outbox_events` | write with the change, publish, mark, prune | publishing inside a transaction |
| Delivery (`worker.ts`, `lib/deliveryLedger.ts`, `lib/retry.ts`, sweepers, consumers) | `notification_deliveries`, topics, offsets | claim, send, settle, retry, defer, sweep | a consumer that dies between claim and settle |
| Channels (`lib/channelPolicy.ts`, `lib/quietHours.ts`, `lib/push.ts`) | preferences, subscriptions | decide, set, unsubscribe, subscribe, prune | writes row by row; devices that change hands |
| Sessions (`lib/refreshTokens.ts`, `lib/passwordReset.ts`) | refresh tokens, reset links | sign in, rotate, revoke, ask, reset | rotation racing revocation |
| Phone numbers (`lib/smsVerification.ts`) | codes, the number | ask, guess, prove, remove | a limit read before it is counted |
| Step-up (`lib/adminAuth.ts`, `lib/rateLimit.ts`) | the second factor, counters | set up, confirm, verify, revoke | a code spent twice; a store that is down |
| Seller verification (`lib/verification.ts`) | `kyc_attempts`, the payout gate | start, decide, cancel, close | late and repeated decisions |
| Placement, messaging (`lib/placement.ts`, `lib/messaging.ts`) | placement requests, threads, counters | request, counter, accept, activate, end, post, read | terms that change under an acceptance |
| Moderation (`lib/moderation.ts`, `routes/reports.ts`) | reports, audit trail, barred accounts and listings | file, resolve, bar, readmit | an action and its record are two statements |
| Reviews, cache (`lib/reviews.ts`, `lib/cache.ts`) | reviews; Redis keys | write, edit, take down; read through, refresh, drop | a stale value stored after its invalidation |
| Addresses, wishlist, cart, uploads (`lib/addresses.ts`, ..., two React contexts) | rows of one buyer; objects in storage; what a page shows | save, delete, choose; toggle; count; upload | overlapping requests of one person |

Components call each other in one process; what they share is the database. The
routes call the libraries, the libraries call each other after commit
(`markOrderPaid` then `notifySellersOfSale`, `approveReturn` then `issueRefund`,
a settled refund then `reverseForRefund`), and timers in every replica call them
again. Two facts make most of the difficulty: a transaction that reads before it
locks acts on what it read, and no transaction covers a call to a provider.

## How the modules are written

A handler is cut into steps at the points where another request may come
between: a transaction whose first statement takes the lock is one action, a
read followed by an unguarded write is two, and so is an UPDATE of many rows,
which changes the rows that were there when it began. What a request has read
and carries to its next statement is a record in a variable (`releasing`,
`worker`, `job`, `desk`, `clerk`, `handler`, ...), whose `task` names the
statement that comes next. Every such request may die at every statement.

Variables marked `history` change no behaviour. They note where the code does
something a reader of its comments would not expect, so that a property can say
exactly which exceptions it makes (see *What the code does that its words do
not*), and holds without any exception elsewhere.

A definition whose comment says "the mistake" (`EnoughByOne`, `KeyOfAttempt`,
...) is a plausible bug of the definition below it. No specification uses it.
Put in place of that definition it breaks the property `PROJECT.json` lists it
under, which shows that the code could break the property.

### Stock and orders

**`Tally`** is a sum over a set of rows, counted in tokens so that the proof
system can reason about it with cardinalities. It stands for `reduce` and `_sum`.

**`Reservations`** has `listing`, `hold`, the requests between their read and
their lock (`releasing`), the sweeper's batch (`sweeping`) and edits between
read and write (`editing`). `Reserve` and `Sweep` begin with `lockListing` and
are one action each; `releaseReservation` reads its row before the lock and is
two (`StartRelease`, `FinishRelease`), and so are the seller's and moderator's
edits. `supply` and `overtaken` are history: what a listing should add up to, and
the holds that were ended twice. Time is the flag `lapsed`.

**`PaymentProvider`** has no state: what an intent may become and what the
caller is told, for `confirmIntent`, `getIntent`, `cancelIntent` and the events.

**`Orders`** extends both. A worker is a request or one turn of a sweeper's
loop. `markOrderPaid` and `releaseOrder` are a read and a write each, because
their listing locks are taken after the status was read. `Crash` is a process
that dies, a transaction that times out or a call that throws. `events` is the
set of webhook events sent, so that one may arrive late, again, and in any
order. `aged` and `idle` are the two ages the sweeper tests. `Kinds` and
`EditKinds` select what happens in a run.

### Money back and money out

**`Refunds`** is one call of `issueRefund` per refund, with its job: the claim of
headroom (`Claim`, one conditional UPDATE), the row (`Record`), the provider
(`Send`), the settlement (`Settle`, `ReadSum`, `Mark`) or the roll-back
(`Refuse`, `GiveBack`). A webhook delivery is a job too and shares the last of
these. `SettleThrows` is a database error inside the `try`, which the code does
not tell from a refusal, and `Crash` one outside it. `returned` counts how often
a refund's headroom was given back.

**`Returns`** extends it: the fulfilment of a line, the return its buyer asks
for, and the refund either leads to. A `desk` is a request of seller, buyer or
moderator between its read and its write.

**`Payouts`** has the rows of `payouts`, `payout_items` and `payout_debts`, the
clerks that pay (a seller's request or the job), and the clawback each settled
refund starts. Of a refund it keeps the row's status, line and amount: staff may
refund any part of a line, and a line again, within the headroom of the order.
`Decides` is the provider under the payout's idempotency key. **`PayoutAccount`** is
the account the money goes to, with notices and refreshes that overwrite what the
profile says of it.

### Notifications

**`Topic`** is what is promised to those who read the main topic: what is on it was
written, and what was written comes to it, perhaps twice, in any order. **`Outbox`**
is the row written with the change it tells of, the relays that publish it and the
job that prunes it. A row is dated when its transaction begins (`BeginEvent`: the
default of `createdAt` is `CURRENT_TIMESTAMP`), relays see it when that has
committed (`WriteEvent`), and take the oldest by date. It implements `Topic`
(`Promise == INSTANCE Topic`, `KeepsPromise`). **`Delivery`** extends `Topic` and
relies on nothing else of the outbox: one channel's consumer group, its retry ladder
and offsets, the ledger, and the sweepers. **`Verification`** extends `Outbox`:
attempts at a provider that may refuse and later accept, handlers that act on what
they read, and the notices they write.

**`Devices`**, **`Preferences`** and **`QuietHours`** are whom, on which channel
and when. `QuietHours` is pure: `inQuietHours` and `quietHoursEndAt` against a
definition by clock arithmetic, at every minute of a shortened day.

### People

**`Sessions`** has one user's refresh tokens and reset links, with one cookie jar
for each browser. **`RateLimiter`** is one key of the shared counter store, and
**`StepUp`** extends it with an administrator's second factor. **`Phones`** is one
telephone number that several accounts want; **`Addresses`** one buyer's address
book; **`Threads`** one conversation with two unread counters; **`Moderation`**
reports, actions and the trail; **`Placement`** requests for one place, what each
side said in the thread (`Stated`: the dates only if there are both), and the
sweeper that starts and ends placements. **`Cache`** is the read-through cache by
the two keys that show a listing's reviews: the rating (`cachedMany`, no stale
window, no lock) and the page (`cached`), whose loader reads the reviews from
Postgres and the rating through its key. **`Reviews`** extends it with the writers
of a review, who drop both keys or none. What was read is told by the number of the
last commit in it. **`Uploads`** is a listing's photos and the seller's picture in
two stores, beside the statuses that holds, their ends and payments give the listing
(`Reserve`, `ClaimEnds`, `ClaimPaid`). **`Hearts`** and **`CartBadge`** are the two
pieces of the frontend that keep state of their own between pages.

### MC and proof modules

`MCReservations`, `MCOrders`, `MCRefunds` and `MCVerification` fix a seller,
prices and symmetry. `MCReturns`, `MCBackOffice`, `MCDelivery`, `MCSessions` and
`MCStorefront` check several components in one run. These share no state, so
that their product would show nothing that the components do not: `part` chooses
one at the start, and the others rest.

`OrdersProofs` (stock and orders), `RefundsProofs` (refunds and returns),
`VerificationProofs` (with the outbox), `SessionsProofs` (with the second factor),
`StorefrontProofs` (placement, reviews and their cache, uploads),
`BackOfficeProofs` (moderation, addresses, threads, phones, payouts and the
payout account, hearts, the badge of the cart), `DeliveryProofs` (deliveries,
browsers, settings and links, quiet hours) and `TallyProofs` (sums) hold the
theorems.

## What is checked

| Run | Configuration | Instance | Shows |
| --- | --- | --- | --- |
| `stock` | `MCReservationsStock` | 1 listing, 2 buyers, 2 holds, 1 release, 2 units, every edit, the sweeper on its timer | `OneLiveHold`; `NoStockLost`; `StockConserved`: units are made up only by a release that was overtaken; `ReservationsEnd`: every hold ends and a sold-out listing comes back |
| `order_stock` | `MCOrdersStock` | 2 buyers, 2 holds, 2 orders, 2 requests, 1 release | `OrdersInv`: the same books with orders in them; a hold becomes one order; a hidden listing has a claim on it |
| `settles` | `MCOrdersSettles` | 1 order, 2 requests, 1 sweeper, everything that can happen to an order | `PaymentsRight`: PAID only if charged, one payer at the provider, no charged order taken for a failed one, its sellers told once; `ChargeIsRecorded`: what a step may never do to a charged order; `EveryOrderSettles` |
| `charged` | `MCOrdersCharged` | 1 order, the sweeper, the browser | a counterexample to `ChargedNotReleased`, see below |
| `refunds` | `MCRefunds` | 1 order of 2 lines, 2 refunds, 2 webhook deliveries, deaths and errors at every statement | `HeadroomExact`: `refundedCents` is the claims not given back; `SentWithinTotal`: no more is sent than was paid |
| `refund_settles` | `MCRefundsSettles` | 1 line, 2 refunds, 1 delivery, fair | `PendingRefundSettles` |
| `returns` | `MCReturns` | 2 requests over 1 line with 2 refunds; 2 requests over 2 payout accounts; 2 uploads at once over photos and a claim, or over the picture | `ReturnsInv`: an approved return carries its refund, a returned line was delivered, a line is paid back once; `FulfilmentAdvances`: no step takes a line back; `PayoutAccountInv`; `UploadsInv`: no row names an object that is not there, a listing on sale has a photo but for a buyer's step after its last one went |
| `back_office` | `MCBackOffice` | 2 lines, 2 payouts, 2 refunds of any amount, 2 clerks; 2 requests over each of the other parts | `PayoutsInv`: a refunded line is taken back by one of its refunds and the books balance; `SettledAsDecided`; `PhonesInv`, `AddressesInv`, `ThreadsInv`, `ModerationInv`, `HeartsInv`, `BadgeInv` |
| `verification` | `MCVerification` | 1 attempt, 2 requests, 2 events, 2 relays | `VerificationInv`: the payout gate, the row and the provider agree, nothing is pruned that was not published; `ToldAsRecorded`; `PublishedInOrder`; `KeepsPromise`: the outbox implements `Topic`; `DecisionsArrive` |
| `delivery` | `MCDelivery` | 1 event, twice on the topic, 2 workers, 2 sweepers, 1 rung, 4 hours; 2 browsers; 2 kinds of message; a day of 8 minutes | `DeliveryInv`: one message for an event and one more for each outcome nobody knew, a failed one stays on the ladder, and whoever rests has decided it; `RestsOnlyWhenDecided`: when no step is left, they rest so; `DevicesInv`, `PreferencesInv`, `QuietHoursRight` |
| `sessions` | `MCSessions` | 1 browser, 2 requests, 3 tokens, 2 links, 4 rows; 2 requests, 2 secrets, 3 periods | `SessionsInv`: a session does not fork, a link is spent once, tabs that race do not end a session; `PasswordEndsAll`; `StepUpInv`: a code is accepted once, a confirmed authenticator works, the limit holds without its store |
| `storefront` | `MCStorefront` | 2 requests for 1 place, 2 desks, 1 sweeper, 4 instants; 2 readers and 1 write, or 1 reader and 2 writes, of a rating and a page | `PlacementInv`: one request is live for a place, and what is agreed was said by both, the period if it has both ends; `ReviewsInv`: one request refreshes a stale page, and a key lacks a commit only for a reason that has a name; `PlacementsRunOnTime`, `CacheCatchesUp` |

`charged` ends in a counterexample. The comment at `paymentProvider.ts:546` says
that releasing stock "is not enough on its own" and that cancelling at the
provider "closes that door before the stock reopens"; `releaseAbandonedOrders`
(`orders.ts:458`) releases without cancelling, and the browser can still confirm
the intent. The property fails in more ways, which appear when `Kinds` in the
cfg is changed: with `{"pay", "cancel"}` a cancel releases an order that was
claimed for payment after the route had read it, and with
`{"pay", "browser", "webhook"}` the late `payment_failed` of a first attempt
releases an order whose buyer has paid with a second. What the server's own paths
keep is part of `PaymentsRight`.

**Bounds.** Each part is bounded where one more would repeat what is there. One
listing: transactions lock their listings in one order and no invariant relates two.
Two units and two buyers: one buyer takes some, all or none of what the other left.
Two requests and a sweeper: a race of one against another while a third acts; no
counterexample met so far needed more. Two refunds of any part of a total of two:
claims that fit and claims that do not, in any order. Two lines of different price
and two payouts: a debt that fits and one that does not. `Bounded` in `MCBackOffice`
allows two payouts or two refunds beside one of the other, a refund of a line of one
or two, so that it is less than the line, as much or more, and of the order of one,
which takes nothing back; `Bounded` in `MCDelivery` bounds copies and failures
together, and in `MCReturns` deaths and crossings. `MaxRows` bounds tokens and links
together in `Sessions`. One claim on a listing is enough to move its status through
all it takes (`MaxClaims`). Photos and pictures have different keys and tasks, hence
a part of `MCReturns` for each; the reviews have a part in which one write meets
requests that overlap (`readers`) and one in which two writes meet a single request
(`writes`). The clock of placements goes on one instant after every end (`MaxTime`),
so that what outlives its period does so for good. `Verification` has one attempt,
because its product with two relays is large; what attempts do to each other (one
replaced, one overwritten) is part of what is proved for any number of them.
Identifiers are not reused, so that behaviours end where there are no more:
`CHECK_DEADLOCK FALSE` is for those ends. Symmetry is used only where a run checks
no liveness property.

For the properties proved below, the bounds do not matter: TLC shows that the
model does what it should and that the property can fail, the proof that it
fails for no instance.

**Fairness.** Only what a timer, the clock, a broker or a provider drives is
fair; no buyer, seller, moderator or browser is.

* `setInterval` calls the sweepers for ever, so the stock sweeper's query is
  weakly fair and what it does with each row strongly: an attempt may fail, but
  not all of infinitely many. The same holds of the order sweeper
  (`Abandon`, `Reconcile`) and of the statements it and webhooks share.
* The own steps of a request end, weakly, by a step or by its death.
* A relay runs again after each pass (`WF` of `RelayPass`); failures are bounded.
* A placement sweep is weakly fair, and may fail `MaxFailures` times.
* A provider decides what is pending, and delivers an event again until it is
  acknowledged (`refund_settles`, `verification`): what its documentation says and
  `routes/webhooks.ts` relies on. A delivery may die at any statement, but not
  every one of infinitely many, hence `SF`. Payment webhooks get no fairness:
  `EveryOrderSettles` holds without them, by reconciliation alone.
* A cache entry ages (`AgeRating`, `AgePage`), because Redis gives it a time to
  live: nothing else is needed for `CacheCatchesUp`, not even that a load ends.

Payouts, deliveries and returns have no liveness property. A payout that the
provider refuses stays FAILED, and its state space under fairness is beyond five
minutes; for deliveries `RestsOnlyWhenDecided` says the same without fairness, of
the states in which nothing can move; an approved return may stay without its
refund, as the next section says.

## What the code does that its words do not

Each of these was found as a counterexample to a plain property. The property
now names the exception, and the history variable in brackets marks where it
applies.

*Stock and orders.* A release that is overtaken by another release, or by the
sweeper, gives its units back twice (`overtaken`); the invariant then counts them.
`releaseOrder` and `markOrderPaid` overwrite what happened since their read, so
that a cancellation may overwrite PAID and two callers may both move an order
and tell its sellers (`resettled`). A listing whose `quantity` is 0 is marked
SOLD although units of unpaid orders may come back to it (`orders.ts:339`). A
listing that is RESERVED, has its quantity written by its seller and is then paid
for stays hidden with stock, which is why `OrdersInvAlways` supposes that
`"quantity"` is not in `EditKinds`. With two reconcilers and an intent that the
stub forgot, two requests may reach the provider (`strayed`).

*Refunds and returns.* A database error after the provider refunded gives the
headroom back, so that the same money may be sent again; two deliveries of one
failure give it back twice (`returned`); an order may be marked REFUNDED with
money left on it. A return whose approval died, or whose refund could not be
recorded, is APPROVED without a refund or goes back to where it was
(`stranded`, `unheard`), and two requests over one return or line may both go
through (`stale`, `crossed`).

*Payouts.* A line whose refund settles while a payout takes it is paid all the same
(`crossed`); two claims net the same debt (`twice`); a clawback that dies takes
nothing back, and one that throws after the fact is also written down as a debt
(`unheard`); nothing is owed for the lines of a payout that was all debt
(`forgiven`). A moderator may refund a line in parts (`routes/admin.ts:399`), and
`reverseForRefund` claims `reversedAt` for the first of them: that part is taken
back (`recalled`), and of no later one is there a reversal or a debt, although
`payouts.ts:645` wants no loss "with no record of who owes what". A FAILED payout is
never sent again, and the lines in it stay claimed. Two accounts may be created for
one seller, and an older notice or refresh may overwrite a newer standing, or clear
`connectOnboardedAt`.

*Notifications.* Two relays may publish one user's events out of order
(`overlapped`). So may a single one: `createdAt` is when the transaction began,
and a row that commits when a later one has been taken up comes after it (`late`),
although at `notifyTransport.ts:120` a person's notifications "cannot overtake
each other". A delivery is lost when its claim fails on a database error and
the offset is committed, or when its retry cannot be published (`dropped`); an
attempt whose outcome nobody knew may send a second message (`doubts`).
`createdAt` of a ledger row is never refreshed, so that two stale sweepers may
both take it.

*Seller verification.* An attempt that was closed or cancelled while the
provider decided stays so, and overwriting a verified attempt leaves
`payoutsEnabled` set (`crossed`, `closed`); a session verified after a refusal is
ignored (`retried`); a notice is lost when the process dies between decision and
notice (`untold`).

*Sessions, phones, step-up.* A link that two requests have open sets the password
twice (`shared`, `together`); a password change that dies half way leaves sessions and
links, and a token that is rotated between the change and its revocation is not
among those it revokes. Guesses pass the limit
by at most the requests under way; two codes asked for at once are both live
(`atOnce`). A set-up that overlaps a confirmation confirms a secret nobody has
proven (StepUp's `crossed`).

*Placement and reviews.* A counter that crosses an acceptance is what the row then
agrees to (Placement's `crossed`); two counters may both succeed although
`placement.ts:208` describes one; a period may be inverted by a counter and stays
AGREED for ever; a date without its other end stays in the row, where the sweeper
acts on it, while both sides have read "dates to be agreed" (`placement.ts:81`, and
`placement.ts:236`: "the message body carries the terms"); a sweep takes the oldest
fifty, so that old requests that cannot start may keep newer ones waiting; a LIVE
placement without `endsAt` never ends. `removeReview` drops no cached page, although
`cacheKeys.ts:64` says every path that writes does. A value loaded before a write is
stored after its invalidation, and a page that is loaded after its own drop may
still take an old rating from the other key, or one that a slower request stored
there (`escaped` has the commits a key lacks for such a reason). The ratings of
related listings on a page (`catalog.ts:392`) are dropped by nobody and only expire;
they are left out.

*People.* Overlapping requests may leave two default addresses or none (`muddled`),
in spite of `addresses.ts:12`. A badge is put to zero over a message that came
meanwhile, and a thread's page ends at five hundred messages (`missed`). An action
and its audit entry are two statements, and a seller's deletion is on no record
(`astray`); a report that two requests have open tells its reporter twice
(`contested`). Overlapping uploads pass the limit of photos or leave a published
listing without one, and an object whose row was not written stays in storage.
Without any overlap, "a published listing needs at least one photo"
(`seller.ts:461`) is tested for ACTIVE alone: the last photo of a listing that is
RESERVED or SOLD, or of a draft with a hold on it, may go, and the end of a hold or
of an unpaid order puts the listing on sale without one (`bare`). A lost answer
leaves a heart wrong, and the cart's badge is right only while the page's clock is
at most a second fast.


## What is proved

TLAPS checks every theorem for any values of the constants. What it assumes are
the named `ASSUME`s of the modules and nothing else: that rows, people and
prices are finitely many or natural numbers, and that what stands for `null` is
none of them. TLC evaluates each of them in the runs. Every proof has the same
shape: a property that a run checks is seldom inductive, so it is strengthened by
what a request, a sweeper or a relay carries between two statements; the
strengthening was checked by TLC first; then there is one lemma for each action,
and lemmas for what an action leaves alone.

**`TallyProofs`.** Sums over rows: a sum over disjoint sets splits
(`TallySplit`), a row moved from one set to another changes both by its amount.
They rest on cardinalities, because induction over data is not to be had.

**`OrdersProofs`, stock.** Stock is not conserved step by step in any form a
query shows, so the invariant keeps `supply`, what each listing should add up to,
and says that `quantity` and the live holds add up to it (`IInv`). A hold may be
ended by who read it before the lock, hence what the requests in flight hold is
part of it. From it follow `OneLiveHoldAlways`, `NoStockLostAlways`,
`StockConservedAlways`, `HiddenOnlyWhileHeldAlways`; `ExactWithoutReleases` says
more than the run: where no buyer gives a hold up by hand, the row lock alone
keeps the books exact.

**`OrdersProofs`, orders.** `PayInv` ties the row of an order, its intent and every
worker: who may still ask for the money, who was told what and has not yet
written it, who tells the sellers. Its core is `OneWay`: when an order is not
`strayed`, all that workers carry points to one outcome. It proves
`PaymentsRightAlways` and the action property `ChargeIsRecordedAlways`. `BookInv`
carries the books of `Reservations` through orders, where a hold becomes an order
and an order becomes a sale (`StockKeptByOrders`). `OrdersInvAlways` adds that a
hidden listing has a claim on it, under the hypothesis that no seller writes a
quantity while units are held, without which the code does not keep it.

**`RefundsProofs`.** Which job may still give a claim back, and that only what
was claimed is in a job (`OnlyClaimed`), makes `HeadroomExact` inductive.
`RefundedWithinTotalAlways` needs no exception; `SentWithinTotalAlways` follows
from both. For returns, above that invariant (`LineInv`): a desk that refunds
holds the approved return of its line alone; every refund of a line is over,
because it threw, its money did not leave or its end was not heard, or it is the
one the line names; a line that was given up is refunded once, and one that was
not delivered has no return. This gives `ReturnsAreRight`, the whole of
`ReturnsInv`, and the action property `FulfilmentAlwaysAdvances`.

**`VerificationProofs`.** For the outbox: a pass holds rows that are owed, two
passes hold different rows, and as long as passes did not overlap, whatever was
committed when a later row was taken up is on the topic before it (`OutboxIInv`).
This gives `PublishedInOrderAlways` and, action by action, that the outbox
implements `Topic` (`KeepsPromiseSafely`: initial states to initial states, each
step to a step or a stutter). For attempts: a handler carries only what the provider
had concluded, and a verdict that was concluded stays (`CheckIInv`), which gives
`VerificationRight` and `ToldAsRecordedAlways`.

**`SessionsProofs`.** A request to refresh carries a token that is live or was a
moment ago; what a password change doomed either is gone or has a request that
will end it (`DoomRight`). `SessionsAreRight` proves every part of `SessionsInv`,
`PasswordEndsAllAlways` the temporal formula `PasswordEndsAll`, an invariance.
For the second factor (`FactorInv`), unless two requests crossed, a request
carries the secret that is stored, and whatever was accepted of it lies in a
period that is spent; what the limiter lets through it has counted before. This
gives `StepUpIsRight`.

**`StorefrontProofs`.** For placement (`PlacesInv`), what each side said in the
thread is fixed by the status of the request, and who is about to agree has read the
offer if it still stands; what is said of terms is `Stated` of what was read:
`PlacementsAreRight`, and `OverIsOverAlways` for what may not change again. For
reviews (`PageInv`), who refreshes holds the lock, and every commit that a request's
value lacks is one it has missed since it read, or one the rating it took lacked, so
that a commit an entry lacks has a drop to come or an escape on record:
`ReviewsAreRight`. For uploads (`PicturesInv`), a key belongs to one request or to
one row; each request that adds found room, counted with the photos there are; and
while requests over the photos of a listing do not overlap, what one read still
stands, and the listing is on sale without a photo only if `bare`:
`UploadsAreRight`.

**`BackOfficeProofs`, payouts.** What a clerk read is still netted within what it
pays (`ClerksRight`), the provider's decision stands under the key
(`TransfersRight`), a line that was claimed back was claimed by one of its refunds,
which is the one the books count (`RecallsRight`), and the balance counts what
clawbacks owe that have taken their part and not returned it yet (`BooksRight`).
`PayoutsBalance` proves the whole of `PayoutsInv`, `PayoutsSettleAsDecided` the
action property `SettledAsDecided`. For the account they go to (`AccountIInv`):
while connections do not overlap, one hand at most creates an account or stores it,
and it found none; what the provider said last is on its way as a notice or was
written (`LastSaid`); and the day a hand read still stands unless two writes crossed
(`DayStands`). This gives `PayoutAccountIsRight`.

**`BackOfficeProofs`, the rest.** `ModerationIsRight`, `AddressesAreRight`,
`ThreadsAreRight` and `PhonesAreRight`: in each, what an actor read still stands
unless the history says that another came between. For telephone numbers the
guesses under way are counted with those counted already, so that the excess is
less than the number of requests. For
hearts, of a pair that is not in doubt one call at most is under way, and the
heart is what that call makes of it (`HeartsStayRight`). For the badge, the timer
runs for the first end of a hold that was counted, or an answer to come will say
another (`BadgeCatchesUp`).

**`DeliveryProofs`.** For an event, the messages the provider accepted, the
actors that may still make it accept one, and one more if its row is open to a
claim, come to at most one more than the attempts in doubt (`Counted`). A row that
failed for the moment is with a worker about to pass it on, or on a rung where
nobody has passed it, or among the dead letters, or its retry was lost in a way
that has a name (`Carried`); to have passed a message is to have its position
committed or to be a member beyond it. Of a row that is not there, nobody is
past the claim, and the event waits unpassed on the topic (`UndecidedInv`), so
that at rest, when every position is at its end, nothing is undecided.
`DeliveryIsRight` proves the whole of `DeliveryInv`. For browsers, the id of a
subscription is its endpoint's for good, so that a push that was prepared for one
account cannot find another under it (`DevicesAreRight`); for settings, what a
link has passed is off unless it was chosen meanwhile (`PreferencesAreRight`);
for quiet hours, a window of minutes modulo the day wraps once at most
(`QuietHoursAreRight`).

The proofs changed the models in places. A `\cup` of records became one record,
so that a field exists wherever it is read; `PhonesAssumption` says that the
callers are finitely many, as the bound on guesses is a number of them. A sweep of
placements carries the set it found, not a sequence; the second factor keeps its
history over a revocation. `LinePaidBackOnce` lost an exception: the proof showed
that no run needs it. A worker that lost its partition and got
it back may commit an old position and move the group back, and forward again over
a retry: no bound of a run reached that, the proof did, so that `Discarded` counts
a member that is past a message. A death after the provider accepted needs no
doubt of its own. `MaxHour` is at least 1, workers and sweepers are finitely many,
and `NoAccount` is no account.

### What TLC alone checks

*Liveness* (`ReservationsEnd`, `EveryOrderSettles`, `PendingRefundSettles`,
`DecisionsArrive`, `PlacementsRunOnTime`, `CacheCatchesUp`, and the fair part of
`KeepsPromise`): it needs `ENABLED`
and well-founded arguments over data, which the installed provers do not do.
*What a fold or a recursive function computes*, for the same reason: where a proof
needs a sum, it counts tokens (`Tally`) in place of it.
*`RestsOnlyWhenDecided`*, which asks when no step of `Work` is `ENABLED`: TLC
checks that such a state is the one that `AtRest` spells out, guard by guard; that
nothing is undecided in that one, `DecidedAtRest`, is proved. Every other safety
property that a run checks is stated by a theorem.

## What is not modelled

Expiry of access and refresh tokens (`refreshTokens.ts:84`) and of reset links,
e-mail verification, the proxy of the frontend (`backendProxy.ts`), its pages and
forms, catalog and statistics (queries that change nothing), transports (mail, push,
SMS, storage), seeds and scripts, the wiring of a process. Most of the lines of the
repository are of these kinds, which is why the models stand for part of the lines
only. Of the modelled parts, wording, layout, validation of input and paging are
data. Money is in the units the properties tell apart, and amounts are far from any
width that overflows.

## Plan

What is left of safety is proved. Next would come models of what is only listed
above as far as it changes state: e-mail verification and the reset of passwords
with their expiry, and the edits of a listing by several tabs of its seller at
once; and the liveness properties, once a prover for `ENABLED` is at hand.
