# Verification of the Aran Food Solutions platform

TLA+ models of the ordering platform in `src/`, TLC configurations that check
them on small instances, and TLAPS proofs of their safety for instances of
any size. The platform pools orders of grains, legumes, tubers and oils into
procurement cycles: a customer fills a cart, checks out while a cycle of the
product's category is open, pays through Paystack, and the administrator closes
the cycle, which aggregates what has been paid for.

- [The system](#the-system): components, state, interactions, what is hard
- [Modules](#modules): what stands for what
- [Runs](#runs): what each one shows, bounds, fairness
- [Where documentation and code disagree](#where-documentation-and-code-disagree)
- [Proofs](#proofs)
- [Limits](#limits) and [Plan](#plan)

To check: `tlc -config <run>.cfg <module>.tla` for a run, `tlapm <module>Proofs.tla`
for the theorems about a module (`PipelineRacesProofs` also needs those of
`OrderPipelineProofs`).

## The system

A FastAPI backend (`backend/app`) over one Postgres database, and a React
single-page frontend (`frontend/src`) that can also run without a backend, in
demo mode.

| Component | State | Operations | Talks to |
|---|---|---|---|
| orders | `orders`, `order_items`, `order_status_history` | checkout, cancel, transition | cart (deletes its lines), cycles (attaches lines), notifications |
| payments | `payments` | initialize, verify, webhook | Paystack over HTTP, orders (moves them on) |
| procurement cycles | `procurement_cycles`, `procurement_items` | create, update, open, close | orders (reads, moves to PROCUREMENT) |
| cart | `carts`, `cart_items` | add, update, remove | products (price, minimum, availability) |
| users and addresses | `users`, `addresses` | addresses, activate | checkout reads an address |
| products | `categories`, `products` | create, update, delete | cart, checkout, seed |
| notifications | `notifications`, in-memory tasks | notify, deliver, sweep | SMTP; called inside the transactions of the others |
| authentication | refresh cookie, access tokens | login, refresh, logout, me | every route |
| seed | one transaction at each boot | account, categories, products, open cycles | runs next to an older instance that serves |
| frontend session | access token, refresh promise, user | apiFetch, refresh, log in and out | authentication |
| frontend pages | what each page load shows and awaits | add to cart, place order, pay, leave | checkout, then payments, then the pay page |
| demo backend | the whole shop in one object | every route | replaces the backend |

Interaction is through the database and inside one request's transaction;
handlers of different requests interleave at every `await`. Sessions run at
READ COMMITTED with autoflush off and no version columns, so a handler may act
on a row it read before another request committed, and at commit writes only
the columns it changed, whatever they hold by then. Only a payment is read with a
row lock (`with_for_update`).

What is hard to test here:

- **stale reads**: order status is read, checked against `ALLOWED_TRANSITIONS`
  and written after further awaits, by four kinds of handler;
- **check then act** without lock or constraint: opening a cycle, the default
  address, a cart line for a product, the default open cycle of the seed;
- **repeated and overlapping deliveries**: webhook and verify for one payment,
  two checkouts of one cart, two payments of one order;
- **crashes and restarts**: a delivery task dies with its process after the
  e-mail went out or before it did; the sweep of the next process has to find it;
- **deploys**: old and new instance overlap, in the delivery of notifications
  and in the seed;
- **the order of answers** in a browser tab: several calls refused at once, a
  reload while requests are in flight;
- **one step of several failing**: a page places an order and then initializes its
  payment, Paystack knows a reference before the table does, and only a webhook,
  repeated until it is acknowledged, reports a capture;
- **rules written twice**: totals in the cart and in checkout, the whole backend in
  the demo.

`PROJECT.json` lists 40 such hazards, each with its line and the properties that
would catch it, or why none does.

For each component, correct means:

- *orders*: an order moves along `ALLOWED_TRANSITIONS`, its history tells the
  path, it is procured only if paid;
- *payments*: a payment is applied at most once, only when captured, and a
  settled payment stays settled; what is captured reaches its order;
- *pages*: a customer is not made to pay twice for an order, and no page stays
  disabled;
- *procurement*: one open cycle per category, a closed cycle stays as it was closed,
  it takes only orders wholly its own, and counts only paid ones;
- *cart and checkout*: a line that was ordered is gone, the order costs what the cart
  shows for its lines, and has an address of its customer;
- *notifications*: nothing rolled back is mailed, every e-mail is accounted for,
  a started delivery settles;
- *seed*: it can run at every boot, undoes nothing an administrator did to a
  cycle, and leaves a shop that can be ordered from;
- *session*: one refresh at a time, whose failure nobody sees, and every call
  ends;
- *demo*: the same rules as the backend.

## Modules

| Module | Stands for | Kind |
|---|---|---|
| `OrderLifecycle` | `models/order.py`, `transition_order`: what an order's life may be | abstract specification |
| `OrderPipeline` | orders, payments, procurement: all handlers, cut at their awaits | detailed |
| `PipelineRaces` | the same under observation: it records the races for an order or a cycle | implements `OrderLifecycle` and `CycleLifecycle` |
| `CycleLifecycle` | `models/procurement.py`, the rule of `open_cycle`: what cycles promise | abstract specification |
| `CustomerFlow` | the pages, the routes they call, Paystack and its webhook | composition, with liveness |
| `CartCheckout` | cart, addresses, the writes of checkout, product changes | detailed |
| `Notifications` | `notify`, the in-process queue, the sweep, the processes | detailed, with liveness |
| `Catalogue` | `start.sh`, `seed.py`, categories, products and cycles | detailed |
| `Session` | `client.ts`, `AuthContext`, the auth routes | detailed, with liveness |
| `DemoBackend` | `frontend/src/api/demo` | detailed; one step per route |
| `MC*` | | constants and symmetry of the instances |
| `OrderPipelineProofs`, `PipelineRacesProofs`, `CustomerFlowProofs`, `CartCheckoutProofs`, `NotificationsProofs`, `CatalogueProofs`, `SessionProofs`, `DemoBackendProofs` | | theorems about the module of that name |

### OrderPipeline

The tables are functions on ids (`orderStatus`, `orderCycles`, `history`,
`payOrder`, `payStatus`, `cycleStatus`, `snapshot`); `charged` is what Paystack
captured; `req[r]` is the local state of a handler, whose `pc` names the await
it is at. Each handler is a sequence of actions: `BeginCancel` reads and checks,
`CommitCancel` writes blindly; `LockPayment` waits for the row lock, `AskPaystack`
answers, `ReadOrder` reads without a lock, `ApplySuccess` or `ApplyFailure` commits;
`BeginClose`, `DeleteSnapshot`, `Aggregate`, `SelectOrders`, `CommitClose` are
the queries of `close_cycle` in their order. `Rollback(r)` may end any
handler anywhere: a refusal, a failure, a timeout, a lost connection.

`MockMode` is the blank key, with which `verify_transaction` answers "success" for
every reference and no money is captured. A closing whose DELETE waited for another's
may find nothing to delete (`DeleteNothing`), and one whose rows collide with rows
committed since fails (`RowsInsertable`).

Abstracted: a cycle has one product, so a snapshot is the set of orders it
counts; quantities, minimum orders, windows and addresses only decide whether a
checkout is refused. `Pinned` are the cycles some product is assigned to: a line
reaches such a cycle whatever else is open in its category. One run has such a
cycle, the others have none. Bounds: the ids of orders and payments.

### PipelineRaces

`OrderPipeline` with three history variables that no handler reads: `racedOrders`, the
orders that changed while another handler was about to write them from the status it
had read; `racedCycles`, the cycles that changed, or in whose category another was
opened, while a handler was at work on them; `late`, the orders that were confirmed
between the two queries of a closing. They turn "nothing goes wrong as long as requests
do not overlap", which the backend does not see to, into statements about every behaviour: what
is promised of an order or a cycle holds until such a race is recorded for it, so
these races are the only ways to lose it.

### CycleLifecycle and OrderLifecycle

`status` and `counted` are a cycle's column and the orders of its snapshot; `Open` and
`Close` are the two moves. `PipelineRaces` maps `cycleStatus`, `snapshot` and
`racedCycles` to them (`RacedCycleLife`), so that deleting and writing the snapshot and
the status, which `close_cycle` does in several queries and one commit, has to appear as
one move. A cycle in `raced` may be rewritten; `Open` of any other still demands that
no cycle of its category is open, raced ones included. In `OrderLifecycle` a raced order
may leave the edges of `ALLOWED_TRANSITIONS`, but it stays placed and never awaits
payment again.

### CustomerFlow

Composes what the other modules look at one by one: `page[v]` is what a page load
shows, `call[v]` the call it awaits and how far that has come (sent, at
Paystack, answered, failed). A page may be left while its call goes on
(`Leave`), and a call may be refused or lost before or after it was served (`Fail`):
the page cannot tell which. `AskPaystack` and `RecordPayment` are
`initialize_payment` around its call, `VerifyForWebhook` and `ApplyForWebhook` the
webhook's verification around its own, `AbortWebhook` one that is rolled back,
`AcknowledgeWebhook` the 200 that ends the repetition. `mock` chooses, once for all,
the mode without a key, where the page's own verify call applies the payment.
Checkout and cancellation are one step, since `CartCheckout` and
`OrderPipeline` cut them.

### CartCheckout

One customer, whose requests of every kind overlap with each other and with an
administrator who changes products. The session's behaviour is part of the code here: a
row is loaded once and read again from the identity map, a commit updates only the
attributes that differ from what was loaded, an UPDATE of a deleted row raises
`StaleDataError`, a DELETE of one does not. Totals are computed as the code
does, in two places: half-even rounding line by line and once more for the 2.5 %
fee. `LoadCart`, `CreateCart`, `RefreshCart`, `ReadProduct`, `ReadLineProduct`,
`WriteLine` and `PlaceOrder` are the awaits of the cart and of checkout; the lines that
`RefreshCart` loads have no product yet. `ClearDefaults` is the UPDATE of all addresses
that waits for the rows another request has written: it reaches the rows there were when
it began, less those deleted since.

### Notifications

`status` holds committed rows, `producer` the open transaction of a row that is not,
`task[p][n]` the delivery task in process `p`, `mails` what the SMTP host
accepted. `Start` is the lifespan hook with its sweep (`SweepLimit` rows), `Crash` the
end of a process and of its tasks, `Deliver` an attempt cut at its awaits. A send that
raises was refused (`HostRefuses`) or was accepted and its reply lost (`ReplyLost`); the task
cannot tell which and records FAILED in both cases. Two processes may run at once;
`overlapped` remembers whether they did. Bounds: starts and faults.

### Catalogue

`boot[b]` is the seed's transaction in an instance that boots: the groups whose
category it flushed, whose product is missing, which have no open cycle, and
the cycles it extends. A flush takes the unique values of the row before
it is visible. `request[r]` is an administrator's request to open, edit
or close a cycle; the other requests are one statement and a commit, hence one step.
A category that an administrator types gets its slug from `slugify`, which differs
from the slug the seed gives "Grains & Cereals". `Stop` ends an instance at any
point. No bound on boots: only ids are bounded.

### Session

A tab with its token in memory, the refresh promise, and its tasks (the effect of
`AuthProvider`, calls of pages, clicks on log in and log out); the server with the
account and the tokens it issued. `Serve` and `ServeRefresh` answer, `Answered`,
`AnsweredAgain`, `LoggedIn`, `LoggedOut` and `GotMe` are what runs in the tab
when an answer arrives, in any order. `SettleRefresh` settles the shared
promise and resumes all that await it, in one step, since microtasks run before
the next answer is looked at. `Expire` assumes that a token does not expire
together with the answer that brings it.

### DemoBackend

`handleDemoRequest` is synchronous, so a route is a step, and every route that
changes the state object is an action: accounts, addresses, cart, checkout,
payments, products, cycles, cancellation. Its rules are its own: the catalogue check
is made when a product is put in the cart, an order advances without a table of
transitions, closing leaves orders AGGREGATING.

## Runs

States are distinct states of the complete search.

| Run | Question | Instance | States |
|---|---|---|---|
| `pipeline_races` | What does no interleaving break, and what is left of the order's lifecycle and of the counting? | 2 + 2 requests, 1 order, 2 payments, 1 cycle | 623 k |
| `pipeline_cycles` | What is left of the cycles' lifecycle, and do split orders stay out of procurement? | 1 customer's and 2 administrators' requests, 1 order, 2 cycles, one of them assigned to a product, without a key | 824 k |
| `customer_flow` | Do charges and orders stay together when calls, pages and webhooks fail or repeat? | 2 visits, 2 orders, 2 payments, with and without a key | 108 k |
| `cart` | Do lines, totals and addresses survive a second tab and an administrator? | 2 requests of any kind, 1 product with 2 prices, 2 lines, 2 orders, 2 addresses | 1,868 k |
| `notifications` | What do crashes, retries and overlapping processes leave of a delivery? | 2 processes, 2 rows, 3 attempts, 3 starts, 1 fault | 195 k |
| `catalogue` | What do boots and an administrator do to each other? | old and new instance, 1 request, 1 starter group, 3 cycles, 2 products | 455 k |
| `session` | Do refreshes stay single and silent, and does every call end? | 1 effect, 1 call, 1 log in, 1 log out, 1 reload, 1 disturbance | 403 k |
| `demo` | Do the demo's own rules keep what the backend's keep? | 1 shopper, 1 order, 2 payments, 2 products, 3 cycles | 744 k |

What they show:

- **pipeline_races**: `AdvancedOrdersArePaid`, `EachPaymentAppliesOnce`,
  `TerminalPaymentsAreFinal` and `SnapshotCountsPaidOrders` with no proviso, and
  `SuccessfulPaymentsAreCharged` where there is a key to ask Paystack with. The
  row lock together with the status check after it carries the payments; that
  statuses never return to PENDING_PAYMENT carries the rest.
  `ImplementsLifecycle`: every step of the pipeline is a step of `OrderLifecycle` (place,
  confirm, procure, withdraw) or leaves it alone.
  `UnracedHistoryIsAllowedPath`: each history follows `ALLOWED_TRANSITIONS` until its
  order changed under another handler's decision. `ProcuredOrdersAreCounted`: what
  closing hands to procurement is in its snapshot, two closings of one cycle
  included, unless it was confirmed between the closing's two queries. The exceptions
  are needed: `pipeline_lost_update` shows the first, and a verification that commits
  between the queries the second.
- **pipeline_cycles**: `ImplementsCycleLifecycle` (one open cycle per category, a
  closed one for good, its snapshot fixed with its closing, but for cycles that requests
  competed for) and `ProcuredOrdersAreInClosedCycle` (an order with lines in two cycles
  is advanced by neither closing).
- **customer_flow**: `NoOrderIsChargedTwice`, although the backend initializes as many
  payments for an unpaid order as it is asked to: it is the pages that ask once.
  `ChargesHaveTheirPayment`: the customer learns of a reference after its row is
  committed. Under fairness, `ChargesReachTheirOrder` (a webhook that fails
  halfway comes again) and `PageSettles`. What the model also shows and no text
  forbids: an order whose initialization fails stays unpaid behind an empty cart, and
  no page offers to pay it, while templates.py:15-16 sends the customer to the order
  history to try again.
- **cart**: `OrderedLinesLeaveTheCart` (an edit that overlaps the checkout does not
  bring a line back), `OrdersCostWhatTheCartShows` (the two roundings agree on what
  checkout loaded, at a price changed since or not), `OrdersHaveAnAddress` (the foreign
  key decides when an address is deleted while a checkout is under way). Two additions of
  one product that overlap leave two lines for it, with which totals and checkout agree; two
  checkouts that overlap order the same lines twice; and with a third address, two
  requests that set a default together can leave two.
- **notifications**: `OnlyCommittedIsMailed` although tasks start before the commit;
  `MailedOncePerStart` also when processes overlap;
  `EveryMailIsAccountedFor` and `SentIsFinal` while they do not, where an e-mail that
  was accepted and whose reply was lost counts among those a fault kept from the record;
  `StartedDeliverySettles` under fairness.
- **catalogue**: `BootsKeepCycleStatus`: the seed extends the window of a cycle it read
  as open and that has been closed since, and does not reopen it, since it writes
  one column. `BootStocksTheShop`: after any sequence of edits and earlier boots, a
  boot nobody disturbs either fails or leaves each group with one open cycle in
  its window and its product once.
- **session**: `OneRefreshAtATime`, `RetriesCarryANewToken` (a call is not sent
  again with the token that was refused), `RefreshIsSilent`, `SessionSurvivesReload` (the
  page does not take a visitor for signed out before the refresh is back), and
  `EveryCallSettles` under fairness.
- **demo**: `AdvancedOrdersArePaid` and `AggregatedOrdersAreInClosedCycle`, whoever is
  deactivated, the administrator included, whatever is deleted, moved or cancelled on
  the way.

Each property has a faulty variant of a definition it depends on (`mutants` in
`PROJECT.json`), the kind of slip that code could have: a lost `status` check, a
missing lock, a total rounded once. With the variant TLC finds the property
violated under the same configuration, so the instance is large enough for the
property to be able to fail.

**Bounds.** Two requests of each kind are enough for every pair of handlers to
overlap; two payments for an order let one be applied after the other; two cycles
of a category are enough for a conflict, and for an order split between them; three
cycles in `Catalogue` let one be closed, one open and one be a draft; two visits of
`CustomerFlow` are two tabs, or a page and its reload (with three, searched once
without the liveness properties, 2.6 M states show no error). Crossing all of
these in one instance is out of reach, which is why the pipeline has two. `cart` gives
each of its two requests every role, so two checkouts, two edits or two changes of an address
overlap as well as one of each; its two lines are of one product, added by two
requests.
`CHECK_DEADLOCK FALSE` stands where ids or restarts run out.

**Symmetry** is used on interchangeable ids in runs of safety properties
only.

**Fairness.** `Notifications`: the event loop runs ready tasks and a send ends
(`aiosmtplib` has a timeout), and the platform restarts a stopped process: weak fairness
of `Deliver` and `Start`. Nothing is assumed of crashes, refusals or
transactions. `Session`: weak fairness of the effect, which React runs, and of
answers, since a fetch resolves or rejects; none of clicks, calls or
disturbances. `CustomerFlow`: weak fairness of a call being served or failing and of the
page's handler after it; Paystack delivers an event until it is acknowledged (weak
fairness of the delivery) and not every delivery fails (strong fairness of the commit,
since a delivery that is rolled back disables it); nothing of the customer or of
administrators. The other modules state safety only.

## Where documentation and code disagree

| Run | What the text says | What the code does |
|---|---|---|
| `pipeline_lost_update` | README.md:159-160: every transition is validated, "not just written blindly" | A cancellation that commits while a verification is between reading the order (`payments/service.py:58`) and its commit is overwritten: PENDING_PAYMENT, CANCELLED, PAID, CONFIRMED |
| `pipeline_two_openings` | seed.py:231: "At most one OPEN cycle per category is allowed (open_cycle enforces it)" | `open_cycle` looks for a conflict and commits later, without lock or constraint: two openings both find none, and from then on `scalar_one_or_none` raises in each checkout of the category |
| `notifications_lost` | queue.py:49-51: the sweep is why delivery is "still eventually-once rather than best-effort" | An attempt that failed leaves the row FAILED while it waits for its retry; if the process stops then, no sweep looks for it |
| `boot_refused` | start.sh:4-6: seeding is idempotent, so running it on every boot is safe | A second product with a seeded name in the seeded category makes the seed's `scalar_one_or_none` raise, and `set -e` ends the boot. A category typed as "Grains & Cereals" before the catalogue is seeded has the same effect, through the unique name |

Each of these runs checks the one property and ends with TLC's trace. In the demo
backend an order also goes through PAID and CONFIRMED once per payment when two are
initialized for it, and from CANCELLED to CONFIRMED when a payment initialized before is
verified: `backend.ts:414` looks at the payment's status only, the real endpoint at the
order's too. The comment there promises no more than that a replay of one reference
moves nothing.

## Proofs

Every safety property that a passing run checks, and each of the two refinements, is
also proved, for any values of the constants that meet the assumptions of the modules
(SMT, Zenon and PTL; some 6,600 obligations). The assumptions say that ids are not
the values that stand for "none", that bounds are numbers, that the tables which the
code has as constants have their types, and in `Catalogue` that the ids are finitely
many; TLC evaluates them in every run.

What a theorem shows beyond a run is that nothing hangs on two orders, two
requests or three starts: the bounds of the instances may be dropped.

| Module | Theorem | States |
|---|---|---|
| `OrderPipelineProofs` | `TypeCorrectness` | `TypeOK` |
| | `PaymentsAreIdempotent` | `TerminalPaymentsAreFinal` |
| | `OnlyPaidOrdersAdvance` | `AdvancedOrdersArePaid` |
| | `OnlyPaidOrdersAreCounted` | `SnapshotCountsPaidOrders` |
| | `OnlyChargedPaymentsSucceed` | `SuccessfulPaymentsAreCharged` |
| | `PaymentsApplyOnce` | `EachPaymentAppliesOnce` |
| `PipelineRacesProofs` | `OrdersImplementLifecycle` | `ImplementsLifecycle` |
| | `HistoryFollowsTransitions` | `UnracedHistoryIsAllowedPath` |
| | `CyclesImplementLifecycle` | `ImplementsCycleLifecycle` |
| | `OpenTwinsHaveRaced` | of two open cycles of a category one has been competed for |
| | `ClosedCyclesAreFinal` | a closed cycle is reopened or recounted only if it has |
| | `ProcurementFollowsClosing` | `ProcuredOrdersAreInClosedCycle` |
| | `ProcurementIsCounted` | `ProcuredOrdersAreCounted` |
| `CustomerFlowProofs` | `TypeCorrectness` | `TypeOK` |
| | `ChargesAreRecorded` | `ChargesHaveTheirPayment` |
| | `OrdersAreChargedOnce` | `NoOrderIsChargedTwice` |
| `CartCheckoutProofs` | `TypeCorrectness` | `TypeOK` |
| | `OrderedLinesStayOut` | `OrderedLinesLeaveTheCart` |
| | `TotalsAreShown` | `OrdersCostWhatTheCartShows` |
| | `AddressesAreKept` | `OrdersHaveAnAddress` |
| `NotificationsProofs` | `TypeCorrectness` | `TypeOK` |
| | `RollbacksAreNotMailed` | `OnlyCommittedIsMailed` |
| | `SentStaysSent` | `SentIsFinal` |
| | `MailsAreAccountedFor` | `EveryMailIsAccountedFor` |
| | `OneMailPerStart` | `MailedOncePerStart` |
| `CatalogueProofs` | `TypeCorrectness` | `TypeOK` |
| | `BootsKeepCycles` | `BootsKeepCycleStatus` |
| | `BootsStockTheShop` | `BootStocksTheShop` |
| `SessionProofs` | `TypeCorrectness` | `TypeOK` |
| | `RefreshesAreShared` | `OneRefreshAtATime` |
| | `RetriesAreNotVain` | `RetriesCarryANewToken` |
| | `ExpiryIsInvisible` | `RefreshIsSilent` |
| | `ReloadsKeepTheSession` | `SessionSurvivesReload` |
| `DemoBackendProofs` | `TypeCorrectness` | `TypeOK` |
| | `DemoOrdersArePaid` | `AdvancedOrdersArePaid` |
| | `DemoOrdersAreAggregated` | `AggregatedOrdersAreInClosedCycle` |

**No hypothesis about who runs when.** No theorem assumes that requests do not
overlap, since nothing in the backend sees to it. Where an overlap breaks what one
would like to state, the overlap is part of the statement: `PipelineRaces` records the orders
and cycles it happened to, and the theorem is about the others. A recorded order is
one whose status did change between a handler's read and its commit, so a record
without a cause cannot make a theorem true. The provisos that remain are in the
properties: `~overlapped` and the count of unrecorded e-mails in `Notifications`,
`~MockMode` in `SuccessfulPaymentsAreCharged`, nothing disturbed in `Session` and in
`BootStocksTheShop`.

**How an invariant is found.** None of the properties is inductive: a handler that
is about to commit acts on what it read earlier, so an invariant has to say, for each
await, which part of what a handler has read is still so. The
argument is the same in all components: the state is conjoined with what the suspended handlers know, and a
read is harmless if it is *monotone* (a payment that succeeded, an ordered line, a category,
a captured charge, all for good) or *exclusive* (a row lock, the only call with the right
to pay). The two findings about the pipeline are reads that are neither. Each strengthened invariant was searched by TLC on the run's instance
before it was
proved; `KnowledgeInv` also with two groups in the starter catalogue.

*OrderPipeline.* `BaseInv` adds `LockInv` to the types: a payment row has an order, a
locked payment is PENDING, a lock has one holder. That is the argument for
idempotence: a step that changes a payment's status is one of the holder of its lock, for
whom it is still PENDING. `PaidInv` adds what handlers know of orders: those a closing has
selected or counted, and those a cancellation is about to refund, have a successful payment
(`LocalsPaid`). `ChargedInv` adds that, with a key, an answer "success" is about a captured
charge, which no later step takes back. `ApplyInv` bounds the PAID entries of an order's history by
its successful payments: both grow in the same commit of the lock's holder.

*PipelineRaces.* The same argument three times: what a handler has read is still so,
or a race is recorded. `FreshInv`: the status from which a handler is about to write an
order allows the move; a step that changes the order meanwhile records it
(`FreshSuspended`). So the commit for an unrecorded order is a step of `OrderLifecycle`,
and `HistoryInv`, that the history is a path to the current status, is kept by it.
`CycleInv`: a handler of `open_cycle` or `close_cycle` finds its cycle, and the category
it looked through, as it read them, or the cycle is recorded; so each step is an `Open`, a
`Close` or a stutter. That the abstract cycles have one open cycle per category and final
closings is shown once, of `CycleLifecycle`, and carried over. `MovingInv` says the
orders a closing has selected are wholly of its cycle. `CountInv` is about several
closings of one cycle: each has counted all that is confirmed or procured, or leaves the rows
that count it alone; the lock on deleted rows and the unique constraint on inserted ones
keep a closing from replacing rows it has not counted.

*CustomerFlow.* `FlowInv`: the right to initialize a payment for an order is held by one
call at a time. The checkout that is answered with the order creates it, the page passes it
on to one initialize call, recording the payment uses it up; a failure or a page that is left
loses it.

*CartCheckout.* `BaseInv` says that every line a handler has loaded, or an order has taken,
has an id that is used up (`LocalOK`, `OrderedLinesAreUsed`), so that no insert brings
it back. `TotalsAreShown` rests on sums over sets:
that the fold is defined and a natural number is shown by induction on the size of the
set, as a minimal counterexample in `Nat` (`LeastElement`, from the library's well-founded
induction).

*Notifications.* `BaseInv`: a row that is not committed is visible to nobody but its
own tasks; with one process, an attempt's row is still open. `AccountInv` counts e-mails as
unrecorded ones, the SENT row and deliveries accepted and not yet recorded; `MailsInv`
bounds e-mails and live tasks together by starts and unrecorded ones.

*Catalogue.* `BaseInv` says how far a seed is: for each group it has read, the category
exists or is one it flushed; each row it will extend exists. `KnowledgeInv`: what an
undisturbed seed has read of products and cycles is still so. `CommitSeed` then turns
"missing" into "one" for each group, since the groups have different slugs and fresh ids
clash with nothing. `BootsKeepCycleStatus` holds
because the commit writes the windows of the cycles it read and nothing else of them, and
inserts cycles under ids of their own.

*Session.* `BaseInv` says who waits on which refresh and that tokens handed out later are
newer. `QuietInv` is for what a visitor sees while nothing fails and nobody logs in or out:
every refresh that was answered got a token if there is a cookie, and a call that is
sent again carries a token that has not expired.

*DemoBackend.* `advance` checks nothing, so the routes are grouped by what they write, and
one lemma (`KeepingStep`) covers all that keep statuses, payments and closed cycles.

**Model-checked only.** Liveness: `StartedDeliverySettles`, `EveryCallSettles`,
`ChargesReachTheirOrder`, `PageSettles`. The prover reasons neither about `ENABLED` nor
about fairness. The counterexamples of the four runs under "Where documentation and
code disagree" are TLC's. No module uses a `RECURSIVE` operator.

## Limits

Not modelled: the arq transport and Redis (off by default; its retries are the
library's), the audit log (nothing reads it), storage, rate limiting, logging,
analytics and listings (they change no state that a property reads), the stub
modules (501), request schemas, e-mail verification and password reset (one read and
one commit each), the size of the connection pool, and two tabs on one demo, which
overwrite each other's copy by design. Of the pages, those that send one call and show
its answer: lists, forms, and administration.

Stated of no property, since no text of the repository promises it: that a cart line is
ordered once (two checkouts that overlap order it twice), that a customer has exactly
one default address, that a row marked SENT stays so while two processes overlap, and
what becomes of a payment captured after its order was cancelled or its cycle closed, or
of an order whose checkout resolved a cycle that closes before it commits.

External, and modelled from how the code uses them: Paystack's page and capture, the
SMTP host, Postgres (READ COMMITTED, unique constraints, foreign keys, row
locks). SQLite, which the tests use, serializes writers and shows none of the races.

## Plan

1. `OrderLifecycle`, `OrderPipeline`, proofs of types, payments and paid orders: *done*.
2. `CartCheckout`, `Notifications`, `Catalogue`, `Session`, `DemoBackend`: *done*.
3. `CustomerFlow`, `CycleLifecycle` and its theorems, the demo's accounts: *done*.
4. Proofs of the safety properties of every run and of both refinements: *done*.
5. What overlapping requests can break, and that nothing else does, in place of
   hypotheses that they do not overlap (`PipelineRaces`): *done*.
6. Not proved, and why: see the end of [Proofs](#proofs). What could still be stated and
   proved: that the session's and the demo's rules agree with the backend's (a refinement
   of one specification by both).
