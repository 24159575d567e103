# dCMS, a TLA+ verification project

dCMS is a headless commerce platform: about twenty C#/.NET services and workers
that talk over RabbitMQ (MassTransit) and HTTP, each with its own PostgreSQL
database, a React back office, a React storefront and an Umbraco host.  Its own
logic is the life of an order (stock is reserved, a payment is taken, the order is
confirmed, fulfilled, returned, cancelled or refunded, by services that share
nothing but messages) and the pages from which people work on orders, products and
settings while others do the same.  The modules here model both, TLC checks them on
small instances, and TLAPS proves the most important results for every instance.

Paths below are relative to `src/src/backend/`, to
`src/src/backoffice/dcms-backoffice-spa/src/` (`estore/`, `orders/`, `approval/`,
`catalog/`) or to `src/src/storefront/dcms-storefront-spa/src/` (`lib/`, `pages/`).

1. [The system](#1-the-system)
2. [The modules and the code](#2-the-modules-and-the-code)
3. [What the runs check](#3-what-the-runs-check)
4. [What is proved](#4-what-is-proved)
5. [Where the code and its documentation disagree, and what else was seen](#5-where-the-code-and-its-documentation-disagree-and-what-else-was-seen)
6. [What is not modelled](#6-what-is-not-modelled)

## 1. The system

### 1.1 Components, their state, operations and correctness

| Component | State | Operations | What makes it correct |
|---|---|---|---|
| Inventory (`dCMS.Inventory.*`) | `VariantStock` rows with a `Revision`, `StockMovements`, `OutboxEvents` | reserve, release, adjust (compare-and-set, retried), set-on-hand; consumers of ReserveStock, ReleaseStock, ProductRestocked | no lost update, 0 <= reserved <= quantity, ledger and events follow the row |
| Order saga (`dCMS.Order.Infrastructure/Sagas`) | one `OrderSagaState` row per order | one transition per event; publishes the next command | confirmed means paid and reserved; late money goes back; nothing is stuck |
| Order row and read-model consumers (`dCMS.Order.*`) | `Orders.Status` | create, cancel, ship, deliver, the recount after a line's move; OrderPaymentSettled, OrderCancelled, OrderStatusProjection | the row follows the saga, and runs ahead of it only by what the store has done |
| Order lines, returns, shipment (`dCMS.Order.Api`, `dCMS.Order.Core`) | `OrderItems`, `Returns`, `Shipments`, the cached detail | move, PIN, confirm pickup, open/approve/reject/complete a return, ship, deliver, cancel, retry, resolve | lines follow the table; returned units add up; the order's status is what its lines stand for; the cache is not stale |
| Message endpoint (`dCMS.Infrastructure/Messaging`) | `ProcessedMessages` per service | lock, skip, handle, record; retry; in-memory outbox | a message takes effect once |
| Outbox relays and dead letters (Order, Inventory, Catalog) | `OutboxEvents`, `DeadLetterEvents` | append, poll, publish, mark, count, dead-letter, retry, discard | nothing committed is lost; poison rows do not block |
| Payment (`dCMS.Payment.*`) | `PaymentTransactions`, webhook deliveries | charge, refund, webhook | one charge; a refund only for money taken |
| Fulfilment (`dCMS.Fulfillment.Api`, `estore/EStoreApp.tsx` and its pages) | settings document, groupings, slots, locations, partners; the shell's copies and its autosave timer | CRUD, autosave | what the administrator sees and leaves is stored; defaults never overwrite it |
| Category tree (`SqlCatalogPersistence.cs`, `estore/pages/CategoriesPage.tsx`) | `Categories` (parent, depth, order); the page's copy and form | create, update, move, sort, delete | a tree stays a tree, its depths are right, the page shows its parents |
| Storefront (`lib/`, `pages/`) | localStorage (branch, carts), React state, the payment poll | pick a branch, browse, cart, check out, pay, sign in | a cart sells its own branch; nothing is ordered twice by accident |
| List pages (back office and storefront) | rows, filter, page, cursor, selection, dialog, busy flag | read, page, filter, bulk and single writes | no row is missed; own writes show; buttons come back |
| Editor pages (back office) | a draft of one stored item or setting | read, type, save in one or more requests | untouched fields survive; typed text stays; "saved" means stored |
| Multi-tender payments, vouchers, loyalty, promotions, imports, approvals, reports, notifications, provisioning, bulk jobs, identity, gateway, infrastructure | their own tables | mostly CRUD, projections, I/O | see section 6 |

### 1.2 How they interact

A customer's tab puts the branch (the tenant) and a fresh idempotency key on a request
that reaches `OrderService.CreateOrderAsync`, which checks stock over HTTP, stores order
and `OrderPlaced` outbox row in one transaction and asks the payment service for an
intent.  `OrderOutboxRelayHostedService` publishes the row; the saga starts and
publishes `ReserveStock`; inventory answers; the saga publishes `ProcessPayment`;
payment answers, and so may the gateway's webhook; the saga publishes
`OrderPaymentSettled`, and a consumer of the *same* service updates the row the
customer's payment page polls.  A cancel goes the other way: the API updates the row and
publishes `OrderCustomerCancellation` directly, not over the outbox.  Every consumer
endpoint wraps its handler as `DcmsMassTransitExtensions` says: in-memory outbox
outermost, then retry (1 s, 5 s, 30 s, then the error queue), then the idempotency
filter, whose table is shared by all endpoints of a service.

Once an order is confirmed, its lines are worked on from the order detail page and by
other clients of the same API; each handler reads, opens a READ COMMITTED transaction,
writes one row, recomputes the order's status from all lines, commits, and drops the
cached detail.  The other pages of the back office keep copies of what they have read and
call one service each; what relates them is that another administrator, or another tab,
writes the same rows.

### 1.3 What is hard

Messages that come twice, late, or in another order than they were sent; events from two
sources for one fact; eight writers of one order row, five consumers and three requests; two processes relaying the same
outbox; a crash between any two of {database commit, publish, record, acknowledge}; a
handler that commits line by line; a timeout that races the answer it waits for; bounded
retries under contention; int arithmetic that wraps.  In the order API: guards on values
read before the transaction, a recomputation that does not see the other transaction's
line, a cache filled from an old read.  In the pages: answers that arrive after the
branch, filter, page or tab they were asked for has gone; copies that are patched instead
of read again; a save that is several requests; reads that fail and leave defaults in a
form that can be saved.  `PROJECT.json` lists every hazard with its line.

## 2. The modules and the code

| Module | Models | Used by |
|---|---|---|
| `StockCounter` | abstract: a counter per row, each call applied at once or refused | refined by `StockService` |
| `StockService` | `StockService.cs`, `VariantStock.cs`, `SqlStockPersistence.cs` | `MCStockService`, `StockServiceProofs` |
| `OrderSaga` | the transition table of `OrderSaga.cs` as operators | `Checkout` |
| `Checkout` | one order across order, inventory and payment services | `MCCheckout`, `CheckoutProofs` |
| `OutboxRelay` | `SqlOutboxRelay.cs`, dead letters, the idempotency filter, several replicas | `MCOutboxRelay`, `OutboxRelayProofs` |
| `OrderDesk` | `OrderHttpRoutes.cs`, `OrderReturnRoutes.cs`, `OrderUnitOfWork.cs`, `OrderStatusDerivation.cs` and `OrderDetailPage.tsx`, one order | `MCOrderDesk`, `OrderDeskProofs` |
| `FulfillmentDesk` | `FulfillmentRoutes.cs`, `SqlFulfillmentPersistence.cs`, `EStoreApp.tsx` and the pages it mounts | `MCFulfillmentDesk`, `FulfillmentDeskProofs` |
| `CategoryTree` | `CategoryRoutes.cs`, `SqlCatalogPersistence.cs` and `CategoriesPage.tsx` | `MCCategoryTree`, `CategoryTreeProofs` |
| `Storefront` | one browser tab of the storefront, and another one | `MCStorefront`, `StorefrontProofs` |
| `ListScreens` | 27 list pages | `MCListScreens`, `BackOfficeProofs` |
| `Editors` | the pages that edit one item, by edited field | `MCEditors`, `BackOfficeProofs` |

**StockService.**  A call is one thread in `ExecuteWithRetryAsync` or
`SetOnHandQuantityAsync`.  Between `Read` (the SELECT, the domain operation on the
copy, an early refusal) and `Commit` (the UPDATE guarded by the revision, movement
and event in one transaction) any other call may run; `LoseRace` is the
compare-and-set that hits no row, and either retries or gives up with "conflict".
`InsertOnHand` and `OverwriteOnHand` are set-on-hand's two transactions, which have
no revision guard.  Arithmetic wraps at `MaxInt`, and PostgreSQL's CHECK
constraints decide last.  `attempt`, `began` and `writes` are per call: the loop
variable, and two history variables the properties need.

**OrderSaga, Checkout.**  `Moves` is the set of transitions [state, event, next
state, messages published]; an event without one is ignored, or makes MassTransit
throw, as the code has it.  `Checkout` keeps for the order: the row's status, the
outbox row, the API's cancel, the saga's state, the deliveries on the wire (one
copy per consuming endpoint), the processed ids per service, how often each line is
reserved, the payment transaction (`match`: whether it is of the order's amount and
method) and the gateway's view of the money.  The requests that write the row beside the
saga are steps too: `ShipOrder` (`OrderUnitOfWork.cs:541`) makes a shipment and writes
Shipped, `DeliverOrder` (line 632) writes Delivered, and `RecountLines` (line 297) what
the lines stand for after one of them was moved, if the row is past Confirmed, and that
includes Cancelled (`recounted` is then "revived").  They tell the saga nothing.  Each
consumer is an action; `Complete` is the end of every handler, with the two places
a process can die (before the id is recorded; after it, while the in-memory outbox
is sent).  Reservation and release go line by line, and a crash, or the retry after
an exception (`Restart`), starts the handler again from the first line.

**OutboxRelay.**  Rows of `OutboxEvents` with the columns that matter, one batch and
one position per replica, the consumer's queue, the lock, the processed ids, and
how often each row's handler ran.  A replica's loop is `Poll`, then for each row
`Drop` or `Publish`+`Mark`, or a failure (`PublishRefused`, `PublishFails`,
`MarkFails`) followed by `RecordFailure`; `Abandon` is the process that dies, or an
exception that leaves the loop, between any two of these.  The consumer's `Handle`
and `Record` are two steps, with `Die` in between.

**OrderDesk.**  `line`, `order`, `parcel` and `ret` hold committed rows; a request
(`call[c]`) carries its place in the handler, what it has read, and the row it has
written but not committed.  `CheckX` is a handler's part before the transaction, `WriteX`
the guarded UPDATE, which waits while another request has the row's lock (`InTransaction`)
and then looks at the committed row again; `ReadStatus` and `ReadLines` are the
recomputation, `Commit` the commit, `Forget` the drop of the cached detail, `GetCached`,
`GetRows` and `GetFill` the read side of the cache.  The page is the detail it shows, its
open menus and dialogs, and the busy flag; `Click` sends what its handlers send, and
`After` is what each answer does.  Other clients send any of the API's operations.

**FulfillmentDesk.**  `app` is the state of the shell (what it has loaded, the page and
form that are open, the draft, the armed timer with the document its closure holds), `svc`
the service's rows, `calls` the requests with what they carry.  `Become` is a React
re-render: it decides whether the timer is armed again.  `PutSettings` is the timer;
`Served` what the service does; `Answered` what the shell does with the answer.

**CategoryTree.**  `rows` is the table, `page` the page's own tree and its form, `calls`
the requests.  A move is `ReadParent`, `ReadNode`, `WriteMove` and `CommitMove`, the other
operations one or two steps (`SortRows` changes no parent, and the order of siblings is
not kept); the descendants' depths are those of the statement's
snapshot.  `Answer` repeats each call on the page's copy, as the page does, and `Shown` is
`buildTree`.

**Storefront.**  `local` is localStorage, shared with another tab; `tab` the React state
(bootstrap, session, page, cart shown, product with its selected variant, the requests for
products under way and whether their answers are still wanted); `subs` the submitted
orders, each from click to answer; `pay` the payment poll.  `Mount` is the routing, with
the sign-in redirect and the error that empties the application when a page asks for a
branch that is not there; `InScope` what a change of branch triggers; `Reload` a full
load, after which answers reach nobody.  A cart is a set of units, so that a unit that is
ordered and still in a cart can be told apart from another of the same kind.

**ListScreens, Editors.**  The pages of these two groups are built from the same few
decisions, and differ in which they take.  So the state machine is written once, and a
page is a record of its decisions, each mapped to the lines where the page takes it:
`ListScreens!Screens` has 27 such records (does a filter read again, is an older answer
dropped, is the page veiled while it reads, does a failed read empty it, how does it
page, does it list from the search index; what a write consists of, when its dialog
closes, what is read again afterwards),
`Editors` has one for each page and each field the user can edit (what is copied from the
list row, what the read fills in, what a save sends and needs, what is reachable when, of
which requests a save consists, what follows it).  The initial predicate chooses the page,
so a run goes through all of them.  A list is a set of items, in the order of their ids:
`AfterCursor` and `AtOffset` are what is left of it for the next page of a read, which
`ServeList` serves one page at a time.  The product lists read Elasticsearch, which the
outbox relay and the catalog worker fill, behind a Redis cache of 30 s
(`RedisCachingProductSearchQuery.cs:20`) and a browser cache of 30 s
(`ProductRoutes.cs:118`): for a screen with `index`, a row that is closed joins `late`
until `CatchUp`, and any answer may have any rows of `late` as they were (`Behind`).  A save
of `Editors` takes its requests one by one; `StoredBy` is what each of them stores, and
`LeaveOut` the request the page does not make, without a word: the visibility of a draft
(`EditProductPage.tsx:1058`) and a quantity that is not a number (line 416).  `ListScreens` gives its
variables and its specification names of their own (`reqs`, `past`, `ListSpec`), so that
one module can extend both.

### External parts, modelled from their use

* RabbitMQ delivers every published message to each bound queue at least once, in
  any order, and keeps it until it is acknowledged.
* MassTransit discards an event whose saga does not exist unless it starts one; an
  event the saga's state does not handle throws and ends in the error queue; saga
  rows are locked; the endpoint's filters run around the saga too.
* PostgreSQL: a statement sequence inside one transaction is one step when it locks
  its row first; READ COMMITTED otherwise, statement by statement; two transactions
  are two steps.
* The gateway takes or declines a payment once per intent, and may report it.
* React runs a handler or an effect to its next `await` without interruption; an effect's
  cleanup runs before the effect runs again and when the component is removed.

## 3. What the runs check

### 3.1 Passing runs

| Run | Instance | Shows |
|---|---|---|
| `stock_mixed` | 1 row, 3 calls, `MaxInt` 3, 1 retry; 171 166 states | `TypeOK`, `CasNeverTripsCheck`, `WrittenOnceIffOk`, `ConflictMeansContention`, `DriftOnlyFromClampOrStaleSet`, `EventsDescribeTheRow`, the refinement `RefinesCounter`, `EveryCallAnswered` |
| `checkout_faults` | 2 lines, decline, cancel, fulfilment, 1 failure or the desk's requests; 838 435 states | `TypeOK`, `ConfirmedIsPaidAndHeld`, `RefundOnlyLate`, `RowAheadOnlyByDesk` |
| `checkout_live` | 2 lines, timeouts, cancel, no failure; 33 181 states | `LateCaptureIsRefunded`, `EveryOrderLeavesCheckout`, `StockIsSoldOrReleased` |
| `outbox_delivery` | 3 events, 2 rows, 2 replicas, batch 1, 2 attempts, 3 failures; 167 337 states | `TypeOK`, `NothingLost`, `HandledOncePerRow`, `GivenUpAtMostOncePerReplica`, `EveryRowIsSettled` |
| `order_lines` | 2 lines, 2 calls, 4 starting stages, 1 failure; 754 668 states | `LinesFollowTable`, `UnitsAgree`, `StatusFollowsLines`, `CacheOnlyStaleByRace`, `BusyHasACause` |
| `fulfilment_area` | 2 groupings, 2 slots, 1 item, 2 calls, 1 edit, 1 other writer; 818 452 states | `SettledMeansStored`, `FailedLoadNeverWrites`, `CopiesSettle`, `ChangesAreStored` |
| `storefront_tab` | 2 branches, 2 units, 1 order, 1 poll, 1 change of branch; 147 940 states | `CartSellsOwnBranch`, `AnsweredUnitsStayOut` |
| `category_moves` | 3 categories (1 new), 2 calls, 1 other writer, 1 edit; 1 042 364 states | `CycleNeedsCrossedMoves`, `DepthFollowsParent`, `CopyHasTheShape` |
| `list_pages` | 2 rows, 2 actions, 1 other writer, 2 failed reads; 393 319 states | `ReadsMissNothing`, `OwnWritesShow`, `BusyEnds` |
| `editor_pages` | 2 edits, 2 saves, 1 failure, 1 other writer; 1 227 023 states | `RestSurvives`, `TypedIsKept`, `SavedIsStored` |

Every property of these runs has a mutant in `PROJECT.json`: a plausible bug in one
mapped definition, named in the module next to what it changes, that makes TLC find
the property violated.  Where a property names an excuse (a history variable, a set of
pages), the excuse is what the code really does and no wider; the excuses are listed in
section 5, since each is something a reader of the code should know.

### 3.2 Bounds, and why they are enough

* **Stock.**  A lost update needs two calls; a retry that reads twice needs a third.
  `MaxRetries` = 1 instead of 3 keeps "gives up" within reach of three calls.
  `MaxInt` = 3 makes the addition wrap with small numbers.
* **Checkout.**  Two lines are the least with something between them.  One failure
  puts one crash or exception at every possible place.  The messages of an order are
  finitely many, so nothing else is bounded.  `checkout_faults` takes the customer's
  cancel for what takes an order away while its payment is under way, and leaves the two
  timeouts, which do the same to the saga, to `checkout_live` and to the theorems, which
  cover all of them together with any number of failures.  The desk's requests (`DeskOps`)
  may come at any moment and any number of times, but in this run (`DeskAlone`) only where
  nothing fails and the payment can go through; the theorems have no such condition.  There
  is one cancellation (`Cancels`): a second one is answered AlreadyCancelled, unless a recount
  has rewritten the row, which only the theorems cover.  `Matches` says which transactions
  an order may have; one of another method, which is not charged but can be
  refunded, is left to the theorems.  The rows of failed orders (PaymentFailed and its
  like) are written by nobody in the repository but the operations of `OrderDesk`, so retry
  and resolve cannot meet an order in checkout.
* **Outbox.**  Two replicas race; a batch of 1 makes one bad row fill the poll; with
  two rows there is one behind it, and an administrator's retry has a place; three
  failures are enough to give up a row that was delivered and to kill a process
  besides.  `MaxRetries` = 2 stands for 5.
* **OrderDesk.**  Two lines, so that two transactions can write different rows and
  recompute the same status; two requests under way at a time, two started in all besides
  the page's own reads; two returns that together ask for more than was bought; four
  starting stages (ready for pickup, delivered with two pending returns, in preparation,
  payment failed) put every operation within the reach of two requests.  One failure.
* **FulfillmentDesk.**  One change of the settings and two calls, one write of another
  administrator, of one of the three kinds (`Work`); two groupings and two slots, one of
  each there at first.
* **CategoryTree.**  Three categories, one of them new; two calls, one of which may be
  another administrator's, is what a crossing needs; a third level for the depths of
  descendants.  One edit of the form.
* **Storefront.**  Two branches, one of them the default, and a stored branch that is no
  longer listed; two units, one order, one change of branch (the bootstrap's own apart).
* **ListScreens.**  Two rows make two pages of one row; two user actions, one row closed
  by another administrator, two failed reads.  How long an index or a cache stays behind
  is not bounded.
* **Editors.**  Two edits and two saves, so that a save can be overtaken by typing and by
  another save; one failure, one edit of another administrator.

Symmetry is used in `order_lines` (requests) and `category_moves` (the categories that
exist at first), where no liveness is checked and the permuted values are used alike.
The theorems of section 4 need none of these bounds.

### 3.3 Fairness

* `StockService`: weak fairness of each call's step: threads are scheduled and the
  database answers.  There is no lock to wait for.
* `Checkout`: weak fairness of delivery, of the relay, of the publish after a
  cancel, and of the webhook's handling, each only for steps that do not fail:
  RabbitMQ redelivers while it holds a message, and hosted services loop until the
  process stops.  Nothing is assumed of customers, timeouts or the gateway's page.
* `OutboxRelay`: weak fairness of each replica's loop (it polls every 500 ms or 1 s)
  and of consumption; nothing of writers, administrators or failures.
* `FulfillmentDesk`: weak fairness of the calls under way, of the first load and of the
  timer: a request is answered or fails, and a timer fires.
* `ListScreens`: weak fairness of the service's answers and of the page's handling of
  them; nothing of the user, and nothing of the index.

Deadlock is checked only in `storefront_tab`, where a customer can always turn to another
page; elsewhere a finished order, answered calls, an empty outbox or a page whose bounds
are used up really do stop.

## 4. What is proved

TLAPS checks these for every value of the constants the modules' assumptions allow.

| Module | Theorem | Property |
|---|---|---|
| `StockServiceProofs` | `TypeCorrect`, `CasNeverFailsInDb`, `AppliedOnce`, `ConflictsAreReal` | the safety invariants of `stock_mixed` |
| | `LedgerFollowsStock`, `EventsFollowStock` | its two action properties |
| | `Refinement` | `Spec => RefinesCounter` |
| `CheckoutProofs` | `HeldIsBounded` | `TypeOK` |
| | `SoldIsPaidAndHeld`, `RowFollowsSaga`, `OnlyLatePaymentsRefunded` | the safety invariants of the checkout runs |
| `OutboxRelayProofs` | `ClosedRowsAreNotLost`, `StableRowsAreHandledOnce`, `RowsAreGivenUpOncePerReplica` | `NothingLost`, `HandledOncePerRow`, `GivenUpAtMostOncePerReplica` |
| | `PublishesAreBounded` | `TypeOK`, with the bound on the publishes of a row |
| `OrderDeskProofs` | `StatusIsDerived`, `LinesMoveAlongTable`, `CacheIsCurrent`, `PageIsFreed` | `StatusFollowsLines`, `LinesFollowTable`, `CacheOnlyStaleByRace`, `BusyHasACause` |
| | `UnitsAreAccounted` | `UnitsAgree` |
| | `UnitsAreBounded`, `LinesAreLocked` | returned units stay within what was bought; no two requests hold one row's lock |
| `FulfillmentDeskProofs` | `SettingsAreStored`, `LoadFailsSafely`, `CopiesAreCurrent` | `SettledMeansStored`, `FailedLoadNeverWrites`, `CopiesSettle` |
| `CategoryTreeProofs` | `CyclesNeedCrossing`, `DepthsAreRight`, `CopyStaysRight` | `CycleNeedsCrossedMoves`, `DepthFollowsParent`, `CopyHasTheShape` |
| | `IdsAreKnown` | types, and that only ids that exist are mentioned |
| `StorefrontProofs` | `OwnBranchIsSold`, `OrderedUnitsStayOut` | `CartSellsOwnBranch`, `AnsweredUnitsStayOut` |
| `BackOfficeProofs` | `RestOfItemSurvives`, `WhatIsTypedIsKept`, `WhatIsSavedIsStored` | `RestSurvives`, `TypedIsKept`, `SavedIsStored` |
| | `ReadsAreComplete`, `OwnWritesAreShown` | `ReadsMissNothing`, `OwnWritesShow` |

**Stock.**  `IInv` adds to the types: rows keep reserved <= quantity (`RowsInv`); the
copy a call holds is not newer than the row, and equal to it if the revisions are
(`SnapInv`), which is what the compare-and-set relies on; a call that has lost n
races has seen the row change n times since it began (`RaceInv`); and answers and
committed transactions agree (`AnswerInv`).  A commit whose revision matches then
acts on the row itself, so the domain guard implies the CHECK constraints, and the
step maps to one step of the counter.

**Checkout.**  No property is inductive, because what makes it true travels in
messages.  `PaidInv` says what a PaymentCompleted on the wire or in the saga's past
implies about the gateway; `HeldInv` that while stock is to be relied on, StockReserved
or the saga's state implies every line held, and that a release is due only after the
order has ended; `BoundInv` counts the passes of the line-by-line handlers against the
failures; `RowInv` ties each message that updates the row to the saga's state, or finds the
row cancelled, until a recount rewrites it (`recounted` is then "revived", and nothing
more is claimed).  Otherwise the desk's requests only write a row that shows as sold, so
the saga has confirmed the order when they do.  The
proof has one lemma per group of actions and one step per conjunct it can disturb.

**Outbox.**  `Known`: nothing refers to a row that is not committed; `Grows`: rows keep
their event, and closed rows stay closed.  `FlowInv`: a replica about to mark a row has
published it, and an id that is recorded or being handled belongs to a row whose
handler has run; so a row can only close with a reason that stays true.  `OnceInv`: for
a row with a stable id at most one handler runs, none once the id is recorded, and all
earlier runs are deaths.  `BuryInv`: each dead letter of a row used up one replica that
held it in its batch, and no poll picks up a closed row again.  `CopyInv` bounds the
publishes: while a row is open, every publish but the failed ones is about to be marked;
once it is closed, only the batches read before can still publish it (`RestInv`: a replica
without a batch has nothing half done).

**Order lines.**  `CallInv` says what a request knows at its place in the handler: a
request that has written holds the row's lock (`Targets`, `Locks`), the row it is to
commit is one move from the committed one and within what was bought (`Written`), a move
that was checked goes along the table (`Checked`), and a recomputed status is what the
lines it saw stand for unless a commit crossed it (`Derived`).  `PageInv` gives each busy
page its request.  Commits are the only steps that change lines, so the action property
follows from `Written`, and the status from `Derived` and the mark a commit leaves on the
recomputations it crosses.

**Returned units.**  `UnitsAgree` adds up the units of a line's approved returns, so its
proof starts with what a sum over a finite set is: the recursive function that defines it
is shown to be defined on every finite set by well-founded induction on subsets, and not to
depend on the order in which elements are taken (`SumsAny`, `TotalAdd`).  The invariant (`ReturnsInv`) then says that an approval
past its check has the line and the units of its return, and that once it has written, the
return is still pending: it holds the return's row, which every other decision waits for.
So a commit adds exactly one return to the sum and its units to the line.  `OrderDesk`'s
assumption on the starting rows therefore also says that no return is approved at first.

**Fulfilment settings.**  The invariant relates three copies of the document: the page's,
the one in the timer's closure and the one a write carries.  Unless excused, the timer
holds what the page shows; without a timer a write under way carries it; without either
the service holds it.

**Fulfilment rows.**  Groupings, slots and lists are read once, and each answer changes the
page by itself.  `Settled`: until another administrator, an overlap, a failed deletion or a
lost answer excuses it, at most one write is under way, and `InStep` says how page and
service differ meanwhile: not at all until it is served, and then by exactly what its answer
will make of the page.  Every slot has its grouping, which is what deleting a grouping
relies on when it takes the slots along.

**Category tree.**  What is below a category is a least closed set, so the lemmas on forests
argue with closed sets instead of paths: what hanging a category elsewhere does to what is
below it, when it makes a cycle, and that in a finite forest every category hangs below a
root (its ancestors would otherwise never end; hence the assumption that `Nodes` is
finite).  On them rest `KnownInv` (only ids that were created are mentioned, by rows, page
and calls alike; the others hang nowhere and have no children), `CycleInv` (the rows have
no cycle, and a move that has locked what is below its category leaves none behind),
`DepthInv` (what a call has read of parents and depths is still true while nobody else
writes, so the depths it writes follow) and `CopyInv` (the page's copy has the rows' shape,
or differs by the one call under way).  The three properties name different moments that
excuse them, and so do the three invariants.

**Storefront.**  `OwnBranch` ties what the tab shows, the product it sells from and the
requests whose answers are still wanted to the branch it works for; `OwnOrders` an order's
units to its branch, and says that without a branch nothing is under way, so an answer
always finds the application there; `MadeInv` that a unit is in no place before it is
made.  A unit of an answered order cannot come back, because a cart grows only by new
units and by no other cart, and the answer empties the cart the order was taken from.

**Editors.**  The 74 forms enter the proof through `Sensible`, which says how the ways to
read and to save a page combine (a form that waits for a read makes one, what locks fields
also disables Save, what Save waits for fills in all that is sent); it is proved of one
group of pages after another from their records, and the steps rest on it alone, so a page
that is added needs that lemma and nothing else.  `Waits`: a page that has not read waits for
its newest read, so one whose Save button is enabled has read (`Survives` follows: what is
stored, travels or could be saved is not blank).  `OneSave`: a page that is disabled during a
save has one at most, and then what was written is what was sent (`Stays`).  `Carried`:
whatever answer could still change the field holds what was typed last, and an answer to a
read only comes after a save, of exactly that.

**List pages.**  The 27 screens enter the proof through `SensibleScreen` (a page that drops
rows before its calls, or gives a write up at the first failure, always reads back and takes
any answer; one that reads a single row back selects none; one that takes only the last
answer does not go on with a cursor).  For the reads, `SoundCall` says how far a read under
way has come: one with a cursor has every open row up to the greatest it has (`Covers`),
one that counts rows has exactly the first rows of the list as it is, until a row is closed
between two of its pages (`FirstOf`); rows are only closed, so what is listed shrinks and
both stay true.  That a cursor or an offset then leaves exactly the rest rests on lemmas
about the greatest row of a set and the place of a row in a list (`LastIdIsGreatest`,
`FirstPage`, `OffsetIsRest`).

For the writes, neither what a page shows nor what an answer carries is inductive by itself.
Unless calls have crossed, `AloneInv` says that a write is the only call under way, on the
pages that do not drop older answers, and that what a page would put back is what it shows;
`CleanInv` that an answer under way does not have as open a row this user has closed, unless
the write that closed it is still to be answered or was done in part; `ShowsInv` the same of
the rows shown, where the reread that follows is an excuse too.  A new read is the newest, so
it excuses what is shown and makes every older one stale where that matters
(`ReadListInv`); an answer makes what it had what is shown (`AnswerKeeps`).  A page at rest
has no call left to excuse it.

**Only model-checked:** liveness (`EveryCallAnswered`, `LateCaptureIsRefunded`,
`EveryOrderLeavesCheckout`, `StockIsSoldOrReleased`, `EveryRowIsSettled`,
`ChangesAreStored`, `BusyEnds`), which is out of TLAPS's reach here, and the disagreements
below.  Every invariant and every action property of the other runs is a theorem.

## 5. Where the code and its documentation disagree, and what else was seen

Two runs are expected to find their property violated, both without any failure.

| Run | The repository says | The code |
|---|---|---|
| `checkout_row_behind` | OrderPaymentSettled: "order service updates read model" | endpoints share the processed ids; if the notification publisher is first, the row stays PaymentPending |
| `checkout_cancel_paid` | "payment components are already captured by this point, refund them" | the release finds no plan; no RefundPayment is published |

Seen while modelling, each allowed for in the properties by a named excuse or a note on
its hazard:

* **Checkout.**  A cancel in Placed releases nothing, and the StockReserved after it is
  ignored, so the stock stays held (`OrderSaga.cs:87`).  A cancel that overtakes
  OrderPlaced is discarded and the customer is charged (`OrderService.cs:222`).  A crash
  after the id is recorded loses what the handler published, and nothing publishes the
  timeouts (`DcmsMassTransitExtensions.cs:19`).  The shared ids let the saga miss
  PaymentFailed.  A refused reservation leaves the lines before it reserved
  (`ReserveStockConsumer.cs:62`); a redelivered ReserveStock reserves again (bounded by
  `TypeOK`).  The cancel endpoint looks at the row, which lags the saga.  Ship, deliver and
  line moves write the row without the saga, which stays at Confirmed; and the recount after
  a line's move rewrites a row that is Cancelled (`recounted` = "revived",
  `OrderUnitOfWork.cs:316`), so a cancelled, refunded order may show as being processed, and
  may be cancelled again.  A transaction of another amount or currency is neither charged
  nor refunded (`RefundSkipped`), so a late capture reported for it stays with the store.  If
  another consumer of the order service marks PaymentFailed's id first, a declined order stays
  in checkout; `EveryOrderLeavesCheckout` is therefore stated where the payment can go through.
* **Order lines** (`hist.lag`, `hist.late`).  Two transactions on different lines each
  recompute the order's status without the other's line.  A detail read before a commit
  and cached after its drop stays until it expires.  An operation on the whole order sets
  a status its lines do not stand for.
* **Fulfilment** (`hist.doc`, `hist.lists`).  Two autosaves under way at once may be
  served in the other order.  A slot whose deletion fails disappears from the page all the
  same.  A failed autosave is not repeated until the next change.  The draft of the
  options page is not reset when another document arrives
  (`FulfillmentOptionsPage.tsx:120`).
* **Category tree** (`hist.crossed`, `hist.overlap`, `hist.drift`).  Two moves that cross
  can make a cycle, which no later read shows and on which the depth query does not end;
  a move computes depths from what it read before its transaction.  It also gives every
  descendant, not only the children, the path of a child of the moved category
  (`SqlCatalogPersistence.cs:596`); paths are not modelled.  A failed first load leaves the
  page's demonstration tree in place (`CategoriesPage.tsx:554`), whose categories the
  service does not have; the model's page waits for a load that succeeds.
* **Storefront.**  A product with nothing in stock keeps the variant selected before it,
  so a cart line may name another branch's variant.  A refusal of geolocation that comes
  late overrides the branch the customer has picked.  An answer lost after the order was
  taken leaves the cart full, and the next click orders again, under a fresh key.
* **List pages** (`WritesCrossed`, `past.lost`, rows shown as "late").  The product lists are
  read again at once after a write, from an index and through caches that may not have it yet:
  a product just hidden or archived may be listed as before until the page is read again
  (`ProductsPage.tsx:556`).  The approval lists page by offset while
  rows leave them; "load more" is not tied to its filter; a bulk action that fails in part
  returns before it reads again, so rows it has closed are shown as open; a refused
  approval restores all rows.
* **Editor pages** (`form.erases`, `hist.unread`, `hist.during` with `FillsOver`, `hist.left`,
  `hist.crossed`).  Pages that can be saved before their read is answered, or after it
  failed, store their defaults; the product page says "saved" of a visibility it does not send
  for a draft, and the variant table of a quantity it skips; that table has one busy mark for
  all rows, so a row can be saved again while its save is under way, and the two are served in
  any order;
  two forms send a field they never show; the product form is filled again when its field
  configuration arrives; an answer echoed into the form replaces what was typed during
  the save.

The excuse of `RestSurvives` is a save that was made unread, not the mere chance of one; that
of `TypedIsKept` text typed while an answer was under way or, on the product page, before its
second read; that of `SavedIsStored` the very value the page left out, or a save that
overlapped another.

## 6. What is not modelled

* **Multi-tender payments, vouchers, loyalty.**  They are reached only over an
  `OrderPayments` plan, and no code of the repository stores one; a model would start from
  states the program is never in.
* **Carts, promotions, approvals, reports projection, notifications, entitlements, access
  control.**  One guarded statement, one document or one projection per call; their pages
  are in `ListScreens` and `Editors`.  The service's Redis cart is not used by this
  repository's storefront.
* **Imports, the search index, bulk jobs, provisioning, the Umbraco host.**  Their state
  lives in blob storage, Elasticsearch, command-line tools and a CMS; what the code adds
  is I/O in sequence.
* **Queries, rendering, e-mail, gateway, identity, rate limits, deployment, browser
  tests, placeholder pages.**  No state machine of their own, or presentation and I/O.
* **In the modelled parts:** several orders at once (they share only stock rows, which
  `StockService` covers, and the relay, which `OutboxRelay` covers); in `Checkout`, the steps
  inside the desk's requests (each is one step there; `OrderDesk` has them one by one) and
  what they do to lines and shipments; the paths, the sibling order and, in the page's copy, the
  depths of categories; amounts and
  currencies; validation of fields; the clean-up of `ProcessedMessages` after seven days;
  a payload that does not parse (`SqlOutboxRelay.cs:39` is outside the try, and would stop
  the relay at its row); messages that a failed attempt has left in the in-memory outbox
  when the retry inside it succeeds; the carrier's webhook and polling worker, which
  advance only the shipment's own row; the expiry of a cached detail other than as a step
  that may happen at any time; two pages of the same administrator open at once, other than
  the storefront's second tab.

## Files

`MC*.tla` and `*.cfg` hold the instances, `*Proofs.tla` the theorems, `PROJECT.json`
the map from definitions to source lines, the mutants, the hazards and the findings.
Run `tlc -workers 2 -config StockMixed.cfg MCStockService` and
`tlapm StockServiceProofs.tla`, and likewise for the others.
