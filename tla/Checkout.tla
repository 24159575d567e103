------------------------------ MODULE Checkout ------------------------------
(***************************************************************************)
(* One order from the moment CreateOrderAsync has committed it: the order  *)
(* service (API, outbox relay, saga, read-model consumers), the inventory  *)
(* service and the payment service, which share nothing but messages.      *)
(*                                                                         *)
(* RabbitMQ keeps one copy of a published message per consuming endpoint   *)
(* until the endpoint acknowledges it; copies are handled in any order.    *)
(* Every endpoint wraps its handler in the same filters: skip a MessageId  *)
(* that is in the service's ProcessedMessages table, run the handler,      *)
(* record the MessageId, and only then send what the handler published.    *)
(***************************************************************************)
EXTENDS OrderSaga, Integers

CONSTANTS
    LineCount,     \* lines of the order
    External,      \* events from outside the repository that may occur
    Declines,      \* may the gateway decline the payment?  {FALSE}, {TRUE} or BOOLEAN
    Matches,       \* what the payment service may find of the order, see match
    Cancels,       \* bound: API requests that cancel the order
    DeskOps,       \* other API requests that move the order row in this instance
    MaxFailures    \* bound: crashes and transient exceptions in one behaviour

ASSUME CheckoutAssumption ==
    /\ LineCount \in Nat \ {0}
    /\ External \subseteq Timeouts \union Fulfilment
    /\ Declines \subseteq BOOLEAN
    /\ Matches \subseteq {"same", "method", "no"}
    /\ DeskOps \subseteq {"ship", "deliver", "recount"}
    /\ MaxFailures \in Nat

VARIABLES
    order,      \* Orders.Status, the read model
    outbox,     \* the OrderPlaced.v1 outbox row: "pending" or "sent"
    cancel,     \* [Cancels -> {"none", "committed", "published", "lost"}]
    parcel,     \* the order has a Shipments row
    recounted,  \* did a line's move rewrite the row: "no", "yes", or "revived" once it
                \* has rewritten a cancelled row
    saga,       \* OrderSagaState.CurrentState
    wire,       \* deliveries not yet acknowledged
    processed,  \* ProcessedMessages: pairs <<service, message>>
    held,       \* [Line -> Int]: how often the line's units are reserved
    line,       \* [{"reserve", "release"} -> 1..LineCount+1]: next line
    tx,         \* PaymentTransactions.Status
    declines,   \* will the gateway decline this payment?
    match,      \* the transaction is the "same" the saga asks for; of another "method"; or
                \* "no": there is none, or it has another amount or currency
    charged,    \* the gateway has taken the money
    refunded,   \* the gateway has given the money back
    charging,   \* ProcessPaymentConsumer is between gateway and UPDATE
    hook,       \* the gateway's webhook: "none", "sent", "read" or "done"
    happened,   \* external events that have been published
    failures    \* crashes and transient exceptions so far

orderVars   == <<order, outbox, cancel, parcel, recounted>>
stockVars   == <<held, line>>
paymentVars == <<tx, declines, match, charged, refunded, charging, hook>>
vars == <<orderVars, saga, wire, processed, stockVars, paymentVars, happened, failures>>

Line == 1..LineCount
-----------------------------------------------------------------------------
\* Messages.  The payment service has two publishers of its two events, and each
\* request that cancels publishes a message of its own; every other message is
\* published by one place in the code.
Message == [type : {"PaymentCompleted", "PaymentFailed"}, by : {"webhook", "charge"}]
             \union [type : {"CustomerCancellation"}, by : Cancels]
             \union [type : (SagaEvents \ {"PaymentCompleted", "PaymentFailed",
                                           "CustomerCancellation"})
                              \union {"ReserveStock", "ReleaseStock", "ProcessPayment",
                                      "RefundPayment", "ReleasePaymentComponents",
                                      "OrderPaymentSettled", "OrderCancelled",
                                      "ProjectProcessing", "ProjectShipped", "ProjectDelivered"},
                     by : {"once"}]

Once(type) == [type |-> type, by |-> "once"]

\* The message types an endpoint consumes.  "others" are the order service's
\* other consumers of an event (CommerceNotificationPublisher, and those that
\* confirm or release a promotion).  ReleasePaymentComponents is left out, and so
\* is PaymentOrchestrator on ProcessPayment: both return when the order has no
\* OrderPayments rows, and no code writes one.
Consumes ==
    [saga |-> SagaEvents,
     settled |-> {"OrderPaymentSettled"},
     cancelled |-> {"OrderCancelled"},
     projection |-> {"ProjectProcessing", "ProjectShipped", "ProjectDelivered"},
     others |-> {"OrderPaymentSettled", "OrderCancelled", "PaymentFailed", "PaymentRefunded"},
     reserve |-> {"ReserveStock"},
     release |-> {"ReleaseStock"},
     charge |-> {"ProcessPayment"},
     refund |-> {"RefundPayment"}]

Service(endpoint) ==
    IF endpoint \in {"reserve", "release"} THEN "inventory"
    ELSE IF endpoint \in {"charge", "refund"} THEN "payment"
    ELSE "order"

Delivery == {d \in [msg : Message, to : DOMAIN Consumes] : d.msg.type \in Consumes[d.to]}

Copies(msgs) == {d \in Delivery : d.msg \in msgs}

\* ProcessedMessages is keyed by MessageId alone, one table per service.
Key(d) == <<Service(d.to), d.msg>>

Processed(d) == Key(d) \in processed
-----------------------------------------------------------------------------
Init ==
    /\ order = "PaymentPending"
    /\ outbox = "pending"
    /\ cancel = [c \in Cancels |-> "none"]
    /\ parcel = FALSE
    /\ recounted = "no"
    /\ saga = "none"
    /\ wire = {}
    /\ processed = {}
    /\ held = [l \in Line |-> 0]
    /\ line = [h \in {"reserve", "release"} |-> 1]
    /\ tx = "initiated"
    /\ declines \in Declines
    /\ match \in Matches
    /\ charged = FALSE
    /\ refunded = FALSE
    /\ charging = FALSE
    /\ hook = "none"
    /\ happened = {}
    /\ failures = 0

Fail == failures < MaxFailures /\ failures' = failures + 1

Send(msgs) == wire' = wire \union Copies(msgs)

\* A delivery a handler runs for: idempotency lock taken, id not processed.
Handles(d, endpoint) == d \in wire /\ d.to = endpoint /\ ~Processed(d)

\* The end of a handler that published msgs: recorded, sent and acknowledged;
\* or the process dies before the id is recorded, or after that, while the
\* in-memory outbox is sent.  Either way RabbitMQ delivers the message again.
Complete(d, msgs) ==
    \/ /\ wire' = (wire \ {d}) \union Copies(msgs)
       /\ processed' = processed \union {Key(d)}
       /\ UNCHANGED failures
    \/ /\ Fail
       /\ UNCHANGED <<wire, processed>>
    \/ /\ Fail
       /\ \E sent \in SUBSET msgs : Send(sent)
       /\ processed' = processed \union {Key(d)}

\* MessageIdempotencyConsumeFilter finds the id and acknowledges.
Skip(d) ==
    /\ d \in wire
    /\ Processed(d)
    /\ wire' = wire \ {d}
    /\ UNCHANGED <<orderVars, saga, processed, stockVars, paymentVars, happened, failures>>
-----------------------------------------------------------------------------
(* Order service: API and relay.                                           *)

\* OrderOutboxRelayHostedService: publish, then mark the row.  A crash in
\* between publishes the same MessageId again.
Relay ==
    /\ outbox = "pending"
    /\ Send({Once("OrderPlaced")})
    /\ \/ outbox' = "sent" /\ UNCHANGED failures
       \/ Fail /\ UNCHANGED outbox
    /\ UNCHANGED <<order, cancel, parcel, recounted, saga, processed, stockVars, paymentVars,
                   happened>>

\* OrderService.CancelOrderAsync: the row is committed first ...
CancelOrder(c) ==
    /\ cancel[c] = "none"
    /\ order \in {"PaymentPending", "Confirmed", "Processing"}
    /\ order' = "Cancelled"
    /\ cancel' = [cancel EXCEPT ![c] = "committed"]
    /\ UNCHANGED <<outbox, parcel, recounted, saga, wire, processed, stockVars, paymentVars,
                   happened, failures>>

\* ... and the saga is told by a publish of its own, which a crash loses: while
\* the row is cancelled, a second request is answered AlreadyCancelled and
\* publishes nothing.
PublishCancellation(c) ==
    /\ cancel[c] = "committed"
    /\ \/ /\ cancel' = [cancel EXCEPT ![c] = "published"]
          /\ Send({[type |-> "CustomerCancellation", by |-> c]})
          /\ UNCHANGED failures
       \/ /\ Fail
          /\ cancel' = [cancel EXCEPT ![c] = "lost"]
          /\ UNCHANGED wire
    /\ UNCHANGED <<order, outbox, parcel, recounted, saga, processed, stockVars, paymentVars,
                   happened>>

\* The store's desk moves the row without telling the saga (OrderDesk.tla has
\* these requests step by step).
Desk(op) ==
    /\ op \in DeskOps
    /\ UNCHANGED <<outbox, cancel, saga, wire, processed, stockVars, paymentVars, happened,
                   failures>>

\* TryCreateShipmentPendingFromApiAsync: one Shipments row per order, and the
\* UPDATE of the order takes a confirmed or processing one only.
ShipOrder ==
    /\ Desk("ship")
    /\ order \notin {"PaymentPending", "Cancelled", "Shipped", "Delivered"}
    /\ ~parcel
    /\ parcel' = TRUE
    /\ order' = IF order \in {"Confirmed", "Processing"} THEN "Shipped" ELSE order
    /\ UNCHANGED recounted

\* The deliver request, or the carrier's webhook, finds the shipment.
DeliverOrder ==
    /\ Desk("deliver")
    /\ parcel
    /\ order = "Shipped"
    /\ order' = "Delivered"
    /\ UNCHANGED <<parcel, recounted>>

\* What DeriveOrderStatusFromItems may answer; "Partly" stands for its
\* ReadyForDelivery, PickedUp, Returned and PartialFulfilled, which nothing here
\* tells apart.
Derived == {"Processing", "Shipped", "Delivered", "Cancelled", "Partly"}

\* RecalculateOrderStatusAsync after a line has moved.  Its UPDATE does not ask
\* for the status it has read: a cancelled row is rewritten, too.  No row goes
\* back to a status it leaves alone, so the read and the write are one step.
RecountLines ==
    /\ Desk("recount")
    /\ order \notin {"PaymentPending", "Confirmed"}
    /\ order' \in Derived \ {order}
    /\ recounted' = IF order = "Cancelled" \/ recounted = "revived" THEN "revived" ELSE "yes"
    /\ UNCHANGED parcel
-----------------------------------------------------------------------------
(* Order service: the saga endpoint and the read-model consumers.          *)

SagaMove(d) ==
    /\ Handles(d, "saga")
    /\ \E m \in Moves :
         /\ m.from = saga
         /\ m.on = d.msg.type
         /\ saga' = m.to
         /\ Complete(d, {Once(type) : type \in m.publish})
    /\ UNCHANGED <<orderVars, stockVars, paymentVars, happened>>

SagaIgnore(d) ==
    /\ Handles(d, "saga")
    /\ d.msg.type \in Ignores(saga)
    /\ ~Moving(saga, d.msg.type)
    /\ Complete(d, {})
    /\ UNCHANGED <<orderVars, saga, stockVars, paymentVars, happened>>

\* The retries of an unhandled event run out: the message goes to _error.
SagaFault(d) ==
    /\ Handles(d, "saga")
    /\ Unhandled(saga, d.msg.type)
    /\ wire' = wire \ {d}
    /\ UNCHANGED <<orderVars, saga, processed, stockVars, paymentVars, happened, failures>>

\* Mutant of SetStatus: the UPDATE has no "AND Status = @Expected".
SetStatusAlways(d, from, to) ==
    /\ order' = to
    /\ Complete(d, {})
    /\ UNCHANGED <<outbox, cancel, parcel, recounted, saga, stockVars, paymentVars, happened>>

\* An UPDATE of the order row that expects its current status.
SetStatus(d, from, to) ==
    /\ order' = IF order = from THEN to ELSE order
    /\ Complete(d, {})
    /\ UNCHANGED <<outbox, cancel, parcel, recounted, saga, stockVars, paymentVars, happened>>

Settle(d) == Handles(d, "settled") /\ SetStatus(d, "PaymentPending", "Confirmed")

CancelRow(d) == Handles(d, "cancelled") /\ SetStatus(d, "PaymentPending", "Cancelled")

Project(d) ==
    /\ Handles(d, "projection")
    /\ \/ d.msg.type = "ProjectProcessing" /\ SetStatus(d, "Confirmed", "Processing")
       \/ d.msg.type = "ProjectShipped" /\ SetStatus(d, "Processing", "Shipped")
       \/ d.msg.type = "ProjectDelivered" /\ SetStatus(d, "Shipped", "Delivered")

\* E-mails and promotions have no state here.
Others(d) ==
    /\ Handles(d, "others")
    /\ Complete(d, {})
    /\ UNCHANGED <<orderVars, saga, stockVars, paymentVars, happened>>
-----------------------------------------------------------------------------
(* Inventory service: one transaction per line (StockService.tla).         *)

ReserveLine(d) ==
    /\ Handles(d, "reserve")
    /\ line["reserve"] \in Line
    /\ held' = [held EXCEPT ![line["reserve"]] = @ + 1]
    /\ line' = [line EXCEPT !["reserve"] = @ + 1]
    /\ UNCHANGED <<orderVars, saga, wire, processed, paymentVars, happened, failures>>

\* Out of stock, or no such row: earlier lines stay reserved.
ReserveRefused(d) ==
    /\ Handles(d, "reserve")
    /\ line["reserve"] \in Line
    /\ line' = [line EXCEPT !["reserve"] = 1]
    /\ Complete(d, {Once("StockReservationFailed")})
    /\ UNCHANGED <<orderVars, saga, held, paymentVars, happened>>

\* Mutant of ReserveDone: the event is published after the first line.
ReserveDoneEarly(d) ==
    /\ Handles(d, "reserve")
    /\ line["reserve"] > 1
    /\ line' = [line EXCEPT !["reserve"] = 1]
    /\ Complete(d, {Once("StockReserved")})
    /\ UNCHANGED <<orderVars, saga, held, paymentVars, happened>>

ReserveDone(d) ==
    /\ Handles(d, "reserve")
    /\ line["reserve"] = LineCount + 1
    /\ line' = [line EXCEPT !["reserve"] = 1]
    /\ Complete(d, {Once("StockReserved")})
    /\ UNCHANGED <<orderVars, saga, held, paymentVars, happened>>

\* A release gives the units back even when the order no longer holds them:
\* VariantStock.Release only looks at the row's total.
ReleaseLine(d) ==
    /\ Handles(d, "release")
    /\ line["release"] \in Line
    /\ held' = [held EXCEPT ![line["release"]] = @ - 1]
    /\ line' = [line EXCEPT !["release"] = @ + 1]
    /\ UNCHANGED <<orderVars, saga, wire, processed, paymentVars, happened, failures>>

ReleaseDone(d) ==
    /\ Handles(d, "release")
    /\ line["release"] = LineCount + 1
    /\ line' = [line EXCEPT !["release"] = 1]
    /\ Complete(d, {})
    /\ UNCHANGED <<orderVars, saga, held, paymentVars, happened>>

\* A crash, or an exception the handler does not catch (the row's revision
\* kept moving): the message is handled again from its first line.
Restart(h) ==
    /\ line[h] > 1
    /\ Fail
    /\ line' = [line EXCEPT ![h] = 1]
    /\ UNCHANGED <<orderVars, saga, wire, processed, held, paymentVars, happened>>
-----------------------------------------------------------------------------
(* Payment service.                                                        *)

Outcome == IF declines THEN "PaymentFailed" ELSE "PaymentCompleted"

Settled == IF declines THEN "failed" ELSE "completed"

Told(by) == [type |-> Outcome, by |-> by]

\* Mutant of ChargeAgain: a decided transaction is not reported again.
ChargeAgainSilent(d) ==
    /\ Handles(d, "charge")
    /\ ~charging /\ match = "same"
    /\ tx \in {"completed", "failed"}
    /\ Complete(d, {})
    /\ UNCHANGED <<orderVars, saga, stockVars, paymentVars, happened>>

\* ProcessPaymentConsumer on a transaction that is already decided.
ChargeAgain(d) ==
    /\ Handles(d, "charge")
    /\ ~charging /\ match = "same"
    /\ tx \in {"completed", "failed"}
    /\ Complete(d, {[type |-> IF tx = "completed" THEN "PaymentCompleted" ELSE "PaymentFailed",
                     by |-> "charge"]})
    /\ UNCHANGED <<orderVars, saga, stockVars, paymentVars, happened>>

\* ... on one that is missing or not the order's: nothing is charged ...
ChargeMismatch(d) ==
    /\ Handles(d, "charge")
    /\ ~charging /\ match # "same"
    /\ Complete(d, {[type |-> "PaymentFailed", by |-> "charge"]})
    /\ UNCHANGED <<orderVars, saga, stockVars, paymentVars, happened>>

\* ... and on any other: the gateway is asked, idempotently per intent.
Charge(d) ==
    /\ Handles(d, "charge")
    /\ ~charging /\ match = "same"
    /\ tx \in {"initiated", "refunded"}
    /\ charged' = (charged \/ ~declines)
    /\ charging' = TRUE
    /\ UNCHANGED <<orderVars, saga, wire, processed, stockVars, tx, declines, match, refunded, hook,
                   happened, failures>>

ChargeRecord(d) ==
    /\ Handles(d, "charge")
    /\ charging
    /\ tx' = Settled
    /\ charging' = FALSE
    /\ Complete(d, {Told("charge")})
    /\ UNCHANGED <<orderVars, saga, stockVars, declines, match, charged, refunded, hook,
                   happened>>

ChargeCrash ==
    /\ charging
    /\ Fail
    /\ charging' = FALSE
    /\ UNCHANGED <<orderVars, saga, wire, processed, stockVars, tx, declines, match, charged,
                   refunded, hook, happened>>

RefundAgain(d) ==
    /\ Handles(d, "refund")
    /\ match # "no" /\ tx = "refunded"
    /\ Complete(d, {Once("PaymentRefunded")})
    /\ UNCHANGED <<orderVars, saga, stockVars, paymentVars, happened>>

RefundSkipped(d) ==
    /\ Handles(d, "refund")
    /\ match = "no" \/ tx \in {"initiated", "failed"}
    /\ Complete(d, {})
    /\ UNCHANGED <<orderVars, saga, stockVars, paymentVars, happened>>

Refund(d) ==
    /\ Handles(d, "refund")
    /\ match # "no" /\ tx = "completed"
    /\ refunded' = TRUE
    /\ tx' = "refunded"
    /\ Complete(d, {Once("PaymentRefunded")})
    /\ UNCHANGED <<orderVars, saga, stockVars, declines, match, charged, charging, hook,
                   happened>>

\* The gateway has refunded, the UPDATE is lost; the gateway is idempotent.
RefundCrash(d) ==
    /\ Handles(d, "refund")
    /\ match # "no" /\ tx = "completed"
    /\ Fail
    /\ refunded' = TRUE
    /\ UNCHANGED <<orderVars, saga, wire, processed, stockVars, tx, declines, match, charged,
                   charging, hook, happened>>

\* The customer pays (or fails to) on the gateway's page, or the gateway
\* reports the charge the service asked for.
GatewayReports ==
    /\ hook = "none"
    /\ hook' = "sent"
    /\ charged' = (charged \/ ~declines)
    /\ UNCHANGED <<orderVars, saga, wire, processed, stockVars, tx, declines, match, refunded,
                   charging, happened, failures>>

\* PaymentGatewayWebhookProcessor reads the transaction, and acts later on
\* what it has read.
HookRead ==
    /\ hook = "sent"
    /\ hook' = IF tx \in {"completed", "failed"} THEN "done" ELSE "read"
    /\ UNCHANGED <<orderVars, saga, wire, processed, stockVars, tx, declines, match, charged,
                   refunded, charging, happened, failures>>

HookAct ==
    /\ hook = "read"
    /\ hook' = "done"
    /\ tx' = Settled
    /\ Send({Told("webhook")})
    /\ UNCHANGED <<orderVars, saga, processed, stockVars, declines, match, charged, refunded,
                   charging, happened, failures>>

\* A crash after TryRecordWebhookDelivery: the provider's retry is taken for
\* a duplicate.  The UPDATE may have gone through, the publish has not.
HookCrash ==
    /\ hook \in {"sent", "read"}
    /\ Fail
    /\ hook' = "done"
    /\ tx' \in (IF hook = "read" THEN {tx, Settled} ELSE {tx})
    /\ UNCHANGED <<orderVars, saga, wire, processed, stockVars, declines, match, charged,
                   refunded, charging, happened>>
-----------------------------------------------------------------------------
\* Events that code outside the repository publishes: timeouts once the saga
\* exists, fulfilment once the order is paid, each step after the last.
Enables(e) ==
    CASE e \in Timeouts -> saga # "none"
      [] e = "FulfillmentStarted" -> saga = "Confirmed"
      [] e = "ShippedForSaga" -> "FulfillmentStarted" \in happened
      [] e = "DeliveredForSaga" -> "ShippedForSaga" \in happened

Happen(e) ==
    /\ e \notin happened
    /\ Enables(e)
    /\ happened' = happened \union {e}
    /\ Send({Once(e)})
    /\ UNCHANGED <<orderVars, saga, processed, stockVars, paymentVars, failures>>
-----------------------------------------------------------------------------
Handle(d) ==
    \/ SagaMove(d) \/ SagaIgnore(d) \/ SagaFault(d)
    \/ Settle(d) \/ CancelRow(d) \/ Project(d) \/ Others(d)
    \/ ReserveLine(d) \/ ReserveRefused(d) \/ ReserveDone(d)
    \/ ReleaseLine(d) \/ ReleaseDone(d)
    \/ ChargeAgain(d) \/ ChargeMismatch(d) \/ Charge(d) \/ ChargeRecord(d)
    \/ RefundAgain(d) \/ RefundSkipped(d) \/ Refund(d) \/ RefundCrash(d)

Webhook == HookRead \/ HookAct \/ HookCrash

Deliver == \E d \in wire : Skip(d) \/ Handle(d)

Next ==
    \/ Deliver
    \/ Relay
    \/ \E c \in Cancels : CancelOrder(c) \/ PublishCancellation(c)
    \/ ShipOrder \/ DeliverOrder \/ RecountLines
    \/ Restart("reserve") \/ Restart("release")
    \/ ChargeCrash \/ GatewayReports \/ Webhook
    \/ \E e \in External : Happen(e)

Spec == Init /\ [][Next]_vars

\* RabbitMQ delivers while it holds a message and the hosted services keep
\* running; a step that fails is not what fairness asks for.  No message can
\* starve another: every delivery is handled in finitely many steps and the
\* order has finitely many messages.  Customers, the gateway's reports and the
\* external events owe nothing.
Fairness ==
    /\ WF_vars(Deliver /\ UNCHANGED failures)
    /\ WF_vars(Relay /\ UNCHANGED failures)
    /\ WF_vars(\E c \in Cancels : PublishCancellation(c) /\ UNCHANGED failures)
    /\ WF_vars(Webhook /\ UNCHANGED failures)

FairSpec == Spec /\ Fairness
-----------------------------------------------------------------------------
(* Properties.                                                             *)

Sold == {"Confirmed", "Processing", "Shipped", "Delivered"}

Rank == [s \in Sold |-> CASE s = "Confirmed" -> 1 [] s = "Processing" -> 2
                          [] s = "Shipped" -> 3 [] s = "Delivered" -> 4]

\* Every variable stays in its type; in particular no line is reserved more
\* often than once plus once for every failure, nor released more often than
\* it was reserved plus once for every failure: the price of a handler that
\* commits line by line and starts again from the first.
TypeOK ==
    /\ order \in {"PaymentPending", "Cancelled", "Partly"} \union Sold
    /\ outbox \in {"pending", "sent"}
    /\ cancel \in [Cancels -> {"none", "committed", "published", "lost"}]
    /\ parcel \in BOOLEAN
    /\ recounted \in {"no", "yes", "revived"}
    /\ saga \in SagaStates
    /\ wire \subseteq Delivery
    /\ processed \subseteq {"order", "inventory", "payment"} \X Message
    /\ held \in [Line -> (-failures)..(1 + failures)]
    /\ line \in [{"reserve", "release"} -> 1..(LineCount + 1)]
    /\ tx \in {"initiated", "completed", "failed", "refunded"}
    /\ declines \in BOOLEAN /\ match \in {"same", "method", "no"} /\ charged \in BOOLEAN
    /\ refunded \in BOOLEAN /\ charging \in BOOLEAN
    /\ hook \in {"none", "sent", "read", "done"}
    /\ happened \subseteq External
    /\ failures \in 0..MaxFailures

\* OrderSaga: an order the saga confirms, and may ship, is paid for, its money
\* has not been given back, and the units of every one of its lines are
\* reserved, whatever was delivered twice, late or out of order.
ConfirmedIsPaidAndHeld ==
    saga \in Sold => charged /\ ~refunded /\ \A l \in Line : held[l] >= 1

\* OrderUnitOfWork's guarded UPDATEs: until the recount of its lines rewrites a
\* cancelled row, the row never shows as sold an order the saga has not
\* confirmed, or has cancelled; and it runs ahead of the saga only when the store
\* has made a shipment or a line's move was counted, although five messages and
\* three requests race to update it.
RowAheadOnlyByDesk ==
    recounted # "revived" =>
        /\ order \in Sold \union {"Partly"} => saga \in Sold
        /\ order \in Sold /\ ~parcel /\ recounted = "no" => Rank[order] <= Rank[saga]

\* RefundPaymentConsumer: money goes back only for an order that was cancelled
\* before its payment arrived, and that does not show as sold unless a recount
\* of its lines has rewritten the cancelled row.  A second report of the same
\* payment (gateway webhook and ProcessPaymentConsumer both publish one) is not a
\* late payment.
RefundOnlyLate ==
    refunded => /\ charged
                /\ saga \in {"LatePaymentRefunding", "LatePaymentRefunded"}
                /\ order \in Sold => recounted = "revived"

\* OrderSaga's DuringAny(PaymentCompleted): if the money arrives after the order
\* was cancelled, it is given back (RefundPaymentConsumer skips a transaction of
\* another amount: the run has none).
LateCaptureIsRefunded ==
    (saga = "Cancelled" /\ \E d \in wire : d.to = "saga" /\ d.msg.type = "PaymentCompleted")
      ~> refunded

\* While no process dies, the gateway does not decline and the transaction is the
\* order's, an order does not stay in checkout, even if the customer paid on the
\* gateway's page before the stock was reserved and the saga has ignored that
\* PaymentCompleted.
EveryOrderLeavesCheckout == <>(saga \notin {"none", "Placed", "PaymentPending"})

\* Stock the saga knows to be reserved ends up sold or released.
StockIsSoldOrReleased ==
    (saga = "PaymentPending") ~> [](saga \in Sold \/ \A l \in Line : held[l] = 0)
-----------------------------------------------------------------------------
(* What the repository says of an order and the code does not do: each of  *)
(* these has a run that finds it violated.                                 *)

\* OrderPaymentSettledV1: "Emitted when saga reaches Confirmed; order service
\* updates read model".  The notification publisher consumes the same message
\* and marks its id first, so the consumer that sets the row skips it.
ConfirmedReachesReadModel == (saga = "Confirmed") ~> (order # "PaymentPending")

\* OrderSaga, cancellation after Confirmed: "payment components are already
\* captured by this point, refund them".  ReleasePaymentComponents finds none and
\* RefundPayment is only published for a late PaymentCompleted.
CancelledAfterPaymentIsRefunded ==
    (saga = "Confirmed" /\ \E d \in wire : d.msg.type = "CustomerCancellation") ~> refunded
=============================================================================
