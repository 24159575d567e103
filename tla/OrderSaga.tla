----------------------------- MODULE OrderSaga -----------------------------
(***************************************************************************)
(* The order saga's state machine as a table: which event moves an order   *)
(* from which state to which, and what is published on the way.  An order  *)
(* without a saga row is in "none" (MassTransit's Initial).  Checkout.tla  *)
(* runs the table against the services that answer it.                     *)
(***************************************************************************)

SagaStates == {"none", "Placed", "PaymentPending", "Confirmed", "Processing", "Shipped",
               "Delivered", "Cancelled", "LatePaymentRefunding", "LatePaymentRefunded"}

Timeouts == {"StockReservationTimeout", "PaymentTimeout"}

Fulfilment == {"FulfillmentStarted", "ShippedForSaga", "DeliveredForSaga"}

SagaEvents == {"OrderPlaced", "StockReserved", "StockReservationFailed", "PaymentCompleted",
               "PaymentFailed", "PaymentRefunded", "CustomerCancellation"}
                \union Timeouts \union Fulfilment

Move(from, on, to, publish) == [from |-> from, on |-> on, to |-> to, publish |-> publish]

Forward == {
    Move("none", "OrderPlaced", "Placed", {"ReserveStock"}),
    Move("Placed", "StockReserved", "PaymentPending", {"ProcessPayment"}),
    Move("PaymentPending", "PaymentCompleted", "Confirmed", {"OrderPaymentSettled"}),
    Move("Confirmed", "FulfillmentStarted", "Processing", {"ProjectProcessing"}),
    Move("Processing", "ShippedForSaga", "Shipped", {"ProjectShipped"}),
    Move("Shipped", "DeliveredForSaga", "Delivered", {"ProjectDelivered"}) }

\* Nothing is released in Placed: no StockReserved has been seen.
CancelPlaced == {
    Move("Placed", "StockReservationFailed", "Cancelled", {"OrderCancelled"}),
    Move("Placed", "StockReservationTimeout", "Cancelled", {"OrderCancelled"}),
    Move("Placed", "CustomerCancellation", "Cancelled", {}) }

CancelPaymentPending == {
    Move("PaymentPending", "PaymentFailed", "Cancelled", {"ReleaseStock", "OrderCancelled"}),
    Move("PaymentPending", "PaymentTimeout", "Cancelled",
         {"ReleaseStock", "OrderCancelled", "ReleasePaymentComponents"}) }

CancelByCustomer ==
    { Move(s, "CustomerCancellation", "Cancelled", {"ReleaseStock", "ReleasePaymentComponents"}) :
        s \in {"PaymentPending", "Confirmed", "Processing"} }

\* A payment that completes after the order was cancelled is given back.
LateRefund == {
    Move("Cancelled", "PaymentCompleted", "LatePaymentRefunding",
         {"RefundPayment", "ReleasePaymentComponents"}),
    Move("LatePaymentRefunding", "PaymentRefunded", "LatePaymentRefunded", {}) }

\* Mutant of Moves: a late payment on a cancelled order is ignored.
MovesNoLateRefund == Forward \union CancelPlaced \union CancelPaymentPending \union CancelByCustomer

\* Mutant of Moves: a cancellation in PaymentPending forgets the stock.
MovesKeepStock ==
    Forward \union CancelPlaced \union LateRefund
      \union { Move(m.from, m.on, m.to, m.publish \ {"ReleaseStock"}) :
                 m \in CancelPaymentPending \union CancelByCustomer }

\* Mutant of Moves: a cancellation in Placed releases what may not be reserved.
MovesReleasePlaced ==
    Forward \union CancelPaymentPending \union CancelByCustomer \union LateRefund
      \union { Move(m.from, m.on, m.to, m.publish \union {"ReleaseStock"}) : m \in CancelPlaced }

\* Mutant of Moves: every payment but the first is taken for a late one.
MovesSecondIsLate ==
    Forward \union CancelPlaced \union CancelPaymentPending \union CancelByCustomer \union LateRefund
      \union { Move(s, "PaymentCompleted", "LatePaymentRefunding", {"RefundPayment"}) :
                 s \in {"Confirmed", "Processing"} }

Moves == Forward \union CancelPlaced \union CancelPaymentPending \union CancelByCustomer
           \union LateRefund

\* Events a state explicitly ignores; PaymentCompleted is a DuringAny event
\* that does nothing outside PaymentPending and Cancelled.
Ignores(s) ==
    CASE s = "Placed" -> {"PaymentTimeout", "PaymentCompleted"}
      [] s = "PaymentPending" -> {"StockReservationTimeout"}
      [] s \in {"Confirmed", "Processing"} -> Timeouts \union {"PaymentCompleted"}
      [] s \in {"Shipped", "Delivered"} ->
           Timeouts \union {"PaymentCompleted", "CustomerCancellation"}
      [] s = "Cancelled" ->
           Timeouts \union Fulfilment
             \union {"CustomerCancellation", "StockReserved", "StockReservationFailed",
                     "PaymentFailed"}
      [] s = "LatePaymentRefunding" -> SagaEvents \ {"PaymentRefunded"}
      [] s = "LatePaymentRefunded" -> SagaEvents
      [] s = "none" -> SagaEvents \ {"OrderPlaced"}   \* no instance: discarded

Moving(s, e) == \E m \in Moves : m.from = s /\ m.on = e

\* Neither a transition nor ignored: MassTransit raises
\* UnhandledEventException, the retries run out and the message is put aside.
Unhandled(s, e) == e \notin Ignores(s) /\ ~Moving(s, e)
=============================================================================
