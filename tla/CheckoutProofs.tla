--------------------------- MODULE CheckoutProofs ---------------------------
(***************************************************************************)
(* The safety properties of Checkout for any number of lines, any external *)
(* events and any number of failures.  None is inductive by itself: each   *)
(* rests on what a message still on the wire says about its sender's state *)
(* (see IInv), so the proof is about messages as much as about rows.       *)
(***************************************************************************)
EXTENDS Checkout, TLAPS

Late == {"LatePaymentRefunding", "LatePaymentRefunded"}

Ended == {"Cancelled"} \union Late

\* A message of this type is still to be acknowledged.
On(type) == \E d \in wire : d.msg.type = type

AllHeld == \A l \in Line : held[l] >= 1

\* The delivery of a command that one endpoint consumes.
Command(type, endpoint) == [msg |-> Once(type), to |-> endpoint]

Due(type, endpoint) == Command(type, endpoint) \in wire /\ ~Processed(Command(type, endpoint))

\* TypeOK without its bounds on held.
Types ==
    /\ order \in {"PaymentPending", "Cancelled", "Partly"} \union Sold
    /\ outbox \in {"pending", "sent"}
    /\ cancel \in [Cancels -> {"none", "committed", "published", "lost"}]
    /\ parcel \in BOOLEAN
    /\ recounted \in {"no", "yes", "revived"}
    /\ saga \in SagaStates
    /\ wire \subseteq Delivery
    /\ processed \subseteq {"order", "inventory", "payment"} \X Message
    /\ held \in [Line -> Int]
    /\ line \in [{"reserve", "release"} -> 1..(LineCount + 1)]
    /\ tx \in {"initiated", "completed", "failed", "refunded"}
    /\ declines \in BOOLEAN /\ match \in {"same", "method", "no"} /\ charged \in BOOLEAN
    /\ refunded \in BOOLEAN /\ charging \in BOOLEAN
    /\ hook \in {"none", "sent", "read", "done"}
    /\ happened \subseteq External
    /\ failures \in 0..MaxFailures

\* The money: whoever may report a completed payment has seen it taken, and a
\* refund has been asked for by a saga that found its order cancelled.
PaidInv ==
    /\ tx = "completed" => charged
    /\ tx = "refunded" => charged
    /\ (charging \/ hook \in {"sent", "read"}) /\ ~declines => charged
    /\ tx = "completed" => ~declines
    /\ On("PaymentCompleted") => charged
    /\ On("RefundPayment") => saga \in Late
    /\ refunded => charged /\ saga \in Late
    /\ saga \in Sold => charged

\* The stock: nothing is released before the saga has ended, so what a saga
\* that runs knows to be reserved still is.
HeldInv ==
    /\ On("ReserveStock") => saga # "none"
    /\ On("ReleaseStock") => saga \in Ended
    /\ On("StockReserved") /\ saga \notin Ended => AllHeld
    /\ saga \in {"PaymentPending"} \union Sold => AllHeld
    /\ saga \notin Ended =>
         \A l \in Line : held[l] >= 0 /\ (l < line["reserve"] => held[l] >= 1)

\* The bounds: a line is counted once by the pass that is under way or over,
\* and once more for every failure that made a pass start again.
BoundInv ==
    /\ saga = "none" => \A l \in Line : held[l] = 0
    /\ \A l \in Line : held[l] <= 1 + failures
    /\ Due("ReserveStock", "reserve") =>
         \A l \in Line : l >= line["reserve"] => held[l] <= failures
    /\ \A l \in Line : held[l] >= -failures
    /\ Due("ReleaseStock", "release") =>
         \A l \in Line : l >= line["release"] => held[l] >= 1 - failures

\* The read model, until a recount rewrites a cancelled row: a message that moves
\* the row forward proves that the saga has moved, unless the row has been
\* cancelled in the meantime.
RowInv ==
    recounted # "revived" =>
      /\ \A c \in Cancels : cancel[c] # "none" => order = "Cancelled"
      /\ On("CustomerCancellation") => order = "Cancelled"
      /\ On("OrderPaymentSettled") /\ order # "Cancelled" => saga \in Sold
      /\ On("ProjectProcessing") /\ order # "Cancelled" =>
           saga \in {"Processing", "Shipped", "Delivered"}
      /\ On("ProjectShipped") /\ order # "Cancelled" => saga \in {"Shipped", "Delivered"}
      /\ On("ProjectDelivered") /\ order # "Cancelled" => saga = "Delivered"
      /\ RowAheadOnlyByDesk

IInv == Types /\ PaidInv /\ HeldInv /\ BoundInv /\ RowInv
-----------------------------------------------------------------------------
(* What a step does to the wire.                                           *)

Grows(msgs) ==
    /\ wire' \subseteq Delivery
    /\ \A type : On(type)' => On(type) \/ \E m \in msgs : m.type = type
    /\ \A type, endpoint :
         Due(type, endpoint)' => Due(type, endpoint) \/ Once(type) \in msgs
    /\ failures' \in 0..MaxFailures
    /\ failures' \in {failures, failures + 1}

\* Message keys of a delivery stay inside the type of processed.
LEMMA KeyType ==
    ASSUME NEW d \in Delivery
    PROVE  Key(d) \in {"order", "inventory", "payment"} \X Message
<1>1. d.msg \in Message
  BY DEF Delivery
<1>2. Service(d.to) \in {"order", "inventory", "payment"}
  BY DEF Service
<1> QED
  BY <1>1, <1>2 DEF Key

\* Complete acknowledges one delivery and sends msgs, or fails in between.
LEMMA CompleteStep ==
    ASSUME Types, NEW d \in Delivery, NEW msgs, Complete(d, msgs)
    PROVE  /\ Grows(msgs)
           /\ processed' \in {processed, processed \union {Key(d)}}
           /\ Key(d) \in processed' \/ failures' = failures + 1
<1>1. /\ processed' \in {processed, processed \union {Key(d)}}
      /\ Key(d) \in processed' \/ failures' = failures + 1
      /\ failures' = failures \/ Fail
  BY DEF Complete, Fail
<1>2. wire' \subseteq wire \union Copies(msgs)
  BY DEF Complete, Send, Copies
<1>3. wire' \subseteq Delivery
  BY <1>2 DEF Copies, Types
<1>4. failures' \in 0..MaxFailures /\ failures' \in {failures, failures + 1}
  BY <1>1, CheckoutAssumption DEF Fail, Types
<1>5. \A type : On(type)' => On(type) \/ \E m \in msgs : m.type = type
  BY <1>2 DEF On, Copies
<1>6. ASSUME NEW type, NEW endpoint, Due(type, endpoint)'
      PROVE  Due(type, endpoint) \/ Once(type) \in msgs
  <2>1. Command(type, endpoint) \in wire'
    BY <1>6 DEF Due, Command, Once
  <2>2. Key(Command(type, endpoint)) \notin processed
    BY <1>6, <1>1 DEF Due, Processed, Key, Command, Once, Service
  <2>3. CASE Command(type, endpoint) \in wire
    BY <2>2, <2>3 DEF Due, Processed
  <2>4. CASE Command(type, endpoint) \in Copies(msgs)
    BY <2>4 DEF Copies, Command
  <2> QED
    BY <2>1, <2>3, <2>4, <1>2
<1> QED
  BY <1>1, <1>3, <1>4, <1>5, <1>6 DEF Grows

\* A publish outside a handler.
LEMMA SendStep ==
    ASSUME Types, NEW msgs, Send(msgs) \/ wire' = wire, processed' = processed,
           failures' = failures \/ Fail
    PROVE  Grows(msgs)
<1>1. wire' \subseteq wire \union Copies(msgs)
  BY DEF Send
<1>2. wire' \subseteq Delivery
  BY <1>1 DEF Copies, Types
<1>3. failures' \in 0..MaxFailures /\ failures' \in {failures, failures + 1}
  BY CheckoutAssumption DEF Fail, Types
<1>4. \A type : On(type)' => On(type) \/ \E m \in msgs : m.type = type
  BY <1>1 DEF On, Copies
<1>5. ASSUME NEW type, NEW endpoint, Due(type, endpoint)'
      PROVE  Due(type, endpoint) \/ Once(type) \in msgs
  <2>1. Command(type, endpoint) \in wire'
    BY <1>5 DEF Due, Command, Once
  <2>2. Key(Command(type, endpoint)) \notin processed
    BY <1>5 DEF Due, Processed, Key, Command, Once, Service
  <2>3. CASE Command(type, endpoint) \in wire
    BY <2>2, <2>3 DEF Due, Processed
  <2>4. CASE Command(type, endpoint) \in Copies(msgs)
    BY <2>4 DEF Copies, Command
  <2> QED
    BY <2>1, <2>3, <2>4, <1>1
<1> QED
  BY <1>2, <1>3, <1>4, <1>5 DEF Grows

\* A delivery that leaves the wire unprocessed or skipped adds nothing.
LEMMA DropStep ==
    ASSUME Types, NEW d, wire' = wire \ {d}, processed' = processed, failures' = failures
    PROVE  Grows({})
<1>1. \A type, endpoint : Due(type, endpoint)' => Due(type, endpoint)
  BY DEF Due, Processed, Key, Command, Once, Service
<1> QED
  BY <1>1, CheckoutAssumption DEF Grows, On, Types

\* Which endpoint consumes which message, and that a command is one delivery.
LEMMA Routing ==
    ASSUME NEW d \in Delivery
    PROVE  /\ d.to = "settled" => d.msg.type = "OrderPaymentSettled"
           /\ d.to = "refund" => d.msg.type = "RefundPayment"
           /\ d.to = "reserve" => d = Command("ReserveStock", "reserve")
           /\ d.to = "release" => d = Command("ReleaseStock", "release")
<1>1. d.msg \in Message /\ d.msg.type \in Consumes[d.to] /\ d = [msg |-> d.msg, to |-> d.to]
  BY DEF Delivery
<1>2. /\ d.to = "settled" => d.msg.type = "OrderPaymentSettled"
      /\ d.to = "refund" => d.msg.type = "RefundPayment"
      /\ d.to = "reserve" => d.msg.type = "ReserveStock"
      /\ d.to = "release" => d.msg.type = "ReleaseStock"
  BY <1>1 DEF Consumes
<1>3. d.msg.type \in {"ReserveStock", "ReleaseStock"} => d.msg = Once(d.msg.type)
  BY <1>1 DEF Message, Once
<1> QED
  BY <1>1, <1>2, <1>3 DEF Command
-----------------------------------------------------------------------------
(* The table.                                                              *)

Running == {"PaymentPending", "Confirmed", "Processing"}

\* What the invariants need of a transition m.
Sound(m) ==
    /\ m.to \in SagaStates \ {"none"}
    /\ m.from = "Cancelled" => m.to = "LatePaymentRefunding"
    /\ m.from \in Late => m.to \in Late
    /\ m.to = "PaymentPending" => m.from = "Placed" /\ m.on = "StockReserved"
    /\ m.to = "Confirmed" => m.from = "PaymentPending" /\ m.on = "PaymentCompleted"
    /\ m.to = "Processing" => m.from = "Confirmed"
    /\ m.to = "Shipped" => m.from = "Processing"
    /\ m.to = "Delivered" => m.from = "Shipped"
    /\ m.to \in Late => m.from \in Ended
    /\ m.from = "Cancelled" => m.on = "PaymentCompleted"
    /\ m.from \in Sold /\ m.to \notin Sold => m.on = "CustomerCancellation"
    /\ m.from \in {"Shipped", "Delivered"} => m.to \in Sold

\* ... and of the messages it publishes.
SoundPublish(m) ==
    /\ "PaymentCompleted" \notin m.publish
    /\ "StockReserved" \notin m.publish
    /\ "CustomerCancellation" \notin m.publish
    /\ "RefundPayment" \in m.publish => m.to \in Late
    /\ "ReleaseStock" \in m.publish => m.from \in Running /\ m.to = "Cancelled"
    /\ "ReserveStock" \in m.publish => m.from = "none"
    /\ "OrderPaymentSettled" \in m.publish => m.to = "Confirmed"
    /\ "ProjectProcessing" \in m.publish => m.to = "Processing"
    /\ "ProjectShipped" \in m.publish => m.to = "Shipped"
    /\ "ProjectDelivered" \in m.publish => m.to = "Delivered"

LEMMA MovesAreSound ==
    ASSUME NEW m \in Moves
    PROVE  Sound(m) /\ SoundPublish(m)
<1>1. CASE m \in Forward
  BY <1>1 DEF Forward, Move, Sound, SoundPublish, SagaStates, Sold, Late, Ended, Running
<1>2. CASE m \in CancelPlaced
  BY <1>2 DEF CancelPlaced, Move, Sound, SoundPublish, SagaStates, Sold, Late, Ended, Running
<1>3. CASE m \in CancelPaymentPending
  BY <1>3 DEF CancelPaymentPending, Move, Sound, SoundPublish, SagaStates, Sold, Late, Ended,
              Running
<1>4. CASE m \in CancelByCustomer
  BY <1>4 DEF CancelByCustomer, Move, Sound, SoundPublish, SagaStates, Sold, Late, Ended, Running
<1>5. CASE m \in LateRefund
  BY <1>5 DEF LateRefund, Move, Sound, SoundPublish, SagaStates, Sold, Late, Ended, Running
<1> QED
  BY <1>1, <1>2, <1>3, <1>4, <1>5 DEF Moves

LEMMA Ranks ==
    /\ Rank["Confirmed"] = 1 /\ Rank["Processing"] = 2
    /\ Rank["Shipped"] = 3 /\ Rank["Delivered"] = 4
BY DEF Rank, Sold
-----------------------------------------------------------------------------
(* The parts a step leaves alone: its variables are unchanged and it sends *)
(* none of the messages the part speaks about.                             *)

PaidTypes == {"PaymentCompleted", "RefundPayment"}
HeldTypes == {"ReserveStock", "ReleaseStock", "StockReserved"}
RowTypes  == {"CustomerCancellation", "OrderPaymentSettled", "ProjectProcessing",
              "ProjectShipped", "ProjectDelivered"}

LEMMA PaidQuiet ==
    ASSUME PaidInv, UNCHANGED <<saga, paymentVars>>,
           NEW msgs, Grows(msgs), \A m \in msgs : m.type \notin PaidTypes
    PROVE  PaidInv'
<1>1. \A type \in PaidTypes : On(type)' => On(type)
  BY DEF Grows
<1> QED
  BY <1>1 DEF PaidInv, paymentVars, PaidTypes

LEMMA HeldQuiet ==
    ASSUME HeldInv, UNCHANGED <<saga, stockVars>>,
           NEW msgs, Grows(msgs), \A m \in msgs : m.type \notin HeldTypes
    PROVE  HeldInv'
<1>1. \A type \in HeldTypes : On(type)' => On(type)
  BY DEF Grows
<1> QED
  BY <1>1 DEF HeldInv, stockVars, AllHeld, Line, HeldTypes

LEMMA BoundQuiet ==
    ASSUME Types, BoundInv, UNCHANGED <<saga, stockVars>>,
           NEW msgs, Grows(msgs), \A m \in msgs : m.type \notin HeldTypes
    PROVE  BoundInv'
<1>1. failures \in Int /\ failures' \in Int /\ failures <= failures'
  BY CheckoutAssumption DEF Types, Grows
<1>2. \A l \in Line : held[l] \in Int
  BY DEF Types
<1>3. Once("ReserveStock") \notin msgs /\ Once("ReleaseStock") \notin msgs
  BY DEF Once, HeldTypes
<1>4. /\ Due("ReserveStock", "reserve")' => Due("ReserveStock", "reserve")
      /\ Due("ReleaseStock", "release")' => Due("ReleaseStock", "release")
  BY <1>3 DEF Grows
<1> QED
  BY <1>1, <1>2, <1>4 DEF BoundInv, stockVars, Line

LEMMA RowQuiet ==
    ASSUME RowInv, UNCHANGED <<order, cancel, parcel, recounted, saga>>,
           NEW msgs, Grows(msgs), \A m \in msgs : m.type \notin RowTypes
    PROVE  RowInv'
<1>1. \A type \in RowTypes : On(type)' => On(type)
  BY DEF Grows
<1> QED
  BY <1>1 DEF RowInv, RowAheadOnlyByDesk, RowTypes

\* A step that sends nothing and changes none of the rows.
LEMMA QuietStep ==
    ASSUME IInv, UNCHANGED <<order, cancel, parcel, recounted, saga, stockVars, paymentVars>>,
           NEW msgs, Grows(msgs),
           \A m \in msgs : m.type \notin PaidTypes \union HeldTypes \union RowTypes
    PROVE  PaidInv' /\ HeldInv' /\ BoundInv' /\ RowInv'
BY PaidQuiet, HeldQuiet, BoundQuiet, RowQuiet DEF IInv
-----------------------------------------------------------------------------
(* The order service.                                                      *)

\* Skipped, ignored, faulted and other consumers' deliveries.
LEMMA IdleSteps ==
    ASSUME IInv, NEW d \in wire, Skip(d) \/ SagaIgnore(d) \/ SagaFault(d) \/ Others(d)
    PROVE  IInv'
<1>1. d \in Delivery /\ Types
  BY DEF IInv, Types
<1>2. CASE Skip(d) \/ SagaFault(d)
  <2>1. wire' = wire \ {d} /\ UNCHANGED <<order, outbox, cancel, parcel, recounted, saga,
                                          processed, stockVars,
                                        paymentVars, happened, failures>>
    BY <1>2 DEF Skip, SagaFault, orderVars
  <2>2. Grows({})
    BY <1>1, <2>1, DropStep
  <2>3. Types'
    BY <1>1, <2>1 DEF Types, stockVars, paymentVars
  <2> QED
    BY <2>1, <2>2, <2>3, QuietStep DEF IInv
<1>3. CASE SagaIgnore(d) \/ Others(d)
  <2>1. Complete(d, {}) /\ UNCHANGED <<order, outbox, cancel, parcel, recounted, saga,
                                       stockVars, paymentVars, happened>>
    BY <1>3 DEF SagaIgnore, Others, orderVars
  <2>2. Grows({}) /\ processed' \subseteq {"order", "inventory", "payment"} \X Message
    BY <1>1, <2>1, CompleteStep, KeyType DEF Types
  <2>3. Types'
    BY <1>1, <2>1, <2>2 DEF Types, stockVars, paymentVars, Grows
  <2> QED
    BY <2>1, <2>2, <2>3, QuietStep DEF IInv
<1> QED
  BY <1>2, <1>3

LEMMA RelayStep ==
    ASSUME IInv, Relay
    PROVE  IInv'
<1>1. Types
  BY DEF IInv
<1>2. Grows({Once("OrderPlaced")})
  BY <1>1, SendStep DEF Relay
<1>3. UNCHANGED <<order, cancel, parcel, recounted, saga, stockVars, paymentVars>>
  BY DEF Relay
<1>4. Types'
  BY <1>1, <1>2 DEF Types, Relay, Grows, stockVars, paymentVars
<1> QED
  BY <1>2, <1>3, <1>4, QuietStep DEF IInv, Once, PaidTypes, HeldTypes, RowTypes

LEMMA HappenStep ==
    ASSUME IInv, NEW e \in External, Happen(e)
    PROVE  IInv'
<1>1. Types
  BY DEF IInv
<1>2. Grows({Once(e)})
  BY <1>1, SendStep DEF Happen
<1>3. UNCHANGED <<order, outbox, cancel, parcel, recounted, saga, processed, stockVars,
                  paymentVars, failures>>
  BY DEF Happen, orderVars
<1>4. Types'
  BY <1>1, <1>2, <1>3 DEF Types, Happen, Grows, stockVars, paymentVars
<1>5. e \notin PaidTypes \union HeldTypes \union RowTypes
  BY CheckoutAssumption DEF Timeouts, Fulfilment, PaidTypes, HeldTypes, RowTypes
<1> QED
  BY <1>2, <1>3, <1>4, <1>5, QuietStep DEF IInv, Once

LEMMA CancelSteps ==
    ASSUME IInv, NEW c \in Cancels, CancelOrder(c) \/ PublishCancellation(c)
    PROVE  IInv'
<1>1. Types /\ RowInv
  BY DEF IInv
<1> DEFINE told == {[type |-> "CustomerCancellation", by |-> c]}
<1>2. Grows(told)
  <2>1. CASE CancelOrder(c)
    BY <1>1, <2>1, SendStep DEF CancelOrder
  <2>2. CASE PublishCancellation(c)
    BY <1>1, <2>2, SendStep DEF PublishCancellation
  <2> QED
    BY <2>1, <2>2
<1>3. UNCHANGED <<outbox, parcel, recounted, saga, processed, stockVars, paymentVars, happened>>
  BY DEF CancelOrder, PublishCancellation
<1>4. cancel' \in [Cancels -> {"none", "committed", "published", "lost"}]
  BY <1>1 DEF CancelOrder, PublishCancellation, Types
<1>5. /\ order' \in {order, "Cancelled"}
      /\ recounted # "revived" => order' = "Cancelled"
  BY <1>1 DEF CancelOrder, PublishCancellation, RowInv
<1>6. Types'
  BY <1>1, <1>2, <1>3, <1>4, <1>5 DEF Types, Grows, stockVars, paymentVars
<1>7. PaidInv' /\ HeldInv' /\ BoundInv'
  <2>1. \A m \in told : m.type \notin PaidTypes \union HeldTypes
    BY DEF PaidTypes, HeldTypes
  <2> QED
    BY <1>2, <1>3, <2>1, PaidQuiet, HeldQuiet, BoundQuiet DEF IInv
<1>8. RowInv'
  BY <1>3, <1>5 DEF RowInv, RowAheadOnlyByDesk, Sold
<1> QED
  BY <1>6, <1>7, <1>8 DEF IInv

\* The desk: it moves the row of an order that is not cancelled only once the
\* saga has confirmed it.
LEMMA DeskSteps ==
    ASSUME IInv, ShipOrder \/ DeliverOrder \/ RecountLines
    PROVE  IInv'
<1>1. Types /\ RowInv
  BY DEF IInv
<1>2. UNCHANGED <<outbox, cancel, saga, wire, processed, stockVars, paymentVars, happened,
                  failures>>
  BY DEF ShipOrder, DeliverOrder, RecountLines, Desk
<1>3. Grows({})
  BY <1>1, <1>2, SendStep
<1>4. /\ order' \in {"PaymentPending", "Cancelled", "Partly"} \union Sold
      /\ parcel' \in BOOLEAN /\ recounted' \in {"no", "yes", "revived"}
  BY <1>1 DEF Types, ShipOrder, DeliverOrder, RecountLines, Derived, Sold
<1>5. Types'
  BY <1>1, <1>2, <1>3, <1>4 DEF Types, Grows, stockVars, paymentVars
<1>6. PaidInv' /\ HeldInv' /\ BoundInv'
  BY <1>2, <1>3, PaidQuiet, HeldQuiet, BoundQuiet DEF IInv
<1>7. RowInv'
  <2> SUFFICES ASSUME recounted' # "revived"
               PROVE  RowInv'
    BY DEF RowInv
  <2>1. /\ recounted # "revived"
        /\ order \in Sold \union {"Partly"}
        /\ parcel' \/ recounted' # "no"
        /\ parcel => parcel'
        /\ recounted' = "no" => recounted = "no"
    BY <1>1 DEF Types, ShipOrder, DeliverOrder, RecountLines, Sold
  <2>2. saga \in Sold /\ order # "Cancelled"
    BY <1>1, <2>1 DEF RowInv, RowAheadOnlyByDesk, Sold
  <2>3. \A type : On(type)' = On(type)
    BY <1>2 DEF On
  <2>4. RowAheadOnlyByDesk'
    BY <1>2, <2>1, <2>2 DEF RowAheadOnlyByDesk
  <2> QED
    BY <1>1, <1>2, <2>1, <2>2, <2>3, <2>4 DEF RowInv
<1> QED
  BY <1>5, <1>6, <1>7 DEF IInv

LEMMA SagaMoveStep ==
    ASSUME IInv, NEW d \in wire, SagaMove(d)
    PROVE  IInv'
<1>1. d \in Delivery /\ Types /\ PaidInv /\ HeldInv /\ BoundInv /\ RowInv
  BY DEF IInv, Types
<1>2. PICK m \in Moves : /\ m.from = saga /\ m.on = d.msg.type /\ saga' = m.to
                         /\ Complete(d, {Once(type) : type \in m.publish})
  BY DEF SagaMove
<1> DEFINE msgs == {Once(type) : type \in m.publish}
<1>3. Sound(m) /\ SoundPublish(m)
  BY MovesAreSound
<1>4. UNCHANGED <<order, outbox, cancel, parcel, recounted, held, line, tx, declines, match,
                  charged, refunded, charging,
                  hook, happened>>
  BY DEF SagaMove, orderVars, stockVars, paymentVars
<1>5. Grows(msgs) /\ processed' \subseteq {"order", "inventory", "payment"} \X Message
  BY <1>1, <1>2, CompleteStep, KeyType DEF Types
<1>6. \A type : On(type)' => On(type) \/ type \in m.publish
  BY <1>5 DEF Grows, Once
<1>7. \A type, endpoint : Due(type, endpoint)' => Due(type, endpoint) \/ type \in m.publish
  <2>1. \A type : Once(type).type = type
    BY DEF Once
  <2>2. \A type : Once(type) \in msgs => type \in m.publish
    BY <2>1
  <2> QED
    BY <1>5, <2>2 DEF Grows
<1>8. On(m.on)
  BY <1>2 DEF On
<1>9. Types'
  BY <1>1, <1>2, <1>3, <1>4, <1>5 DEF Types, Grows, Sound
<1> HIDE DEF msgs
<1>10. PaidInv'
  BY <1>1, <1>2, <1>3, <1>4, <1>6, <1>8 DEF PaidInv, Sound, SoundPublish, Late, Ended, Sold
<1>11. HeldInv'
  <2>1. /\ On("ReserveStock")' => saga' # "none"
        /\ On("ReleaseStock")' => saga' \in Ended
    BY <1>1, <1>2, <1>3, <1>6 DEF HeldInv, Sound, SoundPublish, Late, Ended
  <2>2. On("StockReserved")' => On("StockReserved")
    BY <1>3, <1>6 DEF SoundPublish
  <2>3. saga' \notin Ended => saga \notin Ended
    BY <1>2, <1>3 DEF Sound, Late, Ended
  <2>4. saga' \in {"PaymentPending"} \union Sold => AllHeld
    BY <1>1, <1>2, <1>3, <1>8 DEF HeldInv, Sound, Sold, Late, Ended
  <2>5. AllHeld' = AllHeld
    BY <1>4 DEF AllHeld, Line
  <2> QED
    BY <1>1, <1>4, <2>1, <2>2, <2>3, <2>4, <2>5 DEF HeldInv, Line
<1>12. BoundInv'
  <2>1. failures \in Int /\ failures' \in Int /\ failures <= failures' /\ 0 <= failures
    BY <1>1, <1>5, CheckoutAssumption DEF Types, Grows
  <2>2. \A l \in Line : held[l] \in Int
    BY <1>1 DEF Types
  <2>3. saga' # "none"
    BY <1>2, <1>3 DEF Sound
  <2>4. Due("ReserveStock", "reserve")' =>
          Due("ReserveStock", "reserve") \/ \A l \in Line : held[l] = 0
    BY <1>1, <1>2, <1>3, <1>7 DEF SoundPublish, BoundInv
  <2>5. Due("ReleaseStock", "release")' => Due("ReleaseStock", "release") \/ AllHeld
    BY <1>1, <1>2, <1>3, <1>7 DEF SoundPublish, HeldInv, Running, Sold
  <2> QED
    BY <1>1, <1>4, <2>1, <2>2, <2>3, <2>4, <2>5 DEF BoundInv, Line, AllHeld
<1>13. RowInv'
  <2> SUFFICES ASSUME recounted # "revived"
               PROVE  RowInv'
    BY <1>4 DEF RowInv
  <2>1. saga \in Sold /\ saga' \notin Sold => order = "Cancelled"
    BY <1>1, <1>2, <1>3, <1>8 DEF RowInv, Sound
  <2>2. /\ saga \in {"Processing", "Shipped", "Delivered"} /\ saga' \in Sold
             => saga' \in {"Processing", "Shipped", "Delivered"}
        /\ saga \in {"Shipped", "Delivered"} => saga' \in {"Shipped", "Delivered"}
        /\ saga = "Delivered" => saga' = "Delivered"
    BY <1>2, <1>3 DEF Sound, Sold
  <2>3. saga \in Sold /\ saga' \in Sold => Rank[saga] <= Rank[saga']
    BY <1>2, <1>3, Ranks DEF Sound, Sold
  <2>4. \A r \in Sold : Rank[r] \in Int
    BY Ranks DEF Sold
  <2>5. RowAheadOnlyByDesk'
    BY <1>1, <1>4, <2>1, <2>3, <2>4 DEF RowInv, RowAheadOnlyByDesk, Sold
  <2>6. On("CustomerCancellation")' => order' = "Cancelled"
    BY <1>1, <1>3, <1>4, <1>6 DEF RowInv, SoundPublish
  <2>7. /\ On("OrderPaymentSettled")' /\ order' # "Cancelled" => saga' \in Sold
        /\ On("ProjectProcessing")' /\ order' # "Cancelled" =>
             saga' \in {"Processing", "Shipped", "Delivered"}
    BY <1>1, <1>2, <1>3, <1>4, <1>6, <2>1, <2>2 DEF RowInv, SoundPublish, Sold
  <2>8. /\ On("ProjectShipped")' /\ order' # "Cancelled" => saga' \in {"Shipped", "Delivered"}
        /\ On("ProjectDelivered")' /\ order' # "Cancelled" => saga' = "Delivered"
    BY <1>1, <1>2, <1>3, <1>4, <1>6, <2>1, <2>2 DEF RowInv, SoundPublish, Sold
  <2> QED
    BY <1>1, <1>4, <2>5, <2>6, <2>7, <2>8 DEF RowInv
<1> QED
  BY <1>9, <1>10, <1>11, <1>12, <1>13 DEF IInv

\* The three consumers that update the row.
LEMMA RowSteps ==
    ASSUME IInv, NEW d \in wire, Settle(d) \/ CancelRow(d) \/ Project(d)
    PROVE  IInv'
<1>1. d \in Delivery /\ Types /\ RowInv
  BY DEF IInv, Types
<1>2. Complete(d, {}) /\ UNCHANGED <<outbox, cancel, parcel, recounted, saga, stockVars,
                                     paymentVars, happened>>
  BY DEF Settle, CancelRow, Project, SetStatus
<1>3. Grows({}) /\ processed' \subseteq {"order", "inventory", "payment"} \X Message
  BY <1>1, <1>2, CompleteStep, KeyType DEF Types
<1>4. On(d.msg.type)
  BY DEF On
<1>5. \/ order' = order
      \/ order = "PaymentPending" /\ order' = "Confirmed" /\ On("OrderPaymentSettled")
      \/ order = "PaymentPending" /\ order' = "Cancelled"
      \/ order = "Confirmed" /\ order' = "Processing" /\ On("ProjectProcessing")
      \/ order = "Processing" /\ order' = "Shipped" /\ On("ProjectShipped")
      \/ order = "Shipped" /\ order' = "Delivered" /\ On("ProjectDelivered")
  BY <1>1, <1>4, Routing DEF Settle, CancelRow, Project, SetStatus, Handles
<1>6. Types'
  BY <1>1, <1>2, <1>3, <1>5 DEF Types, Grows, stockVars, paymentVars, Sold
<1>7. PaidInv' /\ HeldInv' /\ BoundInv'
  BY <1>2, <1>3, PaidQuiet, HeldQuiet, BoundQuiet DEF IInv
<1>8. RowInv'
  <2> SUFFICES ASSUME recounted # "revived"
               PROVE  RowInv'
    BY <1>2 DEF RowInv
  <2>1. \A type : On(type)' => On(type)
    BY <1>3 DEF Grows
  <2>2. order = "Cancelled" => order' = "Cancelled"
    BY <1>5
  <2>3. RowAheadOnlyByDesk'
    BY <1>1, <1>2, <1>5, Ranks DEF RowInv, RowAheadOnlyByDesk, Sold
  <2> QED
    BY <1>1, <1>2, <2>1, <2>2, <2>3 DEF RowInv
<1> QED
  BY <1>6, <1>7, <1>8 DEF IInv
-----------------------------------------------------------------------------
(* The inventory service.                                                  *)

\* The end of a handler of the inventory service: its pass over the lines is
\* over and the delivery recorded, or a failure pays for another pass.
LEMMA PassEnds ==
    ASSUME IInv, NEW d \in wire, NEW h \in {"reserve", "release"}, d.to = h, NEW msgs,
           Complete(d, msgs), line' = [line EXCEPT ![h] = 1],
           UNCHANGED <<order, outbox, cancel, parcel, recounted, saga, held, paymentVars,
                       happened>>,
           \A m \in msgs : m.type \notin PaidTypes \union RowTypes
                            \union {"ReserveStock", "ReleaseStock"},
           (\E m \in msgs : m.type = "StockReserved") /\ saga \notin Ended => AllHeld
    PROVE  IInv'
<1>1. d \in Delivery /\ Types /\ HeldInv /\ BoundInv
  BY DEF IInv, Types
<1>2. /\ Grows(msgs)
      /\ processed' \in {processed, processed \union {Key(d)}}
      /\ Key(d) \in processed' \/ failures' = failures + 1
  BY <1>1, CompleteStep
<1>3. processed' \subseteq {"order", "inventory", "payment"} \X Message
  BY <1>1, <1>2, KeyType DEF Types
<1>4. line' \in [{"reserve", "release"} -> 1..(LineCount + 1)]
  BY <1>1, CheckoutAssumption DEF Types
<1>5. Types'
  BY <1>1, <1>2, <1>3, <1>4 DEF Types, Grows, paymentVars
<1>6. PaidInv' /\ RowInv'
  BY <1>2, PaidQuiet, RowQuiet DEF IInv
<1>7. HeldInv'
  <2>1. /\ On("ReserveStock")' => On("ReserveStock")
        /\ On("ReleaseStock")' => On("ReleaseStock")
        /\ On("StockReserved")' => On("StockReserved") \/ \E m \in msgs : m.type = "StockReserved"
    BY <1>2 DEF Grows
  <2>2. \A l \in Line : l < line'["reserve"] => l < line["reserve"]
    BY <1>1, CheckoutAssumption DEF Line, Types
  <2>3. AllHeld' = AllHeld
    BY DEF AllHeld, Line
  <2> QED
    BY <1>1, <2>1, <2>2, <2>3 DEF HeldInv, Line
<1>8. BoundInv'
  <2>1. failures \in Int /\ failures' \in Int /\ failures <= failures'
    BY <1>1, <1>2, CheckoutAssumption DEF Types, Grows
  <2>2. \A l \in Line : held[l] \in Int
    BY <1>1 DEF Types
  <2>3. Once("ReserveStock") \notin msgs /\ Once("ReleaseStock") \notin msgs
    BY DEF Once
  <2>4. /\ Due("ReserveStock", "reserve")' => Due("ReserveStock", "reserve")
        /\ Due("ReleaseStock", "release")' => Due("ReleaseStock", "release")
    BY <1>2, <2>3 DEF Grows
  <2>5. CASE h = "reserve"
    <3>1. d = Command("ReserveStock", "reserve")
      BY <1>1, <2>5, Routing
    <3>2. Due("ReserveStock", "reserve")' => failures' = failures + 1
      BY <1>2, <3>1 DEF Due, Processed, Key, Command, Once, Service
    <3>3. line'["release"] = line["release"]
      BY <1>1, <2>5 DEF Types
    <3> QED
      BY <1>1, <2>1, <2>2, <2>4, <3>2, <3>3 DEF BoundInv, Line
  <2>6. CASE h = "release"
    <3>1. d = Command("ReleaseStock", "release")
      BY <1>1, <2>6, Routing
    <3>2. Due("ReleaseStock", "release")' => failures' = failures + 1
      BY <1>2, <3>1 DEF Due, Processed, Key, Command, Once, Service
    <3>3. line'["reserve"] = line["reserve"]
      BY <1>1, <2>6 DEF Types
    <3> QED
      BY <1>1, <2>1, <2>2, <2>4, <3>2, <3>3 DEF BoundInv, Line
  <2> QED
    BY <2>5, <2>6
<1> QED
  BY <1>5, <1>6, <1>7, <1>8 DEF IInv

LEMMA PassEndSteps ==
    ASSUME IInv, NEW d \in wire, ReserveRefused(d) \/ ReserveDone(d) \/ ReleaseDone(d)
    PROVE  IInv'
<1>1. HeldInv
  BY DEF IInv
<1>2. CASE ReserveRefused(d)
  <2>1. /\ d.to = "reserve" /\ Complete(d, {Once("StockReservationFailed")})
        /\ line' = [line EXCEPT !["reserve"] = 1]
        /\ UNCHANGED <<order, outbox, cancel, parcel, recounted, saga, held, paymentVars,
                       happened>>
    BY <1>2 DEF ReserveRefused, Handles, orderVars
  <2> QED
    BY <2>1, PassEnds DEF Once, PaidTypes, RowTypes
<1>3. CASE ReserveDone(d)
  <2>1. /\ d.to = "reserve" /\ Complete(d, {Once("StockReserved")})
        /\ line' = [line EXCEPT !["reserve"] = 1]
        /\ UNCHANGED <<order, outbox, cancel, parcel, recounted, saga, held, paymentVars,
                       happened>>
        /\ line["reserve"] = LineCount + 1
    BY <1>3 DEF ReserveDone, Handles, orderVars
  <2>2. saga \notin Ended => AllHeld
    BY <1>1, <2>1, CheckoutAssumption DEF HeldInv, AllHeld, Line
  <2> QED
    BY <2>1, <2>2, PassEnds DEF Once, PaidTypes, RowTypes
<1>4. CASE ReleaseDone(d)
  <2>1. /\ d.to = "release" /\ Complete(d, {})
        /\ line' = [line EXCEPT !["release"] = 1]
        /\ UNCHANGED <<order, outbox, cancel, parcel, recounted, saga, held, paymentVars,
                       happened>>
    BY <1>4 DEF ReleaseDone, Handles, orderVars
  <2> QED
    BY <2>1, PassEnds
<1> QED
  BY <1>2, <1>3, <1>4

\* A step that neither sends nor acknowledges anything.
LEMMA StillStep ==
    ASSUME Types, UNCHANGED <<wire, processed>>, failures' = failures \/ Fail
    PROVE  Grows({})
BY SendStep

LEMMA ReserveLineStep ==
    ASSUME IInv, NEW d \in wire, ReserveLine(d)
    PROVE  IInv'
<1>1. d \in Delivery /\ Types /\ HeldInv /\ BoundInv
  BY DEF IInv, Types
<1> DEFINE k == line["reserve"]
<1>2. /\ k \in Line /\ ~Processed(d) /\ d.to = "reserve"
      /\ held' = [held EXCEPT ![k] = @ + 1]
      /\ line' = [line EXCEPT !["reserve"] = @ + 1]
      /\ UNCHANGED <<order, outbox, cancel, parcel, recounted, saga, wire, processed,
                     paymentVars, happened, failures>>
  BY DEF ReserveLine, Handles, orderVars
<1>3. d = Command("ReserveStock", "reserve") /\ Due("ReserveStock", "reserve")
  BY <1>1, <1>2, Routing DEF Due
<1>4. On("ReserveStock")
  BY <1>3 DEF On, Command, Once
<1>5. Grows({})
  BY <1>1, <1>2, StillStep
<1>6. /\ held' \in [Line -> Int] /\ held[k] \in Int /\ held'[k] = held[k] + 1
      /\ \A l \in Line \ {k} : held'[l] = held[l]
      /\ \A l \in Line : held[l] \in Int
  BY <1>1, <1>2 DEF Types
<1>7. /\ line' \in [{"reserve", "release"} -> 1..(LineCount + 1)]
      /\ line'["reserve"] = k + 1 /\ line'["release"] = line["release"]
  BY <1>1, <1>2, CheckoutAssumption DEF Types, Line
<1>8. k \in Int /\ failures \in Int /\ \A l \in Line : l \in Int
  BY <1>1, <1>2, CheckoutAssumption DEF Types, Line
<1> HIDE DEF k
<1>9. Types'
  BY <1>1, <1>2, <1>6, <1>7 DEF Types, paymentVars
<1>10. PaidInv' /\ RowInv'
  BY <1>2, <1>5, PaidQuiet, RowQuiet DEF IInv
<1>11. HeldInv'
  <2>1. AllHeld => AllHeld'
    BY <1>2, <1>6 DEF AllHeld, Line
  <2>2. \A type : On(type)' => On(type)
    BY <1>2 DEF On
  <2>3. ASSUME saga \notin Ended, NEW l \in Line
        PROVE  held'[l] >= 0 /\ (l < line'["reserve"] => held'[l] >= 1)
    <3>1. held[l] >= 0 /\ (l < k => held[l] >= 1)
      BY <1>1, <2>3 DEF HeldInv, k
    <3> QED
      BY <3>1, <1>6, <1>7, <1>8
  <2> QED
    BY <1>1, <1>2, <2>1, <2>2, <2>3 DEF HeldInv, Line
<1>12. BoundInv'
  <2>1. held[k] <= failures /\ saga # "none"
    BY <1>1, <1>2, <1>3, <1>4, <1>8 DEF BoundInv, HeldInv, k
  <2>2. /\ Due("ReserveStock", "reserve")' = Due("ReserveStock", "reserve")
        /\ Due("ReleaseStock", "release")' = Due("ReleaseStock", "release")
    BY <1>2 DEF Due, Processed
  <2>3. \A l \in Line : held'[l] <= 1 + failures /\ held'[l] >= -failures
    BY <1>1, <1>6, <1>8, <2>1 DEF BoundInv
  <2>4. Due("ReserveStock", "reserve") => \A l \in Line : l >= k + 1 => held'[l] <= failures
    BY <1>1, <1>6, <1>8 DEF BoundInv, k
  <2>5. Due("ReleaseStock", "release") =>
          \A l \in Line : l >= line["release"] => held'[l] >= 1 - failures
    BY <1>1, <1>6, <1>8 DEF BoundInv
  <2> QED
    BY <1>2, <1>7, <2>1, <2>2, <2>3, <2>4, <2>5 DEF BoundInv, Line
<1> QED
  BY <1>9, <1>10, <1>11, <1>12 DEF IInv

LEMMA ReleaseLineStep ==
    ASSUME IInv, NEW d \in wire, ReleaseLine(d)
    PROVE  IInv'
<1>1. d \in Delivery /\ Types /\ HeldInv /\ BoundInv
  BY DEF IInv, Types
<1> DEFINE k == line["release"]
<1>2. /\ k \in Line /\ ~Processed(d) /\ d.to = "release"
      /\ held' = [held EXCEPT ![k] = @ - 1]
      /\ line' = [line EXCEPT !["release"] = @ + 1]
      /\ UNCHANGED <<order, outbox, cancel, parcel, recounted, saga, wire, processed,
                     paymentVars, happened, failures>>
  BY DEF ReleaseLine, Handles, orderVars
<1>3. d = Command("ReleaseStock", "release") /\ Due("ReleaseStock", "release")
  BY <1>1, <1>2, Routing DEF Due
<1>4. saga \in Ended
  BY <1>1, <1>3 DEF On, Command, Once, HeldInv
<1>5. Grows({})
  BY <1>1, <1>2, StillStep
<1>6. /\ held' \in [Line -> Int] /\ held[k] \in Int /\ held'[k] = held[k] - 1
      /\ \A l \in Line \ {k} : held'[l] = held[l]
      /\ \A l \in Line : held[l] \in Int
  BY <1>1, <1>2 DEF Types
<1>7. /\ line' \in [{"reserve", "release"} -> 1..(LineCount + 1)]
      /\ line'["release"] = k + 1 /\ line'["reserve"] = line["reserve"]
  BY <1>1, <1>2, CheckoutAssumption DEF Types, Line
<1>8. k \in Int /\ failures \in Int /\ \A l \in Line : l \in Int
  BY <1>1, <1>2, CheckoutAssumption DEF Types, Line
<1> HIDE DEF k
<1>9. Types'
  BY <1>1, <1>2, <1>6, <1>7 DEF Types, paymentVars
<1>10. PaidInv' /\ RowInv'
  BY <1>2, <1>5, PaidQuiet, RowQuiet DEF IInv
<1>11. HeldInv'
  <2>1. saga' \in Ended /\ saga' \notin {"none", "PaymentPending"} \union Sold
    BY <1>2, <1>4 DEF Ended, Late, Sold
  <2> QED
    BY <2>1 DEF HeldInv
<1>12. BoundInv'
  <2>1. held[k] >= 1 - failures /\ saga # "none"
    BY <1>1, <1>2, <1>3, <1>4, <1>8 DEF BoundInv, k, Ended, Late
  <2>2. /\ Due("ReserveStock", "reserve")' = Due("ReserveStock", "reserve")
        /\ Due("ReleaseStock", "release")' = Due("ReleaseStock", "release")
    BY <1>2 DEF Due, Processed
  <2>3. \A l \in Line : held'[l] <= 1 + failures /\ held'[l] >= -failures
    BY <1>1, <1>6, <1>8, <2>1 DEF BoundInv
  <2>4. Due("ReserveStock", "reserve") =>
          \A l \in Line : l >= line["reserve"] => held'[l] <= failures
    BY <1>1, <1>6, <1>8 DEF BoundInv
  <2>5. Due("ReleaseStock", "release") => \A l \in Line : l >= k + 1 => held'[l] >= 1 - failures
    BY <1>1, <1>6, <1>8 DEF BoundInv, k
  <2> QED
    BY <1>2, <1>7, <2>1, <2>2, <2>3, <2>4, <2>5 DEF BoundInv, Line
<1> QED
  BY <1>9, <1>10, <1>11, <1>12 DEF IInv

LEMMA RestartStep ==
    ASSUME IInv, NEW h \in {"reserve", "release"}, Restart(h)
    PROVE  IInv'
<1>1. Types /\ HeldInv /\ BoundInv
  BY DEF IInv
<1>2. /\ failures' = failures + 1 /\ Fail /\ line' = [line EXCEPT ![h] = 1]
      /\ UNCHANGED <<order, outbox, cancel, parcel, recounted, saga, wire, processed, held,
                     paymentVars, happened>>
  BY DEF Restart, Fail, orderVars
<1>3. Grows({})
  BY <1>1, <1>2, StillStep
<1>4. /\ line' \in [{"reserve", "release"} -> 1..(LineCount + 1)]
      /\ line'["reserve"] <= line["reserve"]
      /\ line'["reserve"] = line["reserve"] \/ line'["reserve"] = 1
      /\ line["reserve"] \in Int
  BY <1>1, <1>2, CheckoutAssumption DEF Types
<1>5. Types'
  BY <1>1, <1>2, <1>3, <1>4 DEF Types, Grows, paymentVars
<1>6. PaidInv' /\ RowInv'
  BY <1>2, <1>3, PaidQuiet, RowQuiet DEF IInv
<1>7. HeldInv'
  <2>1. AllHeld' = AllHeld /\ \A type : On(type)' = On(type)
    BY <1>2 DEF AllHeld, Line, On
  <2>2. \A l \in Line : l < line'["reserve"] => l < line["reserve"]
    BY <1>4, CheckoutAssumption DEF Line
  <2> QED
    BY <1>1, <1>2, <2>1, <2>2 DEF HeldInv, Line
<1>8. BoundInv'
  <2>1. failures \in Int /\ failures' = failures + 1
    BY <1>1, <1>2, CheckoutAssumption DEF Types
  <2>2. \A l \in Line : held[l] \in Int
    BY <1>1 DEF Types
  <2> QED
    BY <1>1, <1>2, <2>1, <2>2 DEF BoundInv, Line
<1> QED
  BY <1>5, <1>6, <1>7, <1>8 DEF IInv
-----------------------------------------------------------------------------
(* The payment service.                                                    *)

\* A step of the payment service leaves the stock and the row alone.
LEMMA PaymentFrame ==
    ASSUME IInv, UNCHANGED <<order, outbox, cancel, parcel, recounted, saga, stockVars,
                             happened>>,
           NEW msgs, Grows(msgs), \A m \in msgs : m.type \notin HeldTypes \union RowTypes
    PROVE  HeldInv' /\ BoundInv' /\ RowInv'
BY HeldQuiet, BoundQuiet, RowQuiet DEF IInv

LEMMA ChargeSteps ==
    ASSUME IInv, NEW d \in wire, ChargeAgain(d) \/ ChargeMismatch(d) \/ ChargeRecord(d)
    PROVE  IInv'
<1>1. d \in Delivery /\ Types /\ PaidInv
  BY DEF IInv, Types
<1>2. PICK type \in {"PaymentCompleted", "PaymentFailed"} :
        /\ Complete(d, {[type |-> type, by |-> "charge"]})
        /\ type = "PaymentCompleted" => charged
        /\ tx' = tx \/ (tx' = Settled /\ charging)
        /\ charging' = charging \/ charging' = FALSE
        /\ UNCHANGED <<order, outbox, cancel, parcel, recounted, saga, stockVars, declines,
                       match, charged, refunded, hook,
                       happened>>
  BY <1>1 DEF ChargeAgain, ChargeMismatch, ChargeRecord, Told, Outcome, Settled, PaidInv, orderVars,
              paymentVars
<1> DEFINE msgs == {[type |-> type, by |-> "charge"]}
<1>3. Grows(msgs) /\ processed' \subseteq {"order", "inventory", "payment"} \X Message
  BY <1>1, <1>2, CompleteStep, KeyType DEF Types
<1>4. tx' \in {"initiated", "completed", "failed", "refunded"} /\ charging' \in BOOLEAN
  BY <1>1, <1>2 DEF Types, Settled
<1>5. Types'
  BY <1>1, <1>2, <1>3, <1>4 DEF Types, Grows, stockVars
<1>6. HeldInv' /\ BoundInv' /\ RowInv'
  BY <1>2, <1>3, PaymentFrame DEF HeldTypes, RowTypes
<1>7. PaidInv'
  <2>1. /\ On("PaymentCompleted")' => On("PaymentCompleted") \/ type = "PaymentCompleted"
        /\ On("RefundPayment")' => On("RefundPayment")
    BY <1>3 DEF Grows
  <2>2. tx' = tx \/ (tx' = "failed" /\ declines) \/ (tx' = "completed" /\ ~declines /\ charged)
    BY <1>1, <1>2 DEF Settled, PaidInv
  <2>3. charging' => charging
    BY <1>2
  <2>4. /\ tx' = "completed" => charged' /\ ~declines'
        /\ tx' = "refunded" => charged'
    BY <1>1, <1>2, <2>2 DEF PaidInv
  <2>5. (charging' \/ hook' \in {"sent", "read"}) /\ ~declines' => charged'
    BY <1>1, <1>2, <2>3 DEF PaidInv
  <2> QED
    BY <1>1, <1>2, <2>1, <2>4, <2>5 DEF PaidInv
<1> QED
  BY <1>5, <1>6, <1>7 DEF IInv

LEMMA RefundSteps ==
    ASSUME IInv, NEW d \in wire, RefundAgain(d) \/ RefundSkipped(d) \/ Refund(d) \/ RefundCrash(d)
    PROVE  IInv'
<1>1. d \in Delivery /\ Types /\ PaidInv
  BY DEF IInv, Types
<1>2. d.to = "refund" /\ On("RefundPayment")
  BY <1>1, Routing DEF RefundAgain, RefundSkipped, Refund, RefundCrash, Handles, On
<1>3. saga \in Late /\ UNCHANGED <<order, outbox, cancel, parcel, recounted, saga, stockVars,
                                   declines, match, charged,
                                  charging, hook, happened>>
  BY <1>1, <1>2 DEF RefundAgain, RefundSkipped, Refund, RefundCrash, orderVars, paymentVars, PaidInv
<1>4. \/ UNCHANGED <<tx, refunded>>
      \/ tx = "completed" /\ refunded' = TRUE /\ tx' \in {"completed", "refunded"}
  BY DEF RefundAgain, RefundSkipped, Refund, RefundCrash, paymentVars
<1>5. PICK msgs \in {{}, {Once("PaymentRefunded")}} : 
        Grows(msgs) /\ processed' \subseteq {"order", "inventory", "payment"} \X Message
  <2>1. CASE RefundCrash(d)
    BY <1>1, <2>1, StillStep DEF RefundCrash, Types
  <2>2. CASE RefundSkipped(d)
    BY <1>1, <2>2, CompleteStep, KeyType DEF RefundSkipped, Types
  <2>3. CASE RefundAgain(d) \/ Refund(d)
    BY <1>1, <2>3, CompleteStep, KeyType DEF RefundAgain, Refund, Types
  <2> QED
    BY <2>1, <2>2, <2>3
<1>6. \A m \in msgs : m.type \notin HeldTypes \union RowTypes \union PaidTypes
  BY <1>5 DEF Once, HeldTypes, RowTypes, PaidTypes
<1>7. Types'
  <2>1. refunded' \in BOOLEAN /\ tx' \in {"initiated", "completed", "failed", "refunded"}
    BY <1>1, <1>4 DEF Types
  <2> QED
    BY <1>1, <1>3, <1>5, <2>1 DEF Types, Grows, stockVars
<1>8. HeldInv' /\ BoundInv' /\ RowInv'
  BY <1>3, <1>5, <1>6, PaymentFrame
<1>9. PaidInv'
  <2>1. \A type \in PaidTypes : On(type)' => On(type)
    BY <1>5, <1>6 DEF Grows
  <2> QED
    BY <1>1, <1>3, <1>4, <2>1 DEF PaidInv, PaidTypes
<1> QED
  BY <1>7, <1>8, <1>9 DEF IInv

\* Steps of the payment service that publish nothing, and the webhook.
LEMMA GatewaySteps ==
    ASSUME IInv, \/ \E d \in wire : Charge(d)
                 \/ ChargeCrash \/ GatewayReports \/ Webhook
    PROVE  IInv'
<1>1. Types /\ PaidInv
  BY DEF IInv
<1>2. UNCHANGED <<order, outbox, cancel, parcel, recounted, saga, stockVars, declines, match,
                  refunded, processed, happened>>
  BY DEF Charge, ChargeCrash, GatewayReports, Webhook, HookRead, HookAct, HookCrash, orderVars
<1>3. PICK msgs \in {{}, {Told("webhook")}} :
        /\ Grows(msgs)
        /\ \A m \in msgs : m.type = Outcome /\ hook = "read"
  <2>1. CASE HookAct
    <3>1. Grows({Told("webhook")})
      BY <1>1, <2>1, SendStep DEF HookAct
    <3> QED
      BY <2>1, <3>1 DEF HookAct, Told
  <2>2. CASE ~HookAct
    <3>1. UNCHANGED <<wire, processed>> /\ (failures' = failures \/ Fail)
      BY <2>2 DEF Charge, ChargeCrash, GatewayReports, Webhook, HookRead, HookCrash
    <3> QED
      BY <1>1, <3>1, StillStep
  <2> QED
    BY <2>1, <2>2
<1>4. Types'
  <2>1. charged' \in BOOLEAN /\ charging' \in BOOLEAN
    BY <1>1 DEF Types, Charge, ChargeCrash, GatewayReports, Webhook, HookRead, HookAct, HookCrash
  <2>2. hook' \in {"none", "sent", "read", "done"}
    BY <1>1 DEF Types, Charge, ChargeCrash, GatewayReports, Webhook, HookRead, HookAct, HookCrash
  <2>3. tx' \in {"initiated", "completed", "failed", "refunded"}
    BY <1>1 DEF Types, Settled, Charge, ChargeCrash, GatewayReports, Webhook, HookRead, HookAct,
                HookCrash
  <2> QED
    BY <1>1, <1>2, <1>3, <2>1, <2>2, <2>3 DEF Types, Grows, stockVars
<1>5. HeldInv' /\ BoundInv' /\ RowInv'
  BY <1>2, <1>3, PaymentFrame DEF Outcome, HeldTypes, RowTypes
<1>6. PaidInv'
  <2>1. /\ On("PaymentCompleted")' => On("PaymentCompleted") \/ (hook = "read" /\ ~declines)
        /\ On("RefundPayment")' => On("RefundPayment")
    BY <1>3 DEF Grows, Outcome
  <2>2. charged => charged'
    BY DEF Charge, ChargeCrash, GatewayReports, Webhook, HookRead, HookAct, HookCrash
  <2>3. (charging' \/ hook' \in {"sent", "read"}) /\ ~declines => charged'
    BY <1>1 DEF PaidInv, Charge, ChargeCrash, GatewayReports, Webhook, HookRead, HookAct, HookCrash
  <2>4. tx' = tx \/ (tx' = Settled /\ hook = "read")
    BY DEF Charge, ChargeCrash, GatewayReports, Webhook, HookRead, HookAct, HookCrash
  <2> QED
    BY <1>1, <1>2, <2>1, <2>2, <2>3, <2>4 DEF PaidInv, Settled
<1> QED
  BY <1>4, <1>5, <1>6 DEF IInv
-----------------------------------------------------------------------------
(* The theorems.                                                           *)

LEMMA InitHolds == Init => IInv
<1> SUFFICES ASSUME Init PROVE IInv
  OBVIOUS
<1>1. wire = {} /\ \A type : ~On(type)
  BY DEF Init, On
<1>2. ~Due("ReserveStock", "reserve") /\ ~Due("ReleaseStock", "release")
  BY <1>1 DEF Due
<1>3. Types
  <2>1. /\ declines \in BOOLEAN /\ charged \in BOOLEAN
        /\ refunded \in BOOLEAN /\ charging \in BOOLEAN
    BY CheckoutAssumption, Zenon DEF Init
  <2>2. held \in [Line -> Int] /\ line \in [{"reserve", "release"} -> 1..(LineCount + 1)]
    BY CheckoutAssumption DEF Init, Line
  <2>3. /\ cancel \in [Cancels -> {"none", "committed", "published", "lost"}]
        /\ parcel \in BOOLEAN /\ match \in {"same", "method", "no"}
    BY CheckoutAssumption DEF Init
  <2> QED
    BY <2>1, <2>2, <2>3, CheckoutAssumption DEF Init, Types, SagaStates
<1>4. PaidInv
  BY <1>1 DEF Init, PaidInv, Sold
<1>5. HeldInv
  BY <1>1, CheckoutAssumption DEF Init, HeldInv, Sold, Line
<1>6. BoundInv
  BY <1>2 DEF Init, BoundInv
<1>7. RowInv
  BY <1>1 DEF Init, RowInv, RowAheadOnlyByDesk, Sold
<1> QED
  BY <1>3, <1>4, <1>5, <1>6, <1>7 DEF IInv

LEMMA StepHolds == IInv /\ [Next]_vars => IInv'
<1> SUFFICES ASSUME IInv, [Next]_vars PROVE IInv'
  OBVIOUS
<1>1. CASE Deliver
  <2> PICK d \in wire : Skip(d) \/ Handle(d)
    BY <1>1 DEF Deliver
  <2>1. CASE Skip(d) \/ SagaIgnore(d) \/ SagaFault(d) \/ Others(d)
    BY <2>1, IdleSteps
  <2>2. CASE SagaMove(d)
    BY <2>2, SagaMoveStep
  <2>3. CASE Settle(d) \/ CancelRow(d) \/ Project(d)
    BY <2>3, RowSteps
  <2>4. CASE ReserveLine(d)
    BY <2>4, ReserveLineStep
  <2>5. CASE ReleaseLine(d)
    BY <2>5, ReleaseLineStep
  <2>6. CASE ReserveRefused(d) \/ ReserveDone(d) \/ ReleaseDone(d)
    BY <2>6, PassEndSteps
  <2>7. CASE Charge(d)
    BY <2>7, GatewaySteps
  <2>8. CASE ChargeAgain(d) \/ ChargeMismatch(d) \/ ChargeRecord(d)
    BY <2>8, ChargeSteps
  <2>9. CASE RefundAgain(d) \/ RefundSkipped(d) \/ Refund(d) \/ RefundCrash(d)
    BY <2>9, RefundSteps
  <2> QED
    BY <2>1, <2>2, <2>3, <2>4, <2>5, <2>6, <2>7, <2>8, <2>9 DEF Handle
<1>2. CASE Relay
  BY <1>2, RelayStep
<1>3. CASE \E c \in Cancels : CancelOrder(c) \/ PublishCancellation(c)
  BY <1>3, CancelSteps
<1>4. CASE Restart("reserve") \/ Restart("release")
  BY <1>4, RestartStep
<1>5. CASE ChargeCrash \/ GatewayReports \/ Webhook
  BY <1>5, GatewaySteps
<1>6. CASE \E e \in External : Happen(e)
  BY <1>6, HappenStep
<1>7. CASE ShipOrder \/ DeliverOrder \/ RecountLines
  BY <1>7, DeskSteps
<1>8. CASE UNCHANGED vars
  <2>1. /\ UNCHANGED <<order, outbox, cancel, parcel, recounted, saga, wire, processed, held,
                       line, tx, declines, match, charged,
                      refunded, charging, hook, happened, failures>>
    BY <1>8 DEF vars, orderVars, stockVars, paymentVars
  <2> QED
    BY <2>1 DEF IInv, Types, PaidInv, HeldInv, BoundInv, RowInv, RowAheadOnlyByDesk, On, Due,
                Processed, AllHeld, Line
<1> QED
  BY <1>1, <1>2, <1>3, <1>4, <1>5, <1>6, <1>7, <1>8 DEF Next

THEOREM Invariance == Spec => []IInv
<1> QED
  BY InitHolds, StepHolds, PTL DEF Spec

\* The bounds of TypeOK: a line is never reserved more than once plus once for
\* every failure, nor given back more often than it was reserved plus once for
\* every failure, whatever the messages do.
THEOREM HeldIsBounded == Spec => []TypeOK
<1>1. IInv => TypeOK
  <2> SUFFICES ASSUME IInv PROVE TypeOK
    OBVIOUS
  <2>1. Types /\ BoundInv
    BY DEF IInv
  <2>2. failures \in Int
    BY <2>1, CheckoutAssumption DEF Types
  <2>3. held \in [Line -> (-failures)..(1 + failures)]
    <3>1. \A l \in Line : held[l] \in (-failures)..(1 + failures)
      BY <2>1, <2>2 DEF Types, BoundInv
    <3> QED
      BY <2>1, <3>1 DEF Types
  <2> QED
    BY <2>1, <2>3 DEF Types, TypeOK
<1> QED
  BY <1>1, Invariance, PTL

\* What the saga ships is paid for, not refunded, and reserved line by line.
THEOREM SoldIsPaidAndHeld == Spec => []ConfirmedIsPaidAndHeld
<1>1. IInv => ConfirmedIsPaidAndHeld
  BY DEF IInv, PaidInv, HeldInv, ConfirmedIsPaidAndHeld, AllHeld, Sold, Late
<1> QED
  BY <1>1, Invariance, PTL

\* The read model shows as sold only what the saga has confirmed and not
\* cancelled, and runs ahead of it only by a shipment or a counted line's move,
\* until a recount rewrites a cancelled row.
THEOREM RowFollowsSaga == Spec => []RowAheadOnlyByDesk
<1>1. IInv => RowAheadOnlyByDesk
  BY DEF IInv, RowInv, RowAheadOnlyByDesk
<1> QED
  BY <1>1, Invariance, PTL

\* Money goes back only for an order that was cancelled before it was paid.
THEOREM OnlyLatePaymentsRefunded == Spec => []RefundOnlyLate
<1>1. IInv => RefundOnlyLate
  BY DEF IInv, PaidInv, RowInv, RowAheadOnlyByDesk, RefundOnlyLate, Late, Sold
<1> QED
  BY <1>1, Invariance, PTL
=============================================================================
