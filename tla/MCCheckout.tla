----------------------------- MODULE MCCheckout -----------------------------
(* The instance of Checkout that the Checkout*.cfg files give its values.   *)
EXTENDS Checkout

\* Bound: the desk moves the row of an order whose payment can go through, and
\* only in a behaviour without failures.
DeskAlone ==
    parcel' \/ recounted' # "no" => failures' = 0 /\ ~declines /\ match = "same"
=============================================================================
