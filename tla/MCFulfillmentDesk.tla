------------------------- MODULE MCFulfillmentDesk -------------------------
(* Instances of FulfillmentDesk for TLC. *)
EXTENDS FulfillmentDesk
=============================================================================
