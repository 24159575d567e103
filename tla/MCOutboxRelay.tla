--------------------------- MODULE MCOutboxRelay ---------------------------
(* The instance of OutboxRelay that OutboxDelivery.cfg gives its values.   *)
EXTENDS OutboxRelay
=============================================================================
