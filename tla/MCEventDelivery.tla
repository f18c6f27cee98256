--------------------------- MODULE MCEventDelivery ---------------------------
(* EventDelivery with two events of one stream.                              *)
EXTENDS EventDelivery

CONSTANT s1

OneStream == [e \in 1 .. 2 |-> s1]
=============================================================================
