------------------------- MODULE MCCommandDelivery -------------------------
(* One command, which both relayers may send more than once: the commands   *)
(* share nothing but the order of the queues.                               *)
EXTENDS CommandDelivery
=============================================================================
