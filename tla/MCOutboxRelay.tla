--------------------------- MODULE MCOutboxRelay ----------------------------
(* Small instances of OutboxRelay. *)
EXTENDS OutboxRelayInv, TLC

CONSTANTS a, b, e1, e2

(* e1 and e2 were created by the same transaction. *)
PairCreated == e1 :> 1 @@ e2 :> 1
=============================================================================
