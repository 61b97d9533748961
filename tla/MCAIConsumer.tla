---------------------------- MODULE MCAIConsumer ----------------------------
EXTENDS AIConsumerInv

CONSTANTS m1, m2, t1, t2

(* One message per transaction.                                              *)
Distinct == [m \in Messages |-> IF m = m1 THEN t1 ELSE t2]
=============================================================================
