---------------------------- MODULE PipelineInv -----------------------------
(* The inductive invariant of Pipeline. *)
EXTENDS Pipeline

OrderTypes == order \in [Requests -> Orders \union {NoOrder}] /\ txs \subseteq Tx

(* The outbox holds one event for each payment that asked for one. *)
OutboxIsLedger == committed = Asked(txs)

(* What is downstream comes from upstream. *)
Flows ==
  /\ stored \subseteq committed
  /\ \A m \in published : m \in Messages /\ m.tx \in stored
  /\ \A t \in persisted : \E m \in published : m.tx = t

KeysPayOnce == \A t, u \in txs : t.order.key # NoKey /\ t.order.key = u.order.key => t = u

PipelineInvariant == OrderTypes /\ OutboxIsLedger /\ Flows /\ KeysPayOnce
=============================================================================
