------------------------- MODULE IdempotentHandling -------------------------
(* What the consumer of transaction.created promises (docstring of           *)
(* ai-service/consumer.py): a message is acknowledged only when the          *)
(* recommendation of its transaction is persisted, however often it is       *)
(* delivered; any other one ends in the dead-letter queue.                   *)
EXTENDS Naturals

CONSTANTS Messages, Txs, TxOf, Malformed

VARIABLES published, persisted, acked, dlq

promise == <<published, persisted, acked, dlq>>

Init == published = {} /\ persisted = {} /\ acked = {} /\ dlq = {}

Publish(m) ==
  /\ m \notin published /\ published' = published \union {m}
  /\ UNCHANGED <<persisted, acked, dlq>>

Persist(t) ==
  /\ t \notin persisted /\ persisted' = persisted \union {t}
  /\ \E m \in published \ Malformed : TxOf[m] = t
  /\ UNCHANGED <<published, acked, dlq>>

Pending(m) == m \in published \ (acked \union dlq)

Ack(m) ==
  /\ Pending(m) /\ m \notin Malformed /\ TxOf[m] \in persisted
  /\ acked' = acked \union {m}
  /\ UNCHANGED <<published, persisted, dlq>>

DeadLetter(m) ==
  /\ Pending(m)
  /\ dlq' = dlq \union {m}
  /\ UNCHANGED <<published, persisted, acked>>

Next ==
  \/ \E m \in Messages : Publish(m) \/ Ack(m) \/ DeadLetter(m)
  \/ \E t \in Txs : Persist(t)

SafeSpec == Init /\ [][Next]_promise
=============================================================================
