------------------------------ MODULE Pipeline ------------------------------
(***************************************************************************)
(* From a transfer to the advice about it: the promises of the transfer    *)
(* endpoint (IdempotentPayments), of the outbox (AtLeastOnceDelivery) and  *)
(* of the AI consumer (IdempotentHandling), put together where the code    *)
(* puts them together: the row of the outbox is written in the transaction *)
(* that pays, every message in smartbancs.ai.queue is a row that the relay *)
(* sent, and it is handled as often as it was sent.                        *)
(***************************************************************************)
EXTENDS Integers

CONSTANTS
  Requests, Accounts, Active, Opening, Orders, NoKey, NoOrder, MaxAttempts,
  MaxCopies      \* bound on how often the broker is given one event

VARIABLES
  order, balance, txs, answer,            \* those of IdempotentPayments
  committed, stored, marked,              \* those of AtLeastOnceDelivery
  published, persisted, acked, dlq        \* those of IdempotentHandling

payVars     == <<order, balance, txs, answer>>
relayVars   == <<committed, stored, marked>>
adviceVars  == <<published, persisted, acked, dlq>>
vars        == <<payVars, relayVars, adviceVars>>

(* An event transaction.created is known by its transaction, and a message   *)
(* by the event and by how often it was sent before.                         *)
Tx       == [by : Requests, n : 1..MaxAttempts, order : Orders]
Messages == [tx : Tx, copy : 1..MaxCopies]
TxOf     == [m \in Messages |-> m.tx]

Payments == INSTANCE IdempotentPayments
Delivery == INSTANCE AtLeastOnceDelivery WITH Events <- Tx
Handling == INSTANCE IdempotentHandling WITH Txs <- Tx, Malformed <- {}

Init == Payments!Init /\ Delivery!Init /\ Handling!Init

-----------------------------------------------------------------------------
Asked(ts) == {t \in ts : t.order.ai}

(* Variants: the event is written after the payment, or before it, in a      *)
(* transaction of its own.                                                   *)
PayThenAnnounce(r) ==
  /\ Payments!Pay(r)
  /\ committed' \in {committed, committed \union Asked(txs' \ txs)}
  /\ UNCHANGED <<stored, marked, adviceVars>>
AnnounceThenPay(r) ==
  /\ order[r] # NoOrder
  /\ committed' = committed \union Asked([by : {r}, n : {1}, order : {order[r]}])
  /\ Payments!Pay(r) \/ UNCHANGED payVars
  /\ UNCHANGED <<stored, marked, adviceVars>>

(* executeTransfer: the payment and its event in one transaction *)
Pay(r) ==
  /\ Payments!Pay(r)
  /\ committed' = committed \union Asked(txs' \ txs)
  /\ UNCHANGED <<stored, marked, adviceVars>>

(* The other steps of the endpoint concern nobody else. *)
Talk(r) == (Payments!Submit(r) \/ Payments!Reply(r)) /\ UNCHANGED <<relayVars, adviceVars>>
Lose    == Payments!Lose /\ UNCHANGED <<relayVars, adviceVars>>

(* The relay gives the broker an event, perhaps once more. *)
Send(t) ==
  /\ Delivery!Store({t})
  /\ \E c \in 1..MaxCopies :
       /\ \A d \in 1..c - 1 : [tx |-> t, copy |-> d] \in published
       /\ Handling!Publish([tx |-> t, copy |-> c])
  /\ UNCHANGED <<payVars>>

Mark(t) == Delivery!Mark({t}) /\ UNCHANGED <<payVars, adviceVars>>

(* The consumer persists a recommendation and settles each copy. *)
Persist(t) == Handling!Persist(t) /\ UNCHANGED <<payVars, relayVars>>
Settle(m)  == (Handling!Ack(m) \/ Handling!DeadLetter(m)) /\ UNCHANGED <<payVars, relayVars>>

Next ==
  \/ Lose
  \/ \E r \in Requests : Pay(r) \/ Talk(r)
  \/ \E t \in Tx : Send(t) \/ Mark(t) \/ Persist(t)
  \/ \E m \in Messages : Settle(m)

Spec == Init /\ [][Next]_vars

(* What OutboxRelay (EventuallyPublished) and AIConsumer (Settles)           *)
(* are shown to do in the end.                                               *)
FairSpec ==
  /\ Spec
  /\ \A t \in Tx : WF_vars(Send(t))
  /\ \A m \in Messages : WF_vars(Settle(m))

-----------------------------------------------------------------------------
(* Properties *)

(* Nobody is advised on a transfer that was not made, or that was made for a *)
(* load test, and retries under one key are advised on once, whatever was    *)
(* rolled back, sent twice or redelivered on the way (executeTransfer,       *)
(* flushBatch and process_transaction_event together).                       *)
AdviceIsPaidFor ==
  /\ persisted \subseteq Asked(txs)
  /\ \A t, u \in persisted : t.order.key # NoKey /\ t.order.key = u.order.key => t = u

(* Every transfer made for a client ends in a recommendation, or in the      *)
(* dead-letter queue for somebody to look at; in particular each one that a  *)
(* client was told of with a 201.                                            *)
EveryPaymentAdvised ==
  \A t \in Tx : t \in Asked(txs) ~> (t \in persisted \/ \E m \in dlq : m.tx = t)
=============================================================================
