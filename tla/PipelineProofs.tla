--------------------------- MODULE PipelineProofs ---------------------------
(* Proofs about the composition, for any number of requests, orders and      *)
(* copies of a message.                                                      *)
EXTENDS PipelineInv, TLAPS

LEMMA Start == Init => PipelineInvariant
<1> SUFFICES ASSUME Init PROVE PipelineInvariant
  OBVIOUS
<1>1. /\ order = [r \in Requests |-> NoOrder] /\ txs = {}
      /\ committed = {} /\ stored = {} /\ published = {} /\ persisted = {}
  BY DEF Init, Payments!Init, Delivery!Init, Handling!Init
<1> QED BY <1>1 DEF PipelineInvariant, OrderTypes, OutboxIsLedger, Flows, KeysPayOnce, Asked

(* One payment is made, under a key that has not paid.                       *)
LEMMA OnePayment ==
  ASSUME PipelineInvariant, NEW r \in Requests, Payments!Pay(r)
  PROVE  /\ order' = order
         /\ \E t \in Tx : /\ txs' = txs \union {t}
                          /\ t.order.key = NoKey \/ \A u \in txs : u.order.key # t.order.key
<1>1. order[r] # NoOrder /\ order' = order
  BY DEF Payments!Pay
<1>2. PICK n \in 1..MaxAttempts : txs' = txs \union {[by |-> r, n |-> n, order |-> order[r]]}
  BY DEF Payments!Pay
<1>3. [by |-> r, n |-> n, order |-> order[r]] \in Tx
  BY <1>1 DEF PipelineInvariant, OrderTypes, Tx
<1>4. order[r].key = NoKey \/ \A u \in txs : u.order.key # order[r].key
  BY DEF Payments!Pay
<1> QED BY <1>1, <1>2, <1>3, <1>4

LEMMA PaySteps ==
  ASSUME PipelineInvariant, NEW r \in Requests, Pay(r)
  PROVE  PipelineInvariant'
<1> USE DEF PipelineInvariant
<1>1. Payments!Pay(r) /\ committed' = committed \union Asked(txs' \ txs)
      /\ UNCHANGED <<stored, marked, published, persisted, acked, dlq>>
  BY DEF Pay, adviceVars
<1>2. PICK t \in Tx : /\ txs' = txs \union {t} /\ order' = order
                      /\ t.order.key = NoKey \/ \A u \in txs : u.order.key # t.order.key
  BY <1>1, OnePayment
<1>3. OrderTypes'
  BY <1>2 DEF OrderTypes
<1>4. OutboxIsLedger'
  BY <1>1, <1>2 DEF OutboxIsLedger, Asked
<1>5. Flows'
  BY <1>1 DEF Flows
<1>6. KeysPayOnce'
  BY <1>2 DEF KeysPayOnce
<1> QED BY <1>3, <1>4, <1>5, <1>6

LEMMA TalkSteps ==
  ASSUME PipelineInvariant, Lose \/ (\E r \in Requests : Talk(r))
  PROVE  PipelineInvariant'
<1> USE DEF PipelineInvariant
<1>1. UNCHANGED <<txs, committed, stored, published, persisted>>
  BY DEF Lose, Talk, Payments!Lose, Payments!Submit, Payments!Reply, relayVars, adviceVars
<1>2. order' \in [Requests -> Orders \union {NoOrder}]
  BY DEF OrderTypes, Lose, Talk, Payments!Lose, Payments!Submit, Payments!Reply
<1> QED BY <1>1, <1>2 DEF OrderTypes, OutboxIsLedger, Flows, KeysPayOnce, Asked

LEMMA DeliverySteps ==
  ASSUME PipelineInvariant, NEW t \in Tx, Send(t) \/ Mark(t)
  PROVE  PipelineInvariant'
<1> USE DEF PipelineInvariant
<1>1. UNCHANGED <<order, txs, committed, persisted>>
  BY DEF Send, Mark, Delivery!Store, Delivery!Mark, Handling!Publish, payVars, adviceVars
<1>2. OrderTypes' /\ OutboxIsLedger' /\ KeysPayOnce'
  BY <1>1 DEF OrderTypes, OutboxIsLedger, KeysPayOnce, Asked
<1>3. CASE Send(t)
  <2>1. t \in committed /\ stored' = stored \union {t}
    BY <1>3 DEF Send, Delivery!Store
  <2>2. PICK c \in 1..MaxCopies : published' = published \union {[tx |-> t, copy |-> c]}
    BY <1>3 DEF Send, Handling!Publish
  <2>3. [tx |-> t, copy |-> c] \in Messages /\ [tx |-> t, copy |-> c].tx = t
    BY DEF Messages
  <2>4. Flows'
    BY <1>1, <2>1, <2>2, <2>3 DEF Flows
  <2> QED BY <1>2, <2>4
<1>4. CASE Mark(t)
  BY <1>1, <1>2, <1>4 DEF Mark, Delivery!Mark, adviceVars, Flows
<1> QED BY <1>3, <1>4

LEMMA AdviceSteps ==
  ASSUME PipelineInvariant,
         (\E t \in Tx : Persist(t)) \/ (\E m \in Messages : Settle(m))
  PROVE  PipelineInvariant'
<1> USE DEF PipelineInvariant
<1>1. UNCHANGED <<order, txs, committed, stored, published>>
  BY DEF Persist, Settle, Handling!Persist, Handling!Ack, Handling!DeadLetter, payVars, relayVars
<1>2. OrderTypes' /\ OutboxIsLedger' /\ KeysPayOnce'
  BY <1>1 DEF OrderTypes, OutboxIsLedger, KeysPayOnce, Asked
<1>3. ASSUME NEW t \in Tx, Persist(t) PROVE Flows'
  <2>1. persisted' = persisted \union {t} /\ \E m \in published : TxOf[m] = t
    BY <1>3 DEF Persist, Handling!Persist
  <2>2. \A m \in published : TxOf[m] = m.tx
    BY DEF Flows, TxOf
  <2> QED BY <1>1, <2>1, <2>2 DEF Flows
<1>4. ASSUME NEW m \in Messages, Settle(m) PROVE Flows'
  BY <1>1, <1>4 DEF Flows, Settle, Handling!Ack, Handling!DeadLetter
<1> QED BY <1>2, <1>3, <1>4

LEMMA Steps == PipelineInvariant /\ [Next]_vars => PipelineInvariant'
<1> SUFFICES ASSUME PipelineInvariant, [Next]_vars PROVE PipelineInvariant'
  OBVIOUS
<1>1. CASE UNCHANGED vars
  BY <1>1 DEF vars, payVars, relayVars, adviceVars, PipelineInvariant, OrderTypes,
              OutboxIsLedger, Flows, KeysPayOnce, Asked
<1>2. CASE Next
  BY <1>2, PaySteps, TalkSteps, DeliverySteps, AdviceSteps DEF Next
<1> QED BY <1>1, <1>2

(* The parts agree on what has been paid, sent and advised.                  *)
THEOREM Invariance == Spec => []PipelineInvariant
  BY Start, Steps, PTL DEF Spec

(* Nobody is advised on what was not paid for, and a key is advised on once. *)
THEOREM AdviceIsOnPayments == Spec => []AdviceIsPaidFor
<1>1. PipelineInvariant => AdviceIsPaidFor
  <2> SUFFICES ASSUME PipelineInvariant PROVE AdviceIsPaidFor
    OBVIOUS
  <2>1. persisted \subseteq Asked(txs)
    BY DEF PipelineInvariant, Flows, OutboxIsLedger
  <2> QED BY <2>1 DEF PipelineInvariant, KeysPayOnce, AdviceIsPaidFor, Asked
<1> QED BY <1>1, Invariance, PTL

-----------------------------------------------------------------------------
(* In the composition each part still does what it promises alone.           *)
LEMMA PaymentsKept == [Next]_vars => [Payments!Next]_<<order, balance, txs, answer>>
<1> SUFFICES ASSUME [Next]_vars PROVE [Payments!Next]_<<order, balance, txs, answer>>
  OBVIOUS
<1>1. ASSUME NEW r \in Requests, Pay(r) \/ Talk(r) PROVE Payments!Next
  BY <1>1 DEF Pay, Talk, Payments!Next
<1>2. ASSUME Lose PROVE Payments!Next
  BY <1>2 DEF Lose, Payments!Next
<1>3. ASSUME NEW t \in Tx, Send(t) \/ Mark(t) \/ Persist(t) PROVE UNCHANGED <<order, balance, txs, answer>>
  BY <1>3 DEF Send, Mark, Persist, payVars
<1>4. ASSUME NEW m \in Messages, Settle(m) PROVE UNCHANGED <<order, balance, txs, answer>>
  BY <1>4 DEF Settle, payVars
<1> QED BY <1>1, <1>2, <1>3, <1>4 DEF Next, vars, payVars

LEMMA DeliveryKept ==
  PipelineInvariant /\ [Next]_vars => [Delivery!Next]_<<committed, stored, marked>>
<1> SUFFICES ASSUME PipelineInvariant, [Next]_vars PROVE [Delivery!Next]_<<committed, stored, marked>>
  OBVIOUS
<1>1. ASSUME NEW r \in Requests, Pay(r) PROVE [Delivery!Next]_<<committed, stored, marked>>
  <2>1. committed' = committed \union Asked(txs' \ txs) /\ UNCHANGED <<stored, marked>>
    BY <1>1 DEF Pay
  <2>2. PICK t \in Tx : txs' = txs \union {t}
    BY <1>1, OnePayment DEF Pay
  <2>3. Asked(txs' \ txs) = {} \/ Asked(txs' \ txs) = {t}
    BY <2>2 DEF Asked
  <2>4. UNCHANGED committed \/ Delivery!Commit(t)
    BY <2>1, <2>3 DEF Delivery!Commit
  <2> QED BY <2>1, <2>4 DEF Delivery!Next
<1>2. ASSUME NEW t \in Tx, Send(t) \/ Mark(t) PROVE Delivery!Next
  <2>1. {t} \in SUBSET Tx
    OBVIOUS
  <2> QED BY <1>2, <2>1 DEF Send, Mark, Delivery!Next
<1>3. ASSUME \/ Lose \/ (\E r \in Requests : Talk(r)) \/ (\E t \in Tx : Persist(t))
             \/ (\E m \in Messages : Settle(m))
      PROVE  UNCHANGED <<committed, stored, marked>>
  BY <1>3 DEF Lose, Talk, Persist, Settle, relayVars
<1> QED BY <1>1, <1>2, <1>3 DEF Next, vars, relayVars

LEMMA HandlingKept == [Next]_vars => [Handling!Next]_<<published, persisted, acked, dlq>>
<1> SUFFICES ASSUME [Next]_vars PROVE [Handling!Next]_<<published, persisted, acked, dlq>>
  OBVIOUS
<1>1. ASSUME NEW t \in Tx, Send(t) PROVE Handling!Next
  BY <1>1 DEF Send, Handling!Next, Messages
<1>2. ASSUME NEW t \in Tx, Persist(t) PROVE Handling!Next
  BY <1>2 DEF Persist, Handling!Next
<1>3. ASSUME NEW m \in Messages, Settle(m) PROVE Handling!Next
  BY <1>3 DEF Settle, Handling!Next
<1>4. ASSUME \/ Lose \/ (\E r \in Requests : Pay(r) \/ Talk(r)) \/ (\E t \in Tx : Mark(t))
      PROVE  UNCHANGED <<published, persisted, acked, dlq>>
  BY <1>4 DEF Lose, Pay, Talk, Mark, adviceVars
<1> QED BY <1>1, <1>2, <1>3, <1>4 DEF Next, vars, adviceVars

(* The composition implements the promise of each of its parts, so the parts *)
(* can be replaced by the detailed modules that are shown to keep them.      *)
THEOREM EveryPartKeepsItsPromise ==
  Spec => Payments!Spec /\ Delivery!SafeSpec /\ Handling!SafeSpec
<1>1. Init => Payments!Init /\ Delivery!Init /\ Handling!Init
  BY DEF Init
<1>2. [Payments!Next]_<<order, balance, txs, answer>> => [Payments!Next]_Payments!vars
  BY DEF Payments!vars
<1>3. [Delivery!Next]_<<committed, stored, marked>> => [Delivery!Next]_Delivery!promise
  BY DEF Delivery!promise
<1>4. [Handling!Next]_<<published, persisted, acked, dlq>> => [Handling!Next]_Handling!promise
  BY DEF Handling!promise
<1> QED BY <1>1, <1>2, <1>3, <1>4, PaymentsKept, DeliveryKept, HandlingKept, Invariance, PTL
        DEF Spec, Payments!Spec, Delivery!SafeSpec, Handling!SafeSpec
=============================================================================
