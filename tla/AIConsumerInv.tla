--------------------------- MODULE AIConsumerInv ----------------------------
(* What the consumers of smartbancs.ai.queue must keep.                      *)
EXTENDS AIConsumer

(* Type invariant, with the prefetch window of basic_qos.                    *)
TypeOK ==
  /\ published \in SUBSET Messages /\ queue \in SUBSET Messages
  /\ acked \in SUBSET Messages /\ dlq \in SUBSET Messages
  /\ link \in [Consumers -> Links]
  /\ held \in [Consumers -> SUBSET Messages]
  /\ \A c \in Consumers : Cardinality(held[c]) <= Prefetch
  /\ buffer \in [Consumers -> SUBSET Messages]
  /\ at \in [Consumers -> Steps]
  /\ cur \in [Consumers -> Messages \union {NoMessage}]
  /\ attempt \in [Consumers -> 1..MaxAttempts]
  /\ request \in [Consumers -> Stages \union Replies]
  /\ orphans \in [Txs -> [Stages -> Nat]]
  /\ rows \in [Txs -> Nat]
  /\ transient \in Nat /\ permanent \in Nat /\ losses \in Nat

(* "ack SOLO cuando el backend confirmo la persistencia" (consumer.py:4).    *)
AckedArePersisted == \A m \in acked : m \notin Malformed /\ rows[TxOf[m]] > 0

(* A message is in one place: ready, delivered to one consumer, acknowledged *)
(* or in the DLQ. No loss of a connection, retry or crash drops or doubles it. *)
NothingLost ==
  /\ \A m \in published :
       m \in queue \union acked \union dlq \/ \E c \in Consumers : m \in held[c]
  /\ queue \intersect acked = {} /\ queue \intersect dlq = {} /\ acked \intersect dlq = {}
  /\ \A c \in Consumers : held[c] \intersect (queue \union acked \union dlq) = {}
  /\ \A c, d \in Consumers : c # d => held[c] \intersect held[d] = {}

(* Redelivered messages, duplicated events, retried and orphaned POSTs leave *)
(* one recommendation per transaction (uq_ai_recs_transaction).              *)
OneRecommendation == \A t \in Txs : rows[t] <= 1

(* A valid message is given up only after a permanent failure or as many     *)
(* transient ones as there are attempts.                                     *)
GivenUpForAReason ==
  dlq \ Malformed # {} => permanent > 0 \/ transient >= MaxAttempts

(* On an open connection a consumer works on, and answers for, deliveries of *)
(* that connection: tags of an earlier one would close the channel.          *)
OwnDeliveries ==
  \A c \in Consumers : link[c] = "up" =>
    /\ buffer[c] \subseteq held[c]
    /\ at[c] # "idle" => cur[c] \in held[c] \ buffer[c]

(* Every message that is published is acknowledged or dead-lettered in the   *)
(* end: none is redelivered for ever.                                        *)
Settles == \A m \in Messages : m \in published ~> m \in acked \union dlq

Promise == INSTANCE IdempotentHandling WITH persisted <- {t \in Txs : rows[t] > 0}

(* The consumers and the endpoint keep the promise of the docstring.         *)
KeepsPromise == Promise!SafeSpec

-----------------------------------------------------------------------------
(* The parts of the inductive invariant.                                     *)

(* Whatever is anywhere was published.                                       *)
Known ==
  /\ queue \union acked \union dlq \subseteq published
  /\ \A c \in Consumers : held[c] \union buffer[c] \subseteq published
  /\ \A c \in Consumers : cur[c] # NoMessage => cur[c] \in published
  /\ \A t \in Txs, s \in Stages :
       orphans[t][s] > 0 => \E m \in published \ Malformed : TxOf[m] = t

(* A consumer without its connection holds nothing, one that is down does    *)
(* nothing.                                                                  *)
LinksMatch ==
  \A c \in Consumers :
    /\ link[c] # "up" => held[c] = {}
    /\ link[c] = "down" => at[c] = "idle" /\ buffer[c] = {}

(* Where the callback is tells what it is about and what it has achieved.    *)
WorkMatches ==
  \A c \in Consumers :
    /\ at[c] # "idle" => cur[c] \in Messages
    /\ at[c] \in {"analyze", "post", "await", "ack"} => cur[c] \notin Malformed
    /\ at[c] = "ack" \/ request[c] \in {"ok", "again"} => rows[Tx(c)] > 0
    /\ request[c] # "none" => at[c] = "await"

(* Every attempt after the first is paid for by a transient failure.         *)
AttemptsPaid ==
  \A c \in Consumers :
    /\ attempt[c] <= transient + 1
    /\ request[c] = "error" => attempt[c] <= transient
    /\ at[c] = "nack" => cur[c] \in Malformed \/ permanent > 0 \/ transient >= MaxAttempts

IInv ==
  /\ TypeOK /\ Known /\ NothingLost /\ LinksMatch /\ WorkMatches /\ OwnDeliveries
  /\ AckedArePersisted /\ OneRecommendation
  /\ AttemptsPaid /\ GivenUpForAReason
-----------------------------------------------------------------------------
(* What the handling of a delivery has left to do: the attempts, then the    *)
(* statements of create() the POST waits for, then the answer.               *)
Distance(c) ==
  IF at[c] = "analyze" THEN 9 ELSE IF at[c] = "post" THEN 8 ELSE
  IF at[c] # "await" THEN 1 ELSE
  IF request[c] = "find" THEN 7 ELSE IF request[c] = "insert" THEN 6 ELSE
  IF request[c] = "again" THEN 5 ELSE 4

StepsLeft(c) ==
  IF at[c] = "idle" THEN 0 ELSE 10 * (MaxAttempts - attempt[c]) + Distance(c)

Handling(c) == <<at[c], request[c], cur[c]>>

Nearer(c) ==
  /\ StepsLeft(c)' <= StepsLeft(c)
  /\ Handling(c)' # Handling(c) => StepsLeft(c)' < StepsLeft(c)

(* Why a delivery is not handled for ever (process_transaction_event and its *)
(* retries): whatever fails and whoever else moves, every step of its        *)
(* handling leaves less to do.                                               *)
HandlingRunsOut == [][\A c \in Consumers : at[c] # "idle" => Nearer(c)]_vars

(* A message is redelivered only because a connection or a consumer was lost *)
(* (consumer.py nacks with requeue=False).                                   *)
OnlyLossesRedeliver ==
  [][\A m \in published \ queue : m \in queue' => losses' = losses + 1]_vars

(* A callback in progress can always go on: a POST it waits for is being     *)
(* served, and there is a connection, open or lost, to answer on.            *)
NeverStuck ==
  \A c \in Consumers :
    /\ at[c] = "await" => request[c] # "none"
    /\ at[c] # "idle" => link[c] # "down"
=============================================================================
