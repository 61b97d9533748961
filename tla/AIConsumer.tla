----------------------------- MODULE AIConsumer -----------------------------
(* The consumers of smartbancs.ai.queue (ai-service/consumer.py) and the     *)
(* endpoint they post to (RecommendationsService.create in                   *)
(* backend/src/modules/recommendations). A consumer is one replica of the    *)
(* ai-service: one thread that handles one delivery at a time, while the     *)
(* broker may have delivered Prefetch of them. A POST that the consumer no   *)
(* longer waits for goes on in the backend as an orphan.                     *)
EXTENDS Naturals, FiniteSets

CONSTANTS
  Messages,     \* messages of the queue
  Txs,          \* transactions
  TxOf,         \* the transactionId of a message; duplicates share it
  Malformed,    \* messages the consumer finds invalid
  Consumers,    \* replicas of the ai-service
  NoMessage,    \* no delivery is being handled
  Prefetch,     \* prefetch_count of basic_qos
  MaxAttempts,  \* BACKEND_MAX_ATTEMPTS
  MaxTransient, \* bound on timeouts, refused connections and 5xx
  MaxPermanent, \* bound on 4xx and unexpected exceptions
  MaxLosses     \* bound on lost connections to the broker and crashes

ASSUME ConsumerAssumption ==
  /\ IsFiniteSet(Messages) /\ NoMessage \notin Messages
  /\ TxOf \in [Messages -> Txs] /\ Malformed \subseteq Messages
  /\ Prefetch \in Nat \ {0} /\ MaxAttempts \in Nat \ {0}
  /\ MaxTransient \in Nat /\ MaxPermanent \in Nat /\ MaxLosses \in Nat

VARIABLES
  published,   \* messages the relay has sent
  queue,       \* ready in smartbancs.ai.queue
  acked,       \* acknowledged
  dlq,         \* in smartbancs.ai.dlq
  link,        \* a consumer's connection: "up", "lost" unnoticed, "down"
  held,        \* delivered on the connection and unacknowledged, for the broker
  buffer,      \* delivered to the consumer and not handled yet
  at,          \* the step of process_transaction_event
  cur,         \* the message being handled
  attempt,     \* the attempt of post_recommendation_with_retries
  request,     \* the step of create() in the POST the consumer waits for
  orphans,     \* POSTs nobody waits for: how many per transaction and step
  rows,        \* rows of ai_recommendations per transaction
  transient, permanent, losses  \* failures so far

brokerVars  == <<published, queue, acked, dlq, held>>
workVars    == <<at, cur, attempt, request>>
backendVars == <<orphans, rows>>
failureVars == <<transient, permanent, losses>>
vars == <<brokerVars, link, buffer, workVars, backendVars, failureVars>>

Links  == {"up", "lost", "down"}
Steps  == {"idle", "analyze", "post", "await", "ack", "nack"}
Stages == {"find", "insert", "again"}         \* statements of create()
Replies == {"none", "ok", "error"}

Init ==
  /\ published = {} /\ queue = {} /\ acked = {} /\ dlq = {}
  /\ link = [c \in Consumers |-> "down"]
  /\ held = [c \in Consumers |-> {}]
  /\ buffer = [c \in Consumers |-> {}]
  /\ at = [c \in Consumers |-> "idle"]
  /\ cur = [c \in Consumers |-> NoMessage]
  /\ attempt = [c \in Consumers |-> 1]
  /\ request = [c \in Consumers |-> "none"]
  /\ orphans = [t \in Txs |-> [s \in Stages |-> 0]]
  /\ rows = [t \in Txs |-> 0]
  /\ transient = 0 /\ permanent = 0 /\ losses = 0

Transient == transient < MaxTransient /\ transient' = transient + 1 /\ UNCHANGED <<permanent, losses>>
Permanent == permanent < MaxPermanent /\ permanent' = permanent + 1 /\ UNCHANGED <<transient, losses>>
Loss == losses < MaxLosses /\ losses' = losses + 1 /\ UNCHANGED <<transient, permanent>>

Tx(c) == TxOf[cur[c]]
Goto(c, s) == at' = [at EXCEPT ![c] = s]

-----------------------------------------------------------------------------
(* RabbitMQ.                                                                 *)

Publish(m) ==
  /\ m \notin published /\ published' = published \union {m}
  /\ queue' = queue \union {m}
  /\ UNCHANGED <<acked, dlq, held, link, buffer, workVars, backendVars, failureVars>>

DeliverAutoAck(c, m) ==  \* mutant: basic_consume with auto_ack
  /\ link[c] = "up" /\ m \in queue /\ Cardinality(held[c]) < Prefetch
  /\ queue' = queue \ {m}
  /\ buffer' = [buffer EXCEPT ![c] = @ \union {m}]
  /\ UNCHANGED <<published, acked, dlq, held, link, workVars, backendVars, failureVars>>

Deliver(c, m) ==
  /\ link[c] = "up" /\ m \in queue /\ Cardinality(held[c]) < Prefetch
  /\ queue' = queue \ {m}
  /\ held' = [held EXCEPT ![c] = @ \union {m}]
  /\ buffer' = [buffer EXCEPT ![c] = @ \union {m}]
  /\ UNCHANGED <<published, acked, dlq, link, workVars, backendVars, failureVars>>

(* The broker sees the connection end and requeues what it had delivered.    *)
Requeue(c) ==
  /\ queue' = queue \union held[c]
  /\ held' = [held EXCEPT ![c] = {}]
  /\ UNCHANGED <<published, acked, dlq>>

LinkLost(c) ==
  /\ link[c] = "up" /\ Loss
  /\ link' = [link EXCEPT ![c] = "lost"]
  /\ Requeue(c)
  /\ UNCHANGED <<buffer, workVars, backendVars>>

-----------------------------------------------------------------------------
(* start_consumer.                                                           *)

Connect(c) ==
  /\ link[c] = "down" /\ link' = [link EXCEPT ![c] = "up"]
  /\ UNCHANGED <<brokerVars, buffer, workVars, backendVars, failureVars>>

(* start_consuming raises; what it had buffered is gone.                     *)
Noticed(c) ==
  /\ link[c] = "lost" /\ at[c] = "idle"
  /\ link' = [link EXCEPT ![c] = "down"]
  /\ buffer' = [buffer EXCEPT ![c] = {}]
  /\ UNCHANGED <<brokerVars, workVars, backendVars, failureVars>>

(* The request of c, if any, is left to the backend.                         *)
Orphaned(c) ==
  orphans' = IF request[c] \in Stages
             THEN [orphans EXCEPT ![Tx(c)][request[c]] = @ + 1] ELSE orphans

Forget(c) ==
  /\ cur' = [cur EXCEPT ![c] = NoMessage]
  /\ attempt' = [attempt EXCEPT ![c] = 1]
  /\ request' = [request EXCEPT ![c] = "none"]
  /\ Goto(c, "idle")

(* The process dies and is started again.                                    *)
Crash(c) ==
  /\ link[c] # "down" /\ Loss
  /\ link' = [link EXCEPT ![c] = "down"]
  /\ buffer' = [buffer EXCEPT ![c] = {}]
  /\ Requeue(c) /\ Orphaned(c) /\ Forget(c)
  /\ UNCHANGED rows

-----------------------------------------------------------------------------
(* process_transaction_event.                                                *)

(* The callback starts; an invalid message is not analysed.                  *)
Take(c) ==
  /\ at[c] = "idle" /\ link[c] # "down"
  /\ \E m \in buffer[c] :
       /\ buffer' = [buffer EXCEPT ![c] = @ \ {m}]
       /\ cur' = [cur EXCEPT ![c] = m]
       /\ Goto(c, IF m \in Malformed THEN "nack" ELSE "analyze")
  /\ UNCHANGED <<brokerVars, link, attempt, request, backendVars, failureVars>>

Analyze(c) ==
  /\ at[c] = "analyze" /\ Goto(c, "post")
  /\ UNCHANGED <<brokerVars, link, buffer, cur, attempt, request, backendVars, failureVars>>

Post(c) ==
  /\ at[c] = "post" /\ Goto(c, "await")
  /\ request' = [request EXCEPT ![c] = "find"]
  /\ UNCHANGED <<brokerVars, link, buffer, cur, attempt, backendVars, failureVars>>

PersistedAnyAnswer(c) ==  \* mutant: the status is not checked
  /\ at[c] = "await" /\ request[c] \in {"ok", "error"} /\ Goto(c, "ack")
  /\ request' = [request EXCEPT ![c] = "none"]
  /\ UNCHANGED <<brokerVars, link, buffer, cur, attempt, backendVars, failureVars>>

(* 2xx (create answers duplicates with 201, never with 409).                 *)
Persisted(c) ==
  /\ at[c] = "await" /\ request[c] = "ok" /\ Goto(c, "ack")
  /\ request' = [request EXCEPT ![c] = "none"]
  /\ UNCHANGED <<brokerVars, link, buffer, cur, attempt, backendVars, failureVars>>

RetryOrGiveUpEarly(c) ==  \* mutant: one attempt too few
  /\ request' = [request EXCEPT ![c] = "none"]
  /\ \/ attempt[c] + 1 < MaxAttempts /\ Goto(c, "post")
        /\ attempt' = [attempt EXCEPT ![c] = @ + 1]
     \/ attempt[c] + 1 >= MaxAttempts /\ Goto(c, "nack") /\ UNCHANGED attempt

(* A transient failure: another attempt after the backoff, or none is left.  *)
RetryOrGiveUp(c) ==
  /\ request' = [request EXCEPT ![c] = "none"]
  /\ \/ attempt[c] < MaxAttempts /\ Goto(c, "post")
        /\ attempt' = [attempt EXCEPT ![c] = @ + 1]
     \/ attempt[c] = MaxAttempts /\ Goto(c, "nack") /\ UNCHANGED attempt

(* 5xx; the failure was counted when the backend met it.                     *)
ServerError(c) ==
  /\ at[c] = "await" /\ request[c] = "error"
  /\ RetryOrGiveUp(c)
  /\ UNCHANGED <<brokerVars, link, buffer, cur, backendVars, failureVars>>

Timeout(c) ==
  /\ at[c] = "await" /\ request[c] # "error" /\ Transient
  /\ Orphaned(c) /\ RetryOrGiveUp(c)
  /\ UNCHANGED <<brokerVars, link, buffer, cur, rows>>

ConnectionRefused(c) ==
  /\ at[c] = "post" /\ Transient
  /\ RetryOrGiveUp(c)
  /\ UNCHANGED <<brokerVars, link, buffer, cur, backendVars>>

(* 4xx, or an exception that is neither a timeout nor a connection error; in *)
(* the second case the backend may go on.                                    *)
PermanentFailure(c) ==
  /\ at[c] \in {"analyze", "await"} /\ Permanent
  /\ Orphaned(c) \/ UNCHANGED orphans
  /\ request' = [request EXCEPT ![c] = "none"]
  /\ Goto(c, "nack")
  /\ UNCHANGED <<brokerVars, link, buffer, cur, attempt, rows>>

(* basic_ack and basic_nack(requeue=False) on an open connection.            *)
Ack(c) ==
  /\ at[c] = "ack" /\ link[c] = "up"
  /\ acked' = acked \union {cur[c]}
  /\ held' = [held EXCEPT ![c] = @ \ {cur[c]}]
  /\ Forget(c)
  /\ UNCHANGED <<published, queue, dlq, link, buffer, backendVars, failureVars>>

NackRequeue(c) ==  \* mutant: requeue=True
  /\ at[c] = "nack" /\ link[c] = "up"
  /\ queue' = queue \union {cur[c]}
  /\ held' = [held EXCEPT ![c] = @ \ {cur[c]}]
  /\ Forget(c)
  /\ UNCHANGED <<published, acked, dlq, link, buffer, backendVars, failureVars>>

Nack(c) ==
  /\ at[c] = "nack" /\ link[c] = "up"
  /\ dlq' = dlq \union {cur[c]}
  /\ held' = [held EXCEPT ![c] = @ \ {cur[c]}]
  /\ Forget(c)
  /\ UNCHANGED <<published, queue, acked, link, buffer, backendVars, failureVars>>

(* On a lost connection the answer goes nowhere: it is written to a dead     *)
(* socket, or it raises, the nack in the except block raises too, and        *)
(* start_consumer reconnects.                                                *)
AnswerLost(c) ==
  /\ at[c] \in {"ack", "nack"} /\ link[c] = "lost"
  /\ \/ UNCHANGED <<link, buffer>>
     \/ /\ link' = [link EXCEPT ![c] = "down"]
        /\ buffer' = [buffer EXCEPT ![c] = {}]
  /\ Forget(c)
  /\ UNCHANGED <<brokerVars, backendVars, failureVars>>

-----------------------------------------------------------------------------
(* RecommendationsService.create: look the transaction up, insert, and after *)
(* a unique violation look it up again.                                      *)

After(t, s) ==
  IF s = "insert" THEN IF rows[t] = 0 THEN "ok" ELSE "again"
  ELSE IF rows[t] > 0 THEN "ok"
  ELSE IF s = "find" THEN "insert" ELSE "error"

InsertedNoIndex(t, s) ==  \* mutant: no unique index
  IF s = "insert" THEN [rows EXCEPT ![t] = @ + 1] ELSE rows

Inserted(t, s) ==
  IF s = "insert" /\ rows[t] = 0 THEN [rows EXCEPT ![t] = 1] ELSE rows

Create(c) ==
  /\ request[c] \in Stages
  /\ request' = [request EXCEPT ![c] = After(Tx(c), request[c])]
  /\ rows' = Inserted(Tx(c), request[c])
  /\ UNCHANGED <<brokerVars, link, buffer, at, cur, attempt, orphans, failureVars>>

(* The database refuses the statement, or commits it and the answer is lost. *)
CreateFails(c) ==
  /\ request[c] \in Stages /\ Transient
  /\ request' = [request EXCEPT ![c] = "error"]
  /\ rows' \in {rows, Inserted(Tx(c), request[c])}
  /\ UNCHANGED <<brokerVars, link, buffer, at, cur, attempt, orphans>>

(* An orphan goes on, or fails with or without its statement.                *)
OrphanCreate(t, s) ==
  /\ orphans[t][s] > 0
  /\ \E next \in {After(t, s), "error"} :
       orphans' = [orphans EXCEPT ![t] =
         [r \in Stages |-> IF r = s THEN @[r] - 1
                           ELSE IF r = next THEN @[r] + 1 ELSE @[r]]]
  /\ rows' \in {rows, Inserted(t, s)}
  /\ UNCHANGED <<brokerVars, link, buffer, workVars, failureVars>>

-----------------------------------------------------------------------------
Handle(c) ==
  \/ Take(c) \/ Analyze(c) \/ Post(c) \/ Persisted(c) \/ ServerError(c)
  \/ Ack(c) \/ Nack(c) \/ AnswerLost(c)

Progress(c) == Handle(c) \/ Create(c) \/ Connect(c) \/ Noticed(c)

Failure(c) ==
  \/ Timeout(c) \/ ConnectionRefused(c) \/ PermanentFailure(c) \/ CreateFails(c)
  \/ LinkLost(c) \/ Crash(c)

Next ==
  \/ \E m \in Messages : Publish(m) \/ \E c \in Consumers : Deliver(c, m)
  \/ \E c \in Consumers : Progress(c) \/ Failure(c)
  \/ \E t \in Txs, s \in Stages : OrphanCreate(t, s)

Spec == Init /\ [][Next]_vars

(* The broker delivers what it may, the thread and the backend go on; no     *)
(* failure and no publication is owed.                                       *)
FairSpec ==
  /\ Spec
  /\ \A c \in Consumers : WF_vars(Progress(c)) /\ WF_vars(\E m \in Messages : Deliver(c, m))
  /\ \A t \in Txs, s \in Stages : WF_vars(OrphanCreate(t, s))
=============================================================================
