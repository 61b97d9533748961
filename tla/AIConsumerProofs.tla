-------------------------- MODULE AIConsumerProofs --------------------------
(* Proofs about the consumers, for any number of replicas, messages,         *)
(* duplicates and failures.                                                  *)
EXTENDS AIConsumerInv, FiniteSetTheorems, TLAPS

(* What a delivery is about, while it is being handled.                      *)
LEMMA Handled ==
  ASSUME IInv, NEW c \in Consumers, at[c] # "idle"
  PROVE  cur[c] \in Messages /\ cur[c] \in published /\ Tx(c) \in Txs /\ link[c] # "down"
<1>1. cur[c] \in Messages /\ link[c] # "down"
  BY DEF IInv, WorkMatches, LinksMatch
<1>2. cur[c] \in published
  BY <1>1, ConsumerAssumption DEF IInv, Known
<1> QED BY <1>1, <1>2, ConsumerAssumption DEF Tx

(* A POST that is left to the backend is about a valid, published message.   *)
LEMMA OrphanedKeeps ==
  ASSUME IInv, NEW c \in Consumers, Orphaned(c) \/ UNCHANGED orphans
  PROVE  /\ orphans' \in [Txs -> [Stages -> Nat]]
         /\ \A t \in Txs, s \in Stages :
              orphans'[t][s] > 0 => \E m \in published \ Malformed : TxOf[m] = t
<1>1. /\ orphans \in [Txs -> [Stages -> Nat]]
      /\ \A t \in Txs, s \in Stages :
           orphans[t][s] > 0 => \E m \in published \ Malformed : TxOf[m] = t
  BY DEF IInv, TypeOK, Known
<1>2. CASE request[c] \in Stages /\ Orphaned(c)
  <2>1. at[c] = "await" /\ cur[c] \notin Malformed
    BY <1>2 DEF IInv, WorkMatches, Stages
  <2>2. cur[c] \in published \ Malformed /\ Tx(c) \in Txs
    BY <2>1, Handled
  <2>3. orphans' = [orphans EXCEPT ![Tx(c)][request[c]] = @ + 1]
    BY <1>2 DEF Orphaned
  <2>4. orphans' \in [Txs -> [Stages -> Nat]]
    BY <1>1, <1>2, <2>2, <2>3
  <2>5. \A t \in Txs \ {Tx(c)} : orphans'[t] = orphans[t]
    BY <1>1, <2>3
  <2>6. TxOf[cur[c]] = Tx(c)
    BY DEF Tx
  <2> QED BY <1>1, <2>2, <2>4, <2>5, <2>6
<1>3. CASE UNCHANGED orphans
  BY <1>1, <1>3
<1> QED BY <1>2, <1>3 DEF Orphaned

(* The callback of c goes from one step to another.                          *)
LEMMA ThreadStep ==
  ASSUME IInv, NEW c \in Consumers, at[c] # "idle",
         NEW s \in Steps \ {"idle"}, Goto(c, s),
         UNCHANGED <<brokerVars, link, buffer, cur, rows>>,
         Orphaned(c) \/ UNCHANGED orphans,
         request' \in [Consumers -> Stages \union Replies],
         \A d \in Consumers \ {c} : request'[d] = request[d],
         request'[c] # "none" => s = "await" /\ request'[c] \notin {"ok", "again"},
         s \in {"analyze", "post", "await", "ack"} => cur[c] \notin Malformed,
         s = "ack" => rows[Tx(c)] > 0,
         attempt' \in [Consumers -> 1..MaxAttempts],
         \A d \in Consumers \ {c} : attempt'[d] = attempt[d],
         transient' \in Nat, permanent' \in Nat, losses' \in Nat,
         transient' >= transient, permanent' >= permanent,
         attempt'[c] <= transient' + 1,
         request'[c] # "error",
         s = "nack" => cur[c] \in Malformed \/ permanent' > 0 \/ transient' >= MaxAttempts
  PROVE  IInv'
<1> USE DEF IInv
<1>1. /\ at' \in [Consumers -> Steps] /\ at'[c] = s
      /\ \A d \in Consumers \ {c} : at'[d] = at[d]
  BY DEF TypeOK, Goto
<1>2. UNCHANGED <<published, queue, acked, dlq, held, link, buffer, cur, rows>>
  BY DEF brokerVars
<1>3. TypeOK'
  BY <1>1, <1>2, OrphanedKeeps DEF TypeOK
<1>4. Known'
  BY <1>2, OrphanedKeeps DEF Known
<1>5. NothingLost' /\ AckedArePersisted' /\ OneRecommendation'
  BY <1>2 DEF NothingLost, AckedArePersisted, OneRecommendation
<1>6. LinksMatch'
  BY <1>1, <1>2, Handled DEF LinksMatch
<1>7. WorkMatches'
  <2>1. ASSUME NEW d \in Consumers PROVE Tx(d)' = Tx(d)
    BY <1>2 DEF Tx
  <2> QED BY <1>1, <1>2, <2>1, Handled DEF WorkMatches
<1>8. OwnDeliveries'
  BY <1>1, <1>2 DEF OwnDeliveries
<1>9. AttemptsPaid'
  BY <1>1, <1>2, ConsumerAssumption DEF AttemptsPaid, TypeOK
<1>10. GivenUpForAReason'
  BY <1>2, ConsumerAssumption DEF GivenUpForAReason, TypeOK
<1> QED BY <1>3, <1>4, <1>5, <1>6, <1>7, <1>8, <1>9, <1>10

(* The steps of process_transaction_event between taking a message and       *)
(* answering for it.                                                         *)
LEMMA AnalyzeKeeps == ASSUME IInv, NEW c \in Consumers, Analyze(c) PROVE IInv'
<1>1. /\ at[c] = "analyze" /\ Goto(c, "post") /\ request[c] = "none" /\ cur[c] \notin Malformed
      /\ request \in [Consumers -> Stages \union Replies] /\ attempt \in [Consumers -> 1..MaxAttempts]
      /\ transient \in Nat /\ permanent \in Nat /\ losses \in Nat /\ attempt[c] <= transient + 1
  BY DEF Analyze, IInv, TypeOK, WorkMatches, AttemptsPaid
<1> QED BY <1>1, ThreadStep DEF Analyze, backendVars, failureVars, Steps

LEMMA PostKeeps == ASSUME IInv, NEW c \in Consumers, Post(c) PROVE IInv'
<1>1. /\ at[c] = "post" /\ Goto(c, "await") /\ cur[c] \notin Malformed
      /\ request \in [Consumers -> Stages \union Replies] /\ attempt \in [Consumers -> 1..MaxAttempts]
      /\ transient \in Nat /\ permanent \in Nat /\ losses \in Nat /\ attempt[c] <= transient + 1
  BY DEF Post, IInv, TypeOK, WorkMatches, AttemptsPaid
<1>2. /\ request' \in [Consumers -> Stages \union Replies] /\ request'[c] = "find"
      /\ \A d \in Consumers \ {c} : request'[d] = request[d]
  BY <1>1 DEF Post, Stages
<1> QED BY <1>1, <1>2, ThreadStep DEF Post, backendVars, failureVars, Steps

LEMMA PersistedKeeps == ASSUME IInv, NEW c \in Consumers, Persisted(c) PROVE IInv'
<1>1. /\ at[c] = "await" /\ Goto(c, "ack") /\ cur[c] \notin Malformed /\ rows[Tx(c)] > 0
      /\ request \in [Consumers -> Stages \union Replies] /\ attempt \in [Consumers -> 1..MaxAttempts]
      /\ transient \in Nat /\ permanent \in Nat /\ losses \in Nat /\ attempt[c] <= transient + 1
  BY DEF Persisted, IInv, TypeOK, WorkMatches, AttemptsPaid
<1>2. /\ request' \in [Consumers -> Stages \union Replies] /\ request'[c] = "none"
      /\ \A d \in Consumers \ {c} : request'[d] = request[d]
  BY <1>1 DEF Persisted, Replies
<1> QED BY <1>1, <1>2, ThreadStep DEF Persisted, backendVars, failureVars, Steps

(* After a transient failure that pays for the attempt there is another one, *)
(* or the message is given up with all of them paid.                         *)
LEMMA RetryKeeps ==
  ASSUME IInv, NEW c \in Consumers, at[c] \in {"post", "await"},
         RetryOrGiveUp(c),
         Orphaned(c) \/ UNCHANGED orphans,
         transient' \in Nat, transient' >= transient, attempt[c] <= transient',
         UNCHANGED <<permanent, losses>>,
         UNCHANGED <<brokerVars, link, buffer, cur, rows>>
  PROVE  IInv'
<1>1. /\ cur[c] \notin Malformed
      /\ request \in [Consumers -> Stages \union Replies] /\ attempt \in [Consumers -> 1..MaxAttempts]
      /\ transient \in Nat /\ permanent \in Nat /\ losses \in Nat
  BY DEF IInv, TypeOK, WorkMatches
<1>2. /\ request' \in [Consumers -> Stages \union Replies] /\ request'[c] = "none"
      /\ \A d \in Consumers \ {c} : request'[d] = request[d]
  BY <1>1 DEF RetryOrGiveUp, Replies
<1>3. CASE attempt[c] < MaxAttempts /\ Goto(c, "post") /\ attempt' = [attempt EXCEPT ![c] = @ + 1]
  <2>1. /\ attempt' \in [Consumers -> 1..MaxAttempts] /\ attempt'[c] <= transient' + 1
        /\ \A d \in Consumers \ {c} : attempt'[d] = attempt[d]
    BY <1>1, <1>3, ConsumerAssumption
  <2> QED BY <1>1, <1>2, <1>3, <2>1, ThreadStep DEF Steps
<1>4. CASE attempt[c] = MaxAttempts /\ Goto(c, "nack") /\ UNCHANGED attempt
  <2>1. attempt'[c] <= transient' + 1 /\ transient' >= MaxAttempts
    BY <1>1, <1>4, ConsumerAssumption
  <2> QED BY <1>1, <1>2, <1>4, <2>1, ThreadStep DEF Steps
<1> QED BY <1>3, <1>4 DEF RetryOrGiveUp

LEMMA ServerErrorKeeps == ASSUME IInv, NEW c \in Consumers, ServerError(c) PROVE IInv'
<1>1. attempt[c] <= transient /\ transient \in Nat
  BY DEF ServerError, IInv, TypeOK, AttemptsPaid
<1> QED BY <1>1, RetryKeeps DEF ServerError, backendVars, failureVars

LEMMA TimeoutKeeps == ASSUME IInv, NEW c \in Consumers, Timeout(c) PROVE IInv'
<1>1. attempt[c] <= transient + 1 /\ transient \in Nat
  BY DEF IInv, TypeOK, AttemptsPaid
<1> QED BY <1>1, RetryKeeps DEF Timeout, Transient

LEMMA ConnectionRefusedKeeps == ASSUME IInv, NEW c \in Consumers, ConnectionRefused(c) PROVE IInv'
<1>1. attempt[c] <= transient + 1 /\ transient \in Nat
  BY DEF IInv, TypeOK, AttemptsPaid
<1> QED BY <1>1, RetryKeeps DEF ConnectionRefused, Transient, backendVars

LEMMA PermanentFailureKeeps == ASSUME IInv, NEW c \in Consumers, PermanentFailure(c) PROVE IInv'
<1>1. /\ at[c] \in {"analyze", "await"} /\ Goto(c, "nack")
      /\ request \in [Consumers -> Stages \union Replies] /\ attempt \in [Consumers -> 1..MaxAttempts]
      /\ transient \in Nat /\ permanent \in Nat /\ losses \in Nat /\ attempt[c] <= transient + 1
  BY DEF PermanentFailure, IInv, TypeOK, AttemptsPaid
<1>2. /\ request' \in [Consumers -> Stages \union Replies] /\ request'[c] = "none"
      /\ \A d \in Consumers \ {c} : request'[d] = request[d]
  BY <1>1 DEF PermanentFailure, Replies
<1>3. permanent' = permanent + 1 /\ UNCHANGED <<transient, losses>>
  BY DEF PermanentFailure, Permanent
<1> QED BY <1>1, <1>2, <1>3, ThreadStep DEF PermanentFailure, Steps

-----------------------------------------------------------------------------
(* The connection and the broker.                                            *)

LEMMA PublishKeeps == ASSUME IInv, NEW m \in Messages, Publish(m) PROVE IInv'
<1> USE DEF IInv, Publish
<1>1. UNCHANGED <<acked, dlq, held, link, buffer, workVars, backendVars, failureVars>>
  OBVIOUS
<1>2. TypeOK'
  BY DEF TypeOK, workVars, backendVars, failureVars
<1>3. Known'
  BY DEF Known, workVars, backendVars
<1>4. NothingLost'
  BY DEF NothingLost, Known
<1>5. LinksMatch' /\ OwnDeliveries'
  BY DEF LinksMatch, OwnDeliveries, workVars
<1>6. WorkMatches'
  BY DEF WorkMatches, Tx, workVars, backendVars
<1>7. AckedArePersisted' /\ OneRecommendation'
  BY DEF AckedArePersisted, OneRecommendation, backendVars
<1>8. AttemptsPaid' /\ GivenUpForAReason'
  BY DEF AttemptsPaid, GivenUpForAReason, workVars, failureVars
<1> QED BY <1>2, <1>3, <1>4, <1>5, <1>6, <1>7, <1>8

LEMMA DeliverKeeps ==
  ASSUME IInv, NEW c \in Consumers, NEW m \in Messages, Deliver(c, m) PROVE IInv'
<1> USE DEF IInv, Deliver
<1>1. /\ held' \in [Consumers -> SUBSET Messages] /\ held'[c] = held[c] \union {m}
      /\ buffer' \in [Consumers -> SUBSET Messages] /\ buffer'[c] = buffer[c] \union {m}
      /\ \A d \in Consumers \ {c} : held'[d] = held[d] /\ buffer'[d] = buffer[d]
  BY DEF TypeOK
<1>2. Cardinality(held'[c]) <= Prefetch
  <2>1. IsFiniteSet(held[c])
    BY FS_Subset, ConsumerAssumption DEF TypeOK
  <2>2. Cardinality(held[c]) \in Nat /\ Cardinality(held[c]) < Prefetch
    BY <2>1, FS_CardinalityType
  <2>3. Cardinality(held[c] \union {m}) \in {Cardinality(held[c]), Cardinality(held[c]) + 1}
    BY <2>1, FS_AddElement
  <2> QED BY <1>1, <2>2, <2>3, ConsumerAssumption
<1>3. TypeOK'
  BY <1>1, <1>2 DEF TypeOK, workVars, backendVars, failureVars
<1>4. Known'
  BY <1>1 DEF Known, workVars, backendVars
<1>5. NothingLost'
  BY <1>1 DEF NothingLost
<1>6. LinksMatch'
  BY <1>1 DEF LinksMatch, workVars
<1>7. OwnDeliveries'
  <2>1. ASSUME NEW d \in Consumers, link[d] = "up"
        PROVE  buffer'[d] \subseteq held'[d] /\ (at[d] # "idle" => cur[d] \in held'[d] \ buffer'[d])
    <3>1. CASE d = c
      BY <1>1, <2>1, <3>1 DEF OwnDeliveries, NothingLost
    <3>2. CASE d # c
      BY <1>1, <2>1, <3>2 DEF OwnDeliveries
    <3> QED BY <3>1, <3>2
  <2> QED BY <2>1 DEF OwnDeliveries, workVars
<1>8. WorkMatches'
  BY DEF WorkMatches, Tx, workVars, backendVars
<1>9. AckedArePersisted' /\ OneRecommendation'
  BY DEF AckedArePersisted, OneRecommendation, backendVars
<1>10. AttemptsPaid' /\ GivenUpForAReason'
  BY DEF AttemptsPaid, GivenUpForAReason, workVars, failureVars
<1> QED BY <1>3, <1>4, <1>5, <1>6, <1>7, <1>8, <1>9, <1>10

(* The broker takes back what c holds: each message is still in one place.   *)
LEMMA RequeueKeeps ==
  ASSUME IInv, NEW c \in Consumers, Requeue(c)
  PROVE  /\ queue' \in SUBSET Messages /\ queue' \subseteq published
         /\ held' \in [Consumers -> SUBSET Messages] /\ held'[c] = {}
         /\ \A d \in Consumers \ {c} : held'[d] = held[d]
         /\ \A d \in Consumers : Cardinality(held'[d]) <= Prefetch
         /\ NothingLost'
<1> USE DEF IInv, Requeue
<1>1. /\ held' \in [Consumers -> SUBSET Messages] /\ held'[c] = {}
      /\ \A d \in Consumers \ {c} : held'[d] = held[d]
  BY DEF TypeOK
<1>2. queue' \in SUBSET Messages /\ queue' \subseteq published
  BY DEF TypeOK, Known
<1>3. Cardinality(held'[c]) <= Prefetch
  BY <1>1, FS_EmptySet, ConsumerAssumption
<1>4. \A d \in Consumers : Cardinality(held'[d]) <= Prefetch
  BY <1>1, <1>3 DEF TypeOK
<1>5. NothingLost'
  BY <1>1 DEF NothingLost
<1> QED BY <1>1, <1>2, <1>4, <1>5

(* The callback of c is over.                                                *)
LEMMA Forgets ==
  ASSUME IInv, NEW c \in Consumers, Forget(c)
  PROVE  /\ at' \in [Consumers -> Steps] /\ at'[c] = "idle"
         /\ cur' \in [Consumers -> Messages \union {NoMessage}] /\ cur'[c] = NoMessage
         /\ attempt' \in [Consumers -> 1..MaxAttempts] /\ attempt'[c] = 1
         /\ request' \in [Consumers -> Stages \union Replies] /\ request'[c] = "none"
         /\ \A d \in Consumers \ {c} : /\ at'[d] = at[d] /\ cur'[d] = cur[d]
                                       /\ attempt'[d] = attempt[d] /\ request'[d] = request[d]
BY ConsumerAssumption DEF IInv, TypeOK, Forget, Goto, Steps, Replies

LEMMA ForgottenWork ==
  ASSUME IInv, NEW c \in Consumers, Forget(c), UNCHANGED <<rows, transient, permanent>>
  PROVE  WorkMatches' /\ AttemptsPaid'
<1>1. ASSUME NEW d \in Consumers \ {c} PROVE Tx(d)' = Tx(d)
  BY Forgets DEF Tx
<1>2. WorkMatches'
  BY <1>1, Forgets DEF IInv, WorkMatches
<1>3. AttemptsPaid'
  BY Forgets DEF IInv, AttemptsPaid, TypeOK
<1> QED BY <1>2, <1>3

LEMMA LinkLostKeeps == ASSUME IInv, NEW c \in Consumers, LinkLost(c) PROVE IInv'
<1> USE DEF IInv
<1>1. /\ link[c] = "up" /\ link' \in [Consumers -> Links] /\ link'[c] = "lost"
      /\ \A d \in Consumers \ {c} : link'[d] = link[d]
      /\ Requeue(c) /\ UNCHANGED <<published, acked, dlq, buffer, workVars, backendVars>>
      /\ UNCHANGED <<transient, permanent>> /\ losses' = losses + 1
  BY DEF LinkLost, Loss, TypeOK, Links, Requeue
<1>2. TypeOK'
  BY <1>1, RequeueKeeps DEF TypeOK, workVars, backendVars
<1>3. Known' /\ NothingLost'
  BY <1>1, RequeueKeeps DEF Known, workVars, backendVars
<1>4. LinksMatch' /\ OwnDeliveries'
  BY <1>1, RequeueKeeps DEF LinksMatch, OwnDeliveries, workVars
<1>5. WorkMatches'
  BY <1>1 DEF WorkMatches, Tx, workVars, backendVars
<1>6. AckedArePersisted' /\ OneRecommendation'
  BY <1>1 DEF AckedArePersisted, OneRecommendation, backendVars
<1>7. AttemptsPaid' /\ GivenUpForAReason'
  BY <1>1 DEF AttemptsPaid, GivenUpForAReason, workVars
<1> QED BY <1>2, <1>3, <1>4, <1>5, <1>6, <1>7

LEMMA ConnectKeeps == ASSUME IInv, NEW c \in Consumers, Connect(c) PROVE IInv'
<1> USE DEF IInv
<1>1. /\ link[c] = "down" /\ link' \in [Consumers -> Links] /\ link'[c] = "up"
      /\ \A d \in Consumers \ {c} : link'[d] = link[d]
      /\ UNCHANGED <<published, queue, acked, dlq, held, buffer, workVars, backendVars, failureVars>>
  BY DEF Connect, TypeOK, Links, brokerVars
<1>2. TypeOK'
  BY <1>1 DEF TypeOK, workVars, backendVars, failureVars
<1>3. Known' /\ NothingLost'
  BY <1>1 DEF Known, NothingLost, workVars, backendVars
<1>4. LinksMatch' /\ OwnDeliveries'
  BY <1>1 DEF LinksMatch, OwnDeliveries, workVars
<1>5. WorkMatches'
  BY <1>1 DEF WorkMatches, Tx, workVars, backendVars
<1>6. AckedArePersisted' /\ OneRecommendation'
  BY <1>1 DEF AckedArePersisted, OneRecommendation, backendVars
<1>7. AttemptsPaid' /\ GivenUpForAReason'
  BY <1>1 DEF AttemptsPaid, GivenUpForAReason, workVars, failureVars
<1> QED BY <1>2, <1>3, <1>4, <1>5, <1>6, <1>7

LEMMA NoticedKeeps == ASSUME IInv, NEW c \in Consumers, Noticed(c) PROVE IInv'
<1> USE DEF IInv
<1>1. /\ link[c] = "lost" /\ at[c] = "idle"
      /\ link' \in [Consumers -> Links] /\ link'[c] = "down"
      /\ buffer' \in [Consumers -> SUBSET Messages] /\ buffer'[c] = {}
      /\ \A d \in Consumers \ {c} : link'[d] = link[d] /\ buffer'[d] = buffer[d]
      /\ UNCHANGED <<published, queue, acked, dlq, held, workVars, backendVars, failureVars>>
  BY DEF Noticed, TypeOK, Links, brokerVars
<1>2. TypeOK'
  BY <1>1 DEF TypeOK, workVars, backendVars, failureVars
<1>3. Known' /\ NothingLost'
  BY <1>1 DEF Known, NothingLost, workVars, backendVars
<1>4. LinksMatch' /\ OwnDeliveries'
  BY <1>1 DEF LinksMatch, OwnDeliveries, workVars
<1>5. WorkMatches'
  BY <1>1 DEF WorkMatches, Tx, workVars, backendVars
<1>6. AckedArePersisted' /\ OneRecommendation'
  BY <1>1 DEF AckedArePersisted, OneRecommendation, backendVars
<1>7. AttemptsPaid' /\ GivenUpForAReason'
  BY <1>1 DEF AttemptsPaid, GivenUpForAReason, workVars, failureVars
<1> QED BY <1>2, <1>3, <1>4, <1>5, <1>6, <1>7

LEMMA CrashKeeps == ASSUME IInv, NEW c \in Consumers, Crash(c) PROVE IInv'
<1> USE DEF IInv
<1>1. /\ link' \in [Consumers -> Links] /\ link'[c] = "down"
      /\ buffer' \in [Consumers -> SUBSET Messages] /\ buffer'[c] = {}
      /\ \A d \in Consumers \ {c} : link'[d] = link[d] /\ buffer'[d] = buffer[d]
      /\ Requeue(c) /\ Orphaned(c) /\ Forget(c) /\ UNCHANGED <<published, acked, dlq, rows>>
      /\ UNCHANGED <<transient, permanent>> /\ losses' = losses + 1
  BY DEF Crash, Loss, TypeOK, Links, Requeue
<1>2. TypeOK'
  BY <1>1, RequeueKeeps, Forgets, OrphanedKeeps DEF TypeOK
<1>3. Known' /\ NothingLost'
  BY <1>1, RequeueKeeps, Forgets, OrphanedKeeps DEF Known
<1>4. LinksMatch' /\ OwnDeliveries'
  BY <1>1, RequeueKeeps, Forgets DEF LinksMatch, OwnDeliveries
<1>5. WorkMatches' /\ AttemptsPaid'
  BY <1>1, ForgottenWork
<1>6. AckedArePersisted' /\ OneRecommendation' /\ GivenUpForAReason'
  BY <1>1 DEF AckedArePersisted, OneRecommendation, GivenUpForAReason
<1> QED BY <1>2, <1>3, <1>4, <1>5, <1>6

LEMMA TakeKeeps == ASSUME IInv, NEW c \in Consumers, Take(c) PROVE IInv'
<1> USE DEF IInv
<1>1. PICK m \in buffer[c] :
        /\ buffer' = [buffer EXCEPT ![c] = @ \ {m}]
        /\ cur' = [cur EXCEPT ![c] = m]
        /\ Goto(c, IF m \in Malformed THEN "nack" ELSE "analyze")
  BY DEF Take
<1>2. /\ m \in Messages /\ m \in published
      /\ buffer' \in [Consumers -> SUBSET Messages] /\ buffer'[c] = buffer[c] \ {m}
      /\ cur' \in [Consumers -> Messages \union {NoMessage}] /\ cur'[c] = m
      /\ \A d \in Consumers \ {c} : buffer'[d] = buffer[d] /\ cur'[d] = cur[d]
  BY <1>1 DEF TypeOK, Known
<1>3. /\ at' \in [Consumers -> Steps]
      /\ at'[c] = IF m \in Malformed THEN "nack" ELSE "analyze"
      /\ \A d \in Consumers \ {c} : at'[d] = at[d]
  BY <1>1 DEF TypeOK, Goto, Steps
<1>4. /\ at[c] = "idle" /\ link[c] # "down" /\ request[c] = "none"
      /\ UNCHANGED <<published, queue, acked, dlq, held, link, attempt, request, backendVars, failureVars>>
  BY DEF Take, WorkMatches, brokerVars
<1>5. TypeOK'
  BY <1>2, <1>3, <1>4 DEF TypeOK, backendVars, failureVars
<1>6. Known' /\ NothingLost'
  BY <1>2, <1>4 DEF Known, NothingLost, backendVars
<1>7. LinksMatch'
  BY <1>3, <1>4, <1>2 DEF LinksMatch
<1>8. OwnDeliveries'
  BY <1>2, <1>3, <1>4 DEF OwnDeliveries
<1>9. WorkMatches'
  <2>1. ASSUME NEW d \in Consumers \ {c} PROVE Tx(d)' = Tx(d)
    BY <1>2 DEF Tx
  <2> QED BY <1>2, <1>3, <1>4, <2>1 DEF WorkMatches, backendVars
<1>10. AckedArePersisted' /\ OneRecommendation' /\ GivenUpForAReason'
  BY <1>4 DEF AckedArePersisted, OneRecommendation, GivenUpForAReason, backendVars, failureVars
<1>11. AttemptsPaid'
  BY <1>2, <1>3, <1>4 DEF AttemptsPaid, failureVars
<1> QED BY <1>5, <1>6, <1>7, <1>8, <1>9, <1>10, <1>11

(* What c answers for is its own delivery, and nobody else's.                *)
LEMMA AnswersOwn ==
  ASSUME IInv, NEW c \in Consumers, link[c] = "up", at[c] \in {"ack", "nack"}
  PROVE  /\ cur[c] \in Messages /\ cur[c] \in published
         /\ cur[c] \in held[c] /\ cur[c] \notin buffer[c]
         /\ cur[c] \notin queue \union acked \union dlq
         /\ \A d \in Consumers \ {c} : cur[c] \notin held[d]
<1>1. cur[c] \in held[c] /\ cur[c] \notin buffer[c]
  BY DEF IInv, OwnDeliveries
<1> QED BY <1>1, Handled DEF IInv, NothingLost

(* An answered delivery leaves the consumer, whatever it was answered with.  *)
LEMMA AnswerKeeps ==
  ASSUME IInv, NEW c \in Consumers, link[c] = "up", at[c] \in {"ack", "nack"},
         held' = [held EXCEPT ![c] = @ \ {cur[c]}], Forget(c),
         acked' \in SUBSET Messages, dlq' \in SUBSET Messages,
         \/ acked' = acked \union {cur[c]} /\ dlq' = dlq
         \/ dlq' = dlq \union {cur[c]} /\ acked' = acked,
         UNCHANGED <<published, queue, link, buffer, backendVars, failureVars>>
  PROVE  /\ TypeOK' /\ Known' /\ NothingLost' /\ LinksMatch' /\ OwnDeliveries'
         /\ WorkMatches' /\ AttemptsPaid' /\ OneRecommendation'
<1> USE DEF IInv
<1>1. /\ held' \in [Consumers -> SUBSET Messages] /\ held'[c] = held[c] \ {cur[c]}
      /\ \A d \in Consumers \ {c} : held'[d] = held[d]
  BY DEF TypeOK
<1>2. Cardinality(held'[c]) <= Prefetch
  <2>1. IsFiniteSet(held[c]) /\ held'[c] \subseteq held[c]
    BY <1>1, FS_Subset, ConsumerAssumption DEF TypeOK
  <2>2. /\ Cardinality(held'[c]) <= Cardinality(held[c])
        /\ Cardinality(held'[c]) \in Nat /\ Cardinality(held[c]) \in Nat
        /\ Cardinality(held[c]) <= Prefetch
    BY <2>1, FS_Subset, FS_CardinalityType DEF TypeOK
  <2> QED BY <2>2, ConsumerAssumption
<1>3. TypeOK'
  BY <1>1, <1>2, Forgets DEF TypeOK, backendVars, failureVars
<1>4. Known'
  BY <1>1, Forgets, AnswersOwn DEF Known, backendVars
<1>5. NothingLost'
  BY <1>1, AnswersOwn DEF NothingLost
<1>6. LinksMatch'
  BY <1>1, Forgets DEF LinksMatch
<1>7. OwnDeliveries'
  BY <1>1, Forgets, AnswersOwn DEF OwnDeliveries
<1>8. WorkMatches' /\ AttemptsPaid'
  BY ForgottenWork DEF backendVars, failureVars
<1>9. OneRecommendation'
  BY DEF OneRecommendation, backendVars
<1> QED BY <1>3, <1>4, <1>5, <1>6, <1>7, <1>8, <1>9

LEMMA AckKeeps == ASSUME IInv, NEW c \in Consumers, Ack(c) PROVE IInv'
<1>1. at[c] = "ack" /\ link[c] = "up" /\ acked' \in SUBSET Messages /\ dlq' \in SUBSET Messages
  BY AnswersOwn DEF Ack, IInv, TypeOK
<1>2. /\ TypeOK' /\ Known' /\ NothingLost' /\ LinksMatch' /\ OwnDeliveries'
      /\ WorkMatches' /\ AttemptsPaid' /\ OneRecommendation'
  BY <1>1, AnswerKeeps DEF Ack
<1>3. AckedArePersisted'
  <2>1. cur[c] \notin Malformed /\ rows[TxOf[cur[c]]] > 0
    BY <1>1 DEF IInv, WorkMatches, Tx
  <2> QED BY <2>1 DEF Ack, IInv, AckedArePersisted, backendVars
<1>4. GivenUpForAReason'
  BY DEF Ack, IInv, GivenUpForAReason, failureVars
<1> QED BY <1>2, <1>3, <1>4 DEF IInv

LEMMA NackKeeps == ASSUME IInv, NEW c \in Consumers, Nack(c) PROVE IInv'
<1>1. at[c] = "nack" /\ link[c] = "up" /\ acked' \in SUBSET Messages /\ dlq' \in SUBSET Messages
  BY AnswersOwn DEF Nack, IInv, TypeOK
<1>2. /\ TypeOK' /\ Known' /\ NothingLost' /\ LinksMatch' /\ OwnDeliveries'
      /\ WorkMatches' /\ AttemptsPaid' /\ OneRecommendation'
  BY <1>1, AnswerKeeps DEF Nack
<1>3. AckedArePersisted'
  BY DEF Nack, IInv, AckedArePersisted, backendVars
<1>4. GivenUpForAReason'
  BY <1>1 DEF Nack, IInv, GivenUpForAReason, AttemptsPaid, failureVars
<1> QED BY <1>2, <1>3, <1>4 DEF IInv

LEMMA AnswerLostKeeps == ASSUME IInv, NEW c \in Consumers, AnswerLost(c) PROVE IInv'
<1> USE DEF IInv
<1>1. /\ link[c] = "lost" /\ Forget(c)
      /\ link' \in [Consumers -> Links] /\ buffer' \in [Consumers -> SUBSET Messages]
      /\ link'[c] # "up" /\ buffer'[c] \subseteq buffer[c] /\ (link'[c] = "down" => buffer'[c] = {})
      /\ \A d \in Consumers \ {c} : link'[d] = link[d] /\ buffer'[d] = buffer[d]
      /\ UNCHANGED <<published, queue, acked, dlq, held, backendVars, failureVars>>
  BY DEF AnswerLost, TypeOK, Links, brokerVars
<1>2. TypeOK'
  BY <1>1, Forgets DEF TypeOK, backendVars, failureVars
<1>3. Known' /\ NothingLost'
  BY <1>1, Forgets DEF Known, NothingLost, backendVars
<1>4. LinksMatch' /\ OwnDeliveries'
  BY <1>1, Forgets DEF LinksMatch, OwnDeliveries
<1>5. WorkMatches' /\ AttemptsPaid'
  BY <1>1, ForgottenWork DEF backendVars, failureVars
<1>6. AckedArePersisted' /\ OneRecommendation' /\ GivenUpForAReason'
  BY <1>1 DEF AckedArePersisted, OneRecommendation, GivenUpForAReason, backendVars, failureVars
<1> QED BY <1>2, <1>3, <1>4, <1>5, <1>6

-----------------------------------------------------------------------------
(* create(): a statement keeps the rows it finds, and inserts at most the    *)
(* first row of its transaction.                                             *)

LEMMA StatementKeeps ==
  ASSUME IInv, NEW t \in Txs, NEW s \in Stages, rows' \in {rows, Inserted(t, s)}
  PROVE  /\ rows' \in [Txs -> Nat]
         /\ \A u \in Txs : rows[u] <= rows'[u] /\ rows'[u] <= 1
         /\ \A u \in Txs \ {t} : rows'[u] = rows[u]
<1>1. rows \in [Txs -> Nat] /\ \A u \in Txs : rows[u] <= 1
  BY DEF IInv, TypeOK, OneRecommendation
<1>2. CASE rows' = rows
  BY <1>1, <1>2
<1>3. CASE rows[t] = 0 /\ rows' = [rows EXCEPT ![t] = 1]
  <2>1. /\ rows' \in [Txs -> Nat] /\ rows'[t] = 1
        /\ \A u \in Txs \ {t} : rows'[u] = rows[u]
    BY <1>1, <1>3
  <2> QED BY <1>1, <1>3, <2>1
<1> QED BY <1>2, <1>3 DEF Inserted

LEMMA Committed ==
  ASSUME IInv, NEW t \in Txs, NEW s \in Stages, rows' = Inserted(t, s)
  PROVE  /\ After(t, s) \in {"insert", "again", "ok", "error"}
         /\ After(t, s) \in {"ok", "again"} => rows'[t] > 0
         /\ After(t, s) = "error" => s = "again" /\ rows[t] = 0
BY DEF IInv, TypeOK, Inserted, After, Stages

(* What a statement of create() does not touch stays as it was.              *)
LEMMA RowsKeep ==
  ASSUME IInv, rows' \in [Txs -> Nat],
         \A u \in Txs : rows[u] <= rows'[u] /\ rows'[u] <= 1,
         UNCHANGED <<brokerVars, link, buffer, at, cur, attempt>>
  PROVE  /\ NothingLost' /\ LinksMatch' /\ OwnDeliveries'
         /\ AckedArePersisted' /\ OneRecommendation'
<1> USE DEF IInv
<1>1. NothingLost'
  BY DEF NothingLost, brokerVars
<1>2. LinksMatch' /\ OwnDeliveries'
  BY DEF LinksMatch, OwnDeliveries, brokerVars
<1>3. AckedArePersisted'
  <2>1. ASSUME NEW m \in acked PROVE m \notin Malformed /\ rows'[TxOf[m]] > 0
    <3>1. m \notin Malformed /\ rows[TxOf[m]] > 0 /\ TxOf[m] \in Txs
      BY <2>1, ConsumerAssumption DEF AckedArePersisted, TypeOK
    <3>2. rows[TxOf[m]] \in Nat /\ rows'[TxOf[m]] \in Nat
      BY <3>1 DEF TypeOK
    <3> QED BY <3>1, <3>2
  <2> QED BY <2>1 DEF AckedArePersisted, brokerVars
<1>4. OneRecommendation'
  BY DEF OneRecommendation
<1> QED BY <1>1, <1>2, <1>3, <1>4

(* The POST of c goes on: it ends well only with the row in place, and with  *)
(* an error only if a failure has been counted for it.                       *)
LEMMA RequestStep ==
  ASSUME IInv, NEW c \in Consumers, request[c] \in Stages,
         rows' \in {rows, Inserted(Tx(c), request[c])},
         NEW next \in Stages \union Replies, request' = [request EXCEPT ![c] = next],
         next # "none",
         next \in {"ok", "again"} => rows'[Tx(c)] > 0,
         next = "error" => attempt[c] <= transient',
         transient' \in Nat, transient' >= transient, UNCHANGED <<permanent, losses>>,
         UNCHANGED <<brokerVars, link, buffer, at, cur, attempt, orphans>>
  PROVE  IInv'
<1> USE DEF IInv
<1>1. at[c] = "await" /\ Tx(c) \in Txs
  BY Handled DEF WorkMatches, Stages
<1>2. /\ rows' \in [Txs -> Nat]
      /\ \A u \in Txs : rows[u] <= rows'[u] /\ rows'[u] <= 1
  BY <1>1, StatementKeeps
<1>3. /\ request' \in [Consumers -> Stages \union Replies] /\ request'[c] = next
      /\ \A d \in Consumers \ {c} : request'[d] = request[d]
  BY DEF TypeOK
<1>4. TypeOK'
  BY <1>2, <1>3 DEF TypeOK, brokerVars
<1>5. Known'
  BY DEF Known, brokerVars
<1>6. /\ NothingLost' /\ LinksMatch' /\ OwnDeliveries'
      /\ AckedArePersisted' /\ OneRecommendation'
  BY <1>2, RowsKeep
<1>7. WorkMatches'
  <2>1. ASSUME NEW d \in Consumers, at[d] # "idle"
        PROVE  Tx(d)' = Tx(d) /\ (rows[Tx(d)] > 0 => rows'[Tx(d)] > 0)
    <3>1. Tx(d) \in Txs
      BY <2>1, Handled
    <3>2. rows[Tx(d)] \in Nat /\ rows'[Tx(d)] \in Nat
      BY <1>2, <3>1 DEF TypeOK
    <3> QED BY <1>2, <3>1, <3>2 DEF Tx
  <2>2. ASSUME NEW d \in Consumers, at[d] = "ack" \/ request'[d] \in {"ok", "again"}
        PROVE  rows'[Tx(d)'] > 0
    <3>1. at[d] # "idle"
      BY <1>1, <1>3, <2>2 DEF WorkMatches
    <3> QED BY <1>1, <1>3, <2>1, <2>2, <3>1 DEF WorkMatches
  <2>3. \A d \in Consumers : at'[d] = at[d] /\ cur'[d] = cur[d]
    OBVIOUS
  <2> QED BY <1>1, <1>3, <2>2, <2>3 DEF WorkMatches, Tx
<1>8. AttemptsPaid'
  <2>1. ASSUME NEW d \in Consumers
        PROVE  /\ attempt[d] <= transient' + 1
               /\ request'[d] = "error" => attempt[d] <= transient'
    <3>1. /\ attempt[d] \in Nat /\ transient \in Nat /\ attempt[d] <= transient + 1
          /\ request[d] = "error" => attempt[d] <= transient
      BY ConsumerAssumption DEF AttemptsPaid, TypeOK
    <3>2. CASE d = c
      BY <1>3, <3>1, <3>2
    <3>3. CASE d # c
      BY <1>3, <3>1, <3>3
    <3> QED BY <3>2, <3>3
  <2>2. ASSUME NEW d \in Consumers, at[d] = "nack"
        PROVE  cur[d] \in Malformed \/ permanent > 0 \/ transient' >= MaxAttempts
    BY <2>2, ConsumerAssumption DEF AttemptsPaid, TypeOK
  <2> QED BY <2>1, <2>2 DEF AttemptsPaid
<1>9. GivenUpForAReason'
  BY ConsumerAssumption DEF GivenUpForAReason, TypeOK, brokerVars
<1> QED BY <1>4, <1>5, <1>6, <1>7, <1>8, <1>9

LEMMA CreateKeeps == ASSUME IInv, NEW c \in Consumers, Create(c) PROVE IInv'
<1>1. request[c] \in Stages /\ Tx(c) \in Txs
  BY Handled DEF Create, IInv, WorkMatches, Stages
<1> DEFINE next == After(Tx(c), request[c])
<1>2. /\ next \in {"insert", "again", "ok", "error"}
      /\ next \in {"ok", "again"} => rows'[Tx(c)] > 0
      /\ next = "error" => request[c] = "again" /\ rows[Tx(c)] = 0
  BY <1>1, Committed DEF Create
<1>3. next # "error"
  BY <1>2 DEF IInv, WorkMatches
<1>4. next \in Stages \union Replies /\ next # "none"
  BY <1>2 DEF Stages, Replies
<1>5. /\ transient \in Nat /\ request' = [request EXCEPT ![c] = next]
      /\ rows' \in {rows, Inserted(Tx(c), request[c])}
      /\ UNCHANGED <<transient, permanent, losses>>
      /\ UNCHANGED <<brokerVars, link, buffer, at, cur, attempt, orphans>>
  BY DEF Create, IInv, TypeOK, failureVars
<1>6. transient' \in Nat /\ transient' >= transient
  BY <1>5
<1> HIDE DEF next
<1> QED BY <1>1, <1>2, <1>3, <1>4, <1>5, <1>6, RequestStep

LEMMA CreateFailsKeeps == ASSUME IInv, NEW c \in Consumers, CreateFails(c) PROVE IInv'
<1>1. transient \in Nat /\ attempt[c] <= transient + 1
  BY DEF IInv, TypeOK, AttemptsPaid
<1>2. /\ request[c] \in Stages /\ transient' = transient + 1 /\ UNCHANGED <<permanent, losses>>
      /\ request' = [request EXCEPT ![c] = "error"]
      /\ rows' \in {rows, Inserted(Tx(c), request[c])}
      /\ UNCHANGED <<brokerVars, link, buffer, at, cur, attempt, orphans>>
  BY DEF CreateFails, Transient
<1>3. "error" \in Stages \union Replies
  BY DEF Replies
<1>4. transient' \in Nat /\ transient' >= transient /\ attempt[c] <= transient'
  BY <1>1, <1>2
<1> QED BY <1>2, <1>3, <1>4, RequestStep

LEMMA OrphanCreateKeeps ==
  ASSUME IInv, NEW t \in Txs, NEW s \in Stages, OrphanCreate(t, s) PROVE IInv'
<1> USE DEF IInv
<1>1. /\ rows' \in [Txs -> Nat]
      /\ \A u \in Txs : rows[u] <= rows'[u] /\ rows'[u] <= 1
  BY StatementKeeps DEF OrphanCreate
<1>2. PICK next \in {After(t, s), "error"} :
        orphans' = [orphans EXCEPT ![t] =
          [r \in Stages |-> IF r = s THEN @[r] - 1
                            ELSE IF r = next THEN @[r] + 1 ELSE @[r]]]
  <2>1. \E next \in {After(t, s), "error"} :
          orphans' = [orphans EXCEPT ![t] =
            [r \in Stages |-> IF r = s THEN @[r] - 1
                              ELSE IF r = next THEN @[r] + 1 ELSE @[r]]]
    BY DEF OrphanCreate
  <2> QED BY <2>1
<1>3. orphans[t][s] > 0 /\ orphans \in [Txs -> [Stages -> Nat]]
  BY DEF OrphanCreate, TypeOK
<1>4. /\ orphans'[t] \in [Stages -> Nat] /\ \A u \in Txs \ {t} : orphans'[u] = orphans[u]
      /\ orphans' \in [Txs -> [Stages -> Nat]]
  BY <1>2, <1>3
<1>5. UNCHANGED <<brokerVars, link, buffer, at, cur, attempt, request, failureVars>>
  BY DEF OrphanCreate, workVars
<1>6. TypeOK'
  BY <1>1, <1>4, <1>5 DEF TypeOK, brokerVars, failureVars
<1>7. Known'
  <2>1. \A u \in Txs, r \in Stages :
          orphans'[u][r] > 0 => \E m \in published \ Malformed : TxOf[m] = u
    BY <1>3, <1>4 DEF Known
  <2> QED BY <1>5, <2>1 DEF Known, brokerVars
<1>8. /\ NothingLost' /\ LinksMatch' /\ OwnDeliveries'
      /\ AckedArePersisted' /\ OneRecommendation'
  BY <1>1, <1>5, RowsKeep
<1>9. WorkMatches'
  <2>1. ASSUME NEW d \in Consumers, at[d] # "idle"
        PROVE  Tx(d)' = Tx(d) /\ (rows[Tx(d)] > 0 => rows'[Tx(d)] > 0)
    <3>1. Tx(d) \in Txs
      BY <2>1, Handled
    <3>2. rows[Tx(d)] \in Nat /\ rows'[Tx(d)] \in Nat
      BY <1>1, <3>1 DEF TypeOK
    <3> QED BY <1>1, <1>5, <3>1, <3>2 DEF Tx
  <2>2. \A d \in Consumers : at[d] = "ack" \/ request[d] \in {"ok", "again"} =>
          at[d] # "idle" /\ rows[Tx(d)] > 0
    BY DEF WorkMatches
  <2> QED BY <1>5, <2>1, <2>2 DEF WorkMatches
<1>10. AttemptsPaid' /\ GivenUpForAReason'
  BY <1>5 DEF AttemptsPaid, GivenUpForAReason, brokerVars, failureVars
<1> QED BY <1>6, <1>7, <1>8, <1>9, <1>10

-----------------------------------------------------------------------------
LEMMA Initially == Init => IInv
<1> SUFFICES ASSUME Init PROVE IInv
  OBVIOUS
<1> USE ConsumerAssumption DEF Init, IInv
<1>1. Cardinality({}) = 0
  BY FS_EmptySet
<1>2. TypeOK
  BY <1>1 DEF TypeOK, Links, Steps, Stages, Replies
<1>3. Known
  BY DEF Known
<1>4. NothingLost
  BY DEF NothingLost
<1>5. LinksMatch /\ OwnDeliveries
  BY DEF LinksMatch, OwnDeliveries
<1>6. WorkMatches
  BY DEF WorkMatches
<1>7. AckedArePersisted /\ OneRecommendation
  BY DEF AckedArePersisted, OneRecommendation
<1>8. AttemptsPaid /\ GivenUpForAReason
  BY DEF AttemptsPaid, GivenUpForAReason
<1> QED BY <1>2, <1>3, <1>4, <1>5, <1>6, <1>7, <1>8

(* Every step of the consumers, the broker and the backend keeps IInv.       *)
LEMMA Step == ASSUME IInv, [Next]_vars PROVE IInv'
<1>1. ASSUME NEW m \in Messages, Publish(m) PROVE IInv'
  BY <1>1, PublishKeeps
<1>2. ASSUME NEW m \in Messages, NEW c \in Consumers, Deliver(c, m) PROVE IInv'
  BY <1>2, DeliverKeeps
<1>3. ASSUME NEW c \in Consumers, Progress(c) PROVE IInv'
  BY <1>3, TakeKeeps, AnalyzeKeeps, PostKeeps, PersistedKeeps, ServerErrorKeeps, AckKeeps,
     NackKeeps, AnswerLostKeeps, CreateKeeps, ConnectKeeps, NoticedKeeps DEF Progress, Handle
<1>4. ASSUME NEW c \in Consumers, Failure(c) PROVE IInv'
  BY <1>4, TimeoutKeeps, ConnectionRefusedKeeps, PermanentFailureKeeps, CreateFailsKeeps,
     LinkLostKeeps, CrashKeeps DEF Failure
<1>5. ASSUME NEW t \in Txs, NEW s \in Stages, OrphanCreate(t, s) PROVE IInv'
  BY <1>5, OrphanCreateKeeps
<1>6. CASE UNCHANGED vars
  <2>1. UNCHANGED <<published, queue, acked, dlq, held, link, buffer, at, cur, attempt, request,
                    orphans, rows, transient, permanent, losses>>
    BY <1>6 DEF vars, brokerVars, workVars, backendVars, failureVars
  <2>2. TypeOK' /\ Known' /\ NothingLost' /\ LinksMatch'
    BY <2>1 DEF IInv, TypeOK, Known, NothingLost, LinksMatch
  <2>3. WorkMatches' /\ OwnDeliveries' /\ AttemptsPaid'
    BY <2>1 DEF IInv, WorkMatches, OwnDeliveries, AttemptsPaid, Tx
  <2>4. AckedArePersisted' /\ OneRecommendation' /\ GivenUpForAReason'
    BY <2>1 DEF IInv, AckedArePersisted, OneRecommendation, GivenUpForAReason
  <2> QED BY <2>2, <2>3, <2>4 DEF IInv
<1> QED BY <1>1, <1>2, <1>3, <1>4, <1>5, <1>6 DEF Next

(* The inductive invariant of the consumers.                                 *)
THEOREM Invariance == Spec => []IInv
BY Initially, Step, PTL DEF Spec

(* The state is typed, and no consumer holds more than its prefetch window.  *)
THEOREM Typing == Spec => []TypeOK
<1>1. IInv => TypeOK
  BY DEF IInv
<1> QED BY <1>1, Invariance, PTL

(* A message is acknowledged only when the backend has its recommendation.   *)
THEOREM AckedPersisted == Spec => []AckedArePersisted
<1>1. IInv => AckedArePersisted
  BY DEF IInv
<1> QED BY <1>1, Invariance, PTL

(* A published message is in exactly one place.                              *)
THEOREM NoMessageLost == Spec => []NothingLost
<1>1. IInv => NothingLost
  BY DEF IInv
<1> QED BY <1>1, Invariance, PTL

(* A transaction has at most one recommendation.                             *)
THEOREM OnePerTransaction == Spec => []OneRecommendation
<1>1. IInv => OneRecommendation
  BY DEF IInv
<1> QED BY <1>1, Invariance, PTL

(* A consumer answers on an open connection for its own deliveries only.     *)
THEOREM AnswersItsOwn == Spec => []OwnDeliveries
<1>1. IInv => OwnDeliveries
  BY DEF IInv
<1> QED BY <1>1, Invariance, PTL

(* A valid message is dead-lettered only after the failures that justify it. *)
THEOREM GivenUpFairly == Spec => []GivenUpForAReason
<1>1. IInv => GivenUpForAReason
  BY DEF IInv
<1> QED BY <1>1, Invariance, PTL

-----------------------------------------------------------------------------
(* The consumers implement IdempotentHandling, with a transaction persisted  *)
(* as soon as it has a row.                                                  *)

(* A statement of create() persists a transaction of the queue, or nothing.  *)
LEMMA StatementKept ==
  ASSUME IInv, NEW t \in Txs, NEW s \in Stages, rows' \in {rows, Inserted(t, s)},
         \E m \in published \ Malformed : TxOf[m] = t,
         UNCHANGED <<published, acked, dlq>>
  PROVE  [Promise!Next]_(Promise!promise)
<1>1. rows \in [Txs -> Nat]
  BY DEF IInv, TypeOK
<1>2. CASE rows' = rows
  BY <1>2 DEF Promise!promise
<1>3. CASE rows[t] = 0 /\ rows' = [rows EXCEPT ![t] = 1]
  <2>1. {u \in Txs : rows'[u] > 0} = {u \in Txs : rows[u] > 0} \union {t}
    BY <1>1, <1>3
  <2>2. t \notin {u \in Txs : rows[u] > 0}
    BY <1>3
  <2>3. Promise!Persist(t)
    BY <2>1, <2>2 DEF Promise!Persist
  <2> QED BY <2>3 DEF Promise!Next
<1> QED BY <1>2, <1>3 DEF Inserted

(* An answer on an open connection settles a message nobody has settled.     *)
LEMMA AnswerKept ==
  ASSUME IInv, NEW c \in Consumers, Ack(c) \/ Nack(c)
  PROVE  [Promise!Next]_(Promise!promise)
<1>1. /\ link[c] = "up" /\ at[c] \in {"ack", "nack"} /\ rows' = rows /\ published' = published
  BY DEF Ack, Nack, backendVars
<1>2. cur[c] \in Messages /\ cur[c] \in published /\ cur[c] \notin acked \union dlq
  BY <1>1, AnswersOwn
<1>3. CASE Ack(c)
  <2>1. cur[c] \notin Malformed /\ rows[TxOf[cur[c]]] > 0 /\ TxOf[cur[c]] \in Txs
    BY <1>2, <1>3, ConsumerAssumption DEF IInv, WorkMatches, Ack, Tx
  <2>2. Promise!Ack(cur[c])
    BY <1>1, <1>2, <1>3, <2>1 DEF Promise!Ack, Promise!Pending, Ack
  <2> QED BY <1>2, <2>2 DEF Promise!Next
<1>4. CASE Nack(c)
  <2>1. Promise!DeadLetter(cur[c])
    BY <1>1, <1>2, <1>4 DEF Promise!DeadLetter, Promise!Pending, Nack
  <2> QED BY <1>2, <2>1 DEF Promise!Next
<1> QED BY <1>3, <1>4

LEMMA PromiseStep == ASSUME IInv, [Next]_vars PROVE [Promise!Next]_(Promise!promise)
<1>1. ASSUME NEW m \in Messages, Publish(m) PROVE [Promise!Next]_(Promise!promise)
  <2>1. Promise!Publish(m)
    BY <1>1 DEF Publish, Promise!Publish, backendVars
  <2> QED BY <2>1 DEF Promise!Next
<1>2. ASSUME NEW c \in Consumers, Ack(c) \/ Nack(c) PROVE [Promise!Next]_(Promise!promise)
  BY <1>2, AnswerKept
<1>3. ASSUME NEW c \in Consumers, Create(c) \/ CreateFails(c)
      PROVE  [Promise!Next]_(Promise!promise)
  <2>1. request[c] \in Stages /\ at[c] = "await" /\ cur[c] \notin Malformed
    BY <1>3 DEF Create, CreateFails, IInv, WorkMatches, Stages
  <2>2. Tx(c) \in Txs /\ \E m \in published \ Malformed : TxOf[m] = Tx(c)
    BY <2>1, Handled DEF Tx
  <2>3. /\ rows' \in {rows, Inserted(Tx(c), request[c])}
        /\ UNCHANGED <<published, acked, dlq>>
    BY <1>3 DEF Create, CreateFails, brokerVars
  <2> QED BY <2>1, <2>2, <2>3, StatementKept
<1>4. ASSUME NEW t \in Txs, NEW s \in Stages, OrphanCreate(t, s)
      PROVE  [Promise!Next]_(Promise!promise)
  <2>1. /\ rows' \in {rows, Inserted(t, s)} /\ orphans[t][s] > 0
        /\ UNCHANGED <<published, acked, dlq>>
    BY <1>4 DEF OrphanCreate, brokerVars
  <2>2. \E m \in published \ Malformed : TxOf[m] = t
    BY <2>1 DEF IInv, Known
  <2> QED BY <2>1, <2>2, StatementKept
<1>5. ASSUME UNCHANGED <<published, acked, dlq, rows>> PROVE [Promise!Next]_(Promise!promise)
  BY <1>5 DEF Promise!promise
<1>6. ASSUME NEW c \in Consumers, NEW m \in Messages, Deliver(c, m)
      PROVE  [Promise!Next]_(Promise!promise)
  BY <1>5, <1>6 DEF Deliver, backendVars
<1>7. ASSUME NEW c \in Consumers, Handle(c) PROVE [Promise!Next]_(Promise!promise)
  BY <1>2, <1>5, <1>7 DEF Handle, Take, Analyze, Post, Persisted, ServerError, AnswerLost,
     brokerVars, backendVars
<1>8. ASSUME NEW c \in Consumers, Progress(c) PROVE [Promise!Next]_(Promise!promise)
  BY <1>3, <1>5, <1>7, <1>8 DEF Progress, Connect, Noticed, brokerVars, backendVars
<1>9. ASSUME NEW c \in Consumers, Failure(c) PROVE [Promise!Next]_(Promise!promise)
  BY <1>3, <1>5, <1>9 DEF Failure, Timeout, ConnectionRefused, PermanentFailure, LinkLost, Crash,
     Requeue, brokerVars, backendVars
<1>10. CASE UNCHANGED vars
  BY <1>5, <1>10 DEF vars, brokerVars, backendVars
<1> QED BY <1>1, <1>4, <1>6, <1>8, <1>9, <1>10 DEF Next

(* The consumers and the endpoint keep the promise of the docstring: an      *)
(* acknowledged message has its recommendation, any other one is pending or  *)
(* dead-lettered, and an answer is never taken back.                         *)
THEOREM Implementation == Spec => KeepsPromise
<1>1. Init => Promise!Init
  BY DEF Init, Promise!Init
<1>2. IInv /\ [Next]_vars => [Promise!Next]_(Promise!promise)
  BY PromiseStep
<1> QED BY <1>1, <1>2, Invariance, PTL DEF Spec, KeepsPromise, Promise!SafeSpec

-----------------------------------------------------------------------------
(* What a callback has left to do.                                           *)

LEMMA Distances ==
  ASSUME IInv, NEW c \in Consumers
  PROVE  /\ attempt[c] \in 1..MaxAttempts /\ Distance(c) \in 1..9 /\ StepsLeft(c) \in Nat
         /\ StepsLeft(c) <= 10 * MaxAttempts
         /\ at[c] # "idle" => StepsLeft(c) = 10 * (MaxAttempts - attempt[c]) + Distance(c)
         /\ at[c] # "idle" => StepsLeft(c) > 0
         /\ at[c] = "idle" => StepsLeft(c) = 0
<1>1. attempt[c] \in 1..MaxAttempts
  BY DEF IInv, TypeOK
<1>2. Distance(c) \in 1..9
  BY DEF Distance
<1> QED BY <1>1, <1>2, ConsumerAssumption DEF StepsLeft

(* The callback ends: nothing is left of it.                                 *)
LEMMA Ends ==
  ASSUME IInv, NEW c \in Consumers, at[c] # "idle", at'[c] = "idle"
  PROVE  Nearer(c)
<1>1. StepsLeft(c)' = 0
  BY DEF StepsLeft
<1>2. StepsLeft(c) \in Nat /\ StepsLeft(c) > 0
  BY Distances
<1> QED BY <1>1, <1>2 DEF Nearer

(* It goes on within its attempt.                                            *)
LEMMA GoesOn ==
  ASSUME IInv, IInv', NEW c \in Consumers, at[c] # "idle", at'[c] # "idle",
         attempt'[c] = attempt[c], Distance(c)' < Distance(c)
  PROVE  Nearer(c)
<1>1. /\ attempt[c] \in 1..MaxAttempts /\ Distance(c) \in 1..9
      /\ StepsLeft(c) = 10 * (MaxAttempts - attempt[c]) + Distance(c)
  BY Distances
<1>2. Distance(c)' \in 1..9
  BY DEF Distance
<1>3. StepsLeft(c)' = 10 * (MaxAttempts - attempt[c]) + Distance(c)'
  BY DEF StepsLeft
<1> QED BY <1>1, <1>2, <1>3, ConsumerAssumption DEF Nearer

(* It is not concerned.                                                      *)
LEMMA Stays ==
  ASSUME IInv, NEW c \in Consumers,
         at'[c] = at[c], request'[c] = request[c], cur'[c] = cur[c], attempt'[c] = attempt[c]
  PROVE  Nearer(c)
<1>1. StepsLeft(c)' = StepsLeft(c) /\ Handling(c)' = Handling(c)
  BY DEF StepsLeft, Distance, Handling
<1>2. StepsLeft(c) \in Nat
  BY Distances
<1> QED BY <1>1, <1>2 DEF Nearer

(* A transient failure costs an attempt, or it is the last.                  *)
LEMMA RetryNearer ==
  ASSUME IInv, NEW c \in Consumers, at[c] \in {"post", "await"}, RetryOrGiveUp(c)
  PROVE  Nearer(c)
<1>1. /\ attempt[c] \in 1..MaxAttempts /\ Distance(c) \in 1..9
      /\ StepsLeft(c) = 10 * (MaxAttempts - attempt[c]) + Distance(c)
  BY Distances
<1>2. Distance(c) > 1
  BY DEF Distance
<1>3. CASE attempt[c] < MaxAttempts /\ Goto(c, "post") /\ attempt' = [attempt EXCEPT ![c] = @ + 1]
  <2>1. at'[c] = "post" /\ attempt'[c] = attempt[c] + 1
    BY <1>3 DEF Goto, IInv, TypeOK
  <2>2. StepsLeft(c)' = 10 * (MaxAttempts - (attempt[c] + 1)) + 8
    BY <2>1 DEF StepsLeft, Distance
  <2> QED BY <1>1, <2>2, ConsumerAssumption DEF Nearer
<1>4. CASE Goto(c, "nack") /\ UNCHANGED attempt
  <2>1. at'[c] = "nack" /\ attempt'[c] = attempt[c]
    BY <1>4 DEF Goto, IInv, TypeOK
  <2>2. StepsLeft(c)' = 10 * (MaxAttempts - attempt[c]) + 1
    BY <2>1 DEF StepsLeft, Distance
  <2> QED BY <1>1, <1>2, <2>2, ConsumerAssumption DEF Nearer
<1> QED BY <1>3, <1>4 DEF RetryOrGiveUp

(* A step of c.                                                              *)
LEMMA OwnStepNearer ==
  ASSUME IInv, IInv', NEW c \in Consumers, Progress(c) \/ Failure(c), at[c] # "idle"
  PROVE  Nearer(c)
<1> DEFINE ToStep(s) == at'[c] = s /\ attempt'[c] = attempt[c]
<1>1. /\ at \in [Consumers -> Steps] /\ attempt \in [Consumers -> 1..MaxAttempts]
      /\ request \in [Consumers -> Stages \union Replies]
  BY DEF IInv, TypeOK
<1>2. CASE Take(c) \/ Connect(c) \/ Noticed(c)
  BY <1>2, Stays DEF Take, Connect, Noticed, IInv, LinksMatch, workVars
<1>3. CASE LinkLost(c)
  BY <1>3, Stays DEF LinkLost, workVars
<1>4. CASE Analyze(c) \/ Post(c) \/ Persisted(c) \/ PermanentFailure(c)
  <2>1. \/ at[c] = "analyze" /\ ToStep("post")
        \/ at[c] = "post" /\ ToStep("await") /\ request'[c] = "find"
        \/ at[c] = "await" /\ ToStep("ack")
        \/ at[c] \in {"analyze", "await"} /\ ToStep("nack")
    BY <1>1, <1>4 DEF Analyze, Post, Persisted, PermanentFailure, Goto
  <2>2. Distance(c)' < Distance(c)
    BY <2>1 DEF Distance
  <2> QED BY <2>1, <2>2, GoesOn
<1>5. CASE ServerError(c) \/ Timeout(c) \/ ConnectionRefused(c)
  BY <1>5, RetryNearer DEF ServerError, Timeout, ConnectionRefused
<1>6. CASE Ack(c) \/ Nack(c) \/ AnswerLost(c) \/ Crash(c)
  <2>1. at'[c] = "idle"
    BY <1>6, Forgets DEF Ack, Nack, AnswerLost, Crash
  <2> QED BY <2>1, Ends
<1>7. CASE Create(c) \/ CreateFails(c)
  <2>1. request[c] \in Stages /\ at[c] = "await" /\ ToStep("await")
    BY <1>7 DEF Create, CreateFails, IInv, WorkMatches, Stages
  <2>2. \/ request[c] = "find" /\ request'[c] \in {"ok", "insert", "error"}
        \/ request[c] = "insert" /\ request'[c] \in {"ok", "again", "error"}
        \/ request[c] = "again" /\ request'[c] \in {"ok", "error"}
    BY <1>1, <1>7, <2>1 DEF Create, CreateFails, After, Stages
  <2>3. Distance(c)' < Distance(c)
    BY <2>1, <2>2 DEF Distance
  <2> QED BY <2>1, <2>3, GoesOn
<1> QED BY <1>2, <1>3, <1>4, <1>5, <1>6, <1>7 DEF Progress, Handle, Failure

(* A step of another consumer, of the broker or of an orphan.                *)
LEMMA OthersStay ==
  ASSUME IInv, NEW c \in Consumers, NEW d \in Consumers \ {c}, Progress(d) \/ Failure(d)
  PROVE  Nearer(c)
<1>1. /\ at \in [Consumers -> Steps] /\ attempt \in [Consumers -> 1..MaxAttempts]
      /\ request \in [Consumers -> Stages \union Replies]
      /\ cur \in [Consumers -> Messages \union {NoMessage}]
  BY DEF IInv, TypeOK
<1>2. at'[c] = at[c] /\ request'[c] = request[c] /\ cur'[c] = cur[c] /\ attempt'[c] = attempt[c]
  <2>1. CASE Take(d) \/ Connect(d) \/ Noticed(d) \/ LinkLost(d)
    BY <1>1, <2>1 DEF Take, Connect, Noticed, LinkLost, Goto, workVars
  <2>2. CASE Analyze(d) \/ Post(d) \/ Persisted(d) \/ PermanentFailure(d)
    BY <1>1, <2>2 DEF Analyze, Post, Persisted, PermanentFailure, Goto
  <2>3. CASE ServerError(d) \/ Timeout(d) \/ ConnectionRefused(d)
    BY <1>1, <2>3 DEF ServerError, Timeout, ConnectionRefused, RetryOrGiveUp, Goto
  <2>4. CASE Ack(d) \/ Nack(d) \/ AnswerLost(d) \/ Crash(d)
    BY <2>4, Forgets DEF Ack, Nack, AnswerLost, Crash
  <2>5. CASE Create(d) \/ CreateFails(d)
    BY <1>1, <2>5 DEF Create, CreateFails
  <2> QED BY <2>1, <2>2, <2>3, <2>4, <2>5 DEF Progress, Handle, Failure
<1> QED BY <1>2, Stays

LEMMA StepNearer ==
  ASSUME IInv, IInv', Next, NEW c \in Consumers, at[c] # "idle" PROVE Nearer(c)
<1>1. ASSUME NEW m \in Messages, Publish(m) \/ \E d \in Consumers : Deliver(d, m) PROVE Nearer(c)
  BY <1>1, Stays DEF Publish, Deliver, workVars
<1>2. ASSUME NEW d \in Consumers, Progress(d) \/ Failure(d) PROVE Nearer(c)
  BY <1>2, OwnStepNearer, OthersStay
<1>3. ASSUME NEW t \in Txs, NEW s \in Stages, OrphanCreate(t, s) PROVE Nearer(c)
  BY <1>3, Stays DEF OrphanCreate, workVars
<1> QED BY <1>1, <1>2, <1>3 DEF Next

(* Every delivery is handled in a bounded number of steps of its own: each   *)
(* of them leaves less of 10 * MaxAttempts to do, whatever fails meanwhile.  *)
THEOREM EveryHandlingRunsOut ==
  Spec => HandlingRunsOut /\ [](\A c \in Consumers : StepsLeft(c) \in 0..(10 * MaxAttempts))
<1>1. IInv /\ IInv' /\ [Next]_vars => [\A c \in Consumers : at[c] # "idle" => Nearer(c)]_vars
  BY StepNearer
<1>2. IInv => \A c \in Consumers : StepsLeft(c) \in 0..(10 * MaxAttempts)
  <2>1. ASSUME IInv, NEW c \in Consumers PROVE StepsLeft(c) \in 0..(10 * MaxAttempts)
    BY <2>1, Distances, ConsumerAssumption
  <2> QED BY <2>1
<1> QED BY <1>1, <1>2, Invariance, PTL DEF Spec, HandlingRunsOut

(* A message comes back to the queue only when a connection or a consumer is *)
(* lost: no answer of a consumer requeues it.                                *)
THEOREM NoRedeliveryLoop == Spec => OnlyLossesRedeliver
<1> DEFINE Redelivers == \A m \in published \ queue : m \in queue' => losses' = losses + 1
<1>1. ASSUME NEW m \in Messages, Publish(m) \/ \E c \in Consumers : Deliver(c, m) PROVE Redelivers
  BY <1>1 DEF Publish, Deliver
<1>2. ASSUME NEW c \in Consumers, Failure(c) PROVE Redelivers
  BY <1>2 DEF Failure, Timeout, ConnectionRefused, PermanentFailure, CreateFails, LinkLost, Crash,
     Loss, brokerVars
<1>3. ASSUME NEW c \in Consumers, Progress(c) PROVE Redelivers
  BY <1>3 DEF Progress, Handle, Take, Analyze, Post, Persisted, ServerError, Ack, Nack, AnswerLost,
     Create, Connect, Noticed, brokerVars
<1>4. ASSUME NEW t \in Txs, NEW s \in Stages, OrphanCreate(t, s) PROVE Redelivers
  BY <1>4 DEF OrphanCreate, brokerVars
<1>5. [Next]_vars => [Redelivers]_vars
  BY <1>1, <1>2, <1>3, <1>4 DEF Next
<1> QED BY <1>5, PTL DEF Spec, OnlyLossesRedeliver

(* Who waits for a POST is being served.                                     *)
LEMMA ServedStep ==
  ASSUME IInv, [Next]_vars, \A c \in Consumers : at[c] = "await" => request[c] # "none",
         NEW c \in Consumers, at'[c] = "await"
  PROVE  request'[c] # "none"
<1>1. /\ at \in [Consumers -> Steps] /\ request \in [Consumers -> Stages \union Replies]
  BY DEF IInv, TypeOK
<1>2. ASSUME UNCHANGED <<at, request>> PROVE request'[c] # "none"
  BY <1>2
<1>3. ASSUME NEW d \in Consumers, Handle(d) PROVE request'[c] # "none"
  <2>1. CASE Take(d) \/ Analyze(d) \/ Persisted(d)
    BY <1>1, <2>1 DEF Take, Analyze, Persisted, Goto
  <2>2. CASE Post(d)
    BY <1>1, <2>2 DEF Post, Goto
  <2>3. CASE ServerError(d)
    BY <1>1, <2>3 DEF ServerError, RetryOrGiveUp, Goto
  <2>4. CASE Ack(d) \/ Nack(d) \/ AnswerLost(d)
    BY <1>1, <2>4, Forgets DEF Ack, Nack, AnswerLost
  <2> QED BY <1>3, <2>1, <2>2, <2>3, <2>4 DEF Handle
<1>4. ASSUME NEW d \in Consumers, Create(d) \/ CreateFails(d) PROVE request'[c] # "none"
  BY <1>1, <1>4 DEF Create, CreateFails, After
<1>5. ASSUME NEW d \in Consumers, Failure(d) PROVE request'[c] # "none"
  <2>1. CASE Timeout(d) \/ ConnectionRefused(d)
    BY <1>1, <2>1 DEF Timeout, ConnectionRefused, RetryOrGiveUp, Goto
  <2>2. CASE PermanentFailure(d)
    BY <1>1, <2>2 DEF PermanentFailure, Goto
  <2>3. CASE LinkLost(d)
    BY <1>2, <2>3 DEF LinkLost, workVars
  <2>4. CASE Crash(d)
    BY <1>1, <2>4, Forgets DEF Crash
  <2> QED BY <1>4, <1>5, <2>1, <2>2, <2>3, <2>4 DEF Failure
<1>6. ASSUME NEW d \in Consumers, Progress(d) PROVE request'[c] # "none"
  BY <1>2, <1>3, <1>4, <1>6 DEF Progress, Connect, Noticed, workVars
<1> QED BY <1>2, <1>5, <1>6 DEF Next, Publish, Deliver, OrphanCreate, vars, workVars

(* A callback in progress never waits for what cannot come: its POST is      *)
(* being served or answered, and it has a connection to answer on.           *)
THEOREM HandlingGoesOn == Spec => []NeverStuck
<1> DEFINE Served == \A c \in Consumers : at[c] = "await" => request[c] # "none"
<1>1. Init => Served
  BY DEF Init
<1>2. IInv /\ Served /\ [Next]_vars => Served'
  BY ServedStep
<1>3. IInv /\ Served => NeverStuck
  BY DEF IInv, LinksMatch, NeverStuck
<1> QED BY <1>1, <1>2, <1>3, Invariance, PTL DEF Spec
=============================================================================
