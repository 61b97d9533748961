------------------------- MODULE OutboxRelayProofs --------------------------
(* Proofs about OutboxRelay, for every number of replicas, rows, batches and *)
(* failures.                                                                 *)
EXTENDS OutboxRelayInv, FiniteSetTheorems, TLAPS

(* Every step keeps the types. *)
LEMMA TypeStep ==
  ASSUME TypeOK, [Next]_vars
  PROVE  TypeOK'
<1>0. CASE UNCHANGED vars
  BY <1>0, RelayAssumption DEF vars, drainVars, dbVars, brokerVars, TypeOK, PCs, InTransaction, Message
<1>1. ASSUME NEW e \in Events, Insert(e) PROVE TypeOK'
  BY <1>1, RelayAssumption DEF Insert, drainVars, dbVars, brokerVars, TypeOK, PCs, InTransaction, Message
<1>2. CASE Store
  BY <1>2, RelayAssumption DEF Store, drainVars, dbVars, brokerVars, TypeOK, PCs, InTransaction, Message
<1>3. ASSUME NEW i \in Replicas, Tick(i) PROVE TypeOK'
  BY <1>3, RelayAssumption DEF Tick, Goto, drainVars, dbVars, brokerVars, TypeOK, PCs, InTransaction, Message
<1>4. ASSUME NEW i \in Replicas, Connect(i) PROVE TypeOK'
  BY <1>4, RelayAssumption DEF Connect, Goto, drainVars, dbVars, brokerVars, TypeOK, PCs, InTransaction, Message
<1>5. ASSUME NEW i \in Replicas, ConnectFails(i) PROVE TypeOK'
  BY <1>5, RelayAssumption DEF ConnectFails, Goto, Fault, drainVars, dbVars, brokerVars, TypeOK, PCs, InTransaction, Message
<1>6. ASSUME NEW i \in Replicas, Select(i) PROVE TypeOK'
  BY <1>6, RelayAssumption DEF Select, OldestOf, UnlockedPending, Goto, drainVars, dbVars, brokerVars, TypeOK, PCs, InTransaction, Message
<1>7. ASSUME NEW i \in Replicas, Publish(i) PROVE TypeOK'
  BY <1>7, RelayAssumption DEF Publish, Goto, drainVars, dbVars, brokerVars, TypeOK, PCs, InTransaction, Message
<1>8. ASSUME NEW i \in Replicas, Confirm(i) PROVE TypeOK'
  BY <1>8, RelayAssumption DEF Confirm, drainVars, dbVars, brokerVars, TypeOK, PCs, InTransaction, Message
<1>9. ASSUME NEW i \in Replicas, Timeout(i) PROVE TypeOK'
  BY <1>9, RelayAssumption DEF Timeout, Fault, drainVars, dbVars, brokerVars, TypeOK, PCs, InTransaction, Message
<1>10. ASSUME NEW i \in Replicas, Settled(i) PROVE TypeOK'
  BY <1>10, RelayAssumption DEF Settled, Goto, drainVars, dbVars, brokerVars, TypeOK, PCs, InTransaction, Message
<1>11. ASSUME NEW i \in Replicas, Mark(i) PROVE TypeOK'
  BY <1>11, RelayAssumption DEF Mark, Goto, drainVars, dbVars, brokerVars, TypeOK, PCs, InTransaction, Message
<1>12. ASSUME NEW i \in Replicas, Note(i) PROVE TypeOK'
  BY <1>12, RelayAssumption DEF Note, Goto, drainVars, dbVars, brokerVars, TypeOK, PCs, InTransaction, Message
<1>13. ASSUME NEW i \in Replicas, Commit(i) PROVE TypeOK'
  BY <1>13, RelayAssumption DEF Commit, Goto, Unlocked, drainVars, dbVars, brokerVars, TypeOK, PCs, InTransaction, Message
<1>14. ASSUME NEW i \in Replicas, Count(i) PROVE TypeOK'
  BY <1>14, RelayAssumption DEF Count, Goto, drainVars, dbVars, brokerVars, TypeOK, PCs, InTransaction, Message
<1>15. ASSUME NEW i \in Replicas, SessionGone(i) PROVE TypeOK'
  BY <1>15, RelayAssumption DEF SessionGone, Goto, drainVars, dbVars, brokerVars, TypeOK, PCs, InTransaction, Message
<1>16. ASSUME NEW i \in Replicas, StatementFails(i) PROVE TypeOK'
  BY <1>16, RelayAssumption DEF StatementFails, Goto, Fault, drainVars, dbVars, brokerVars, TypeOK, PCs, InTransaction, Message
<1>17. ASSUME NEW i \in Replicas, CommitUnacknowledged(i) PROVE TypeOK'
  BY <1>17, RelayAssumption DEF CommitUnacknowledged, Goto, Fault, Unlocked, drainVars, dbVars, brokerVars, TypeOK, PCs, InTransaction, Message
<1>18. ASSUME NEW i \in Replicas, Caught(i) PROVE TypeOK'
  BY <1>18, RelayAssumption DEF Caught, Goto, Unlocked, drainVars, dbVars, brokerVars, TypeOK, PCs, InTransaction, Message
<1>19. ASSUME NEW i \in Replicas, Release(i) PROVE TypeOK'
  <2>1. CASE full[i] /\ round[i] < MaxBatches
    <3>1. round[i] + 1 \in 0..MaxBatches
      BY <2>1, RelayAssumption DEF TypeOK
    <3>2. round' \in [Replicas -> 0..MaxBatches]
      BY <1>19, <2>1, <3>1 DEF Release, TypeOK
    <3>3. pc' \in [Replicas -> PCs]
      BY <1>19, <2>1 DEF Release, Goto, TypeOK, PCs
    <3> QED BY <1>19, <2>1, <3>2, <3>3 DEF Release, dbVars, brokerVars, TypeOK
  <2>2. CASE ~ (full[i] /\ round[i] < MaxBatches)
    <3>1. 0 \in 0..MaxBatches
      BY RelayAssumption
    <3>3. round' \in [Replicas -> 0..MaxBatches]
      BY <1>19, <2>2, <3>1 DEF Release, TypeOK
    <3>4. running' \in [Replicas -> BOOLEAN]
      BY <1>19, <2>2 DEF Release, TypeOK
    <3>2. pc' \in [Replicas -> PCs]
      BY <1>19, <2>2 DEF Release, Goto, TypeOK, PCs
    <3> QED BY <1>19, <2>2, <3>2, <3>3, <3>4 DEF Release, dbVars, brokerVars, TypeOK
  <2> QED BY <2>1, <2>2
<1>20. ASSUME NEW i \in Replicas, Nack(i) PROVE TypeOK'
  BY <1>20, RelayAssumption DEF Nack, Fault, drainVars, dbVars, brokerVars, TypeOK, PCs, InTransaction, Message
<1>21. ASSUME NEW i \in Replicas, Disconnect(i) PROVE TypeOK'
  BY <1>21, RelayAssumption DEF Disconnect, ChannelEnds, MessagesOf, Fault, drainVars, dbVars, brokerVars, TypeOK, PCs, InTransaction, Message
<1>22. ASSUME NEW i \in Replicas, Reconnect(i) PROVE TypeOK'
  BY <1>22, RelayAssumption DEF Reconnect, drainVars, dbVars, brokerVars, TypeOK, PCs, InTransaction, Message
<1>23. ASSUME NEW i \in Replicas, SessionEnds(i) PROVE TypeOK'
  BY <1>23, RelayAssumption DEF SessionEnds, Fault, Unlocked, drainVars, dbVars, brokerVars, TypeOK, PCs, InTransaction, Message
<1>24. ASSUME NEW i \in Replicas, Crash(i) PROVE TypeOK'
  BY <1>24, RelayAssumption DEF Crash, ChannelEnds, MessagesOf, Fault, Unlocked, drainVars, dbVars, brokerVars, TypeOK, PCs, InTransaction, Message
<1>q. QED
  BY <1>0, <1>1, <1>2, <1>3, <1>4, <1>5, <1>6, <1>7, <1>8, <1>9, <1>10, <1>11, <1>12, <1>13, <1>14, <1>15, <1>16, <1>17, <1>18, <1>19, <1>20, <1>21, <1>22, <1>23, <1>24 DEF Next, Drain, Failure

(* A message, a batch and a mark are about committed rows. *)
LEMMA RowsStep ==
  ASSUME TypeOK, RowsKnown, ConfirmedAreStored, [Next]_vars
  PROVE  RowsKnown'
<1>0. CASE UNCHANGED vars
  BY <1>0, RelayAssumption DEF vars, drainVars, dbVars, brokerVars, TypeOK, RowsKnown, ConfirmedAreStored, Stored, Message
<1>1. ASSUME NEW e \in Events, Insert(e) PROVE RowsKnown'
  BY <1>1, RelayAssumption DEF Insert, drainVars, dbVars, brokerVars, TypeOK, RowsKnown, ConfirmedAreStored, Stored, Message
<1>2. CASE Store
  BY <1>2, RelayAssumption DEF Store, drainVars, dbVars, brokerVars, TypeOK, RowsKnown, ConfirmedAreStored, Stored, Message
<1>3. ASSUME NEW i \in Replicas, Tick(i) PROVE RowsKnown'
  BY <1>3, RelayAssumption DEF Tick, Goto, drainVars, dbVars, brokerVars, TypeOK, RowsKnown, ConfirmedAreStored, Stored, Message
<1>4. ASSUME NEW i \in Replicas, Connect(i) PROVE RowsKnown'
  BY <1>4, RelayAssumption DEF Connect, Goto, drainVars, dbVars, brokerVars, TypeOK, RowsKnown, ConfirmedAreStored, Stored, Message
<1>5. ASSUME NEW i \in Replicas, ConnectFails(i) PROVE RowsKnown'
  BY <1>5, RelayAssumption DEF ConnectFails, Goto, Fault, drainVars, dbVars, brokerVars, TypeOK, RowsKnown, ConfirmedAreStored, Stored, Message
<1>6. ASSUME NEW i \in Replicas, Select(i) PROVE RowsKnown'
  BY <1>6, RelayAssumption DEF Select, OldestOf, UnlockedPending, Goto, drainVars, dbVars, brokerVars, TypeOK, RowsKnown, ConfirmedAreStored, Stored, Message
<1>7. ASSUME NEW i \in Replicas, Publish(i) PROVE RowsKnown'
  BY <1>7, RelayAssumption DEF Publish, Goto, drainVars, dbVars, brokerVars, TypeOK, RowsKnown, ConfirmedAreStored, Stored, Message
<1>8. ASSUME NEW i \in Replicas, Confirm(i) PROVE RowsKnown'
  BY <1>8, RelayAssumption DEF Confirm, drainVars, dbVars, brokerVars, TypeOK, RowsKnown, ConfirmedAreStored, Stored, Message
<1>9. ASSUME NEW i \in Replicas, Timeout(i) PROVE RowsKnown'
  BY <1>9, RelayAssumption DEF Timeout, Fault, drainVars, dbVars, brokerVars, TypeOK, RowsKnown, ConfirmedAreStored, Stored, Message
<1>10. ASSUME NEW i \in Replicas, Settled(i) PROVE RowsKnown'
  BY <1>10, RelayAssumption DEF Settled, Goto, drainVars, dbVars, brokerVars, TypeOK, RowsKnown, ConfirmedAreStored, Stored, Message
<1>11. ASSUME NEW i \in Replicas, Mark(i) PROVE RowsKnown'
  BY <1>11, RelayAssumption DEF Mark, Goto, drainVars, dbVars, brokerVars, TypeOK, RowsKnown, ConfirmedAreStored, Stored, Message
<1>12. ASSUME NEW i \in Replicas, Note(i) PROVE RowsKnown'
  BY <1>12, RelayAssumption DEF Note, Goto, drainVars, dbVars, brokerVars, TypeOK, RowsKnown, ConfirmedAreStored, Stored, Message
<1>13. ASSUME NEW i \in Replicas, Commit(i) PROVE RowsKnown'
  BY <1>13, RelayAssumption DEF Commit, Goto, Unlocked, drainVars, dbVars, brokerVars, TypeOK, RowsKnown, ConfirmedAreStored, Stored, Message
<1>14. ASSUME NEW i \in Replicas, Count(i) PROVE RowsKnown'
  BY <1>14, RelayAssumption DEF Count, Goto, drainVars, dbVars, brokerVars, TypeOK, RowsKnown, ConfirmedAreStored, Stored, Message
<1>15. ASSUME NEW i \in Replicas, SessionGone(i) PROVE RowsKnown'
  BY <1>15, RelayAssumption DEF SessionGone, Goto, drainVars, dbVars, brokerVars, TypeOK, RowsKnown, ConfirmedAreStored, Stored, Message
<1>16. ASSUME NEW i \in Replicas, StatementFails(i) PROVE RowsKnown'
  BY <1>16, RelayAssumption DEF StatementFails, Goto, Fault, drainVars, dbVars, brokerVars, TypeOK, RowsKnown, ConfirmedAreStored, Stored, Message
<1>17. ASSUME NEW i \in Replicas, CommitUnacknowledged(i) PROVE RowsKnown'
  BY <1>17, RelayAssumption DEF CommitUnacknowledged, Goto, Fault, Unlocked, drainVars, dbVars, brokerVars, TypeOK, RowsKnown, ConfirmedAreStored, Stored, Message
<1>18. ASSUME NEW i \in Replicas, Caught(i) PROVE RowsKnown'
  BY <1>18, RelayAssumption DEF Caught, Goto, Unlocked, drainVars, dbVars, brokerVars, TypeOK, RowsKnown, ConfirmedAreStored, Stored, Message
<1>19. ASSUME NEW i \in Replicas, Release(i) PROVE RowsKnown'
  BY <1>19, RelayAssumption DEF Release, Goto, drainVars, dbVars, brokerVars, TypeOK, RowsKnown, ConfirmedAreStored, Stored, Message
<1>20. ASSUME NEW i \in Replicas, Nack(i) PROVE RowsKnown'
  BY <1>20, RelayAssumption DEF Nack, Fault, drainVars, dbVars, brokerVars, TypeOK, RowsKnown, ConfirmedAreStored, Stored, Message
<1>21. ASSUME NEW i \in Replicas, Disconnect(i) PROVE RowsKnown'
  BY <1>21, RelayAssumption DEF Disconnect, ChannelEnds, MessagesOf, Fault, drainVars, dbVars, brokerVars, TypeOK, RowsKnown, ConfirmedAreStored, Stored, Message
<1>22. ASSUME NEW i \in Replicas, Reconnect(i) PROVE RowsKnown'
  BY <1>22, RelayAssumption DEF Reconnect, drainVars, dbVars, brokerVars, TypeOK, RowsKnown, ConfirmedAreStored, Stored, Message
<1>23. ASSUME NEW i \in Replicas, SessionEnds(i) PROVE RowsKnown'
  BY <1>23, RelayAssumption DEF SessionEnds, Fault, Unlocked, drainVars, dbVars, brokerVars, TypeOK, RowsKnown, ConfirmedAreStored, Stored, Message
<1>24. ASSUME NEW i \in Replicas, Crash(i) PROVE RowsKnown'
  BY <1>24, RelayAssumption DEF Crash, ChannelEnds, MessagesOf, Fault, Unlocked, drainVars, dbVars, brokerVars, TypeOK, RowsKnown, ConfirmedAreStored, Stored, Message
<1>q. QED
  BY <1>0, <1>1, <1>2, <1>3, <1>4, <1>5, <1>6, <1>7, <1>8, <1>9, <1>10, <1>11, <1>12, <1>13, <1>14, <1>15, <1>16, <1>17, <1>18, <1>19, <1>20, <1>21, <1>22, <1>23, <1>24 DEF Next, Drain, Failure

(* Confirmed and marked rows are stored rows of the batch. *)
LEMMA ConfirmedStep ==
  ASSUME TypeOK, ConfirmedAreStored, PromisesKnown, [Next]_vars
  PROVE  ConfirmedAreStored'
<1>0. CASE UNCHANGED vars
  BY <1>0, RelayAssumption DEF vars, drainVars, dbVars, brokerVars, TypeOK, ConfirmedAreStored, PromisesKnown, Stored
<1>1. ASSUME NEW e \in Events, Insert(e) PROVE ConfirmedAreStored'
  BY <1>1, RelayAssumption DEF Insert, drainVars, dbVars, brokerVars, TypeOK, ConfirmedAreStored, PromisesKnown, Stored
<1>2. CASE Store
  BY <1>2, RelayAssumption DEF Store, drainVars, dbVars, brokerVars, TypeOK, ConfirmedAreStored, PromisesKnown, Stored
<1>3. ASSUME NEW i \in Replicas, Tick(i) PROVE ConfirmedAreStored'
  BY <1>3, RelayAssumption DEF Tick, Goto, drainVars, dbVars, brokerVars, TypeOK, ConfirmedAreStored, PromisesKnown, Stored
<1>4. ASSUME NEW i \in Replicas, Connect(i) PROVE ConfirmedAreStored'
  BY <1>4, RelayAssumption DEF Connect, Goto, drainVars, dbVars, brokerVars, TypeOK, ConfirmedAreStored, PromisesKnown, Stored
<1>5. ASSUME NEW i \in Replicas, ConnectFails(i) PROVE ConfirmedAreStored'
  BY <1>5, RelayAssumption DEF ConnectFails, Goto, Fault, drainVars, dbVars, brokerVars, TypeOK, ConfirmedAreStored, PromisesKnown, Stored
<1>6. ASSUME NEW i \in Replicas, Select(i) PROVE ConfirmedAreStored'
  BY <1>6, RelayAssumption DEF Select, OldestOf, UnlockedPending, Goto, drainVars, dbVars, brokerVars, TypeOK, ConfirmedAreStored, PromisesKnown, Stored
<1>7. ASSUME NEW i \in Replicas, Publish(i) PROVE ConfirmedAreStored'
  BY <1>7, RelayAssumption DEF Publish, Goto, drainVars, dbVars, brokerVars, TypeOK, ConfirmedAreStored, PromisesKnown, Stored
<1>8. ASSUME NEW i \in Replicas, Confirm(i) PROVE ConfirmedAreStored'
  BY <1>8, RelayAssumption DEF Confirm, drainVars, dbVars, brokerVars, TypeOK, ConfirmedAreStored, PromisesKnown, Stored
<1>9. ASSUME NEW i \in Replicas, Timeout(i) PROVE ConfirmedAreStored'
  BY <1>9, RelayAssumption DEF Timeout, Fault, drainVars, dbVars, brokerVars, TypeOK, ConfirmedAreStored, PromisesKnown, Stored
<1>10. ASSUME NEW i \in Replicas, Settled(i) PROVE ConfirmedAreStored'
  BY <1>10, RelayAssumption DEF Settled, Goto, drainVars, dbVars, brokerVars, TypeOK, ConfirmedAreStored, PromisesKnown, Stored
<1>11. ASSUME NEW i \in Replicas, Mark(i) PROVE ConfirmedAreStored'
  BY <1>11, RelayAssumption DEF Mark, Goto, drainVars, dbVars, brokerVars, TypeOK, ConfirmedAreStored, PromisesKnown, Stored
<1>12. ASSUME NEW i \in Replicas, Note(i) PROVE ConfirmedAreStored'
  BY <1>12, RelayAssumption DEF Note, Goto, drainVars, dbVars, brokerVars, TypeOK, ConfirmedAreStored, PromisesKnown, Stored
<1>13. ASSUME NEW i \in Replicas, Commit(i) PROVE ConfirmedAreStored'
  BY <1>13, RelayAssumption DEF Commit, Goto, Unlocked, drainVars, dbVars, brokerVars, TypeOK, ConfirmedAreStored, PromisesKnown, Stored
<1>14. ASSUME NEW i \in Replicas, Count(i) PROVE ConfirmedAreStored'
  BY <1>14, RelayAssumption DEF Count, Goto, drainVars, dbVars, brokerVars, TypeOK, ConfirmedAreStored, PromisesKnown, Stored
<1>15. ASSUME NEW i \in Replicas, SessionGone(i) PROVE ConfirmedAreStored'
  BY <1>15, RelayAssumption DEF SessionGone, Goto, drainVars, dbVars, brokerVars, TypeOK, ConfirmedAreStored, PromisesKnown, Stored
<1>16. ASSUME NEW i \in Replicas, StatementFails(i) PROVE ConfirmedAreStored'
  BY <1>16, RelayAssumption DEF StatementFails, Goto, Fault, drainVars, dbVars, brokerVars, TypeOK, ConfirmedAreStored, PromisesKnown, Stored
<1>17. ASSUME NEW i \in Replicas, CommitUnacknowledged(i) PROVE ConfirmedAreStored'
  BY <1>17, RelayAssumption DEF CommitUnacknowledged, Goto, Fault, Unlocked, drainVars, dbVars, brokerVars, TypeOK, ConfirmedAreStored, PromisesKnown, Stored
<1>18. ASSUME NEW i \in Replicas, Caught(i) PROVE ConfirmedAreStored'
  BY <1>18, RelayAssumption DEF Caught, Goto, Unlocked, drainVars, dbVars, brokerVars, TypeOK, ConfirmedAreStored, PromisesKnown, Stored
<1>19. ASSUME NEW i \in Replicas, Release(i) PROVE ConfirmedAreStored'
  BY <1>19, RelayAssumption DEF Release, Goto, drainVars, dbVars, brokerVars, TypeOK, ConfirmedAreStored, PromisesKnown, Stored
<1>20. ASSUME NEW i \in Replicas, Nack(i) PROVE ConfirmedAreStored'
  BY <1>20, RelayAssumption DEF Nack, Fault, drainVars, dbVars, brokerVars, TypeOK, ConfirmedAreStored, PromisesKnown, Stored
<1>21. ASSUME NEW i \in Replicas, Disconnect(i) PROVE ConfirmedAreStored'
  BY <1>21, RelayAssumption DEF Disconnect, ChannelEnds, MessagesOf, Fault, drainVars, dbVars, brokerVars, TypeOK, ConfirmedAreStored, PromisesKnown, Stored
<1>22. ASSUME NEW i \in Replicas, Reconnect(i) PROVE ConfirmedAreStored'
  BY <1>22, RelayAssumption DEF Reconnect, drainVars, dbVars, brokerVars, TypeOK, ConfirmedAreStored, PromisesKnown, Stored
<1>23. ASSUME NEW i \in Replicas, SessionEnds(i) PROVE ConfirmedAreStored'
  BY <1>23, RelayAssumption DEF SessionEnds, Fault, Unlocked, drainVars, dbVars, brokerVars, TypeOK, ConfirmedAreStored, PromisesKnown, Stored
<1>24. ASSUME NEW i \in Replicas, Crash(i) PROVE ConfirmedAreStored'
  BY <1>24, RelayAssumption DEF Crash, ChannelEnds, MessagesOf, Fault, Unlocked, drainVars, dbVars, brokerVars, TypeOK, ConfirmedAreStored, PromisesKnown, Stored
<1>q. QED
  BY <1>0, <1>1, <1>2, <1>3, <1>4, <1>5, <1>6, <1>7, <1>8, <1>9, <1>10, <1>11, <1>12, <1>13, <1>14, <1>15, <1>16, <1>17, <1>18, <1>19, <1>20, <1>21, <1>22, <1>23, <1>24 DEF Next, Drain, Failure

(* Promises belong to the batch that is awaited. *)
LEMMA PromisesStep ==
  ASSUME TypeOK, PromisesKnown, [Next]_vars
  PROVE  PromisesKnown'
<1>0. CASE UNCHANGED vars
  BY <1>0, RelayAssumption DEF vars, drainVars, dbVars, brokerVars, TypeOK, PCs, InTransaction, PromisesKnown
<1>1. ASSUME NEW e \in Events, Insert(e) PROVE PromisesKnown'
  BY <1>1, RelayAssumption DEF Insert, drainVars, dbVars, brokerVars, TypeOK, PCs, InTransaction, PromisesKnown
<1>2. CASE Store
  BY <1>2, RelayAssumption DEF Store, drainVars, dbVars, brokerVars, TypeOK, PCs, InTransaction, PromisesKnown
<1>3. ASSUME NEW i \in Replicas, Tick(i) PROVE PromisesKnown'
  BY <1>3, RelayAssumption DEF Tick, Goto, drainVars, dbVars, brokerVars, TypeOK, PCs, InTransaction, PromisesKnown
<1>4. ASSUME NEW i \in Replicas, Connect(i) PROVE PromisesKnown'
  BY <1>4, RelayAssumption DEF Connect, Goto, drainVars, dbVars, brokerVars, TypeOK, PCs, InTransaction, PromisesKnown
<1>5. ASSUME NEW i \in Replicas, ConnectFails(i) PROVE PromisesKnown'
  BY <1>5, RelayAssumption DEF ConnectFails, Goto, Fault, drainVars, dbVars, brokerVars, TypeOK, PCs, InTransaction, PromisesKnown
<1>6. ASSUME NEW i \in Replicas, Select(i) PROVE PromisesKnown'
  BY <1>6, RelayAssumption DEF Select, OldestOf, UnlockedPending, Goto, drainVars, dbVars, brokerVars, TypeOK, PCs, InTransaction, PromisesKnown
<1>7. ASSUME NEW i \in Replicas, Publish(i) PROVE PromisesKnown'
  BY <1>7, RelayAssumption DEF Publish, Goto, drainVars, dbVars, brokerVars, TypeOK, PCs, InTransaction, PromisesKnown
<1>8. ASSUME NEW i \in Replicas, Confirm(i) PROVE PromisesKnown'
  BY <1>8, RelayAssumption DEF Confirm, drainVars, dbVars, brokerVars, TypeOK, PCs, InTransaction, PromisesKnown
<1>9. ASSUME NEW i \in Replicas, Timeout(i) PROVE PromisesKnown'
  BY <1>9, RelayAssumption DEF Timeout, Fault, drainVars, dbVars, brokerVars, TypeOK, PCs, InTransaction, PromisesKnown
<1>10. ASSUME NEW i \in Replicas, Settled(i) PROVE PromisesKnown'
  BY <1>10, RelayAssumption DEF Settled, Goto, drainVars, dbVars, brokerVars, TypeOK, PCs, InTransaction, PromisesKnown
<1>11. ASSUME NEW i \in Replicas, Mark(i) PROVE PromisesKnown'
  BY <1>11, RelayAssumption DEF Mark, Goto, drainVars, dbVars, brokerVars, TypeOK, PCs, InTransaction, PromisesKnown
<1>12. ASSUME NEW i \in Replicas, Note(i) PROVE PromisesKnown'
  BY <1>12, RelayAssumption DEF Note, Goto, drainVars, dbVars, brokerVars, TypeOK, PCs, InTransaction, PromisesKnown
<1>13. ASSUME NEW i \in Replicas, Commit(i) PROVE PromisesKnown'
  BY <1>13, RelayAssumption DEF Commit, Goto, Unlocked, drainVars, dbVars, brokerVars, TypeOK, PCs, InTransaction, PromisesKnown
<1>14. ASSUME NEW i \in Replicas, Count(i) PROVE PromisesKnown'
  BY <1>14, RelayAssumption DEF Count, Goto, drainVars, dbVars, brokerVars, TypeOK, PCs, InTransaction, PromisesKnown
<1>15. ASSUME NEW i \in Replicas, SessionGone(i) PROVE PromisesKnown'
  BY <1>15, RelayAssumption DEF SessionGone, Goto, drainVars, dbVars, brokerVars, TypeOK, PCs, InTransaction, PromisesKnown
<1>16. ASSUME NEW i \in Replicas, StatementFails(i) PROVE PromisesKnown'
  BY <1>16, RelayAssumption DEF StatementFails, Goto, Fault, drainVars, dbVars, brokerVars, TypeOK, PCs, InTransaction, PromisesKnown
<1>17. ASSUME NEW i \in Replicas, CommitUnacknowledged(i) PROVE PromisesKnown'
  BY <1>17, RelayAssumption DEF CommitUnacknowledged, Goto, Fault, Unlocked, drainVars, dbVars, brokerVars, TypeOK, PCs, InTransaction, PromisesKnown
<1>18. ASSUME NEW i \in Replicas, Caught(i) PROVE PromisesKnown'
  BY <1>18, RelayAssumption DEF Caught, Goto, Unlocked, drainVars, dbVars, brokerVars, TypeOK, PCs, InTransaction, PromisesKnown
<1>19. ASSUME NEW i \in Replicas, Release(i) PROVE PromisesKnown'
  BY <1>19, RelayAssumption DEF Release, Goto, drainVars, dbVars, brokerVars, TypeOK, PCs, InTransaction, PromisesKnown
<1>20. ASSUME NEW i \in Replicas, Nack(i) PROVE PromisesKnown'
  BY <1>20, RelayAssumption DEF Nack, Fault, drainVars, dbVars, brokerVars, TypeOK, PCs, InTransaction, PromisesKnown
<1>21. ASSUME NEW i \in Replicas, Disconnect(i) PROVE PromisesKnown'
  BY <1>21, RelayAssumption DEF Disconnect, ChannelEnds, MessagesOf, Fault, drainVars, dbVars, brokerVars, TypeOK, PCs, InTransaction, PromisesKnown
<1>22. ASSUME NEW i \in Replicas, Reconnect(i) PROVE PromisesKnown'
  BY <1>22, RelayAssumption DEF Reconnect, drainVars, dbVars, brokerVars, TypeOK, PCs, InTransaction, PromisesKnown
<1>23. ASSUME NEW i \in Replicas, SessionEnds(i) PROVE PromisesKnown'
  BY <1>23, RelayAssumption DEF SessionEnds, Fault, Unlocked, drainVars, dbVars, brokerVars, TypeOK, PCs, InTransaction, PromisesKnown
<1>24. ASSUME NEW i \in Replicas, Crash(i) PROVE PromisesKnown'
  BY <1>24, RelayAssumption DEF Crash, ChannelEnds, MessagesOf, Fault, Unlocked, drainVars, dbVars, brokerVars, TypeOK, PCs, InTransaction, PromisesKnown
<1>q. QED
  BY <1>0, <1>1, <1>2, <1>3, <1>4, <1>5, <1>6, <1>7, <1>8, <1>9, <1>10, <1>11, <1>12, <1>13, <1>14, <1>15, <1>16, <1>17, <1>18, <1>19, <1>20, <1>21, <1>22, <1>23, <1>24 DEF Next, Drain, Failure

(* Locks follow the batch while the session lives. *)
LEMMA LocksStep ==
  ASSUME TypeOK, ConfirmedAreStored, PromisesKnown, BatchLocked, LocksAreWorkedOn, [Next]_vars
  PROVE  BatchLocked' /\ LocksAreWorkedOn'
<1>0. CASE UNCHANGED vars
  BY <1>0, RelayAssumption DEF vars, drainVars, dbVars, brokerVars, TypeOK, PCs, InTransaction, ConfirmedAreStored, PromisesKnown, BatchLocked, LocksAreWorkedOn
<1>1. ASSUME NEW e \in Events, Insert(e) PROVE BatchLocked' /\ LocksAreWorkedOn'
  BY <1>1, RelayAssumption DEF Insert, drainVars, dbVars, brokerVars, TypeOK, PCs, InTransaction, ConfirmedAreStored, PromisesKnown, BatchLocked, LocksAreWorkedOn
<1>2. CASE Store
  BY <1>2, RelayAssumption DEF Store, drainVars, dbVars, brokerVars, TypeOK, PCs, InTransaction, ConfirmedAreStored, PromisesKnown, BatchLocked, LocksAreWorkedOn
<1>3. ASSUME NEW i \in Replicas, Tick(i) PROVE BatchLocked' /\ LocksAreWorkedOn'
  BY <1>3, RelayAssumption DEF Tick, Goto, drainVars, dbVars, brokerVars, TypeOK, PCs, InTransaction, ConfirmedAreStored, PromisesKnown, BatchLocked, LocksAreWorkedOn
<1>4. ASSUME NEW i \in Replicas, Connect(i) PROVE BatchLocked' /\ LocksAreWorkedOn'
  BY <1>4, RelayAssumption DEF Connect, Goto, drainVars, dbVars, brokerVars, TypeOK, PCs, InTransaction, ConfirmedAreStored, PromisesKnown, BatchLocked, LocksAreWorkedOn
<1>5. ASSUME NEW i \in Replicas, ConnectFails(i) PROVE BatchLocked' /\ LocksAreWorkedOn'
  BY <1>5, RelayAssumption DEF ConnectFails, Goto, Fault, drainVars, dbVars, brokerVars, TypeOK, PCs, InTransaction, ConfirmedAreStored, PromisesKnown, BatchLocked, LocksAreWorkedOn
<1>6. ASSUME NEW i \in Replicas, Select(i) PROVE BatchLocked' /\ LocksAreWorkedOn'
  BY <1>6, RelayAssumption DEF Select, OldestOf, UnlockedPending, Goto, drainVars, dbVars, brokerVars, TypeOK, PCs, InTransaction, ConfirmedAreStored, PromisesKnown, BatchLocked, LocksAreWorkedOn
<1>7. ASSUME NEW i \in Replicas, Publish(i) PROVE BatchLocked' /\ LocksAreWorkedOn'
  BY <1>7, RelayAssumption DEF Publish, Goto, drainVars, dbVars, brokerVars, TypeOK, PCs, InTransaction, ConfirmedAreStored, PromisesKnown, BatchLocked, LocksAreWorkedOn
<1>8. ASSUME NEW i \in Replicas, Confirm(i) PROVE BatchLocked' /\ LocksAreWorkedOn'
  BY <1>8, RelayAssumption DEF Confirm, drainVars, dbVars, brokerVars, TypeOK, PCs, InTransaction, ConfirmedAreStored, PromisesKnown, BatchLocked, LocksAreWorkedOn
<1>9. ASSUME NEW i \in Replicas, Timeout(i) PROVE BatchLocked' /\ LocksAreWorkedOn'
  BY <1>9, RelayAssumption DEF Timeout, Fault, drainVars, dbVars, brokerVars, TypeOK, PCs, InTransaction, ConfirmedAreStored, PromisesKnown, BatchLocked, LocksAreWorkedOn
<1>10. ASSUME NEW i \in Replicas, Settled(i) PROVE BatchLocked' /\ LocksAreWorkedOn'
  BY <1>10, RelayAssumption DEF Settled, Goto, drainVars, dbVars, brokerVars, TypeOK, PCs, InTransaction, ConfirmedAreStored, PromisesKnown, BatchLocked, LocksAreWorkedOn
<1>11. ASSUME NEW i \in Replicas, Mark(i) PROVE BatchLocked' /\ LocksAreWorkedOn'
  BY <1>11, RelayAssumption DEF Mark, Goto, drainVars, dbVars, brokerVars, TypeOK, PCs, InTransaction, ConfirmedAreStored, PromisesKnown, BatchLocked, LocksAreWorkedOn
<1>12. ASSUME NEW i \in Replicas, Note(i) PROVE BatchLocked' /\ LocksAreWorkedOn'
  BY <1>12, RelayAssumption DEF Note, Goto, drainVars, dbVars, brokerVars, TypeOK, PCs, InTransaction, ConfirmedAreStored, PromisesKnown, BatchLocked, LocksAreWorkedOn
<1>13. ASSUME NEW i \in Replicas, Commit(i) PROVE BatchLocked' /\ LocksAreWorkedOn'
  BY <1>13, RelayAssumption DEF Commit, Goto, Unlocked, drainVars, dbVars, brokerVars, TypeOK, PCs, InTransaction, ConfirmedAreStored, PromisesKnown, BatchLocked, LocksAreWorkedOn
<1>14. ASSUME NEW i \in Replicas, Count(i) PROVE BatchLocked' /\ LocksAreWorkedOn'
  BY <1>14, RelayAssumption DEF Count, Goto, drainVars, dbVars, brokerVars, TypeOK, PCs, InTransaction, ConfirmedAreStored, PromisesKnown, BatchLocked, LocksAreWorkedOn
<1>15. ASSUME NEW i \in Replicas, SessionGone(i) PROVE BatchLocked' /\ LocksAreWorkedOn'
  BY <1>15, RelayAssumption DEF SessionGone, Goto, drainVars, dbVars, brokerVars, TypeOK, PCs, InTransaction, ConfirmedAreStored, PromisesKnown, BatchLocked, LocksAreWorkedOn
<1>16. ASSUME NEW i \in Replicas, StatementFails(i) PROVE BatchLocked' /\ LocksAreWorkedOn'
  BY <1>16, RelayAssumption DEF StatementFails, Goto, Fault, drainVars, dbVars, brokerVars, TypeOK, PCs, InTransaction, ConfirmedAreStored, PromisesKnown, BatchLocked, LocksAreWorkedOn
<1>17. ASSUME NEW i \in Replicas, CommitUnacknowledged(i) PROVE BatchLocked' /\ LocksAreWorkedOn'
  BY <1>17, RelayAssumption DEF CommitUnacknowledged, Goto, Fault, Unlocked, drainVars, dbVars, brokerVars, TypeOK, PCs, InTransaction, ConfirmedAreStored, PromisesKnown, BatchLocked, LocksAreWorkedOn
<1>18. ASSUME NEW i \in Replicas, Caught(i) PROVE BatchLocked' /\ LocksAreWorkedOn'
  BY <1>18, RelayAssumption DEF Caught, Goto, Unlocked, drainVars, dbVars, brokerVars, TypeOK, PCs, InTransaction, ConfirmedAreStored, PromisesKnown, BatchLocked, LocksAreWorkedOn
<1>19. ASSUME NEW i \in Replicas, Release(i) PROVE BatchLocked' /\ LocksAreWorkedOn'
  BY <1>19, RelayAssumption DEF Release, Goto, drainVars, dbVars, brokerVars, TypeOK, PCs, InTransaction, ConfirmedAreStored, PromisesKnown, BatchLocked, LocksAreWorkedOn
<1>20. ASSUME NEW i \in Replicas, Nack(i) PROVE BatchLocked' /\ LocksAreWorkedOn'
  BY <1>20, RelayAssumption DEF Nack, Fault, drainVars, dbVars, brokerVars, TypeOK, PCs, InTransaction, ConfirmedAreStored, PromisesKnown, BatchLocked, LocksAreWorkedOn
<1>21. ASSUME NEW i \in Replicas, Disconnect(i) PROVE BatchLocked' /\ LocksAreWorkedOn'
  BY <1>21, RelayAssumption DEF Disconnect, ChannelEnds, MessagesOf, Fault, drainVars, dbVars, brokerVars, TypeOK, PCs, InTransaction, ConfirmedAreStored, PromisesKnown, BatchLocked, LocksAreWorkedOn
<1>22. ASSUME NEW i \in Replicas, Reconnect(i) PROVE BatchLocked' /\ LocksAreWorkedOn'
  BY <1>22, RelayAssumption DEF Reconnect, drainVars, dbVars, brokerVars, TypeOK, PCs, InTransaction, ConfirmedAreStored, PromisesKnown, BatchLocked, LocksAreWorkedOn
<1>23. ASSUME NEW i \in Replicas, SessionEnds(i) PROVE BatchLocked' /\ LocksAreWorkedOn'
  BY <1>23, RelayAssumption DEF SessionEnds, Fault, Unlocked, drainVars, dbVars, brokerVars, TypeOK, PCs, InTransaction, ConfirmedAreStored, PromisesKnown, BatchLocked, LocksAreWorkedOn
<1>24. ASSUME NEW i \in Replicas, Crash(i) PROVE BatchLocked' /\ LocksAreWorkedOn'
  BY <1>24, RelayAssumption DEF Crash, ChannelEnds, MessagesOf, Fault, Unlocked, drainVars, dbVars, brokerVars, TypeOK, PCs, InTransaction, ConfirmedAreStored, PromisesKnown, BatchLocked, LocksAreWorkedOn
<1>q. QED
  BY <1>0, <1>1, <1>2, <1>3, <1>4, <1>5, <1>6, <1>7, <1>8, <1>9, <1>10, <1>11, <1>12, <1>13, <1>14, <1>15, <1>16, <1>17, <1>18, <1>19, <1>20, <1>21, <1>22, <1>23, <1>24 DEF Next, Drain, Failure

(* Only stored rows are marked. *)
LEMMA MarkedStep ==
  ASSUME TypeOK, ConfirmedAreStored, MarkedOnlyIfStored, [Next]_vars
  PROVE  MarkedOnlyIfStored'
<1>0. CASE UNCHANGED vars
  BY <1>0, RelayAssumption DEF vars, drainVars, dbVars, brokerVars, TypeOK, ConfirmedAreStored, MarkedOnlyIfStored, Stored
<1>1. ASSUME NEW e \in Events, Insert(e) PROVE MarkedOnlyIfStored'
  BY <1>1, RelayAssumption DEF Insert, drainVars, dbVars, brokerVars, TypeOK, ConfirmedAreStored, MarkedOnlyIfStored, Stored
<1>2. CASE Store
  BY <1>2, RelayAssumption DEF Store, drainVars, dbVars, brokerVars, TypeOK, ConfirmedAreStored, MarkedOnlyIfStored, Stored
<1>3. ASSUME NEW i \in Replicas, Tick(i) PROVE MarkedOnlyIfStored'
  BY <1>3, RelayAssumption DEF Tick, Goto, drainVars, dbVars, brokerVars, TypeOK, ConfirmedAreStored, MarkedOnlyIfStored, Stored
<1>4. ASSUME NEW i \in Replicas, Connect(i) PROVE MarkedOnlyIfStored'
  BY <1>4, RelayAssumption DEF Connect, Goto, drainVars, dbVars, brokerVars, TypeOK, ConfirmedAreStored, MarkedOnlyIfStored, Stored
<1>5. ASSUME NEW i \in Replicas, ConnectFails(i) PROVE MarkedOnlyIfStored'
  BY <1>5, RelayAssumption DEF ConnectFails, Goto, Fault, drainVars, dbVars, brokerVars, TypeOK, ConfirmedAreStored, MarkedOnlyIfStored, Stored
<1>6. ASSUME NEW i \in Replicas, Select(i) PROVE MarkedOnlyIfStored'
  BY <1>6, RelayAssumption DEF Select, OldestOf, UnlockedPending, Goto, drainVars, dbVars, brokerVars, TypeOK, ConfirmedAreStored, MarkedOnlyIfStored, Stored
<1>7. ASSUME NEW i \in Replicas, Publish(i) PROVE MarkedOnlyIfStored'
  BY <1>7, RelayAssumption DEF Publish, Goto, drainVars, dbVars, brokerVars, TypeOK, ConfirmedAreStored, MarkedOnlyIfStored, Stored
<1>8. ASSUME NEW i \in Replicas, Confirm(i) PROVE MarkedOnlyIfStored'
  BY <1>8, RelayAssumption DEF Confirm, drainVars, dbVars, brokerVars, TypeOK, ConfirmedAreStored, MarkedOnlyIfStored, Stored
<1>9. ASSUME NEW i \in Replicas, Timeout(i) PROVE MarkedOnlyIfStored'
  BY <1>9, RelayAssumption DEF Timeout, Fault, drainVars, dbVars, brokerVars, TypeOK, ConfirmedAreStored, MarkedOnlyIfStored, Stored
<1>10. ASSUME NEW i \in Replicas, Settled(i) PROVE MarkedOnlyIfStored'
  BY <1>10, RelayAssumption DEF Settled, Goto, drainVars, dbVars, brokerVars, TypeOK, ConfirmedAreStored, MarkedOnlyIfStored, Stored
<1>11. ASSUME NEW i \in Replicas, Mark(i) PROVE MarkedOnlyIfStored'
  BY <1>11, RelayAssumption DEF Mark, Goto, drainVars, dbVars, brokerVars, TypeOK, ConfirmedAreStored, MarkedOnlyIfStored, Stored
<1>12. ASSUME NEW i \in Replicas, Note(i) PROVE MarkedOnlyIfStored'
  BY <1>12, RelayAssumption DEF Note, Goto, drainVars, dbVars, brokerVars, TypeOK, ConfirmedAreStored, MarkedOnlyIfStored, Stored
<1>13. ASSUME NEW i \in Replicas, Commit(i) PROVE MarkedOnlyIfStored'
  BY <1>13, RelayAssumption DEF Commit, Goto, Unlocked, drainVars, dbVars, brokerVars, TypeOK, ConfirmedAreStored, MarkedOnlyIfStored, Stored
<1>14. ASSUME NEW i \in Replicas, Count(i) PROVE MarkedOnlyIfStored'
  BY <1>14, RelayAssumption DEF Count, Goto, drainVars, dbVars, brokerVars, TypeOK, ConfirmedAreStored, MarkedOnlyIfStored, Stored
<1>15. ASSUME NEW i \in Replicas, SessionGone(i) PROVE MarkedOnlyIfStored'
  BY <1>15, RelayAssumption DEF SessionGone, Goto, drainVars, dbVars, brokerVars, TypeOK, ConfirmedAreStored, MarkedOnlyIfStored, Stored
<1>16. ASSUME NEW i \in Replicas, StatementFails(i) PROVE MarkedOnlyIfStored'
  BY <1>16, RelayAssumption DEF StatementFails, Goto, Fault, drainVars, dbVars, brokerVars, TypeOK, ConfirmedAreStored, MarkedOnlyIfStored, Stored
<1>17. ASSUME NEW i \in Replicas, CommitUnacknowledged(i) PROVE MarkedOnlyIfStored'
  BY <1>17, RelayAssumption DEF CommitUnacknowledged, Goto, Fault, Unlocked, drainVars, dbVars, brokerVars, TypeOK, ConfirmedAreStored, MarkedOnlyIfStored, Stored
<1>18. ASSUME NEW i \in Replicas, Caught(i) PROVE MarkedOnlyIfStored'
  BY <1>18, RelayAssumption DEF Caught, Goto, Unlocked, drainVars, dbVars, brokerVars, TypeOK, ConfirmedAreStored, MarkedOnlyIfStored, Stored
<1>19. ASSUME NEW i \in Replicas, Release(i) PROVE MarkedOnlyIfStored'
  BY <1>19, RelayAssumption DEF Release, Goto, drainVars, dbVars, brokerVars, TypeOK, ConfirmedAreStored, MarkedOnlyIfStored, Stored
<1>20. ASSUME NEW i \in Replicas, Nack(i) PROVE MarkedOnlyIfStored'
  BY <1>20, RelayAssumption DEF Nack, Fault, drainVars, dbVars, brokerVars, TypeOK, ConfirmedAreStored, MarkedOnlyIfStored, Stored
<1>21. ASSUME NEW i \in Replicas, Disconnect(i) PROVE MarkedOnlyIfStored'
  BY <1>21, RelayAssumption DEF Disconnect, ChannelEnds, MessagesOf, Fault, drainVars, dbVars, brokerVars, TypeOK, ConfirmedAreStored, MarkedOnlyIfStored, Stored
<1>22. ASSUME NEW i \in Replicas, Reconnect(i) PROVE MarkedOnlyIfStored'
  BY <1>22, RelayAssumption DEF Reconnect, drainVars, dbVars, brokerVars, TypeOK, ConfirmedAreStored, MarkedOnlyIfStored, Stored
<1>23. ASSUME NEW i \in Replicas, SessionEnds(i) PROVE MarkedOnlyIfStored'
  BY <1>23, RelayAssumption DEF SessionEnds, Fault, Unlocked, drainVars, dbVars, brokerVars, TypeOK, ConfirmedAreStored, MarkedOnlyIfStored, Stored
<1>24. ASSUME NEW i \in Replicas, Crash(i) PROVE MarkedOnlyIfStored'
  BY <1>24, RelayAssumption DEF Crash, ChannelEnds, MessagesOf, Fault, Unlocked, drainVars, dbVars, brokerVars, TypeOK, ConfirmedAreStored, MarkedOnlyIfStored, Stored
<1>q. QED
  BY <1>0, <1>1, <1>2, <1>3, <1>4, <1>5, <1>6, <1>7, <1>8, <1>9, <1>10, <1>11, <1>12, <1>13, <1>14, <1>15, <1>16, <1>17, <1>18, <1>19, <1>20, <1>21, <1>22, <1>23, <1>24 DEF Next, Drain, Failure

(* How many replicas are late for a row. *)
LEMMA LateFinite ==
  ASSUME NEW e \in Events
  PROVE  IsFiniteSet(Late(e)) /\ Cardinality(Late(e)) \in Nat
BY RelayAssumption, FS_Subset, FS_CardinalityType DEF Late

LEMMA LateShrinks ==
  ASSUME NEW e \in Events, Late(e)' \subseteq Late(e)
  PROVE  Cardinality(Late(e)') \in Nat /\ Cardinality(Late(e)') <= Cardinality(Late(e))
BY LateFinite, FS_Subset, FS_CardinalityType

LEMMA LateLoses ==
  ASSUME NEW e \in Events, NEW i \in Late(e), Late(e)' = Late(e) \ {i}
  PROVE  Cardinality(Late(e)') \in Nat /\ Cardinality(Late(e)') = Cardinality(Late(e)) - 1
BY LateFinite, FS_RemoveElement, FS_CardinalityType

LEMMA LateGains ==
  ASSUME NEW e \in Events, NEW i, Late(e)' \subseteq Late(e) \union {i}
  PROVE  Cardinality(Late(e)') \in Nat /\ Cardinality(Late(e)') <= Cardinality(Late(e)) + 1
<1>1. /\ IsFiniteSet(Late(e) \union {i})
      /\ \/ Cardinality(Late(e) \union {i}) = Cardinality(Late(e))
         \/ Cardinality(Late(e) \union {i}) = Cardinality(Late(e)) + 1
  BY LateFinite, FS_AddElement
<1>2. /\ Cardinality(Late(e)') \in Nat
      /\ Cardinality(Late(e)') <= Cardinality(Late(e) \union {i})
  BY <1>1, FS_Subset, FS_CardinalityType
<1> QED BY <1>1, <1>2, LateFinite

LEMMA OneMore ==
  ASSUME NEW x \in Nat, NEW f \in Nat, NEW g \in Nat, x <= f + 1, g >= f
  PROVE  x <= g + 1
OBVIOUS

(* A step that sends nothing, makes nobody late, and either keeps a row on   *)
(* track or is a failure, keeps its budget.                                  *)
LEMMA QuietBudget ==
  ASSUME TypeOK, TypeOK', NEW e \in Events, Budget(e),
         Late(e)' \subseteq Late(e), sends'[e] = sends[e], faults' >= faults,
         \/ faults' >= faults + 1
         \/ e \in published \/ OnTrack(e) => e \in published' \/ OnTrack(e)'
  PROVE  Budget(e)'
<1> DEFINE spent == sends[e] + Cardinality(Late(e))
           spending == sends'[e] + Cardinality(Late(e)')
<1>1. spent \in Nat /\ spending \in Nat /\ spending <= spent
  BY LateShrinks, LateFinite DEF TypeOK
<1>2. faults \in Nat /\ faults' \in Nat
  BY DEF TypeOK
<1>3. \/ spent <= faults
      \/ spent <= faults + 1 /\ (e \in published \/ OnTrack(e))
  BY DEF Budget
<1>5. spent <= faults + 1
  <2> HIDE DEF spent, spending
  <2>1. CASE spent <= faults
    BY <1>1, <1>2, <2>1
  <2>2. CASE spent <= faults + 1
    BY <2>2
  <2> QED BY <1>3, <2>1, <2>2
<1>4. \/ spending <= faults'
      \/ spending <= faults' + 1 /\ (e \in published' \/ OnTrack(e)')
  <2> HIDE DEF spent, spending
  <2>1. CASE spent <= faults \/ faults' >= faults + 1
    <3>1. spent <= faults \/ (faults' >= faults + 1 /\ spent <= faults + 1)
      BY <1>1, <1>2, <1>5, <2>1
    <3> QED BY <1>1, <1>2, <3>1
  <2>2. CASE ~ (spent <= faults) /\ ~ (faults' >= faults + 1)
    <3>1. spending <= faults' + 1
      <4>1. spending <= faults + 1
        BY <1>1, <1>2, <1>5
      <4>2. faults' >= faults
        OBVIOUS
      <4> QED BY <1>1, <1>2, <4>1, <4>2, OneMore
    <3>2. e \in published' \/ OnTrack(e)'
      BY <1>3, <2>2
    <3> QED BY <3>1, <3>2
  <2> QED BY <2>1, <2>2
<1> QED BY <1>4 DEF Budget

(* Every duplicate is paid for by a failure. *)
LEMMA BudgetStep ==
  ASSUME TypeOK, TypeOK', ConfirmedAreStored, PromisesKnown, BatchLocked, LocksAreWorkedOn, NEW e \in Events, Budget(e), [Next]_vars
  PROVE  Budget(e)'
<1>0. CASE UNCHANGED vars
  <2>1. sends'[e] = sends[e] /\ faults' = faults /\ Late(e)' = Late(e)
    BY <1>0 DEF vars, drainVars, dbVars, brokerVars, Late
  <2>2. published' = published /\ OnTrack(e)' = OnTrack(e)
    BY <1>0 DEF vars, drainVars, dbVars, brokerVars, OnTrack
  <2> QED BY <2>1, <2>2, QuietBudget DEF TypeOK
<1>1. ASSUME NEW f \in Events, Insert(f) PROVE Budget(e)'
  <2>1. sends'[e] = sends[e] /\ faults' = faults
    BY <1>1 DEF Insert, drainVars, dbVars, brokerVars
  <2>2. Late(e)' \subseteq Late(e)
    BY <1>1 DEF Insert, drainVars, dbVars, brokerVars, TypeOK, PCs, InTransaction, Late
  <2>3. e \in published \/ OnTrack(e) => e \in published' \/ OnTrack(e)'
    BY <1>1, RelayAssumption DEF Insert, drainVars, dbVars, brokerVars, TypeOK, OnTrack, InTransaction, PromisesKnown, LocksAreWorkedOn, ConfirmedAreStored
  <2> QED BY <2>1, <2>2, <2>3, QuietBudget DEF TypeOK
<1>2. CASE Store
  <2>1. sends'[e] = sends[e] /\ faults' = faults
    BY <1>2 DEF Store, drainVars, dbVars, brokerVars
  <2>2. Late(e)' \subseteq Late(e)
    BY <1>2 DEF Store, drainVars, dbVars, brokerVars, TypeOK, PCs, InTransaction, Late
  <2>3. e \in published \/ OnTrack(e) => e \in published' \/ OnTrack(e)'
    BY <1>2, RelayAssumption DEF Store, drainVars, dbVars, brokerVars, TypeOK, OnTrack, InTransaction, PromisesKnown, LocksAreWorkedOn, ConfirmedAreStored
  <2> QED BY <2>1, <2>2, <2>3, QuietBudget DEF TypeOK
<1>3. ASSUME NEW i \in Replicas, Tick(i) PROVE Budget(e)'
  <2>1. sends'[e] = sends[e] /\ faults' = faults
    BY <1>3 DEF Tick, Goto, drainVars, dbVars, brokerVars
  <2>2. Late(e)' \subseteq Late(e)
    BY <1>3 DEF Tick, Goto, drainVars, dbVars, brokerVars, TypeOK, PCs, InTransaction, Late
  <2>3. e \in published \/ OnTrack(e) => e \in published' \/ OnTrack(e)'
    BY <1>3, RelayAssumption DEF Tick, Goto, drainVars, dbVars, brokerVars, TypeOK, OnTrack, InTransaction, PromisesKnown, LocksAreWorkedOn, ConfirmedAreStored
  <2> QED BY <2>1, <2>2, <2>3, QuietBudget DEF TypeOK
<1>4. ASSUME NEW i \in Replicas, Connect(i) PROVE Budget(e)'
  <2>1. sends'[e] = sends[e] /\ faults' = faults
    BY <1>4 DEF Connect, Goto, drainVars, dbVars, brokerVars
  <2>2. Late(e)' \subseteq Late(e)
    BY <1>4 DEF Connect, Goto, drainVars, dbVars, brokerVars, TypeOK, PCs, InTransaction, Late
  <2>3. e \in published \/ OnTrack(e) => e \in published' \/ OnTrack(e)'
    BY <1>4, RelayAssumption DEF Connect, Goto, drainVars, dbVars, brokerVars, TypeOK, OnTrack, InTransaction, PromisesKnown, LocksAreWorkedOn, ConfirmedAreStored
  <2> QED BY <2>1, <2>2, <2>3, QuietBudget DEF TypeOK
<1>5. ASSUME NEW i \in Replicas, ConnectFails(i) PROVE Budget(e)'
  <2>1. sends'[e] = sends[e] /\ faults' = faults + 1
    BY <1>5 DEF ConnectFails, Goto, Fault, drainVars, dbVars, brokerVars
  <2>2. Late(e)' \subseteq Late(e)
    BY <1>5 DEF ConnectFails, Goto, Fault, drainVars, dbVars, brokerVars, TypeOK, PCs, InTransaction, Late
  <2> QED BY <2>1, <2>2, QuietBudget DEF TypeOK
<1>6. ASSUME NEW i \in Replicas, Select(i) PROVE Budget(e)'
  <2>1. sends'[e] = sends[e] /\ faults' = faults
    BY <1>6 DEF Select, OldestOf, UnlockedPending, Goto, drainVars, dbVars, brokerVars
  <2>2. Late(e)' \subseteq Late(e)
    BY <1>6 DEF Select, OldestOf, UnlockedPending, Goto, drainVars, dbVars, brokerVars, TypeOK, PCs, InTransaction, Late
  <2>3. e \in published \/ OnTrack(e) => e \in published' \/ OnTrack(e)'
    BY <1>6, RelayAssumption DEF Select, OldestOf, UnlockedPending, Goto, drainVars, dbVars, brokerVars, TypeOK, OnTrack, InTransaction, PromisesKnown, LocksAreWorkedOn, ConfirmedAreStored
  <2> QED BY <2>1, <2>2, <2>3, QuietBudget DEF TypeOK
<1>7. ASSUME NEW i \in Replicas, Publish(i) PROVE Budget(e)'
  <2>1. faults' = faults /\ published' = published /\ pc[i] = "publish" /\ pc'[i] = "await"
    BY <1>7 DEF Publish, Goto, dbVars, TypeOK
  <2>2. \A j \in Replicas : j # i => pc'[j] = pc[j] /\ waiting'[j] = waiting[j]
    BY <1>7 DEF Publish, Goto, TypeOK
  <2>3. OnTrack(e) => OnTrack(e)'
    BY <1>7, <2>1, <2>2 DEF Publish, Goto, dbVars, TypeOK, OnTrack
  <2>4. CASE ~ up[i] \/ e \notin batch[i]
    <3>1. sends'[e] = sends[e]
      BY <1>7, <2>4 DEF Publish, TypeOK
    <3>2. Late(e)' \subseteq Late(e)
      BY <1>7 DEF Publish, Goto, dbVars, TypeOK, Late
    <3> QED BY <2>1, <2>3, <3>1, <3>2, QuietBudget DEF TypeOK
  <2>5. CASE up[i] /\ e \in batch[i] /\ session[i] = "open"
    <3>1. rowlock[e] = i /\ e \notin published
      BY <2>1, <2>5 DEF BatchLocked, InTransaction
    <3>2. ~ OnTrack(e)
      BY <2>1, <3>1 DEF OnTrack
    <3>3. OnTrack(e)'
      <4> DEFINE m == [ev |-> e, by |-> i, n |-> sends[e] + 1]
      <4>1. m \in waiting'[i] /\ m \in live' /\ m.ev = e
        BY <1>7, <2>5 DEF Publish, TypeOK
      <4>2. rowlock'[e] = i
        BY <1>7, <3>1 DEF Publish, dbVars
      <4> HIDE DEF m
      <4> QED BY <2>1, <4>1, <4>2 DEF OnTrack
    <3>4. sends'[e] = sends[e] + 1
      BY <1>7, <2>5 DEF Publish, TypeOK
    <3>5. Late(e)' \subseteq Late(e)
      BY <1>7 DEF Publish, Goto, dbVars, TypeOK, Late
    <3>6. sends[e] \in Nat /\ faults \in Nat /\ sends[e] + Cardinality(Late(e)) <= faults
      BY <3>1, <3>2 DEF Budget, TypeOK
    <3>7. Cardinality(Late(e)') \in Nat /\ Cardinality(Late(e)) \in Nat /\ Cardinality(Late(e)') <= Cardinality(Late(e))
      BY <3>5, LateShrinks, LateFinite
    <3>8. sends'[e] + Cardinality(Late(e)') <= faults' + 1
      BY <2>1, <3>4, <3>6, <3>7
    <3> QED BY <3>3, <3>8 DEF Budget
  <2>6. CASE up[i] /\ e \in batch[i] /\ session[i] # "open"
    <3>1. i \in Late(e)
      BY <2>1, <2>6 DEF PromisesKnown, TypeOK, Late
    <3>2. Late(e)' = Late(e) \ {i}
      BY <1>7, <2>1, <2>2 DEF Publish, dbVars, TypeOK, Late
    <3>3. sends'[e] = sends[e] + 1
      BY <1>7, <2>6 DEF Publish, TypeOK
    <3>4. Cardinality(Late(e)') \in Nat /\ Cardinality(Late(e)') = Cardinality(Late(e)) - 1
      BY <3>1, <3>2, LateLoses
    <3>5. Cardinality(Late(e)) \in Nat /\ sends[e] \in Nat /\ faults \in Nat
      BY LateFinite DEF TypeOK
    <3>6. sends'[e] + Cardinality(Late(e)') = sends[e] + Cardinality(Late(e))
      BY <3>3, <3>4, <3>5
    <3> QED BY <2>1, <2>3, <3>5, <3>6 DEF Budget
  <2> QED BY <2>4, <2>5, <2>6
<1>8. ASSUME NEW i \in Replicas, Confirm(i) PROVE Budget(e)'
  <2>1. sends'[e] = sends[e] /\ faults' = faults
    BY <1>8 DEF Confirm, drainVars, dbVars, brokerVars
  <2>2. Late(e)' \subseteq Late(e)
    BY <1>8 DEF Confirm, drainVars, dbVars, brokerVars, TypeOK, PCs, InTransaction, Late
  <2>3. e \in published \/ OnTrack(e) => e \in published' \/ OnTrack(e)'
    BY <1>8, RelayAssumption DEF Confirm, drainVars, dbVars, brokerVars, TypeOK, OnTrack, InTransaction, PromisesKnown, LocksAreWorkedOn, ConfirmedAreStored
  <2> QED BY <2>1, <2>2, <2>3, QuietBudget DEF TypeOK
<1>9. ASSUME NEW i \in Replicas, Timeout(i) PROVE Budget(e)'
  <2>1. sends'[e] = sends[e] /\ Late(e)' \subseteq Late(e)
    BY <1>9 DEF Timeout, dbVars, TypeOK, Late
  <2>2. PICK m \in waiting[i] :
          /\ waiting' = [waiting EXCEPT ![i] = @ \ {m}]
          /\ live' = live \ (accepted \intersect {m})
          /\ IF m \in live THEN Fault ELSE UNCHANGED faults
    BY <1>9 DEF Timeout
  <2>3. CASE m \in live
    BY <2>1, <2>2, <2>3, QuietBudget DEF Fault, TypeOK
  <2>4. CASE m \notin live
    <3>1. faults' = faults
      BY <2>2, <2>4
    <3>2. OnTrack(e) => OnTrack(e)'
      BY <1>9, <2>2, <2>4 DEF Timeout, dbVars, TypeOK, OnTrack
    <3> QED BY <1>9, <2>1, <3>1, <3>2, QuietBudget DEF Timeout, dbVars, TypeOK
  <2> QED BY <2>3, <2>4
<1>10. ASSUME NEW i \in Replicas, Settled(i) PROVE Budget(e)'
  <2>1. sends'[e] = sends[e] /\ faults' = faults
    BY <1>10 DEF Settled, Goto, drainVars, dbVars, brokerVars
  <2>2. Late(e)' \subseteq Late(e)
    BY <1>10 DEF Settled, Goto, drainVars, dbVars, brokerVars, TypeOK, PCs, InTransaction, Late
  <2>3. e \in published \/ OnTrack(e) => e \in published' \/ OnTrack(e)'
    BY <1>10, RelayAssumption DEF Settled, Goto, drainVars, dbVars, brokerVars, TypeOK, OnTrack, InTransaction, PromisesKnown, LocksAreWorkedOn, ConfirmedAreStored
  <2> QED BY <2>1, <2>2, <2>3, QuietBudget DEF TypeOK
<1>11. ASSUME NEW i \in Replicas, Mark(i) PROVE Budget(e)'
  <2>1. sends'[e] = sends[e] /\ faults' = faults
    BY <1>11 DEF Mark, Goto, drainVars, dbVars, brokerVars
  <2>2. Late(e)' \subseteq Late(e)
    BY <1>11 DEF Mark, Goto, drainVars, dbVars, brokerVars, TypeOK, PCs, InTransaction, Late
  <2>3. e \in published \/ OnTrack(e) => e \in published' \/ OnTrack(e)'
    BY <1>11, RelayAssumption DEF Mark, Goto, drainVars, dbVars, brokerVars, TypeOK, OnTrack, InTransaction, PromisesKnown, LocksAreWorkedOn, ConfirmedAreStored
  <2> QED BY <2>1, <2>2, <2>3, QuietBudget DEF TypeOK
<1>12. ASSUME NEW i \in Replicas, Note(i) PROVE Budget(e)'
  <2>1. sends'[e] = sends[e] /\ faults' = faults
    BY <1>12 DEF Note, Goto, drainVars, dbVars, brokerVars
  <2>2. Late(e)' \subseteq Late(e)
    BY <1>12 DEF Note, Goto, drainVars, dbVars, brokerVars, TypeOK, PCs, InTransaction, Late
  <2>3. e \in published \/ OnTrack(e) => e \in published' \/ OnTrack(e)'
    BY <1>12, RelayAssumption DEF Note, Goto, drainVars, dbVars, brokerVars, TypeOK, OnTrack, InTransaction, PromisesKnown, LocksAreWorkedOn, ConfirmedAreStored
  <2> QED BY <2>1, <2>2, <2>3, QuietBudget DEF TypeOK
<1>13. ASSUME NEW i \in Replicas, Commit(i) PROVE Budget(e)'
  <2>1. sends'[e] = sends[e] /\ faults' = faults
    BY <1>13 DEF Commit, Goto, Unlocked, drainVars, dbVars, brokerVars
  <2>2. Late(e)' \subseteq Late(e)
    BY <1>13 DEF Commit, Goto, Unlocked, drainVars, dbVars, brokerVars, TypeOK, PCs, InTransaction, Late
  <2>3. e \in published \/ OnTrack(e) => e \in published' \/ OnTrack(e)'
    BY <1>13, RelayAssumption DEF Commit, Goto, Unlocked, drainVars, dbVars, brokerVars, TypeOK, OnTrack, InTransaction, PromisesKnown, LocksAreWorkedOn, ConfirmedAreStored
  <2> QED BY <2>1, <2>2, <2>3, QuietBudget DEF TypeOK
<1>14. ASSUME NEW i \in Replicas, Count(i) PROVE Budget(e)'
  <2>1. sends'[e] = sends[e] /\ faults' = faults
    BY <1>14 DEF Count, Goto, drainVars, dbVars, brokerVars
  <2>2. Late(e)' \subseteq Late(e)
    BY <1>14 DEF Count, Goto, drainVars, dbVars, brokerVars, TypeOK, PCs, InTransaction, Late
  <2>3. e \in published \/ OnTrack(e) => e \in published' \/ OnTrack(e)'
    BY <1>14, RelayAssumption DEF Count, Goto, drainVars, dbVars, brokerVars, TypeOK, OnTrack, InTransaction, PromisesKnown, LocksAreWorkedOn, ConfirmedAreStored
  <2> QED BY <2>1, <2>2, <2>3, QuietBudget DEF TypeOK
<1>15. ASSUME NEW i \in Replicas, SessionGone(i) PROVE Budget(e)'
  <2>1. sends'[e] = sends[e] /\ faults' = faults
    BY <1>15 DEF SessionGone, Goto, drainVars, dbVars, brokerVars
  <2>2. Late(e)' \subseteq Late(e)
    BY <1>15 DEF SessionGone, Goto, drainVars, dbVars, brokerVars, TypeOK, PCs, InTransaction, Late
  <2>3. e \in published \/ OnTrack(e) => e \in published' \/ OnTrack(e)'
    BY <1>15, RelayAssumption DEF SessionGone, Goto, drainVars, dbVars, brokerVars, TypeOK, OnTrack, InTransaction, PromisesKnown, LocksAreWorkedOn, ConfirmedAreStored
  <2> QED BY <2>1, <2>2, <2>3, QuietBudget DEF TypeOK
<1>16. ASSUME NEW i \in Replicas, StatementFails(i) PROVE Budget(e)'
  <2>1. sends'[e] = sends[e] /\ faults' = faults + 1
    BY <1>16 DEF StatementFails, Goto, Fault, drainVars, dbVars, brokerVars
  <2>2. Late(e)' \subseteq Late(e)
    BY <1>16 DEF StatementFails, Goto, Fault, drainVars, dbVars, brokerVars, TypeOK, PCs, InTransaction, Late
  <2> QED BY <2>1, <2>2, QuietBudget DEF TypeOK
<1>17. ASSUME NEW i \in Replicas, CommitUnacknowledged(i) PROVE Budget(e)'
  <2>1. sends'[e] = sends[e] /\ faults' = faults + 1
    BY <1>17 DEF CommitUnacknowledged, Goto, Fault, Unlocked, drainVars, dbVars, brokerVars
  <2>2. Late(e)' \subseteq Late(e)
    BY <1>17 DEF CommitUnacknowledged, Goto, Fault, Unlocked, drainVars, dbVars, brokerVars, TypeOK, PCs, InTransaction, Late
  <2> QED BY <2>1, <2>2, QuietBudget DEF TypeOK
<1>18. ASSUME NEW i \in Replicas, Caught(i) PROVE Budget(e)'
  <2>1. sends'[e] = sends[e] /\ faults' = faults
    BY <1>18 DEF Caught, Goto, Unlocked, drainVars, dbVars, brokerVars
  <2>2. Late(e)' \subseteq Late(e)
    BY <1>18 DEF Caught, Goto, Unlocked, drainVars, dbVars, brokerVars, TypeOK, PCs, InTransaction, Late
  <2>3. e \in published \/ OnTrack(e) => e \in published' \/ OnTrack(e)'
    BY <1>18, RelayAssumption DEF Caught, Goto, Unlocked, drainVars, dbVars, brokerVars, TypeOK, OnTrack, InTransaction, PromisesKnown, LocksAreWorkedOn, ConfirmedAreStored
  <2> QED BY <2>1, <2>2, <2>3, QuietBudget DEF TypeOK
<1>19. ASSUME NEW i \in Replicas, Release(i) PROVE Budget(e)'
  <2>1. sends'[e] = sends[e] /\ faults' = faults
    BY <1>19 DEF Release, Goto, drainVars, dbVars, brokerVars
  <2>2. Late(e)' \subseteq Late(e)
    BY <1>19 DEF Release, Goto, drainVars, dbVars, brokerVars, TypeOK, PCs, InTransaction, Late
  <2>3. e \in published \/ OnTrack(e) => e \in published' \/ OnTrack(e)'
    BY <1>19, RelayAssumption DEF Release, Goto, drainVars, dbVars, brokerVars, TypeOK, OnTrack, InTransaction, PromisesKnown, LocksAreWorkedOn, ConfirmedAreStored
  <2> QED BY <2>1, <2>2, <2>3, QuietBudget DEF TypeOK
<1>20. ASSUME NEW i \in Replicas, Nack(i) PROVE Budget(e)'
  <2>1. sends'[e] = sends[e] /\ faults' = faults + 1
    BY <1>20 DEF Nack, Fault, drainVars, dbVars, brokerVars
  <2>2. Late(e)' \subseteq Late(e)
    BY <1>20 DEF Nack, Fault, drainVars, dbVars, brokerVars, TypeOK, PCs, InTransaction, Late
  <2> QED BY <2>1, <2>2, QuietBudget DEF TypeOK
<1>21. ASSUME NEW i \in Replicas, Disconnect(i) PROVE Budget(e)'
  <2>1. sends'[e] = sends[e] /\ faults' = faults + 1
    BY <1>21 DEF Disconnect, ChannelEnds, MessagesOf, Fault, drainVars, dbVars, brokerVars
  <2>2. Late(e)' \subseteq Late(e)
    BY <1>21 DEF Disconnect, ChannelEnds, MessagesOf, Fault, drainVars, dbVars, brokerVars, TypeOK, PCs, InTransaction, Late
  <2> QED BY <2>1, <2>2, QuietBudget DEF TypeOK
<1>22. ASSUME NEW i \in Replicas, Reconnect(i) PROVE Budget(e)'
  <2>1. sends'[e] = sends[e] /\ faults' = faults
    BY <1>22 DEF Reconnect, drainVars, dbVars, brokerVars
  <2>2. Late(e)' \subseteq Late(e)
    BY <1>22 DEF Reconnect, drainVars, dbVars, brokerVars, TypeOK, PCs, InTransaction, Late
  <2>3. e \in published \/ OnTrack(e) => e \in published' \/ OnTrack(e)'
    BY <1>22, RelayAssumption DEF Reconnect, drainVars, dbVars, brokerVars, TypeOK, OnTrack, InTransaction, PromisesKnown, LocksAreWorkedOn, ConfirmedAreStored
  <2> QED BY <2>1, <2>2, <2>3, QuietBudget DEF TypeOK
<1>23. ASSUME NEW i \in Replicas, SessionEnds(i) PROVE Budget(e)'
  <2>1. sends'[e] = sends[e] /\ faults' = faults + 1 /\ published' = published
    BY <1>23 DEF SessionEnds, Fault, brokerVars
  <2>2. CASE pc[i] = "publish" /\ e \in batch[i]
    <3>1. rowlock[e] = i /\ e \notin published
      BY <1>23, <2>2 DEF SessionEnds, BatchLocked, InTransaction
    <3>2. ~ OnTrack(e)
      BY <2>2, <3>1 DEF OnTrack
    <3>3. Late(e)' \subseteq Late(e) \union {i}
      BY <1>23 DEF SessionEnds, drainVars, TypeOK, Late
    <3>4. Cardinality(Late(e)') \in Nat /\ Cardinality(Late(e)') <= Cardinality(Late(e)) + 1
      BY <3>3, LateGains
    <3>5. Cardinality(Late(e)) \in Nat /\ sends[e] \in Nat /\ faults \in Nat
      BY LateFinite DEF TypeOK
    <3>6. sends[e] + Cardinality(Late(e)) <= faults
      BY <3>1, <3>2, <3>5 DEF Budget
    <3>7. sends'[e] + Cardinality(Late(e)') <= faults'
      BY <2>1, <3>4, <3>5, <3>6
    <3> QED BY <2>1, <3>4, <3>5, <3>7 DEF Budget
  <2>3. CASE ~ (pc[i] = "publish" /\ e \in batch[i])
    <3>1. Late(e)' \subseteq Late(e)
      BY <1>23, <2>3 DEF SessionEnds, drainVars, TypeOK, Late
    <3> QED BY <2>1, <3>1, QuietBudget DEF TypeOK
  <2> QED BY <2>2, <2>3
<1>24. ASSUME NEW i \in Replicas, Crash(i) PROVE Budget(e)'
  <2>1. sends'[e] = sends[e] /\ faults' = faults + 1
    BY <1>24 DEF Crash, ChannelEnds, MessagesOf, Fault, Unlocked, drainVars, dbVars, brokerVars
  <2>2. Late(e)' \subseteq Late(e)
    BY <1>24 DEF Crash, ChannelEnds, MessagesOf, Fault, Unlocked, drainVars, dbVars, brokerVars, TypeOK, PCs, InTransaction, Late
  <2> QED BY <2>1, <2>2, QuietBudget DEF TypeOK
<1>q. QED
  BY <1>0, <1>1, <1>2, <1>3, <1>4, <1>5, <1>6, <1>7, <1>8, <1>9, <1>10, <1>11, <1>12, <1>13, <1>14, <1>15, <1>16, <1>17, <1>18, <1>19, <1>20, <1>21, <1>22, <1>23, <1>24 DEF Next, Drain, Failure

-----------------------------------------------------------------------------
(* The end of a drain *)

LEMMA Distances ==
  /\ Distance("release") = 1 /\ Distance("caught") = 2 /\ Distance("count") = 3
  /\ Distance("commit") = 4 /\ Distance("note") = 5 /\ Distance("mark") = 6
  /\ Distance("await") = 7 /\ Distance("publish") = 8 /\ Distance("select") = 9
  /\ Distance("connect") = 10
  BY DEF Distance

(* What a step can do to the drain of k: nothing or fewer confirms, a label *)
(* nearer to the end of the batch, the end, or the next batch.              *)
Moves(k) ==
  \/ pc[k] = "idle" \/ pc'[k] = "idle"
  \/ pc'[k] = pc[k] /\ round'[k] = round[k] /\ waiting'[k] \subseteq waiting[k]
  \/ Distance(pc'[k]) < Distance(pc[k]) /\ round'[k] = round[k]
  \/ pc[k] = "release" /\ pc'[k] = "connect" /\ round'[k] = round[k] + 1

(* Every step is such a move, whoever takes it. *)
LEMMA DrainMoves ==
  ASSUME NEW k \in Replicas, pc \in [Replicas -> PCs], round \in [Replicas -> 0..MaxBatches],
         waiting \in [Replicas -> SUBSET Message], [Next]_vars
  PROVE  Moves(k)
<1>0. CASE UNCHANGED vars
  BY <1>0, RelayAssumption, Distances DEF vars, drainVars, dbVars, brokerVars, Moves
<1>1. ASSUME NEW e \in Events, Insert(e) PROVE Moves(k)
  BY <1>1, RelayAssumption, Distances DEF Insert, drainVars, dbVars, brokerVars, Moves
<1>2. CASE Store
  BY <1>2, RelayAssumption, Distances DEF Store, drainVars, dbVars, brokerVars, Moves
<1>3. ASSUME NEW i \in Replicas, Tick(i) PROVE Moves(k)
  BY <1>3, RelayAssumption, Distances DEF Tick, Goto, drainVars, dbVars, brokerVars, Moves
<1>4. ASSUME NEW i \in Replicas, Connect(i) PROVE Moves(k)
  BY <1>4, RelayAssumption, Distances DEF Connect, Goto, drainVars, dbVars, brokerVars, Moves
<1>5. ASSUME NEW i \in Replicas, ConnectFails(i) PROVE Moves(k)
  BY <1>5, RelayAssumption, Distances DEF ConnectFails, Goto, Fault, drainVars, dbVars, brokerVars, Moves
<1>6. ASSUME NEW i \in Replicas, Select(i) PROVE Moves(k)
  BY <1>6, RelayAssumption, Distances DEF Select, OldestOf, UnlockedPending, Goto, drainVars, dbVars, brokerVars, Moves
<1>7. ASSUME NEW i \in Replicas, Publish(i) PROVE Moves(k)
  BY <1>7, RelayAssumption, Distances DEF Publish, Goto, drainVars, dbVars, brokerVars, Moves
<1>8. ASSUME NEW i \in Replicas, Confirm(i) PROVE Moves(k)
  BY <1>8, RelayAssumption, Distances DEF Confirm, drainVars, dbVars, brokerVars, Moves
<1>9. ASSUME NEW i \in Replicas, Timeout(i) PROVE Moves(k)
  BY <1>9, RelayAssumption, Distances DEF Timeout, Fault, drainVars, dbVars, brokerVars, Moves
<1>10. ASSUME NEW i \in Replicas, Settled(i) PROVE Moves(k)
  BY <1>10, RelayAssumption, Distances DEF Settled, Goto, drainVars, dbVars, brokerVars, Moves
<1>11. ASSUME NEW i \in Replicas, Mark(i) PROVE Moves(k)
  BY <1>11, RelayAssumption, Distances DEF Mark, Goto, drainVars, dbVars, brokerVars, Moves
<1>12. ASSUME NEW i \in Replicas, Note(i) PROVE Moves(k)
  BY <1>12, RelayAssumption, Distances DEF Note, Goto, drainVars, dbVars, brokerVars, Moves
<1>13. ASSUME NEW i \in Replicas, Commit(i) PROVE Moves(k)
  BY <1>13, RelayAssumption, Distances DEF Commit, Goto, Unlocked, drainVars, dbVars, brokerVars, Moves
<1>14. ASSUME NEW i \in Replicas, Count(i) PROVE Moves(k)
  BY <1>14, RelayAssumption, Distances DEF Count, Goto, drainVars, dbVars, brokerVars, Moves
<1>15. ASSUME NEW i \in Replicas, SessionGone(i) PROVE Moves(k)
  <2>1. /\ pc[i] \in {"select", "mark", "note", "commit", "count"}
        /\ pc' = [pc EXCEPT ![i] = "caught"] /\ round' = round /\ waiting' = waiting
    BY <1>15 DEF SessionGone, Goto
  <2> QED BY <2>1, Distances DEF Moves
<1>16. ASSUME NEW i \in Replicas, StatementFails(i) PROVE Moves(k)
  <2>1. /\ pc[i] \in {"select", "mark", "note", "commit", "count"}
        /\ pc' = [pc EXCEPT ![i] = "caught"] /\ round' = round /\ waiting' = waiting
    BY <1>16 DEF StatementFails, Goto
  <2> QED BY <2>1, Distances DEF Moves
<1>17. ASSUME NEW i \in Replicas, CommitUnacknowledged(i) PROVE Moves(k)
  BY <1>17, RelayAssumption, Distances DEF CommitUnacknowledged, Goto, Fault, Unlocked, drainVars, dbVars, brokerVars, Moves
<1>18. ASSUME NEW i \in Replicas, Caught(i) PROVE Moves(k)
  BY <1>18, RelayAssumption, Distances DEF Caught, Goto, Unlocked, drainVars, dbVars, brokerVars, Moves
<1>19. ASSUME NEW i \in Replicas, Release(i) PROVE Moves(k)
  <2>1. CASE full[i] /\ round[i] < MaxBatches
    <3>1. pc' = [pc EXCEPT ![i] = "connect"] /\ round' = [round EXCEPT ![i] = @ + 1] /\ waiting' = waiting
      BY <1>19, <2>1 DEF Release, Goto
    <3>2. pc[i] = "release"
      BY <1>19 DEF Release
    <3> QED BY <3>1, <3>2 DEF Moves
  <2>2. CASE ~ (full[i] /\ round[i] < MaxBatches)
    <3>1. pc' = [pc EXCEPT ![i] = "idle"] /\ round' = [round EXCEPT ![i] = 0] /\ waiting' = waiting
      BY <1>19, <2>2 DEF Release, Goto
    <3> QED BY <3>1 DEF Moves
  <2> QED BY <2>1, <2>2
<1>20. ASSUME NEW i \in Replicas, Nack(i) PROVE Moves(k)
  BY <1>20, RelayAssumption, Distances DEF Nack, Fault, drainVars, dbVars, brokerVars, Moves
<1>21. ASSUME NEW i \in Replicas, Disconnect(i) PROVE Moves(k)
  BY <1>21, RelayAssumption, Distances DEF Disconnect, ChannelEnds, MessagesOf, Fault, drainVars, dbVars, brokerVars, Moves
<1>22. ASSUME NEW i \in Replicas, Reconnect(i) PROVE Moves(k)
  BY <1>22, RelayAssumption, Distances DEF Reconnect, drainVars, dbVars, brokerVars, Moves
<1>23. ASSUME NEW i \in Replicas, SessionEnds(i) PROVE Moves(k)
  BY <1>23, RelayAssumption, Distances DEF SessionEnds, Fault, Unlocked, drainVars, dbVars, brokerVars, Moves
<1>24. ASSUME NEW i \in Replicas, Crash(i) PROVE Moves(k)
  BY <1>24, RelayAssumption, Distances DEF Crash, ChannelEnds, MessagesOf, Fault, Unlocked, drainVars, dbVars, brokerVars, Moves
<1>q. QED
  BY <1>0, <1>1, <1>2, <1>3, <1>4, <1>5, <1>6, <1>7, <1>8, <1>9, <1>10, <1>11, <1>12, <1>13, <1>14, <1>15, <1>16, <1>17, <1>18, <1>19, <1>20, <1>21, <1>22, <1>23, <1>24 DEF Next, Drain, Failure

(* The flag and the drain go together. *)
LEMMA FlagStep ==
  ASSUME TypeOK, FlagHasDrain, [Next]_vars
  PROVE  FlagHasDrain'
<1>0. CASE UNCHANGED vars
  BY <1>0, RelayAssumption DEF vars, drainVars, dbVars, brokerVars, TypeOK, FlagHasDrain, PCs, InTransaction
<1>1. ASSUME NEW e \in Events, Insert(e) PROVE FlagHasDrain'
  BY <1>1, RelayAssumption DEF Insert, drainVars, dbVars, brokerVars, TypeOK, FlagHasDrain, PCs, InTransaction
<1>2. CASE Store
  BY <1>2, RelayAssumption DEF Store, drainVars, dbVars, brokerVars, TypeOK, FlagHasDrain, PCs, InTransaction
<1>3. ASSUME NEW i \in Replicas, Tick(i) PROVE FlagHasDrain'
  BY <1>3, RelayAssumption DEF Tick, Goto, drainVars, dbVars, brokerVars, TypeOK, FlagHasDrain, PCs, InTransaction
<1>4. ASSUME NEW i \in Replicas, Connect(i) PROVE FlagHasDrain'
  BY <1>4, RelayAssumption DEF Connect, Goto, drainVars, dbVars, brokerVars, TypeOK, FlagHasDrain, PCs, InTransaction
<1>5. ASSUME NEW i \in Replicas, ConnectFails(i) PROVE FlagHasDrain'
  BY <1>5, RelayAssumption DEF ConnectFails, Goto, Fault, drainVars, dbVars, brokerVars, TypeOK, FlagHasDrain, PCs, InTransaction
<1>6. ASSUME NEW i \in Replicas, Select(i) PROVE FlagHasDrain'
  BY <1>6, RelayAssumption DEF Select, OldestOf, UnlockedPending, Goto, drainVars, dbVars, brokerVars, TypeOK, FlagHasDrain, PCs, InTransaction
<1>7. ASSUME NEW i \in Replicas, Publish(i) PROVE FlagHasDrain'
  BY <1>7, RelayAssumption DEF Publish, Goto, drainVars, dbVars, brokerVars, TypeOK, FlagHasDrain, PCs, InTransaction
<1>8. ASSUME NEW i \in Replicas, Confirm(i) PROVE FlagHasDrain'
  BY <1>8, RelayAssumption DEF Confirm, drainVars, dbVars, brokerVars, TypeOK, FlagHasDrain, PCs, InTransaction
<1>9. ASSUME NEW i \in Replicas, Timeout(i) PROVE FlagHasDrain'
  BY <1>9, RelayAssumption DEF Timeout, Fault, drainVars, dbVars, brokerVars, TypeOK, FlagHasDrain, PCs, InTransaction
<1>10. ASSUME NEW i \in Replicas, Settled(i) PROVE FlagHasDrain'
  BY <1>10, RelayAssumption DEF Settled, Goto, drainVars, dbVars, brokerVars, TypeOK, FlagHasDrain, PCs, InTransaction
<1>11. ASSUME NEW i \in Replicas, Mark(i) PROVE FlagHasDrain'
  BY <1>11, RelayAssumption DEF Mark, Goto, drainVars, dbVars, brokerVars, TypeOK, FlagHasDrain, PCs, InTransaction
<1>12. ASSUME NEW i \in Replicas, Note(i) PROVE FlagHasDrain'
  BY <1>12, RelayAssumption DEF Note, Goto, drainVars, dbVars, brokerVars, TypeOK, FlagHasDrain, PCs, InTransaction
<1>13. ASSUME NEW i \in Replicas, Commit(i) PROVE FlagHasDrain'
  BY <1>13, RelayAssumption DEF Commit, Goto, Unlocked, drainVars, dbVars, brokerVars, TypeOK, FlagHasDrain, PCs, InTransaction
<1>14. ASSUME NEW i \in Replicas, Count(i) PROVE FlagHasDrain'
  BY <1>14, RelayAssumption DEF Count, Goto, drainVars, dbVars, brokerVars, TypeOK, FlagHasDrain, PCs, InTransaction
<1>15. ASSUME NEW i \in Replicas, SessionGone(i) PROVE FlagHasDrain'
  BY <1>15, RelayAssumption DEF SessionGone, Goto, drainVars, dbVars, brokerVars, TypeOK, FlagHasDrain, PCs, InTransaction
<1>16. ASSUME NEW i \in Replicas, StatementFails(i) PROVE FlagHasDrain'
  BY <1>16, RelayAssumption DEF StatementFails, Goto, Fault, drainVars, dbVars, brokerVars, TypeOK, FlagHasDrain, PCs, InTransaction
<1>17. ASSUME NEW i \in Replicas, CommitUnacknowledged(i) PROVE FlagHasDrain'
  BY <1>17, RelayAssumption DEF CommitUnacknowledged, Goto, Fault, Unlocked, drainVars, dbVars, brokerVars, TypeOK, FlagHasDrain, PCs, InTransaction
<1>18. ASSUME NEW i \in Replicas, Caught(i) PROVE FlagHasDrain'
  BY <1>18, RelayAssumption DEF Caught, Goto, Unlocked, drainVars, dbVars, brokerVars, TypeOK, FlagHasDrain, PCs, InTransaction
<1>19. ASSUME NEW i \in Replicas, Release(i) PROVE FlagHasDrain'
  BY <1>19, RelayAssumption DEF Release, Goto, drainVars, dbVars, brokerVars, TypeOK, FlagHasDrain, PCs, InTransaction
<1>20. ASSUME NEW i \in Replicas, Nack(i) PROVE FlagHasDrain'
  BY <1>20, RelayAssumption DEF Nack, Fault, drainVars, dbVars, brokerVars, TypeOK, FlagHasDrain, PCs, InTransaction
<1>21. ASSUME NEW i \in Replicas, Disconnect(i) PROVE FlagHasDrain'
  BY <1>21, RelayAssumption DEF Disconnect, ChannelEnds, MessagesOf, Fault, drainVars, dbVars, brokerVars, TypeOK, FlagHasDrain, PCs, InTransaction
<1>22. ASSUME NEW i \in Replicas, Reconnect(i) PROVE FlagHasDrain'
  BY <1>22, RelayAssumption DEF Reconnect, drainVars, dbVars, brokerVars, TypeOK, FlagHasDrain, PCs, InTransaction
<1>23. ASSUME NEW i \in Replicas, SessionEnds(i) PROVE FlagHasDrain'
  BY <1>23, RelayAssumption DEF SessionEnds, Fault, Unlocked, drainVars, dbVars, brokerVars, TypeOK, FlagHasDrain, PCs, InTransaction
<1>24. ASSUME NEW i \in Replicas, Crash(i) PROVE FlagHasDrain'
  BY <1>24, RelayAssumption DEF Crash, ChannelEnds, MessagesOf, Fault, Unlocked, drainVars, dbVars, brokerVars, TypeOK, FlagHasDrain, PCs, InTransaction
<1>q. QED
  BY <1>0, <1>1, <1>2, <1>3, <1>4, <1>5, <1>6, <1>7, <1>8, <1>9, <1>10, <1>11, <1>12, <1>13, <1>14, <1>15, <1>16, <1>17, <1>18, <1>19, <1>20, <1>21, <1>22, <1>23, <1>24 DEF Next, Drain, Failure

-----------------------------------------------------------------------------
(* The invariant holds initially and every step keeps it. *)
THEOREM Invariance == Spec => []IInv
<1>1. Init => IInv
  <2> SUFFICES ASSUME Init PROVE IInv
    OBVIOUS
  <2>1. TypeOK
    BY RelayAssumption DEF Init, TypeOK, PCs
  <2>2. RowsKnown /\ ConfirmedAreStored /\ PromisesKnown /\ MarkedOnlyIfStored
    BY DEF Init, RowsKnown, ConfirmedAreStored, PromisesKnown, MarkedOnlyIfStored
  <2>3. BatchLocked /\ LocksAreWorkedOn
    BY RelayAssumption DEF Init, BatchLocked, LocksAreWorkedOn
  <2>4. \A e \in Events : Budget(e)
    <3> SUFFICES ASSUME NEW e \in Events PROVE Budget(e)
      OBVIOUS
    <3>1. Late(e) = {}
      BY DEF Init, Late
    <3>2. Cardinality(Late(e)) = 0
      BY <3>1, FS_EmptySet
    <3> QED BY <3>2 DEF Init, Budget
  <2> QED BY <2>1, <2>2, <2>3, <2>4 DEF IInv
<1>2. IInv /\ [Next]_vars => IInv'
  BY TypeStep, RowsStep, ConfirmedStep, PromisesStep, LocksStep, MarkedStep, BudgetStep DEF IInv
<1> QED BY <1>1, <1>2, PTL DEF Spec

(* Every variable keeps its type, for any number of replicas and rows. *)
THEOREM Typing == Spec => []TypeOK
BY Invariance, PTL DEF IInv

(* Only stored rows are marked, whatever fails. *)
THEOREM MarkedAfterStored == Spec => []MarkedOnlyIfStored
BY Invariance, PTL DEF IInv

(* No row is worked on by nobody. *)
THEOREM NoOrphanLocks == Spec => []LocksAreWorkedOn
BY Invariance, PTL DEF IInv

(* Two transactions of the relay never have a row in common. *)
THEOREM ReplicasStayApart == Spec => []BatchesDisjoint
<1>1. IInv => BatchesDisjoint
  BY DEF IInv, BatchLocked, BatchesDisjoint
<1> QED BY <1>1, Invariance, PTL

(* n failures cause at most n duplicates of a row. *)
THEOREM DuplicatesAreFailures == Spec => []DuplicatesNeedFaults
<1>1. IInv => DuplicatesNeedFaults
  <2> SUFFICES ASSUME IInv, NEW e \in Events PROVE sends[e] <= 1 + faults
    BY DEF DuplicatesNeedFaults
  <2>1. sends[e] \in Nat /\ faults \in Nat /\ Cardinality(Late(e)) \in Nat
    BY LateFinite DEF IInv, TypeOK
  <2>2. \/ sends[e] + Cardinality(Late(e)) <= faults
        \/ sends[e] + Cardinality(Late(e)) <= faults + 1
    BY DEF IInv, Budget
  <2> QED BY <2>1, <2>2
<1> QED BY <1>1, Invariance, PTL

(* A drain ends, whatever fails in it: it has a bounded number of           *)
(* statements ahead of it and every step of it uses one up or settles a     *)
(* promise (flushBatch always comes to its finally, lines 128-137).         *)
THEOREM EveryDrainRunsOut ==
  Spec => DrainsRunOut /\ [](\A i \in Replicas : StepsLeft(i) \in 0..(11 * MaxBatches + 10))
<1> DEFINE Fewer(i) == \/ StepsLeft(i)' < StepsLeft(i)
                       \/ StepsLeft(i)' = StepsLeft(i) /\ waiting'[i] \subseteq waiting[i]
           Bounded == \A i \in Replicas : StepsLeft(i) \in 0..(11 * MaxBatches + 10)
<1>0. \A label \in PCs : Distance(label) \in 1..10
  BY DEF Distance
<1>1. TypeOK => Bounded
  <2> SUFFICES ASSUME TypeOK, NEW i \in Replicas PROVE StepsLeft(i) \in 0..(11 * MaxBatches + 10)
    OBVIOUS
  <2>1. round[i] \in 0..MaxBatches /\ Distance(pc[i]) \in 1..10
    BY <1>0 DEF TypeOK
  <2> QED BY <2>1, RelayAssumption DEF StepsLeft
<1>2. IInv /\ [Next]_vars => [\A i \in Replicas : pc[i] # "idle" => Fewer(i)]_vars
  <2> SUFFICES ASSUME IInv, [Next]_vars, NEW i \in Replicas, pc[i] # "idle" PROVE Fewer(i)
    OBVIOUS
  <2>1. TypeOK /\ TypeOK'
    BY TypeStep DEF IInv
  <2>2. /\ round[i] \in Int /\ round'[i] \in Int /\ round'[i] <= MaxBatches /\ round[i] <= MaxBatches
        /\ Distance(pc[i]) \in 1..10 /\ Distance(pc'[i]) \in 1..10
    BY <1>0, <2>1, RelayAssumption DEF TypeOK
  <2>3. MaxBatches \in Int
    BY RelayAssumption
  <2>4. Moves(i)
    BY <2>1, DrainMoves DEF TypeOK
  <2>5. CASE pc'[i] = "idle"
    BY <2>2, <2>3, <2>5 DEF StepsLeft
  <2>6. CASE pc'[i] # "idle" /\ pc'[i] = pc[i] /\ round'[i] = round[i] /\ waiting'[i] \subseteq waiting[i]
    BY <2>6 DEF StepsLeft
  <2>7. CASE pc'[i] # "idle" /\ Distance(pc'[i]) < Distance(pc[i]) /\ round'[i] = round[i]
    BY <2>2, <2>3, <2>7 DEF StepsLeft
  <2>8. CASE pc[i] = "release" /\ pc'[i] = "connect" /\ round'[i] = round[i] + 1
    <3>1. Distance(pc[i]) = 1 /\ Distance(pc'[i]) = 10
      BY <2>8, Distances
    <3> QED BY <2>2, <2>3, <2>8, <3>1 DEF StepsLeft
  <2> QED BY <2>4, <2>5, <2>6, <2>7, <2>8 DEF Moves
<1>3. IInv => TypeOK
  BY DEF IInv
<1> QED BY <1>1, <1>2, <1>3, Invariance, PTL DEF Spec, DrainsRunOut

(* The guard of flushBatch is never left set by a drain that is gone, and   *)
(* no drain is left at a statement that can neither succeed nor fail.       *)
THEOREM FlagNeverStuck == Spec => []FlagHasDrain
<1>1. Init => FlagHasDrain
  BY DEF Init, FlagHasDrain, InTransaction
<1>2. IInv => TypeOK
  BY DEF IInv
<1> QED BY <1>1, <1>2, FlagStep, Invariance, PTL DEF Spec

-----------------------------------------------------------------------------
(* The relay implements at-least-once delivery: every step commits a row,    *)
(* stores messages of committed rows, marks stored rows, or is invisible.    *)
LEMMA PromiseStep ==
  ASSUME IInv, [Next]_vars
  PROVE  [Promise!Next]_(Promise!promise)
<1> USE DEF Promise!promise
<1>a. ASSUME committed' = committed, accepted' = accepted, published' = published
      PROVE  UNCHANGED Promise!promise
  BY <1>a
<1>b. ASSUME NEW S \in SUBSET live, accepted' = accepted \union S,
             committed' = committed, published' = published
      PROVE  Promise!Next
  <2> DEFINE E == {m.ev : m \in S}
  <2>1. E \in SUBSET Events /\ E \subseteq committed
    BY DEF IInv, TypeOK, Message, RowsKnown
  <2>2. {m.ev : m \in accepted'} = {m.ev : m \in accepted} \union E
    BY <1>b
  <2>3. Promise!Store(E)
    BY <1>b, <2>1, <2>2 DEF Promise!Store
  <2> QED BY <2>1, <2>3 DEF Promise!Next
<1>c. ASSUME NEW i \in Replicas, published' = published \union marked[i],
             committed' = committed, accepted' = accepted
      PROVE  Promise!Next
  <2>1. marked[i] \in SUBSET Events /\ marked[i] \subseteq {m.ev : m \in accepted}
    BY DEF IInv, TypeOK, ConfirmedAreStored, Stored
  <2>2. Promise!Mark(marked[i])
    BY <1>c, <2>1 DEF Promise!Mark
  <2> QED BY <2>1, <2>2 DEF Promise!Next
<1>0. CASE UNCHANGED vars
  BY <1>0, <1>a DEF vars, dbVars, brokerVars
<1>1. ASSUME NEW e \in Events, Insert(e) PROVE Promise!Next
  BY <1>1 DEF Insert, brokerVars, Promise!Next, Promise!Commit
<1>2. CASE Store
  <2> PICK m \in live \ accepted : accepted' = accepted \union {m}
    BY <1>2 DEF Store
  <2> QED BY <1>2, <1>b DEF Store, dbVars
<1>3. ASSUME NEW i \in Replicas, Commit(i) \/ CommitUnacknowledged(i) PROVE Promise!Next
  BY <1>3, <1>c DEF Commit, CommitUnacknowledged, brokerVars
<1>4. ASSUME NEW i \in Replicas, Disconnect(i) \/ Crash(i) PROVE Promise!Next
  <2> PICK S \in SUBSET live : accepted' = accepted \union S
    BY <1>4 DEF Disconnect, Crash, ChannelEnds, MessagesOf
  <2> QED BY <1>4, <1>b DEF Disconnect, Crash, dbVars
<1>5. ASSUME NEW i \in Replicas, Tick(i) \/ Connect(i) \/ ConnectFails(i) \/ Select(i) \/ Publish(i) \/ Confirm(i) \/ Timeout(i)
      PROVE  UNCHANGED Promise!promise
  BY <1>5, <1>a DEF Tick, Connect, ConnectFails, Select, Publish, Confirm, Timeout, dbVars, brokerVars
<1>6. ASSUME NEW i \in Replicas, Settled(i) \/ Mark(i) \/ Note(i) \/ Count(i) \/ SessionGone(i) \/ StatementFails(i) \/ Caught(i)
      PROVE  UNCHANGED Promise!promise
  BY <1>6, <1>a DEF Settled, Mark, Note, Count, SessionGone, StatementFails, Caught, dbVars, brokerVars
<1>7. ASSUME NEW i \in Replicas, Release(i) \/ Nack(i) \/ Reconnect(i) \/ SessionEnds(i)
      PROVE  UNCHANGED Promise!promise
  BY <1>7, <1>a DEF Release, Nack, Reconnect, SessionEnds, dbVars, brokerVars
<1> QED BY <1>0, <1>1, <1>2, <1>3, <1>4, <1>5, <1>6, <1>7 DEF Next, Drain, Failure

THEOREM Implementation == Spec => KeepsPromise
<1>1. Init => Promise!Init
  BY DEF Init, Promise!Init
<1>2. IInv /\ [Next]_vars => [Promise!Next]_(Promise!promise)
  BY PromiseStep
<1> QED BY <1>1, <1>2, Invariance, PTL DEF Spec, KeepsPromise, Promise!SafeSpec
=============================================================================
