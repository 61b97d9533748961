---------------------------- MODULE OutboxRelay -----------------------------
(***************************************************************************)
(* OutboxRelayService on every replica of the backend: each tick drains    *)
(* outbox_events in batches that it selects FOR UPDATE SKIP LOCKED,        *)
(* publishes on a confirm channel, and marks once the broker has           *)
(* answered.  The broker, the channel and the database are modelled as the *)
(* relay and RabbitMQService.publishEvent use them.                        *)
(***************************************************************************)
EXTENDS Integers, FiniteSets

CONSTANTS
  Replicas,     \* processes that run a relay
  Events,       \* rows that outbox_events will ever have
  Created,      \* created_at of each: rows may become visible out of order
  BatchSize,    \* OUTBOX_BATCH_SIZE
  MaxBatches,   \* MAX_BATCHES_PER_TICK
  NoReplica,
  MaxFaults     \* bound on failures of the database, the broker and processes

ASSUME RelayAssumption ==
  /\ Created \in [Events -> Nat]
  /\ IsFiniteSet(Replicas) /\ NoReplica \notin Replicas
  /\ BatchSize \in Nat \ {0} /\ MaxBatches \in Nat \ {0} /\ MaxFaults \in Nat

VARIABLES
  committed,    \* rows a transfer has committed
  published,    \* rows whose published_at is set
  rowlock,      \* FOR UPDATE holder of each row
  pc, running,  \* the drain of each replica and the flag that guards it
  round,        \* batches of this tick so far
  session,      \* its database session: none, open, or lost (not noticed yet)
  batch,        \* rows of the batch
  waiting,      \* messages whose promise is pending
  confirmed,    \* rows whose promise resolved to true
  marked,       \* published_at written, not committed
  full,         \* whether another batch should follow
  up,           \* isConnected and a confirm channel
  live,         \* messages on an open channel, or with an ack on its way
  accepted,     \* messages the broker has stored
  sends,        \* messages sent for each event
  faults        \* failures so far

drainVars == <<pc, running, round, batch, waiting, confirmed, marked, full>>
dbVars == <<committed, published, rowlock, session>>
brokerVars == <<up, live, accepted, sends>>
vars == <<drainVars, dbVars, brokerVars, faults>>

Message == [ev : Events, by : Replicas, n : Nat \ {0}]
InTransaction == {"publish", "await", "mark", "note", "commit"}
PCs == {"idle", "connect", "select", "count", "caught", "release"} \union InTransaction

-----------------------------------------------------------------------------
Goto(i, label) == pc' = [pc EXCEPT ![i] = label]

Fault == faults < MaxFaults /\ faults' = faults + 1

Unlocked(i) == [e \in Events |-> IF rowlock[e] = i THEN NoReplica ELSE rowlock[e]]

MessagesOf(i) == {m \in live : m.by = i}

Init ==
  /\ committed = {} /\ published = {} /\ accepted = {} /\ live = {}
  /\ rowlock = [e \in Events |-> NoReplica]
  /\ sends = [e \in Events |-> 0]
  /\ pc = [i \in Replicas |-> "idle"]
  /\ running = [i \in Replicas |-> FALSE]
  /\ round = [i \in Replicas |-> 0]
  /\ session = [i \in Replicas |-> "none"]
  /\ batch = [i \in Replicas |-> {}]
  /\ waiting = [i \in Replicas |-> {}]
  /\ confirmed = [i \in Replicas |-> {}]
  /\ marked = [i \in Replicas |-> {}]
  /\ full = [i \in Replicas |-> FALSE]
  /\ up = [i \in Replicas |-> FALSE]
  /\ faults = 0

(* A transfer commits with its event. *)
Insert(e) ==
  /\ e \notin committed
  /\ committed' = committed \union {e}
  /\ UNCHANGED <<drainVars, published, rowlock, session, brokerVars, faults>>

-----------------------------------------------------------------------------
(* The drain of replica i *)

(* The timer fires; while a drain is running it does nothing. *)
Tick(i) ==
  /\ pc[i] = "idle" /\ ~ running[i]
  /\ running' = [running EXCEPT ![i] = TRUE]
  /\ round' = [round EXCEPT ![i] = 1]
  /\ Goto(i, "connect")
  /\ UNCHANGED <<batch, waiting, confirmed, marked, full, dbVars, brokerVars, faults>>

Connect(i) ==
  /\ pc[i] = "connect"
  /\ session' = [session EXCEPT ![i] = "open"]
  /\ Goto(i, "select")
  /\ UNCHANGED <<running, round, batch, waiting, confirmed, marked, full,
                 committed, published, rowlock, brokerVars, faults>>

(* The pool has no connection to give, or the database refuses it. *)
ConnectFails(i) ==
  /\ pc[i] = "connect"
  /\ Fault
  /\ Goto(i, "caught")
  /\ UNCHANGED <<running, round, batch, waiting, confirmed, marked, full, dbVars, brokerVars>>

(* Variant: the rows of another replica are not skipped. *)
PendingRows == committed \ published

(* Variant: no WHERE published_at IS NULL. *)
UnlockedCommitted == {e \in committed : rowlock[e] = NoReplica}

(* WHERE published_at IS NULL, SKIP LOCKED *)
UnlockedPending == {e \in committed \ published : rowlock[e] = NoReplica}

(* ORDER BY created_at LIMIT BatchSize *)
OldestOf(S) ==
  {B \in SUBSET S :
     /\ Cardinality(B) = IF Cardinality(S) < BatchSize THEN Cardinality(S) ELSE BatchSize
     /\ \A a \in B, b \in S \ B : Created[a] <= Created[b]}

Select(i) ==
  /\ pc[i] = "select" /\ session[i] = "open"
  /\ \E B \in OldestOf(UnlockedPending) :
       /\ batch' = [batch EXCEPT ![i] = B]
       /\ rowlock' = [e \in Events |-> IF e \in B THEN i ELSE rowlock[e]]
  /\ Goto(i, "publish")
  /\ UNCHANGED <<running, round, waiting, confirmed, marked, full,
                 committed, published, session, brokerVars, faults>>

(* publishEvent for every row, in one go: without a channel every promise   *)
(* resolves to false at once.                                               *)
Publish(i) ==
  /\ pc[i] = "publish"
  /\ LET sent == {[ev |-> e, by |-> i, n |-> sends[e] + 1] : e \in batch[i]} IN
     IF up[i]
     THEN /\ waiting' = [waiting EXCEPT ![i] = sent]
          /\ live' = live \union sent
          /\ sends' = [e \in Events |-> IF e \in batch[i] THEN sends[e] + 1 ELSE sends[e]]
     ELSE UNCHANGED <<waiting, live, sends>>
  /\ Goto(i, "await")
  /\ UNCHANGED <<running, round, batch, confirmed, marked, full, dbVars, up, accepted, faults>>

(* The broker's ack resolves a promise to true. *)
Confirm(i) ==
  /\ \E m \in waiting[i] \intersect live \intersect accepted :
       /\ waiting' = [waiting EXCEPT ![i] = @ \ {m}]
       /\ confirmed' = [confirmed EXCEPT ![i] = @ \union {m.ev}]
       /\ live' = live \ {m}
  /\ UNCHANGED <<pc, running, round, batch, marked, full, dbVars, up, accepted, sends, faults>>

(* Variant: no confirm timer, a lost message is waited for. *)
TimeoutOfLateAnswers(i) ==
  /\ \E m \in waiting[i] \intersect live :
       /\ waiting' = [waiting EXCEPT ![i] = @ \ {m}]
       /\ live' = live \ (accepted \intersect {m})
       /\ Fault
  /\ UNCHANGED <<pc, running, round, batch, confirmed, marked, full, dbVars, up, accepted, sends>>

(* The confirm timer resolves a promise to false: the channel is gone, or   *)
(* the broker is late, and then the message may still be stored.            *)
Timeout(i) ==
  /\ \E m \in waiting[i] :
       /\ waiting' = [waiting EXCEPT ![i] = @ \ {m}]
       /\ live' = live \ (accepted \intersect {m})
       /\ IF m \in live THEN Fault ELSE UNCHANGED faults
  /\ UNCHANGED <<pc, running, round, batch, confirmed, marked, full, dbVars, up, accepted, sends>>

Settled(i) ==
  /\ pc[i] = "await" /\ waiting[i] = {}
  /\ Goto(i, "mark")
  /\ UNCHANGED <<running, round, batch, waiting, confirmed, marked, full, dbVars, brokerVars, faults>>

(* Variant: the whole batch is marked. *)
MarkBatch(i) ==
  /\ pc[i] = "mark" /\ session[i] = "open"
  /\ marked' = [marked EXCEPT ![i] = batch[i]]
  /\ Goto(i, "note")
  /\ UNCHANGED <<running, round, batch, waiting, confirmed, full, dbVars, brokerVars, faults>>

(* published_at of the confirmed rows *)
Mark(i) ==
  /\ pc[i] = "mark" /\ session[i] = "open"
  /\ marked' = [marked EXCEPT ![i] = confirmed[i]]
  /\ Goto(i, "note")
  /\ UNCHANGED <<running, round, batch, waiting, confirmed, full, dbVars, brokerVars, faults>>

(* attempts and last_error of the others; nothing reads them. *)
Note(i) ==
  /\ pc[i] = "note" /\ session[i] = "open"
  /\ Goto(i, "commit")
  /\ UNCHANGED <<running, round, batch, waiting, confirmed, marked, full, dbVars, brokerVars, faults>>

Commit(i) ==
  /\ pc[i] = "commit" /\ session[i] = "open"
  /\ published' = published \union marked[i]
  /\ rowlock' = Unlocked(i)
  /\ full' = [full EXCEPT ![i] = Cardinality(batch[i]) = BatchSize /\ confirmed[i] = batch[i]]
  /\ Goto(i, "count")
  /\ UNCHANGED <<running, round, batch, waiting, confirmed, marked, committed, session, brokerVars, faults>>

(* The metric's count of pending rows. *)
Count(i) ==
  /\ pc[i] = "count" /\ session[i] = "open"
  /\ Goto(i, "release")
  /\ UNCHANGED <<running, round, batch, waiting, confirmed, marked, full, dbVars, brokerVars, faults>>

(* A statement finds that the session is gone. *)
SessionGone(i) ==
  /\ pc[i] \in {"select", "mark", "note", "commit", "count"} /\ session[i] = "lost"
  /\ Goto(i, "caught")
  /\ UNCHANGED <<running, round, batch, waiting, confirmed, marked, full, dbVars, brokerVars, faults>>

(* A statement fails and the session survives (statement_timeout). *)
StatementFails(i) ==
  /\ pc[i] \in {"select", "mark", "note", "commit", "count"} /\ session[i] = "open"
  /\ Fault
  /\ Goto(i, "caught")
  /\ UNCHANGED <<running, round, batch, waiting, confirmed, marked, full, dbVars, brokerVars>>

(* COMMIT is applied and its answer lost. *)
CommitUnacknowledged(i) ==
  /\ pc[i] = "commit" /\ session[i] = "open"
  /\ Fault
  /\ published' = published \union marked[i]
  /\ rowlock' = Unlocked(i)
  /\ session' = [session EXCEPT ![i] = "lost"]
  /\ Goto(i, "caught")
  /\ UNCHANGED <<running, round, batch, waiting, confirmed, marked, full, committed, brokerVars>>

Caught(i) ==
  /\ pc[i] = "caught"
  /\ rowlock' = Unlocked(i)
  /\ full' = [full EXCEPT ![i] = FALSE]
  /\ Goto(i, "release")
  /\ UNCHANGED <<running, round, batch, waiting, confirmed, marked,
                 committed, published, session, brokerVars, faults>>

(* finally: the connection goes back and the next batch or the timer runs. *)
Release(i) ==
  /\ pc[i] = "release"
  /\ session' = [session EXCEPT ![i] = "none"]
  /\ batch' = [batch EXCEPT ![i] = {}]
  /\ confirmed' = [confirmed EXCEPT ![i] = {}]
  /\ marked' = [marked EXCEPT ![i] = {}]
  /\ IF full[i] /\ round[i] < MaxBatches
     THEN Goto(i, "connect") /\ round' = [round EXCEPT ![i] = @ + 1] /\ UNCHANGED running
     ELSE /\ Goto(i, "idle") /\ round' = [round EXCEPT ![i] = 0]
          /\ running' = [running EXCEPT ![i] = FALSE]
  /\ UNCHANGED <<waiting, full, committed, published, rowlock, brokerVars, faults>>

-----------------------------------------------------------------------------
(* The broker and the environment *)

(* A confirm is on its way only while its promise is pending. *)
Store ==
  /\ \E m \in live \ accepted :
       /\ accepted' = accepted \union {m}
       /\ live' = IF m \in waiting[m.by] THEN live ELSE live \ {m}
  /\ UNCHANGED <<drainVars, dbVars, up, sends, faults>>

(* The broker refuses a message: the promise resolves to false. *)
Nack(i) ==
  /\ \E m \in (waiting[i] \intersect live) \ accepted :
       /\ waiting' = [waiting EXCEPT ![i] = @ \ {m}]
       /\ live' = live \ {m}
  /\ Fault
  /\ UNCHANGED <<pc, running, round, batch, confirmed, marked, full, dbVars, up, accepted, sends>>

(* The channel of i closes: the broker has read some of what was on the     *)
(* wire, and no ack arrives any more.                                       *)
ChannelEnds(i) ==
  /\ \E S \in SUBSET (MessagesOf(i) \ accepted) : accepted' = accepted \union S
  /\ live' = live \ MessagesOf(i)
  /\ up' = [up EXCEPT ![i] = FALSE]

Disconnect(i) ==
  /\ up[i]
  /\ Fault
  /\ ChannelEnds(i)
  /\ UNCHANGED <<drainVars, dbVars, sends>>

(* Variant: it gives up after a number of failures. *)
ReconnectLimited(i) ==
  /\ ~ up[i] /\ faults < MaxFaults
  /\ up' = [up EXCEPT ![i] = TRUE]
  /\ UNCHANGED <<drainVars, dbVars, live, accepted, sends, faults>>

(* RabbitMQService reconnects in the background. *)
Reconnect(i) ==
  /\ ~ up[i]
  /\ up' = [up EXCEPT ![i] = TRUE]
  /\ UNCHANGED <<drainVars, dbVars, live, accepted, sends, faults>>

(* The server ends the session, at any moment: its locks are free, and i    *)
(* learns of it at its next statement.                                      *)
SessionEnds(i) ==
  /\ session[i] = "open"
  /\ Fault
  /\ session' = [session EXCEPT ![i] = "lost"]
  /\ rowlock' = Unlocked(i)
  /\ UNCHANGED <<drainVars, committed, published, brokerVars>>

(* The process of i dies and starts again. *)
Crash(i) ==
  /\ Fault
  /\ pc' = [pc EXCEPT ![i] = "idle"]
  /\ running' = [running EXCEPT ![i] = FALSE]
  /\ round' = [round EXCEPT ![i] = 0]
  /\ batch' = [batch EXCEPT ![i] = {}]
  /\ waiting' = [waiting EXCEPT ![i] = {}]
  /\ confirmed' = [confirmed EXCEPT ![i] = {}]
  /\ marked' = [marked EXCEPT ![i] = {}]
  /\ full' = [full EXCEPT ![i] = FALSE]
  /\ session' = [session EXCEPT ![i] = "none"]
  /\ rowlock' = Unlocked(i)
  /\ ChannelEnds(i)
  /\ UNCHANGED <<committed, published, sends>>

-----------------------------------------------------------------------------
Drain(i) ==
  \/ Tick(i) \/ Connect(i) \/ Select(i) \/ Publish(i) \/ Settled(i)
  \/ Mark(i) \/ Note(i) \/ Commit(i) \/ Count(i)
  \/ SessionGone(i) \/ Caught(i) \/ Release(i)

Failure(i) ==
  \/ ConnectFails(i) \/ StatementFails(i) \/ CommitUnacknowledged(i)
  \/ Nack(i) \/ Disconnect(i) \/ SessionEnds(i) \/ Crash(i)

Next ==
  \/ \E e \in Events : Insert(e)
  \/ Store
  \/ \E i \in Replicas :
       Drain(i) \/ Confirm(i) \/ Timeout(i) \/ Reconnect(i) \/ Failure(i)

Spec == Init /\ [][Next]_vars

(* The timers keep firing, the broker reads and answers, and the event loop *)
(* runs what is ready.                                                      *)
Fairness ==
  /\ WF_vars(Store)
  /\ \A i \in Replicas :
       /\ WF_vars(Drain(i)) /\ WF_vars(Confirm(i))
       /\ WF_vars(Timeout(i)) /\ WF_vars(Reconnect(i))

FairSpec == Spec /\ Fairness

-----------------------------------------------------------------------------
TypeOK ==
  /\ committed \subseteq Events /\ published \subseteq Events
  /\ rowlock \in [Events -> Replicas \union {NoReplica}]
  /\ pc \in [Replicas -> PCs]
  /\ running \in [Replicas -> BOOLEAN] /\ full \in [Replicas -> BOOLEAN]
  /\ up \in [Replicas -> BOOLEAN]
  /\ round \in [Replicas -> 0..MaxBatches]
  /\ session \in [Replicas -> {"none", "open", "lost"}]
  /\ batch \in [Replicas -> SUBSET Events]
  /\ waiting \in [Replicas -> SUBSET Message]
  /\ confirmed \in [Replicas -> SUBSET Events]
  /\ marked \in [Replicas -> SUBSET Events]
  /\ live \subseteq Message /\ accepted \subseteq Message
  /\ sends \in [Events -> Nat]
  /\ faults \in 0..MaxFaults

(* published_at is only set on rows whose message the broker has stored,    *)
(* whatever fails between the publication and the UPDATE (lines 103-118).   *)
MarkedOnlyIfStored == \A e \in published : \E m \in accepted : m.ev = e

(* Replicas may run the relay at once without publishing the same batch:    *)
(* two open transactions never hold the same row (line 89).                 *)
BatchesDisjoint ==
  \A i, j \in Replicas :
    /\ i # j
    /\ session[i] = "open" /\ pc[i] \in InTransaction
    /\ session[j] = "open" /\ pc[j] \in InTransaction
    => batch[i] \intersect batch[j] = {}

(* At least once, and no more often than things fail: an event is sent a    *)
(* second time only when something went wrong with an earlier one.          *)
DuplicatesNeedFaults == \A e \in Events : sends[e] <= 1 + faults

(* A row is locked only by a replica that is working on it: no error path   *)
(* keeps rows from the other replicas (lines 131-135).                      *)
LocksAreWorkedOn ==
  \A e \in Events :
    rowlock[e] # NoReplica =>
      LET i == rowlock[e] IN
      /\ e \in batch[i]
      /\ session[i] = "open" /\ pc[i] \in InTransaction \union {"caught"}

(* The guard of flushBatch always opens again (line 136). *)
DrainsEnd == \A i \in Replicas : running[i] ~> ~ running[i]

-----------------------------------------------------------------------------
(* The outbox keeps its promise. *)
Promise == INSTANCE AtLeastOnceDelivery WITH
  stored <- {m.ev : m \in accepted}, marked <- published

KeepsPromise == Promise!SafeSpec

(* Once things stop failing, every committed event is published. *)
EventuallyPublished == Promise!Delivered
=============================================================================
