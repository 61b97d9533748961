--------------------------- MODULE OutboxRelayInv ---------------------------
(* The inductive invariant behind the safety properties of OutboxRelay.     *)
(* Model-checked with the properties and proved in OutboxRelayProofs.       *)
EXTENDS OutboxRelay

Stored == {m.ev : m \in accepted}

(* Rows are only worked on, published or stored once they are committed.    *)
RowsKnown ==
  /\ published \subseteq committed
  /\ \A i \in Replicas : batch[i] \subseteq committed
  /\ \A m \in live \union accepted : m.ev \in committed

(* The relay counts as confirmed, and marks, rows of its batch that the     *)
(* broker has stored.                                                       *)
ConfirmedAreStored ==
  \A i \in Replicas :
    /\ confirmed[i] \subseteq batch[i] \intersect Stored
    /\ marked[i] \subseteq batch[i] \intersect Stored

(* A promise is pending only while the relay awaits it, and belongs to a    *)
(* row of the batch; a new batch starts from nothing.                       *)
PromisesKnown ==
  \A i \in Replicas :
    /\ \A m \in waiting[i] : m.by = i /\ m.ev \in batch[i]
    /\ pc[i] # "await" => waiting[i] = {}
    /\ pc[i] \in {"idle", "connect", "select", "publish"} => confirmed[i] = {} /\ marked[i] = {}
    /\ pc[i] = "publish" => session[i] # "none"

(* While its session lives, a transaction holds the lock of every row of    *)
(* its batch, and none of them is published.                                *)
BatchLocked ==
  \A i \in Replicas :
    session[i] = "open" /\ pc[i] \in InTransaction =>
      \A e \in batch[i] : rowlock[e] = i /\ e \notin published

(* Replicas that lost their session before they published e: each will send *)
(* it although another replica may, too.                                    *)
Late(e) == {i \in Replicas : session[i] = "lost" /\ pc[i] = "publish" /\ e \in batch[i]}

(* The last message of e is going well: its lock is held, and the row is    *)
(* waiting for its confirm, confirmed, or marked.                           *)
OnTrack(e) ==
  \E i \in Replicas :
    /\ rowlock[e] = i
    /\ \/ /\ pc[i] = "await"
          /\ e \in confirmed[i] \/ \E m \in waiting[i] \intersect live : m.ev = e
       \/ pc[i] = "mark" /\ e \in confirmed[i]
       \/ pc[i] \in {"note", "commit"} /\ e \in marked[i]

(* Every message of e but the one that is going well, and every one that    *)
(* is sent too late, is paid for by a failure.                              *)
Budget(e) ==
  LET spent == sends[e] + Cardinality(Late(e)) IN
  \/ spent <= faults
  \/ spent <= faults + 1 /\ (e \in published \/ OnTrack(e))

IInv ==
  /\ TypeOK
  /\ RowsKnown /\ ConfirmedAreStored /\ PromisesKnown
  /\ BatchLocked /\ LocksAreWorkedOn /\ MarkedOnlyIfStored
  /\ \A e \in Events : Budget(e)

-----------------------------------------------------------------------------
(* How many labels lie between a label and the end of a batch, the way      *)
(* through the catch block included.                                        *)
Distance(label) ==
  IF label = "release" THEN 1 ELSE IF label = "caught" THEN 2 ELSE
  IF label = "count" THEN 3 ELSE IF label = "commit" THEN 4 ELSE
  IF label = "note" THEN 5 ELSE IF label = "mark" THEN 6 ELSE
  IF label = "await" THEN 7 ELSE IF label = "publish" THEN 8 ELSE
  IF label = "select" THEN 9 ELSE 10

(* The statements a drain can still come to: the rest of this batch and all *)
(* of those that MAX_BATCHES_PER_TICK still allows.                         *)
StepsLeft(i) ==
  IF pc[i] = "idle" THEN 0 ELSE 11 * (MaxBatches - round[i]) + Distance(pc[i])

(* A drain that has begun only comes nearer to its end, whatever fails in   *)
(* it and whatever the other replicas do; while it awaits the confirms, the *)
(* pending ones only get fewer.                                             *)
DrainsRunOut ==
  [][\A i \in Replicas : pc[i] # "idle" =>
       \/ StepsLeft(i)' < StepsLeft(i)
       \/ StepsLeft(i)' = StepsLeft(i) /\ waiting'[i] \subseteq waiting[i]]_vars

(* The flag of line 75 is set exactly while a drain is under way, and every *)
(* statement of a drain has a session, alive or lost, to succeed or fail on:*)
(* no error path leaves the flag set and nobody to clear it.                *)
FlagHasDrain ==
  \A i \in Replicas :
    /\ running[i] <=> pc[i] # "idle"
    /\ pc[i] \in {"select", "count"} \union InTransaction => session[i] # "none"
=============================================================================
