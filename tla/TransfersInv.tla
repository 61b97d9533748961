---------------------------- MODULE TransfersInv ----------------------------
(* The inductive invariant behind the safety properties of Transfers: what  *)
(* a request holds and has written at each label, and what the ledger knows *)
(* of it.  Model-checked with the properties and proved in TransfersProofs. *)
EXTENDS Transfers

(* Labels at which both rows are locked. *)
Locked == {"validate", "debit", "credit", "insert", "outbox", "commit"}

Rows(r) == {order[r].src, order[r].dst} \intersect Accounts

(* A request that has arrived has a legal order between two accounts until  *)
(* it ends; one that has not has no answer.                                 *)
OrdersKnown ==
  \A r \in Requests :
    /\ pc[r] = "idle" <=> order[r] = NoOrder
    /\ pc[r] \notin {"idle", "done"} => order[r].src # order[r].dst
    /\ pc[r] # "done" => answer[r] = NoAnswer

(* Locks are taken in order, on the rows of the order only, and both are    *)
(* held from the checks to the commit.                                      *)
LocksHeld ==
  \A r \in Requests :
    /\ \A a \in Accounts : lock[a] = r => a \in Rows(r)
    /\ pc[r] \in {"lock1", "committed"} => \A a \in Accounts : lock[a] # r
    /\ pc[r] = "lock2" => \A a \in Accounts : lock[a] = r <=> a = LockOrder(order[r])[1]
    /\ pc[r] \in Locked => \A a \in Rows(r) : lock[a] = r

(* What the open transaction has written is a function of the label.        *)
StagesDone ==
  \A r \in Requests :
    /\ pc[r] \in {"lock1", "lock2", "validate", "debit", "committed"} => wrote[r] = {}
    /\ pc[r] = "credit" => wrote[r] = {"debit"}
    /\ pc[r] = "insert" => wrote[r] = {"debit", "credit"}
    /\ pc[r] = "outbox" => wrote[r] = {"debit", "credit", "tx"}
    /\ pc[r] = "commit" => wrote[r] = Stages

(* From the debit on the accounts are active, and after it they are funded. *)
Funded ==
  \A r \in Requests :
    /\ pc[r] \in {"debit", "credit", "insert", "outbox", "commit"} =>
         {order[r].src, order[r].dst} \subseteq Active
    /\ pc[r] \in {"credit", "insert", "outbox", "commit"} => balance[order[r].src] >= order[r].amt

(* A session that has inserted a key is alone with it: no committed row and *)
(* no other session has it.                                                 *)
KeyReserved ==
  \A r \in Requests :
    "tx" \in wrote[r] /\ order[r].key # NoKey =>
      /\ Processed(order[r].key) = {}
      /\ \A q \in Requests \ {r} : "tx" \in wrote[q] => order[q].key # order[r].key

(* Once its payment is committed a request only leaves: it is finishing, or *)
(* its connection was lost and it is on its way to a 500.                   *)
PaidIsOver ==
  /\ \A t \in txs :
       /\ pc[t.by] \in {"committed", "done", "rollback", "caught"}
       /\ pc[t.by] \in {"rollback", "caught"} => error[t.by] = "CONN"
       /\ t.order = order[t.by]
       /\ t.order.src # t.order.dst
  /\ \A r \in Requests : pc[r] = "committed" => TxOf(r) \in txs

(* A 23505 is reported only for a key that has been committed.              *)
LoserHasWinner ==
  \A r \in Requests :
    \/ pc[r] = "winner"
    \/ pc[r] \in {"rollback", "caught"} /\ error[r] = "23505"
    => Processed(order[r].key) # {}

(* The safety properties of the ledger and everything they rest on.         *)
IInv ==
  /\ TypeOK
  /\ NothingLeaks /\ OrdersKnown /\ LocksHeld /\ StagesDone /\ Funded
  /\ KeyReserved /\ AtMostOncePerKey /\ PaidIsOver /\ PaidOnce
  /\ LoserHasWinner /\ NoOverdraft /\ OutboxMatchesLedger /\ AnswersAreTrue

-----------------------------------------------------------------------------
(* How many labels lie between a label and the end of the request, the way  *)
(* through rollback, catch and the lookup of the winner included.           *)
Distance(label) ==
  IF label = "done" THEN 0 ELSE IF label = "winner" THEN 1 ELSE
  IF label = "caught" THEN 2 ELSE IF label = "rollback" THEN 3 ELSE
  IF label = "committed" THEN 4 ELSE IF label = "commit" THEN 5 ELSE
  IF label = "outbox" THEN 6 ELSE IF label = "insert" THEN 7 ELSE
  IF label = "credit" THEN 8 ELSE IF label = "debit" THEN 9 ELSE
  IF label = "validate" THEN 10 ELSE IF label = "lock2" THEN 11 ELSE
  IF label = "lock1" THEN 12 ELSE IF label = "connect" THEN 13 ELSE
  IF label = "lookup" THEN 14 ELSE 15

(* The steps request r can still take: what is left of this attempt, and    *)
(* all of each attempt it has not begun.                                    *)
StepsLeft(r) == 16 * (MaxAttempts - attempt[r]) + Distance(pc[r])

(* Nothing that happens, failures, retries and crashes included, gives a    *)
(* request more to do, and every step uses up a step of some request: the   *)
(* service cannot be busy for ever (lines 102-150).                         *)
AlwaysNearer ==
  [][ /\ \A r \in Requests : StepsLeft(r)' <= StepsLeft(r)
      /\ \E r \in Requests : StepsLeft(r)' < StepsLeft(r) ]_vars

(* While requests are in flight one of them can go on without a timeout: a  *)
(* session never asks for a second connection, and the rows and keys it may *)
(* wait for are those of sessions that do not wait for it.                  *)
SomeoneMoves ==
  InFlight # {} =>
    \E r \in InFlight :
      BlockedBy(r) = {} /\ (pc[r] \in Waits => FreeConnection)
=============================================================================
