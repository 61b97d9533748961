----------------------------- MODULE Simulation -----------------------------
(***************************************************************************)
(* SimulationService.runQuincenaSpike on one replica, composed with the    *)
(* table of accounts that the other replicas and clients may still be      *)
(* filling (AccountsSeed), and with the transfer endpoint's promise        *)
(* (IdempotentPayments).                                                   *)
(***************************************************************************)
EXTENDS AccountsSeed, Functions

CONSTANTS
  Total,         \* totalRequests
  WorkerCount,   \* concurrentWorkers, at most Total
  Opening,       \* balance an account is created with
  NoKey, NoOrder, NoReplica

ASSUME SimulationAssumption ==
  /\ Total \in Nat \ {0} /\ WorkerCount \in 1..Total
  /\ Numbers \subseteq Nat /\ Opening \in [Numbers -> Nat]
  /\ NoReplica \notin Replicas

VARIABLES
  order, balance, txs, answer,   \* those of IdempotentPayments
  spike,         \* where the simulation is
  host,          \* the replica that runs it
  listed,        \* numbers of the accounts that findAll returned
  before, after, \* totalMoneyBefore, totalMoneyAfter
  next,          \* index of the next task; the code counts from 0
  task,          \* what each worker awaits, 0 for nothing
  successful, failed

payVars == <<order, balance, txs, answer>>
runVars == <<spike, host, listed, before, after, next, task, successful, failed>>
vars    == <<tableVars, payVars, runVars>>

Tasks   == 1..Total
Workers == 1..WorkerCount

(* Task i pays from the (i mod n)-th listed account to the one after it;    *)
(* findAll lists them by their number.                                      *)
Rank(n, S) == Cardinality({m \in S : m < n})
At(k, S) == CHOOSE n \in S : Rank(n, S) = k % Cardinality(S)
TaskOrder(i, s, d) ==
  [src |-> s, dst |-> d, amt |-> 10 + ((i - 1) % 20), key |-> NoKey, ai |-> FALSE]
TaskOn(i, S) == TaskOrder(i, At(i - 1, S), At(i, S))
TaskOrders == {TaskOrder(i, s, d) : i \in Tasks, s \in Numbers, d \in Numbers}

Payments == INSTANCE IdempotentPayments WITH
  Requests <- Tasks, Accounts <- Numbers, Active <- Numbers,
  Orders <- TaskOrders, MaxAttempts <- 1

InFlight == {i \in Tasks : \E w \in Workers : task[w] = i}

(* totalMoney: one SELECT SUM(balance) *)
TotalMoney == SumFunction([x \in rows |-> balance[x.num]])

-----------------------------------------------------------------------------
Init ==
  /\ TableInit /\ Payments!Init
  /\ spike = "off" /\ host = NoReplica /\ listed = {}
  /\ before = 0 /\ after = 0 /\ next = 1
  /\ task = [w \in Workers |-> 0]
  /\ successful = 0 /\ failed = 0

(* POST /api/v1/simulation/quincena-spike, up to findAll *)
ListAccounts(r) ==
  /\ spike = "off" /\ boot[r] = "ready"
  /\ spike' = "listed" /\ host' = r /\ listed' = Taken
  /\ UNCHANGED <<tableVars, payVars, before, after, next, task, successful, failed>>

(* The first totalMoney.  With fewer than two accounts that is all;         *)
(* otherwise every worker runs up to the first await of its first transfer. *)
SumBefore ==
  /\ spike = "listed"
  /\ before' = TotalMoney
  /\ IF Cardinality(listed) < 2
     THEN spike' = "refused" /\ UNCHANGED <<order, next, task>>
     ELSE /\ spike' = "running"
          /\ task' = [w \in Workers |-> w]
          /\ next' = WorkerCount + 1
          /\ order' = [i \in DOMAIN order |-> IF i \in Workers THEN TaskOn(i, listed) ELSE order[i]]
  /\ UNCHANGED <<tableVars, balance, txs, answer, host, listed, after, successful, failed>>

(* tasks[next++]() while there are any *)
TakeNext(w) ==
  IF next <= Total
  THEN /\ task' = [task EXCEPT ![w] = next]
       /\ next' = next + 1
       /\ order' = [order EXCEPT ![next] = TaskOn(next, listed)]
  ELSE task' = [task EXCEPT ![w] = 0] /\ UNCHANGED <<next, order>>

Ended(w) == spike = "running" /\ task[w] # 0 /\ answer[task[w]] # Payments!NoAnswer

(* Variants: nothing catches the error of a transfer, which rejects         *)
(* Promise.all and answers 500; a success is counted before the transfer is *)
(* awaited.                                                                 *)
SettleUncaught(w) ==
  /\ Ended(w)
  /\ IF answer[task[w]].code = 201
     THEN successful' = successful + 1 /\ TakeNext(w) /\ UNCHANGED spike
     ELSE spike' = "lost" /\ UNCHANGED <<successful, next, task, order>>
  /\ UNCHANGED <<tableVars, balance, txs, answer, host, listed, before, after, failed>>
SettleCountedEarly(w) ==
  /\ Ended(w)
  /\ successful' = successful + 1
  /\ failed' = IF answer[task[w]].code = 201 THEN failed ELSE failed + 1
  /\ TakeNext(w)
  /\ UNCHANGED <<tableVars, balance, txs, answer, spike, host, listed, before, after>>

(* The await of a transfer ends, or its catch takes the error, and the      *)
(* worker goes on to its next one.                                          *)
Settle(w) ==
  /\ Ended(w)
  /\ IF answer[task[w]].code = 201
     THEN successful' = successful + 1 /\ UNCHANGED failed
     ELSE failed' = failed + 1 /\ UNCHANGED successful
  /\ TakeNext(w)
  /\ UNCHANGED <<tableVars, balance, txs, answer, spike, host, listed, before, after>>

(* Promise.all, the second totalMoney and the report *)
SumAfter ==
  /\ spike = "running" /\ next > Total /\ InFlight = {}
  /\ after' = TotalMoney
  /\ spike' = "reported"
  /\ UNCHANGED <<tableVars, payVars, host, listed, before, next, task, successful, failed>>

(* A query of the simulation fails: 500, and no report. *)
QueryFails ==
  /\ spike = "listed" \/ (spike = "running" /\ next > Total /\ InFlight = {})
  /\ spike' = "lost"
  /\ UNCHANGED <<tableVars, payVars, host, listed, before, after, next, task, successful, failed>>

(* Its replica dies: the simulation is gone, its transfers are cut off. *)
Dies(r) ==
  /\ Crash(r)
  /\ IF host = r /\ spike \in {"listed", "running"}
     THEN /\ spike' = "lost"
          /\ answer' = [i \in DOMAIN answer |->
               IF i \in InFlight /\ answer[i] = Payments!NoAnswer
               THEN Payments!Told(Payments!Reset, {}) ELSE answer[i]]
     ELSE UNCHANGED <<spike, answer>>
  /\ UNCHANGED <<order, balance, txs, host, listed, before, after, next, task, successful, failed>>

(* The endpoint pays or answers, by its promise.  To the simulation every   *)
(* refusal is an error like another: 500, which may have paid, stands for   *)
(* them all.                                                                *)
Pay(i)   == Payments!Pay(i) /\ UNCHANGED <<tableVars, runVars>>
Reply(i) ==
  /\ Payments!Reply(i)
  /\ answer'[i].code \in {201, 500}
  /\ UNCHANGED <<tableVars, runVars>>

Next ==
  \/ TableStep /\ UNCHANGED <<payVars, runVars>>
  \/ \E r \in Replicas : Dies(r) \/ ListAccounts(r)
  \/ SumBefore \/ SumAfter \/ QueryFails
  \/ \E w \in Workers : Settle(w)
  \/ \E i \in Tasks : Pay(i) \/ Reply(i)

Spec == Init /\ [][Next]_vars

(* Replicas start, the job and the workers go on, transfers are answered    *)
(* (EveryRequestAnswered); nobody has to ask for anything.                  *)
FairSpec ==
  /\ Spec
  /\ \A r \in Replicas : WF_vars(Start(r) /\ UNCHANGED <<payVars, runVars>>)
  /\ WF_vars(SumBefore) /\ WF_vars(SumAfter)
  /\ \A w \in Workers : WF_vars(Settle(w))
  /\ \A i \in Tasks : WF_vars(Reply(i))

-----------------------------------------------------------------------------
(* Properties *)

RunTypeOK ==
  /\ spike \in {"off", "listed", "refused", "running", "reported", "lost"}
  /\ host \in Replicas \union {NoReplica}
  /\ listed \subseteq Numbers
  /\ next \in 1..Total + 1
  /\ task \in [Workers -> 0..Total]
  /\ successful \in 0..Total /\ failed \in 0..Total

TypeOK == TableTypeOK /\ RunTypeOK

(* The report speaks of every transfer once, although the workers share one *)
(* index: those it counts and those in flight are those that were taken,    *)
(* and each success has its own payment (simulation.service.ts:77-96).      *)
ReportAddsUp ==
  /\ successful + failed + Cardinality(InFlight) = next - 1
  /\ \A v, w \in Workers : task[v] = task[w] /\ v # w => task[v] = 0
  /\ spike = "reported" =>
       /\ successful + failed = Total
       /\ successful =< Cardinality(txs)

(* moneyConserved is false only when an account was created after the list  *)
(* was read: no transfer raises the alarm, whatever became of it (the       *)
(* comment of simulation.service.ts:124).                                   *)
AlarmHasCause ==
  spike = "reported" /\ before # after => Taken # listed

(* No failure of a transfer costs the report, whatever it was and whichever *)
(* worker awaited it (the catch of simulation.service.ts:80): a report is   *)
(* lost with its replica, or before a transfer was taken or after every one *)
(* of them was counted, where it is a query of the simulation that fails.   *)
LostForAReason ==
  [][spike' = "lost" /\ spike # "lost" =>
       \/ boot'[host] = "starting"
       \/ next = 1
       \/ successful + failed = Total]_vars

(* Whoever starts a simulation gets a report, a refusal or, for one of      *)
(* those reasons alone, an error.                                           *)
Finishes ==
  /\ LostForAReason
  /\ spike = "listed" ~> spike \in {"refused", "reported", "lost"}

(* Once the schema is in place every replica starts, and starts again after *)
(* each death: the loser of a seeding race finds the winner's rows.         *)
EveryReplicaStarts == []<>(job = "done" => \A r \in Replicas : boot[r] = "ready")
=============================================================================
