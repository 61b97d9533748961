---------------------------- MODULE SimulationInv ---------------------------
(* The inductive invariants of AccountsSeed and Simulation. *)
EXTENDS Simulation

(* The unique index on account_number *)
UniqueRows == \A x, y \in rows : x.num = y.num => x = y

(* Nothing is deployed before the job has ended. *)
NothingBeforeJob ==
  job # "done" => rows = {} /\ \A r \in Replicas : boot[r] = "starting"

(* Whoever is served found accounts, or was served by someone who saved one. *)
ServedAfterRows ==
  (\E r \in Replicas : boot[r] = "ready") \/ (\E p \in Clients : post[p] # Unasked) => rows # {}

(* A replica that seeds has saved exactly the rows before its next one. *)
SeederSaved ==
  \A r \in Replicas : boot[r] = "seeding" =>
    row[r] \in Seeds /\ \A n \in Seeds : NewRow(n, r) \in rows <=> n < row[r]

(* A replica saves its rows in order; the job saves all of them. *)
SavedInOrder ==
  \A x \in rows :
    /\ x.by \in Replicas => \A n \in 1..x.num - 1 : NewRow(n, x.by) \in rows
    /\ x.by \in Replicas => x.num \in Seeds
    /\ x.by = Job => Seeds \subseteq Taken

(* The row of a client is the one it asked for, and comes before its answer. *)
ClientRows ==
  /\ \A x \in rows : x.by \in Clients => x.num = Wanted[x.by] /\ post[x.by] \in {Inserted, 201, 500, Reset}
  /\ \A p \in Clients : post[p] \in {Inserted, 201} => NewRow(Wanted[p], p) \in rows

TableInv ==
  /\ TableTypeOK
  /\ UniqueRows /\ NothingBeforeJob /\ ServedAfterRows
  /\ SeederSaved /\ SavedInOrder /\ ClientRows
  /\ SeedWhole /\ CreatedOnce

-----------------------------------------------------------------------------
(* The tasks that ended with a 201 *)
Rewarded == {i \in (1..next - 1) \ InFlight : answer[i].code = 201}

PaymentTypes ==
  /\ order = [i \in Tasks |-> order[i]]
  /\ answer \in [Tasks -> [code : Nat, paid : SUBSET txs]]
  /\ IsFiniteSet(txs)

(* Every 201 has its own payment: no task carries a key. *)
SuccessPaid ==
  \A i \in Tasks :
    /\ order[i] # NoOrder => order[i].key = NoKey
    /\ answer[i].code = 201 => \E t \in txs : t.by = i

(* Only what was taken is asked for, and a worker leaves no task unanswered. *)
TakenOnly ==
  /\ \A i \in Tasks : i >= next => order[i] = NoOrder /\ answer[i] = Payments!NoAnswer
  /\ \A i \in Tasks : i < next /\ answer[i] = Payments!NoAnswer => i \in InFlight
  /\ \A w \in Workers : task[w] < next
  /\ spike \in {"off", "listed", "refused"} => next = 1

Counted ==
  /\ \A v, w \in Workers : task[v] = task[w] /\ v # w => task[v] = 0
  /\ successful + failed + Cardinality(InFlight) = next - 1
  /\ successful = Cardinality(Rewarded)
  /\ spike = "reported" => next > Total /\ InFlight = {}

RunInv == RunTypeOK /\ PaymentTypes /\ SuccessPaid /\ TakenOnly /\ Counted

IInv == TableInv /\ RunInv

-----------------------------------------------------------------------------
(* A task pays between two accounts of the list. *)
TasksStayListed ==
  \A i \in Tasks : order[i] # NoOrder =>
    /\ order[i].src \in listed /\ order[i].dst \in listed /\ order[i].src # order[i].dst
    /\ order[i].amt \in Nat

(* As long as the list is the whole table, its money is what it was.        *)
MoneyKept ==
  /\ IsFiniteSet(rows) /\ listed \subseteq Taken
  /\ balance \in [Numbers -> Int]
  /\ spike = "running" => Cardinality(listed) >= 2
  /\ spike = "running" /\ Taken = listed => before = TotalMoney
  /\ spike = "reported" /\ Taken = listed => before = after

MoneyInv == TasksStayListed /\ MoneyKept
=============================================================================
