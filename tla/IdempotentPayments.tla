------------------------- MODULE IdempotentPayments -------------------------
(***************************************************************************)
(* What the transfer endpoint promises, without sessions, locks, retries   *)
(* or timeouts: an order is paid in one indivisible step or not at all, an *)
(* Idempotency-Key pays at most once, and an answer never contradicts the  *)
(* ledger.  Transfers.tla is shown to implement this module.               *)
(***************************************************************************)
EXTENDS Integers

CONSTANTS
  Requests,      \* HTTP requests; a client's retry is one more request
  Accounts,      \* account numbers that have a row
  Active,        \* those whose status is ACTIVE
  Opening,       \* opening balance of each account, in cents
  Orders,        \* what a request may ask for
  NoKey,         \* the request carries no Idempotency-Key
  NoOrder,       \* the request has not arrived
  MaxAttempts    \* TX_MAX_ATTEMPTS

VARIABLES
  order,         \* what each request asks for
  balance,       \* committed balances
  txs,           \* committed rows of the transactions table
  answer         \* what each client was told

vars == <<order, balance, txs, answer>>

Pending == 0     \* no answer yet
Reset   == 1     \* the connection broke: the client learns nothing
Refusals == {400, 404, 422, 503}

NoAnswer == [code |-> Pending, paid |-> {}]
Told(c, ts) == [code |-> c, paid |-> ts]

(* t is a payment made on behalf of request r. *)
Covers(t, r) ==
  /\ t.order.src = order[r].src
  /\ t.order.dst = order[r].dst
  /\ t.order.amt = order[r].amt
  /\ \/ t.by = r
     \/ order[r].key # NoKey /\ t.order.key = order[r].key

PaidBy(r) == {t \in txs : t.by = r}

Init ==
  /\ order = [r \in Requests |-> NoOrder]
  /\ balance = Opening
  /\ txs = {}
  /\ answer = [r \in Requests |-> NoAnswer]

(* A request arrives; it may be refused on the spot. *)
Submit(r) ==
  /\ order[r] = NoOrder
  /\ \E o \in Orders : order' = [order EXCEPT ![r] = o]
  /\ \/ UNCHANGED answer
     \/ answer' = [answer EXCEPT ![r] = Told(400, {})]
  /\ UNCHANGED <<balance, txs>>

(* The money moves, whole, for a key that has not paid yet. *)
Pay(r) ==
  LET o == order[r] IN
  /\ o # NoOrder
  /\ answer[r] = NoAnswer
  /\ o.src \in Active /\ o.dst \in Active /\ o.src # o.dst
  /\ balance[o.src] >= o.amt
  /\ PaidBy(r) = {}
  /\ o.key = NoKey \/ \A t \in txs : t.order.key # o.key
  /\ balance' = [balance EXCEPT ![o.src] = @ - o.amt, ![o.dst] = @ + o.amt]
  /\ \E n \in 1..MaxAttempts : txs' = txs \union {[by |-> r, n |-> n, order |-> o]}
  /\ UNCHANGED <<order, answer>>

(* 201 names a payment that covers the order; a refusal means that this     *)
(* request moved nothing; only 500 leaves the client in doubt.              *)
Reply(r) ==
  /\ order[r] # NoOrder
  /\ answer[r] = NoAnswer
  /\ \/ \E t \in txs : Covers(t, r) /\ answer' = [answer EXCEPT ![r] = Told(201, {t})]
     \/ \E c \in Refusals : PaidBy(r) = {} /\ answer' = [answer EXCEPT ![r] = Told(c, {})]
     \/ answer' = [answer EXCEPT ![r] = Told(500, {})]
  /\ UNCHANGED <<order, balance, txs>>

(* The server goes away: every request in progress loses its connection. *)
Lose ==
  /\ \E S \in SUBSET {r \in Requests : order[r] # NoOrder /\ answer[r] = NoAnswer} :
       answer' = [r \in Requests |-> IF r \in S THEN Told(Reset, {}) ELSE answer[r]]
  /\ UNCHANGED <<order, balance, txs>>

Next == Lose \/ \E r \in Requests : Submit(r) \/ Pay(r) \/ Reply(r)

Spec == Init /\ [][Next]_vars
=============================================================================
