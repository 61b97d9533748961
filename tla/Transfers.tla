----------------------------- MODULE Transfers ------------------------------
(***************************************************************************)
(* TransactionsService.processTransaction and executeTransfer: concurrent  *)
(* POST /api/v1/transactions requests, each a process that takes one       *)
(* session of the pool, locks two account rows in order, moves the money,  *)
(* records the transaction and its outbox events, and commits.  PostgreSQL *)
(* (row locks, the unique idempotency key, aborts) is modelled as the code *)
(* uses it.  Amounts are cents.                                            *)
(***************************************************************************)
EXTENDS Integers, FiniteSets, FiniteSetsExt

CONSTANTS
  Requests,      \* HTTP requests; a client's retry is one more request
  Accounts,      \* account numbers that have a row in accounts
  Active,        \* those whose status is ACTIVE
  Currencies, CurrencyOf,
  Opening,       \* opening balance of each account
  Keys,          \* Idempotency-Key values
  Orders,        \* what a request may ask for
  NoKey, NoCurrency, NoOrder, NoRequest,
  PoolMax,       \* connections of the pool
  MaxAttempts,   \* TX_MAX_ATTEMPTS
  Faults,        \* what the database may do to a statement
  MaxCrashes     \* bound on crashes of the API process

(* An order as validation lets it through; cur is NoCurrency when the body  *)
(* has none, ai is the emitAiEvent option.                                  *)
OrderType == [src : Nat, dst : Nat, amt : Nat \ {0},
              cur : Currencies \union {NoCurrency},
              key : Keys \union {NoKey}, ai : BOOLEAN]

AllFaults == {"40P01", "40001", "57014", "CONN"}

ASSUME TransfersAssumption ==
  /\ Accounts \subseteq Nat /\ Active \subseteq Accounts
  /\ CurrencyOf \in [Accounts -> Currencies]
  /\ Opening \in [Accounts -> Nat]
  /\ Orders \subseteq OrderType
  /\ NoKey \notin Keys /\ NoOrder \notin Orders /\ NoRequest \notin Requests
  /\ PoolMax \in Nat \ {0} /\ MaxAttempts \in Nat \ {0}
  /\ Faults \subseteq AllFaults /\ MaxCrashes \in Nat

VARIABLES
  pc,            \* where each request is
  order,         \* what it asks for
  attempt,       \* loop counter of processTransaction
  error,         \* the error its catch block is handling
  wrote,         \* statements of its open database transaction
  conn,          \* requests that hold a pool connection
  lock,          \* FOR UPDATE holder of each account row
  balance,       \* committed balances
  txs,           \* committed rows of transactions
  outbox,        \* committed rows of outbox_events
  answer,        \* what each client was told
  crashes        \* crashes so far

dbVars == <<balance, txs, outbox>>
vars == <<pc, order, attempt, error, wrote, conn, lock, balance, txs, outbox, answer, crashes>>

Pending == 0
Reset   == 1     \* connection reset: the client learns nothing
Codes   == {Pending, Reset, 201, 400, 404, 422, 500, 503}
NoError == "none"
Errors  == AllFaults \union {NoError, "400", "404", "422", "23505", "55P03", "POOL_TIMEOUT"}

Waits      == {"lookup", "connect", "winner"}         \* needs a connection, holds none
Statements == {"lock1", "lock2", "debit", "credit", "insert", "outbox", "commit"}
InSession  == Statements \union {"validate", "committed", "rollback"}
PCs        == Waits \union InSession \union {"idle", "caught", "done"}

Tx     == [by : Requests, n : 1..MaxAttempts, order : Orders]
Event  == [tx : Tx, type : {"transaction.created", "bancs.sync"}]
Stages == {"debit", "credit", "tx", "outbox"}

TxOf(r) == [by |-> r, n |-> attempt[r], order |-> order[r]]
Told(c, ts) == [code |-> c, paid |-> ts]
NoAnswer == Told(Pending, {})

-----------------------------------------------------------------------------
(* Helpers of the service *)

(* Variant: the rows are locked in the order of the request. *)
UnsortedLockOrder(o) == <<o.src, o.dst>>

(* [source, target].sort() *)
LockOrder(o) == IF o.src < o.dst THEN <<o.src, o.dst>> ELSE <<o.dst, o.src>>

(* Variant: assertSameRequest is not called. *)
AnyRequest(t, o) == TRUE

(* assertSameRequest *)
SameRequest(t, o) == t.order.src = o.src /\ t.order.dst = o.dst /\ t.order.amt = o.amt

(* findOne({ where: { idempotencyKey } }) on committed rows *)
Processed(key) == {t \in txs : key # NoKey /\ t.order.key = key}

(* Variant: without AI nothing is written at all. *)
EventsUnlessSynthetic(t) ==
  {[tx |-> t, type |-> e] : e \in IF t.order.ai THEN {"bancs.sync", "transaction.created"} ELSE {}}

(* buildOutboxEvents *)
EventsOf(t) ==
  {[tx |-> t, type |-> "bancs.sync"]}
    \union (IF t.order.ai THEN {[tx |-> t, type |-> "transaction.created"]} ELSE {})

(* Checks between the locks and the debit: the HTTP error, or NoError. *)
Rejection(o) ==
  LET cur == IF o.cur = NoCurrency THEN CurrencyOf[o.src] ELSE o.cur IN
  IF ~ {o.src, o.dst} \subseteq Accounts THEN "404"
  ELSE IF ~ {o.src, o.dst} \subseteq Active THEN "400"
  ELSE IF CurrencyOf[o.src] # CurrencyOf[o.dst] \/ cur # CurrencyOf[o.src] THEN "400"
  ELSE NoError

(* Variant: a lost connection is retried too. *)
RetryableOrLost == {"40P01", "40001", "CONN"}

Retryable == {"40P01", "40001"}

(* HTTP status of an error that processTransaction gives up on. *)
StatusOf(e) ==
  CASE e = "400" -> 400
    [] e = "404" -> 404
    [] e = "422" -> 422
    [] e \in Retryable \union {"55P03", "57014", "POOL_TIMEOUT"} -> 503
    [] OTHER -> 500

-----------------------------------------------------------------------------
(* PostgreSQL and the pool, as the code uses them *)

FreeConnection == Cardinality(conn) < PoolMax

(* The account whose row lock r is asking for. *)
WantedRow(r) == IF pc[r] = "lock1" THEN {LockOrder(order[r])[1]}
                ELSE IF pc[r] = "lock2" THEN {LockOrder(order[r])[2]} ELSE {}

(* Sessions r has to wait for: the holder of the row, or the session that   *)
(* has inserted the same key and not yet ended.                             *)
BlockedBy(r) ==
  {q \in Requests \ {r} :
     \/ \E a \in WantedRow(r) \intersect Accounts : lock[a] = q
     \/ /\ pc[r] = "insert" /\ order[r].key # NoKey
        /\ "tx" \in wrote[q] /\ order[q].key = order[r].key}

Unlocked(r) == [a \in Accounts |-> IF lock[a] = r THEN NoRequest ELSE lock[a]]

(* Variant: the first locked account is taken for the source. *)
ApplyToLockedRows(r) ==
  LET o == order[r] IN
  /\ balance' = [balance EXCEPT ![LockOrder(o)[1]] = @ - o.amt, ![LockOrder(o)[2]] = @ + o.amt]
  /\ txs' = txs \union {TxOf(r)}
  /\ outbox' = outbox \union EventsOf(TxOf(r))

(* COMMIT makes every statement of the session visible at once. *)
ApplyWrites(r) ==
  LET o == order[r] IN
  /\ balance' = [a \in Accounts |->
       balance[a] - (IF "debit" \in wrote[r] /\ a = o.src THEN o.amt ELSE 0)
                  + (IF "credit" \in wrote[r] /\ a = o.dst THEN o.amt ELSE 0)]
  /\ txs' = txs \union (IF "tx" \in wrote[r] THEN {TxOf(r)} ELSE {})
  /\ outbox' = outbox \union (IF "outbox" \in wrote[r] THEN EventsOf(TxOf(r)) ELSE {})

Goto(r, label) == pc' = [pc EXCEPT ![r] = label]

Raise(r, e, label) == error' = [error EXCEPT ![r] = e] /\ Goto(r, label)

Answer(r, c, ts) == answer' = [answer EXCEPT ![r] = Told(c, ts)] /\ Goto(r, "done")

(* One SQL statement of the open transaction. *)
Write(r, stage, label) ==
  /\ wrote' = [wrote EXCEPT ![r] = @ \union {stage}]
  /\ Goto(r, label)
  /\ UNCHANGED error

-----------------------------------------------------------------------------
Init ==
  /\ pc = [r \in Requests |-> "idle"]
  /\ order = [r \in Requests |-> NoOrder]
  /\ attempt = [r \in Requests |-> 1]
  /\ error = [r \in Requests |-> NoError]
  /\ wrote = [r \in Requests |-> {}]
  /\ conn = {}
  /\ lock = [a \in Accounts |-> NoRequest]
  /\ balance = Opening
  /\ txs = {}
  /\ outbox = {}
  /\ answer = [r \in Requests |-> NoAnswer]
  /\ crashes = 0

(* The request arrives; equal accounts are refused before the loop. *)
Receive(r) ==
  /\ pc[r] = "idle"
  /\ \E o \in Orders :
       /\ order' = [order EXCEPT ![r] = o]
       /\ IF o.src = o.dst THEN Answer(r, 400, {})
          ELSE /\ Goto(r, IF o.key # NoKey THEN "lookup" ELSE "connect")
               /\ UNCHANGED answer
  /\ UNCHANGED <<attempt, error, wrote, conn, lock, dbVars, crashes>>

(* First attempt with a key: an earlier payment is replayed, or is another  *)
(* request under the same key (422).  The connection is taken and returned  *)
(* within the query.                                                        *)
Lookup(r) ==
  /\ pc[r] = "lookup" /\ FreeConnection
  /\ IF Processed(order[r].key) = {} THEN Goto(r, "connect") /\ UNCHANGED <<error, answer>>
     ELSE \E t \in Processed(order[r].key) :
            IF SameRequest(t, order[r]) THEN Answer(r, 201, {t}) /\ UNCHANGED error
            ELSE Raise(r, "422", "caught") /\ UNCHANGED answer
  /\ UNCHANGED <<order, attempt, wrote, conn, lock, dbVars, crashes>>

(* createQueryRunner, connect, START TRANSACTION, SET LOCAL timeouts *)
Connect(r) ==
  /\ pc[r] = "connect" /\ FreeConnection
  /\ conn' = conn \union {r}
  /\ Goto(r, "lock1")
  /\ UNCHANGED <<order, attempt, error, wrote, lock, dbVars, answer, crashes>>

(* SELECT ... FOR UPDATE of the next account; a missing row locks nothing. *)
LockRow(r) ==
  /\ pc[r] \in {"lock1", "lock2"}
  /\ BlockedBy(r) = {}
  /\ lock' = [a \in Accounts |-> IF a \in WantedRow(r) THEN r ELSE lock[a]]
  /\ Goto(r, IF pc[r] = "lock1" THEN "lock2" ELSE "validate")
  /\ UNCHANGED <<order, attempt, error, wrote, conn, dbVars, answer, crashes>>

Validate(r) ==
  /\ pc[r] = "validate"
  /\ IF Rejection(order[r]) = NoError THEN Goto(r, "debit") /\ UNCHANGED error
     ELSE Raise(r, Rejection(order[r]), "rollback")
  /\ UNCHANGED <<order, attempt, wrote, conn, lock, dbVars, answer, crashes>>

(* UPDATE ... WHERE balance >= amount; no row: insufficient funds *)
Debit(r) ==
  /\ pc[r] = "debit"
  /\ IF balance[order[r].src] >= order[r].amt THEN Write(r, "debit", "credit")
     ELSE Raise(r, "400", "rollback") /\ UNCHANGED wrote
  /\ UNCHANGED <<order, attempt, conn, lock, dbVars, answer, crashes>>

Credit(r) ==
  /\ pc[r] = "credit"
  /\ Write(r, "credit", "insert")
  /\ UNCHANGED <<order, attempt, conn, lock, dbVars, answer, crashes>>

(* Variant: no unique index on idempotency_key. *)
InsertTxUnindexed(r) ==
  /\ pc[r] = "insert"
  /\ Write(r, "tx", "outbox")
  /\ UNCHANGED <<order, attempt, conn, lock, dbVars, answer, crashes>>

(* INSERT INTO transactions under the partial unique index on the key *)
InsertTx(r) ==
  /\ pc[r] = "insert" /\ BlockedBy(r) = {}
  /\ IF Processed(order[r].key) = {} THEN Write(r, "tx", "outbox")
     ELSE Raise(r, "23505", "rollback") /\ UNCHANGED wrote
  /\ UNCHANGED <<order, attempt, conn, lock, dbVars, answer, crashes>>

InsertOutbox(r) ==
  /\ pc[r] = "outbox"
  /\ Write(r, "outbox", "commit")
  /\ UNCHANGED <<order, attempt, conn, lock, dbVars, answer, crashes>>

Commit(r) ==
  /\ pc[r] = "commit"
  /\ ApplyWrites(r)
  /\ wrote' = [wrote EXCEPT ![r] = {}]
  /\ lock' = Unlocked(r)
  /\ Goto(r, "committed")
  /\ UNCHANGED <<order, attempt, error, conn, answer, crashes>>

(* The connection dies after the server committed: the code sees an error. *)
CommitUnacknowledged(r) ==
  /\ pc[r] = "commit" /\ "CONN" \in Faults
  /\ ApplyWrites(r)
  /\ wrote' = [wrote EXCEPT ![r] = {}]
  /\ lock' = Unlocked(r)
  /\ Raise(r, "CONN", "rollback")
  /\ UNCHANGED <<order, attempt, conn, answer, crashes>>

(* release() and the 201 *)
Finish(r) ==
  /\ pc[r] = "committed"
  /\ conn' = conn \ {r}
  /\ Answer(r, 201, {TxOf(r)})
  /\ UNCHANGED <<order, attempt, error, wrote, lock, dbVars, crashes>>

(* A statement fails: deadlock or serialization with a session outside this *)
(* code, statement_timeout, lost connection.  COMMIT may fail uncommitted.  *)
StatementFails(r) ==
  /\ pc[r] \in Statements
  /\ \E e \in Faults : Raise(r, e, "rollback")
  /\ UNCHANGED <<order, attempt, wrote, conn, lock, dbVars, answer, crashes>>

(* lock_timeout while waiting for a row or for the key *)
LockTimeout(r) ==
  /\ pc[r] \in {"lock1", "lock2", "insert"} /\ BlockedBy(r) # {}
  /\ Raise(r, "55P03", "rollback")
  /\ UNCHANGED <<order, attempt, wrote, conn, lock, dbVars, answer, crashes>>

(* Variant: the connection is not released after a failure. *)
RollbackOnly(r) ==
  /\ pc[r] = "rollback"
  /\ wrote' = [wrote EXCEPT ![r] = {}]
  /\ lock' = Unlocked(r)
  /\ Goto(r, "caught")
  /\ UNCHANGED <<order, attempt, error, conn, dbVars, answer, crashes>>

(* ROLLBACK (its own failure is swallowed) and release *)
Rollback(r) ==
  /\ pc[r] = "rollback"
  /\ wrote' = [wrote EXCEPT ![r] = {}]
  /\ lock' = Unlocked(r)
  /\ conn' = conn \ {r}
  /\ Goto(r, "caught")
  /\ UNCHANGED <<order, attempt, error, dbVars, answer, crashes>>

(* No connection within connectionTimeoutMillis, or the query of a lookup   *)
(* loses its connection.  In the winner lookup the error leaves the catch   *)
(* block itself, as a bare 500.                                             *)
AcquireFails(r) ==
  /\ pc[r] \in Waits
  /\ \E e \in {"POOL_TIMEOUT", "CONN"} :
       /\ IF e = "CONN" THEN e \in Faults ELSE ~ FreeConnection
       /\ error' = [error EXCEPT ![r] = e]
       /\ IF pc[r] = "winner" THEN Answer(r, 500, {})
          ELSE Goto(r, "caught") /\ UNCHANGED answer
  /\ UNCHANGED <<order, attempt, wrote, conn, lock, dbVars, crashes>>

(* Variant: nothing is thrown once the attempts are used up. *)
GiveUpUnlessRetryable(r) ==
  /\ pc[r] = "caught" /\ error[r] \notin Retryable \union {"23505"}
  /\ Answer(r, StatusOf(error[r]), {})
  /\ UNCHANGED <<order, attempt, error, wrote, conn, lock, dbVars, crashes>>

(* The branches of the catch block, in their order. *)
LosesKeyRace(r) == error[r] = "23505" /\ order[r].key # NoKey
RetriesAgain(r) == error[r] \in Retryable /\ attempt[r] < MaxAttempts

SeekWinner(r) ==
  /\ pc[r] = "caught" /\ LosesKeyRace(r)
  /\ Goto(r, "winner")
  /\ UNCHANGED <<order, attempt, error, wrote, conn, lock, dbVars, answer, crashes>>

Retry(r) ==
  /\ pc[r] = "caught" /\ ~ LosesKeyRace(r) /\ RetriesAgain(r)
  /\ attempt' = [attempt EXCEPT ![r] = @ + 1]
  /\ Goto(r, "connect")
  /\ UNCHANGED <<order, error, wrote, conn, lock, dbVars, answer, crashes>>

GiveUp(r) ==
  /\ pc[r] = "caught" /\ ~ LosesKeyRace(r) /\ ~ RetriesAgain(r)
  /\ Answer(r, StatusOf(error[r]), {})
  /\ UNCHANGED <<order, attempt, error, wrote, conn, lock, dbVars, crashes>>

(* The loser of a key race answers with the winner's transaction. *)
Winner(r) ==
  /\ pc[r] = "winner" /\ FreeConnection
  /\ \/ \E t \in Processed(order[r].key) :
          IF SameRequest(t, order[r]) THEN Answer(r, 201, {t}) ELSE Answer(r, 422, {})
     \/ Processed(order[r].key) = {} /\ Answer(r, 500, {})
  /\ UNCHANGED <<order, attempt, error, wrote, conn, lock, dbVars, crashes>>

InFlight == {r \in Requests : pc[r] \notin {"idle", "done"}}

(* The API process dies: sessions abort, clients see a reset. *)
Crash ==
  /\ crashes < MaxCrashes /\ InFlight # {}
  /\ crashes' = crashes + 1
  /\ pc' = [r \in Requests |-> IF r \in InFlight THEN "done" ELSE pc[r]]
  /\ answer' = [r \in Requests |-> IF r \in InFlight THEN Told(Reset, {}) ELSE answer[r]]
  /\ wrote' = [r \in Requests |-> {}]
  /\ conn' = {}
  /\ lock' = [a \in Accounts |-> NoRequest]
  /\ UNCHANGED <<order, attempt, error, dbVars>>

(* What the event loop, the driver and the database do by themselves. *)
Progress(r) ==
  \/ Lookup(r) \/ Connect(r) \/ LockRow(r) \/ Validate(r) \/ Debit(r) \/ Credit(r)
  \/ InsertTx(r) \/ InsertOutbox(r) \/ Commit(r) \/ Finish(r) \/ Rollback(r)
  \/ SeekWinner(r) \/ Retry(r) \/ GiveUp(r) \/ Winner(r)
  \/ LockTimeout(r) \/ AcquireFails(r)

Next ==
  \/ Crash
  \/ \E r \in Requests :
       Receive(r) \/ Progress(r) \/ StatementFails(r) \/ CommitUnacknowledged(r)

Spec == Init /\ [][Next]_vars

(* Node runs every ready callback and the three timeouts (pool, lock,       *)
(* statement) always fire: a request that can move moves.                   *)
FairSpec == Spec /\ \A r \in Requests : WF_vars(Progress(r))

-----------------------------------------------------------------------------
(* Properties *)

(* Every variable stays within its type: the retry counter within          *)
(* TX_MAX_ATTEMPTS, connections and locks held by requests only.            *)
TypeOK ==
  /\ pc \in [Requests -> PCs]
  /\ order \in [Requests -> Orders \union {NoOrder}]
  /\ attempt \in [Requests -> 1..MaxAttempts]
  /\ error \in [Requests -> Errors]
  /\ wrote \in [Requests -> SUBSET Stages]
  /\ conn \subseteq Requests
  /\ lock \in [Accounts -> Requests \union {NoRequest}]
  /\ balance \in [Accounts -> Int]
  /\ txs \subseteq Tx
  /\ outbox \subseteq Event
  /\ answer \in [Requests -> [code : Codes, paid : SUBSET Tx]]
  /\ crashes \in Nat

(* No set of requests waits for itself: the two rows are locked in one      *)
(* order and the key is waited for only when both are held.                 *)
NoDeadlock ==
  \A S \in SUBSET Requests :
    S # {} => \E r \in S : BlockedBy(r) \intersect S = {}

(* One Idempotency-Key pays at most once, whatever races, crashes, retries  *)
(* and unacknowledged commits happen.                                       *)
AtMostOncePerKey ==
  \A t, u \in txs : t.order.key = u.order.key /\ t.order.key # NoKey => t = u

(* The internal retry loop never pays again after a commit, not even for a  *)
(* request without a key.                                                   *)
PaidOnce == \A t, u \in txs : t.by = u.by => t = u

(* No committed balance is negative: the conditional debit sees the balance *)
(* that the commit will change.                                             *)
NoOverdraft == \A a \in Accounts : balance[a] >= 0

(* What a set of committed rows moves. *)
Moved(ts) == SumFunction([t \in ts |-> t.order.amt])

(* The transactions table explains every balance to the cent: a transfer is *)
(* never half applied, and the total is conserved.                          *)
LedgerExplainsBalances ==
  \A a \in Accounts :
    balance[a] = Opening[a] + Moved({t \in txs : t.order.dst = a}) - Moved({t \in txs : t.order.src = a})

(* No dual write: the outbox holds exactly the events of the committed      *)
(* transactions, the Bancs one always and the AI one unless switched off.   *)
OutboxMatchesLedger ==
  outbox = {[tx |-> t, type |-> "bancs.sync"] : t \in txs}
           \union {[tx |-> t, type |-> "transaction.created"] : t \in {u \in txs : u.order.ai}}

(* t is the payment that request r asks for, its own or its key's.          *)
Pays(t, r) ==
  /\ t.order.src = order[r].src /\ t.order.dst = order[r].dst /\ t.order.amt = order[r].amt
  /\ t.by = r \/ (order[r].key # NoKey /\ t.order.key = order[r].key)

(* A 201 names one committed payment of what was asked; a 400, 404, 422 or  *)
(* 503 means that this request moved nothing, so it is safe to send again.  *)
AnswersAreTrue ==
  \A r \in Requests :
    /\ answer[r].code = 201 => \E t \in txs : answer[r].paid = {t} /\ Pays(t, r)
    /\ answer[r].code \in {400, 404, 422, 503} => \A t \in txs : t.by # r

(* A request holds a connection, a row or an uncommitted write only within  *)
(* its session: none while it waits for the pool, backs off or has ended.   *)
NothingLeaks ==
  \A r \in Requests :
    pc[r] \notin InSession =>
      r \notin conn /\ wrote[r] = {} /\ \A a \in Accounts : lock[a] # r

(* The loser of a key race always finds the row that beat it: the 23505     *)
(* waits for the other session to commit.                                   *)
WinnerExists ==
  \A r \in Requests : pc[r] = "winner" => Processed(order[r].key) # {}

(* Every request that arrives is answered, or loses its connection.         *)
EveryRequestAnswered ==
  \A r \in Requests : pc[r] # "idle" ~> pc[r] = "done"

(* The whole service implements the endpoint's promise.                     *)
Promise == INSTANCE IdempotentPayments
ImplementsPromise == Promise!Spec

(* "Dos peticiones concurrentes con la misma clave: gana una, la otra       *)
(* devuelve la ganadora" (transactions.service.ts:111): a request whose key *)
(* has already paid for what it asks is not told that funds are missing.    *)
LoserReturnsWinner ==
  [][\A r \in Requests :
       answer[r] = NoAnswer /\ answer'[r].code = 400 => ~ \E t \in txs : Pays(t, r)]_vars
=============================================================================
