# SmartBancs: verification project

TLA+ models of the transfer platform in this repository, the TLC configurations
that check them, and theorems about them that TLAPS proves. `PROJECT.json` maps
every definition to the lines it models and lists runs, mutants (plausible bugs
each property must catch), hazards, findings and theorems.

Check a run with `tlc -config <run>.cfg MC<Module>.tla` and a proof with
`tlapm <Module>Proofs.tla`.

## 1. The system

| Part | Code | State | Operations | Speaks to |
|---|---|---|---|---|
| Transfers | `backend/src/modules/transactions` | `accounts`, `transactions`, `outbox_events`, row locks, one pooled session per request | `processTransaction` (idempotency lookup, retry loop), `executeTransfer` (one database transaction) | PostgreSQL; writes the events the relay reads |
| Outbox relay | `backend/src/modules/outbox` | `running` flag, batch, pending promises, `published_at` | `drain`, `flushBatch`, on a timer, on every replica | PostgreSQL, RabbitMQ connection |
| RabbitMQ connection | `backend/src/modules/rabbitmq` | connection, channel, `isConnected`, `connecting`, `stopped`, timer | `connect`, `handleDisconnect`, `scheduleReconnect`, `publishEvent` | RabbitMQ |
| AI consumer | `ai-service/consumer.py` | unacknowledged deliveries, attempts of a POST | `process_transaction_event`, `start_consumer` | RabbitMQ, advisor, `POST /recommendations` |
| AI advisor | `ai-service/advisor.py` | `gemini_open_until`, three counters | `analyze_transaction` from the consumer thread and the HTTP threads | Gemini |
| Recommendations | `backend/src/modules/recommendations` | `ai_recommendations` | `create` (idempotent sink), `markAsRead`, finders | PostgreSQL |
| Simulation | `backend/src/modules/simulation` | shared `next`, counters of a run, two sums of money | `runQuincenaSpike`, `getDatabaseDiagnostics` | Accounts, Transfers |
| Accounts, seed, migrations | `backend/src/modules/accounts`, `database/seeds`, `sql` | `accounts` | `create` (look, then insert), `seedInitialAccounts` (count, then insert) in every replica that starts, `migrate.sh` | PostgreSQL |
| Frontend | `frontend/src` | the key of an open dialog, its spinner, the selected account, the loads under way | submit, retry, close, poll, refresh, select | the API |
| ETL | `etl-bancs` | a batch of rows | dedup, normalise, aggregate | files |
| Observability, infrastructure, tools | `common`, `docker`, `infra`, `tools` | counters | none that a decision reads | |

A transfer debits, credits, writes its row of `transactions` and one or two rows
of `outbox_events` in one database transaction. A relay on every replica
publishes those rows with publisher confirms; the AI consumer turns
`transaction.created` into a recommendation that it posts back to the backend.
`bancs.sync` messages wait in a durable queue that nothing consumes yet.

What is hard here: two transfers locking the same rows in opposite orders;
several requests with one `Idempotency-Key`; a COMMIT that is applied although
its answer is lost, followed by a retry; a pool that runs out inside an error
handler; replicas that publish the same rows; confirms that arrive late or
never; a process that dies between publishing and marking; redelivery of
messages whose effect already happened; a circuit breaker shared by threads;
replicas that seed the same empty table at once.

What makes each part correct:

- **Transfers**: money is conserved and no balance is negative; a key pays once;
  retries never pay twice; events exist exactly for committed transfers; every
  answer is true; no deadlock, no leaked session; every request is answered.
- **Relay**: marked only if the broker has it; committed rows are published
  eventually, by some replica; no duplicate without a failure; drains end.
- **RabbitMQ connection**: one connection at a time, no connection after
  shutdown, reconnection after every close.
- **AI consumer and recommendations**: acknowledged only if persisted; one
  recommendation per transaction; no message lost; every message settles.
- **Advisor**: while the circuit is open only calls that were already past the
  check reach Gemini; it closes again; counters add up; every analysis ends in a
  recommendation the backend accepts.
- **Simulation**: every task is run and counted once, a failed transfer stops
  nobody, and only a new account makes it report that money was not conserved.
- **Accounts and seed**: one row per account number, a creation is told whose it
  is, no half seed without a cause, every replica comes up.
- **From payment to advice**: advice only on transfers that were made, and on
  every one that was made for a client.
- **Frontend**: one payment per opening of the dialog, whatever is retried; a success
  that is true and about that opening; a button that works again after every
  error; a screen that catches up with the ledger; a selection that stays.
- **ETL**: the figures of the report are those of the clean rows.

## 2. Plan

Order of the modules, most important behaviour first.

1. `IdempotentPayments` (abstract), `Transfers`, `TransfersInv`,
   `TransfersProofs`. Done.
2. `AtLeastOnceDelivery` (abstract), `OutboxRelay`, `OutboxRelayInv`,
   `OutboxRelayProofs`. Done.
3. `RabbitConnection`, `RabbitConnectionInv`, `RabbitConnectionProofs`: the
   connection life cycle that `OutboxRelay` abstracts to `up`. Done.
4. `IdempotentHandling` (abstract), `AIConsumer` with `create` of
   Recommendations, `AIConsumerInv`, `AIConsumerProofs`. Done.
5. `AIAdvisor`, `AIAdvisorInv`, `AIAdvisorProofs`: the circuit breaker shared by
   threads, the validation of Gemini's answers, the rules. Done.
6. `Frontend`, `FrontendInv`, `FrontendProofs`: the browser as a client of
   `IdempotentPayments`. Done.
7. `AccountsSeed`, `Simulation` on top of it, `SimulationInv`,
   `SimulationProofs`. Done.
8. `Pipeline`, `PipelineInv`, `PipelineProofs`: composition of the abstract
   promises of 1, 2 and 4. Done.

The ETL, planned first as a module of its own, is left out: section 7 says why.

## 3. Modules and code

### Transfers

Every HTTP request is a process. `pc[r]` names the statement it is at; the
actions carry the names of the steps of `processTransaction` (`Receive`,
`Lookup`, `SeekWinner`, `Winner`, `Retry`, `GiveUp`) and `executeTransfer`
(`Connect`, `LockRow`, `Validate`, `Debit`, `Credit`, `InsertTx`,
`InsertOutbox`, `Commit`, `Finish`, `Rollback`). `conn` is the pool, `lock` the
`FOR UPDATE` holders, `wrote` the uncommitted statements of a session,
`balance`, `txs` and `outbox` the committed tables. `BlockedBy` is the waits-for
relation of PostgreSQL for row locks and for the unique key. Amounts are cents.

The environment may fail any statement (`StatementFails`: deadlock or
serialization failure, statement timeout, lost connection), let a lock wait time
out (`LockTimeout`), let the pool time out (`AcquireFails`), apply a COMMIT and
lose its answer (`CommitUnacknowledged`), and kill the API (`Crash`).

`IdempotentPayments` is what the endpoint promises: an answer 201 names a
payment that covers the request, a key pays once, a refusal means the request
paid nothing. `Transfers` implements it with the mapping that is the identity on
`order`, `txs` and `answer`.

Left out: account status and currency are constants (no code changes them);
`CHECK (balance >= 0)` never stops a debit that the conditional UPDATE lets
through; numeric overflow (22003) of NUMERIC(18,2); a session whose connection
was cut but which the server has not yet ended (its locks and its key would only
keep others waiting longer); the read-only finders. `START TRANSACTION` and the
two `SET LOCAL` are part of `Connect`: when one of them fails outside the
service's `try`, TypeORM has released the runner and the case is that of a
failed connect.

### OutboxRelay

Every replica runs one drain. `pc` names the statement of `flushBatch`,
`running` is the flag of line 75, `waiting` and `confirmed` are the promises of
`publishEvent`. A message is `[ev, by, n]`; `live` holds those on an open
channel, `accepted` those the broker has stored. `Timeout` is free when the
channel of the message is gone and costs a failure otherwise; after it the
message may still be stored, and its ack is ignored. `SessionEnds` frees the
row locks of a session at any moment, and the relay learns of it at its next
statement.

`AtLeastOnceDelivery` is the promise of the outbox: commit, store (any number
of times), mark only what is stored, and deliver everything. The mapping is
`stored <- events of accepted messages`, `marked <- published`.

Left out: `attempts`, `last_error` and the backlog gauge (written, never read by
a decision); the order of messages within a channel, which no consumer uses.

### RabbitConnection

One backend process. A member of `Conns` is a call of `connect()` together with
the connection it opens, `pc` the `await` the call is at, `net` what amqplib
knows of the connection ("lame": only its channel is closed). The code assigns
`connection`, `channel` and `isConnected` together, so one variable stands for
the three. `ConnectionCloses` and `ChannelCloses` are the events; `Event` is
what the handlers of lines 71-83 do with them, `Caught` the catch block,
`CloseOk` the end of a `conn.close()` that the code does not wait for.

amqplib emits the events of a chunk one after the other, before the
continuation of an `await` that an earlier frame of the chunk settled. The
constant `SameChunk` says whether a close may come in that gap; `MayClose` is
the rule. The run that passes excludes it, `rabbit_same_chunk` allows it and shows
what happens.

A call of `connect()` that is under way when the service is shut down may still
adopt its connection: nothing in the code closes it. `NothingStartsAfterShutdown`
says what a stopped service never does, and `NoStrayConnection` bounds what it can
leave behind: while the service runs every open connection is in use or being set
up, and never, shut down or not, are two open. Left out: `reconnectAttempt`, which only sets a delay.

### AIConsumer

A consumer is one replica of the ai-service: one thread that handles one
delivery at a time. `at` names the step of `process_transaction_event`,
`request` the statement of `RecommendationsService.create` that the POST it
waits for is at. A POST that times out, or whose client dies, goes on as an
orphan: `orphans` counts them per transaction and statement. `held` is what the
broker has delivered and not seen answered, `buffer` what the client library has
not handed to the callback yet. `link` is "lost" between the moment the broker
gives a connection up and requeues, and the moment the consumer notices; an
answer sent in between goes nowhere.

`IdempotentHandling` is the promise of the module's docstring: acknowledge only
what is persisted, persist only what was published, settle a message once. The
mapping is `persisted <- transactions with a row`.

Every event of the relay carries a `transactionId`, so `create` always looks the
transaction up, and its 409 is never returned for one. One INSERT is atomic and
its unique index is that of `schema.sql`. Left out: what the advisor answers
(any exception of it is a `PermanentFailure`), `markAsRead`, the counters of
`/health`, the length of the backoff.

### AIAdvisor

A member of `Threads` is a thread of the ai-service in `analyze_transaction`:
the consumer's, or one that serves `/predict-recommendation`. `pc` is where it
is: it reads the circuit (`Skip`, `Admit`) some time before it sends the request
(`Call`), may send it again without `thinkingConfig` (`CallAgain`), and computes
the deadline of an open circuit (`FailHard`) before it assigns it
(`OpenCircuit`), because the code does these under no lock. A deadline is kept
as the time left until it; `Tick` uses up all of them, so no run needs a bound
on time. The counters are only ever compared, so their difference `unanswered`
stands for the three of them.

`Validated` is `_validate_gemini_result` with Python's `max` and `min`, which
keep NaN; `Rule` is the chain of rules, on whole dollars. Left out: the prompt,
the repair of JSON text (an answer is a JSON object or it is none), the wording
of the rules, rounding, a wall clock that is set back, and a `tx_data` whose
amount is no number: the caller gets the exception, and the consumer
dead-letters the message, which is a `PermanentFailure` of `AIConsumer`.

### Frontend

The browser is composed with the endpoint as its clients know it: `Payments` is
an instance of `IdempotentPayments`, and `Serve` lets it pay or answer at any
time. Request r is the r-th POST the browser sends; `TransferModalContent` is
mounted at each opening, so opening n has the key n. `post` keeps the opening a
POST comes from and the `loadData` its `onSuccess` has captured, with the
selection of that render. `Success`, `ErrorAnswer` and `FetchFails` are the three
ends of `handleSubmit`; they may come when the dialog is closed or open anew:
then the setters of the old content do nothing, but `onSuccess` still closes the
dialog that is open. `Drafts` is what the user may have typed.

A load of `loadData` is asked for by the interval (`Poll`, with the `loadData`
of the first render), by a click (`Refresh`) or by a success; `Read` is the
moment the backend reads, and `LoadEnds` replaces the screen. Of what a load
brings only the transactions are kept; accounts and recommendations come and go
with them, and the limit of 30 rows is beyond the bounds.

Left out: the wording of errors (every refusal is one code; 500 is the one that
leaves the payment in doubt), the panel of a success (`onSuccess` unmounts the
content in the same batch), `markAsRead`, the other tabs.

### AccountsSeed

Three kinds of process write rows of `accounts`, all of which look first and
insert later: the migration job (`SkipMigration`, `MigrateSchema`,
`MigrateSeed`, one transaction each), `SeedService` in every replica that starts
(`CountAccounts`, then one `SaveRow` per turn of the loop) and
`AccountsService.create` (`FindExisting`, `InsertAccount`, `AnswerCreated`). A
row is its number and its author. A unique violation in the seed leaves
`onApplicationBootstrap`, and `main.ts` awaits `app.listen` without a catch: the
process exits and is started again, which is `boot' = "starting"`. In `create`
the violation is not translated, so it is a bare 500. `Crash` and `JobDies` are
deaths of a process, `CreateFails` a query that fails, the first lookup included, or
loses its answer. The
job runs before anything is deployed; the schema may be there already, from an
earlier job that died or from `DB_SYNCHRONIZE`, and then the replicas seed.

### Simulation

`runQuincenaSpike` on one replica, composed with `AccountsSeed` (other replicas
and clients may still add accounts) and with an instance of
`IdempotentPayments`: `Pay` and `Reply` are the endpoint's, restricted to what a
simulation can tell apart, a success or an error. `ListAccounts` and `SumBefore`
are two queries with an await between them, `SumAfter` the third. `task[w]` is
what worker w awaits, `next` the shared index, counted from 1. Between two
awaits JavaScript runs undisturbed, so `Settle` counts a result and takes the
next task in one step. `Dies` ends the simulation with its replica, and its
transfers with it; `QueryFails` is an error of one of the simulation's own queries,
a 500. No other step ends in `spike = "lost"`: `LostForAReason` says so, and without
the catch of line 80 an error of a transfer would be a third way, through
`Promise.all`. `SeedWhole` lets a half seed pass only where a crash or a client took
it apart (`cut`): `count() > 0` then skips the rest at every later start, which is
what the code does. Latencies and the texts of errors are left out.

### Pipeline

The three promises stated above, `IdempotentPayments`,
`AtLeastOnceDelivery` and `IdempotentHandling`, each implemented by its
component, are put together where the code joins them. `Pay` writes the event
with the payment, as `executeTransfer` does in one transaction; `Send` is both a
`Store` of the delivery and a `Publish` to the consumer, because a message in
`smartbancs.ai.queue` is a row that the relay sent; `Persist` and `Settle` are
the consumer's. A message is its transaction and a copy number. Only
`transaction.created` is modelled: `bancs.sync` has no consumer.

## 4. Runs

| Run | Question | Bounds |
|---|---|---|
| `transfers_safety` | Can sessions wait in a ring, does anything pay twice, leak or lie, and do balances and outbox follow the ledger? | 3 requests, 3 accounts in a ring, 3 connections, 1 key used twice, 2 attempts, deadlocks, timeouts, lost connections and commits, 1 crash |
| `transfers_answers` | Is every request answered, and as the endpoint promises? | 2 requests, pool of 1, every refusal, 3 attempts, serialization failures, lost connections, 1 crash; fairness |
| `transfers_key_race` | Does the loser of a key race return the winner? (Not when funds run short.) | 2 requests, no faults |
| `relay_delivery` | Do two replicas stay apart, mark only what is stored, and deliver everything, whatever replica fails? | 2 replicas, 2 rows, batches of 2, 2 rounds, 1 failure of any kind; fairness |
| `rabbit_life` | Is there always one path of recovery, never two open connections nor a leaked one, and an open one again? | 4 connections, 4 failures, boot to shutdown; fairness |
| `rabbit_same_chunk` | Even if a close follows the last reply at once? (No.) | 2 connections, 1 failure; fairness |
| `consumer_recovery` | Does redelivery lose or double anything, is a message given up only for a reason, the promise kept, and every message settled? | 2 replicas, a valid and an invalid message, prefetch of 1, 3 attempts, 3 transient and 1 permanent failure, 1 loss; fairness |
| `advisor_threads` | What does an open circuit let through, for how long, and what do the counters and the rules say? | 2 threads, cooldown of 3, 4 transactions, 5 answers, every failure any number of times; fairness |
| `frontend_payments` | Does an opening pay once, is a success its own, the button right, and does the screen catch up? | 2 openings, 2 POSTs, 2 valid and 2 invalid drafts, 2 loads at a time, 1 network failure; fairness |
| `frontend_selection` | Does the selection stay where the user put it? (No.) | 2 accounts, 2 loads at a time |
| `simulation_spike` | Can a seed be left half done, a creation be told something false, the report miscount, cry wolf or get lost over a failed transfer, and does everybody get on? | 2 replicas, 3 initial accounts, a client who asks for the last of them, 3 transfers, 2 workers, 1 death or lost query; fairness |
| `pipeline_advice` | Is advice only on transfers that were made, and on all that were made for clients? | 2 requests (any two of a payment with a key, one without, one of a load test), 2 copies of an event; fairness |

Three requests are enough for a ring of waits through rows or the key; two
attempts exercise the retry and its exhaustion, three a retry of a retry. In `relay_delivery` one
failure is enough for either replica to leave rows to the other at any statement,
and a batch of two for one row to be confirmed and the other not; the proofs
cover any number of failures. Four connections let the late event of an old one
meet a new one while a third is being closed. In `consumer_recovery` one loss
lets a message travel to the second replica while orphaned POSTs of the first
delivery are still running, which is how one transaction meets two inserts. In
`frontend_payments` two POSTs are an order and its retry, or the orders of two
openings of which the first was closed too early, and two loads overtake each
other; the proofs cover any number of each. In `advisor_threads` a cooldown of three
lets the deadlines of two threads differ and be assigned in the wrong order
while the circuit is open; nothing else in it is bounded. In `simulation_spike` two
replicas are enough to race for the seed and three initial accounts for one to
be cut short in the middle of its loop, with rows before and after; two workers
and three transfers make one worker take a second task while the other still
holds its first. In `pipeline_advice` the two requests may carry the same key, and
the second copy of an event is any later one. The proofs cover all sizes.
`CHECK_DEADLOCK FALSE`
appears where all requests end and nothing more arrives.

**Fairness.** `Transfers`: weak fairness of each request's progress, because
Node runs every ready callback and the pool, lock and statement timeouts always
fire; no fairness for faults. `OutboxRelay`: weak fairness of each drain, of the
broker, the confirm timer and the reconnection; failures are finitely many.
`RabbitConnection`: weak fairness of boot, of the calls and of the timer, which
Node always continues, and of the broker's answer to a close; none for failures
or shutdown. `AIConsumer`: weak fairness of the thread with the backend it waits
for, of the broker's deliveries to each consumer, and of orphaned requests; none
for failures, which are finitely many, or for publications. `AIAdvisor`: weak
fairness of time and of each thread, whose requests end by their timeout; none
for new analyses, and failures may go on for ever. `Frontend`: weak fairness of
the interval, of the loads and the answers of the endpoint, which `fetch`
delivers; none for the user, and the failures of the network are finitely many.
`Simulation`: weak fairness of each replica's start (`docker-compose` restarts it
unless stopped, and Cloud Run replaces it), of the workers and of the answers of
the endpoint (`EveryRequestAnswered`); none for clients, the job, payments or
failures, which are finitely many. `Pipeline`: weak fairness of sending an event
and of settling a message, which `EventuallyPublished` and `Settles` show of the
relay and the consumer; none for payments, answers, `Mark` or `Persist`.

**Types.** Every component has a type invariant; it is proved for all values of
the constants (theorem `Typing` of each proof module) and no run spends time on
it. The same goes for
`Solvency` (no negative balance) and for `PaidOnce` (a request pays at most
once), which the promise `IdempotentPayments` contains and `ImplementsPromise`
therefore checks step by step.

## 5. Findings

- `transfers_key_race`: transactions.service.ts:111 says that the loser of a key
  race returns the winner. When what the winner leaves no longer covers the
  amount, the loser fails on funds first and is told 400.
- `rabbit_same_chunk`: rabbitmq.service.ts:11-12 promises reconnection without
  limit, also after a close. The handlers compare with fields that are assigned
  only after the last reply of `assertTopology`; a close emitted in that gap is
  ignored and the service keeps a dead connection for good.
- `frontend_selection`: AccountOverview.tsx:45 invites the user to select an
  account, and App.tsx:34-36 means to keep it. The interval of App.tsx:50 runs
  the `loadData` of the first render, in which nothing was selected, so every
  poll goes back to the first account.

Three more disagreements were met that no run is spent on. README.md:176 and
docs/DOCUMENTO_TECNICO.md:329 promise 503 with `POOL_TIMEOUT` for an exhausted
pool; the lookup of the winner (transactions.service.ts:113) runs inside the
catch block, where no `try` covers it, and `Transfers` answers 500 there. The
docstring of `_validate_gemini_result` (advisor.py:95) says that the confidence
is in [0,1]; NaN, which `json.loads` and `float` accept, passes the clamp of line
114, and `ConfidenceUnlessNaN` proves that nothing else does.
docs/DOCUMENTO_TECNICO.md:101 and :456 give a spike at most 500 operations and
100 workers; the code allows 10000 and 200.

## 6. Proofs

`TransfersProofs` proves, for every number of requests, accounts, connections
and attempts, that `Spec => []IInv`. `IInv` (in `TransfersInv`) is needed
because the safety properties are not inductive: that a key pays once rests on
`KeyReserved` (a session that has inserted a key is alone with it), that no
balance is negative on `LocksHeld` and `Funded` (both rows stay locked and
funded from the debit to the commit), that answers are true on `PaidIsOver`
(once a payment is committed its request only leaves, with a 201 or, after a
lost acknowledgement, a 500), and all of them on `StagesDone` (what a session
has written is a function of its label). From it follow `PaysOnce`, `Solvency`,
`NoDualWrite`, `Honesty`, `SessionsEnd`, and `Implementation`, the refinement of
`IdempotentPayments`. `DeadlockFreedom` takes, in a set of waiting sessions, one
whose wanted row is the largest: it can only wait for a session that wants a
larger one or already has the key. `LedgerExplains` shows that every step of the
ledger adds one row to `txs` and moves exactly what the row says, and
`Conservation` that the balances of finitely many accounts always have the sum
they were opened with.

Sums are folds of the community modules, and the library's induction theorems
cannot be used. The lemmas about them go through `LeastNatural` instead: a set of
natural numbers that is not empty has a least member. Applied to the sizes of the
sets for which a claim fails, it gives the sum of a set with one more element
(`SumAdds`), of the same values over a set (`SumSame`), and of a function that
moves an amount between two places (`SumMoves`). `Ranked`, in `SimulationProofs`,
is proved in the same way: every number below the size of a list is the rank of
one of its members. The sum lemmas stand in both modules that need them.

`OutboxRelayProofs` proves `Spec => []IInv` for any number of replicas, rows,
batches and failures, and the refinement of `AtLeastOnceDelivery`. That a row is
marked only if the broker stored it rests on a chain: `PromisesKnown` (what is
awaited is of the batch), `ConfirmedAreStored` (confirms and uncommitted marks
are about stored rows of the batch) and `MarkedOnlyIfStored`. That two replicas
stay apart rests on `BatchLocked` and `LocksAreWorkedOn` (locked rows are the
batch of a session that is alive). `Budget` pays each duplicate with a failure.

`RabbitConnectionProofs` proves the invariant of the life cycle and, from it,
one path of recovery, no leaked connection, silence after shutdown and that only
its own events cost the adopted connection. `AdoptedIsOpen` is proved where
`SameChunk` is false, as the finding requires. That two connections are never open
(`OneOpen`) holds after shutdown too, when `IInv` no longer says who refers to an
open one; `LeftBehind` carries it: what is open and unused was left at shutdown, and
no call is under way that could open another.

`AIConsumerProofs` proves `Spec => []IInv` for any number of replicas, messages,
duplicates, attempts and failures. `LinksMatch` and `OwnDeliveries` make an
answer on an open connection one about a message that is nowhere else, which is
what `NothingLost` needs; `WorkMatches` carries the row from the moment `create`
saw it to the ack; `Known` says that an orphan is about a published, valid
message; `AttemptsPaid` counts a transient failure for each attempt. The
refinement of `IdempotentHandling` maps each statement of `create` that inserts
a first row to `Persist`, ack and nack to `Ack` and `DeadLetter`, and all else
to a stutter.

`AIAdvisorProofs` proves, for any number of threads, answers and cooldown, that
`Spec => []IInv`. `FewLateRequests` rests on a budget: a thread past the check
when the circuit opens has two requests left, one that waits has one, and one
that starts anew is skipped. `NoLongerThanCooldown` also needs the deadlines that
are computed and not assigned, each of which is within a cooldown of the last
failure. `ResultsMade` says where a result comes from; `Contract`,
`ConfidenceUnlessNaN` and `NoSafer` follow from it and from lemmas about
`Validated` and `Rule`. `Counting` is an induction of its own over the set of
analyses under way.

`FrontendProofs` proves, for any number of openings, POSTs, loads and failures,
that `Spec => []IInv`. `Sent` says that an order carries the key of its opening
and `PaymentsKnown` that a payment is one of an order, so that the contract's
`KeysPayOnce` becomes `OnePaymentPerOpening`; `SuccessPaid` gives a 201 its
payment, and with `Sent` one of the same opening. `LoadingMeansWaiting` needs
`OneWaiting`: the error of a POST clears the spinner of its own opening, which
waits for nothing else. `Composition` shows that every step of the browser and
its backend is one of `IdempotentPayments`, which `TransfersProofs` shows the
code to implement.

`SimulationProofs` proves the table first, `TableSpec => []TableInv`, for any
number of replicas, clients, initial accounts and deaths. That a seed is never
left half done without a cause rests on `SeederSaved` (a replica that seeds has
saved exactly the rows before its next one) and `SavedInOrder` (whose author's
rows come in order): if a seeder meets another's row, that other is still
seeding, has finished, or was itself cut short. `CreationIsTrue` needs
`ClientRows` and the unique index. `ImplementsTable` then shows that the
simulation only lets the table take its own steps, so that these results carry
over, and `Invariance` adds the run: `Counted` relates the two counters to the
answers of the tasks taken (`Rewarded`), `SuccessPaid` gives each 201 a payment
of its own, and `ReportsAddUp` counts them with a surjection from those payments.
`MoneyConserved` rests on a second invariant, `MoneyInv`: a task pays between two
different accounts of the list (`TasksStayListed`), so a payment of the run leaves
the sum of the listed balances alone, and a table that has not grown has the sum
it had (`MoneyKept`). `LostForOwnReasons` needs `Counted`: when no transfer is in
flight and none is left, the two counters make up the total, so that a failed query
costs the report before the first transfer or after the last, never between.

`PipelineProofs` proves the composition: `OutboxIsLedger` (what `Pay` writes) and
`Flows` (what is downstream comes from upstream) make a recommendation one about
a committed payment; `KeysPayOnce` comes from the promise of the endpoint.
`EveryPartKeepsItsPromise` shows that each part of the composition still behaves
as its own promise says, so nothing was gained by letting a part do something
else.

**What liveness rests on.** Fairness and `ENABLED` are out of the prover's reach,
but the argument for most of the liveness properties has a safety half, and that
half is proved for all sizes: a measure that only falls, and nobody left with
nothing to do. What TLC adds on the bounds of the runs is that the steps which
lower the measure are taken.

| Checked | Proved | Measure |
|---|---|---|
| `EveryRequestAnswered` | `RequestsRunOut`, `SomeoneAlwaysMoves` | labels left in this attempt and the attempts not begun; every step of the service uses one up, faults and crashes included. One request in flight waits for no row, key or connection |
| `DrainsEnd` | `EveryDrainRunsOut`, `FlagNeverStuck` | statements left in this batch and the batches not begun, and the promises still awaited. The flag is set exactly while a drain is under way, and the drain has a session to succeed or fail on |
| `Reconnects` | `RecoveryAdvances` | awaits, timer and close between the service and a connection, at most eight; only a failure raises it |
| `Settles` | `EveryHandlingRunsOut`, `NoRedeliveryLoop`, `HandlingGoesOn` | attempts left, statements of `create` left, the answer; a message is redelivered only by a loss, and a POST that is waited for is being served |
| `CircuitCloses` | `CooldownsRunOut` | requests and deadlines that threads past the check still owe; an open circuit admits none, and each prolongation uses one up |
| `Finishes` | `LostForOwnReasons` | none; the theorem is the safety half of `Finishes`: what ends without a report ends for one of the named reasons |

`EventuallyPublished`, `CatchesUp`, `EveryReplicaStarts`, `EveryPaymentAdvised` and
the "leads to" half of `Finishes` are checked only.

The comment of advisor.py:55 says that Gemini is not called again during the
cooldown. Taken literally that is not so for threads past the check;
`FewLateRequests` is the promise the code does keep. Of two deadlines computed close
together the earlier may be assigned last (line 238) and shorten the cooldown;
`NoLongerThanCooldown` bounds it from above only, because the code gives no bound
from below.

Assumed: `TransfersAssumption` (the types of the constants, account numbers
being natural numbers; any total order would do; `DeadlockFreedom` and
`SomeoneAlwaysMoves` also take them to be bounded and `Conservation` finitely many
accounts, which every database has), `RelayAssumption` (finitely
many replicas), `ConnectionAssumption`, `ConsumerAssumption` (finitely many
messages, which the size of the prefetch window needs), `AdvisorAssumption`
(finitely many threads, a positive cooldown, and how answers are abstracted),
`FrontendAssumption` (the types of the constants; account numbers are ordered as
the API orders them), `SeedAssumption` and `SimulationAssumption` (the kinds of
process are disjoint, at most as many workers as tasks, as line 30 of
`simulation.service.ts` has it).

Model-checked only: liveness (`EveryRequestAnswered`, `EventuallyPublished`,
`DrainsEnd`, `Reconnects`, `Settles`, `CircuitCloses`, `CatchesUp`, `Finishes`,
`EveryReplicaStarts`, `EveryPaymentAdvised`), as far as the table above does not
say otherwise. Every invariant and action property of the passing runs is also a
theorem.

## 7. Not modelled

Metrics, logging, correlation ids and validation decorators carry no state that
a decision reads. The read-only endpoints and `getDatabaseDiagnostics` change
nothing, and the other screens of the frontend render what they are given.
Infrastructure, CI and the knowledge-base tools are declarations or offline
scripts. The ETL is a script that converts one file in a fixed order of steps:
nothing runs beside it and it shares nothing with the system.

Within `Simulation`: users' own transfers during a spike (they conserve money as
the spike's do), the balance a client may choose for a new account (each number
has one opening balance), a second spike at the same time (the console disables
its button; the workers, index and counters of each are its own), and an INSERT
that lands after the process that sent it has died.
