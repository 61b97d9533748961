---------------------------- MODULE AccountsSeed ----------------------------
(***************************************************************************)
(* Who writes rows of the table accounts: the migration job (migrate.sh),  *)
(* SeedService in every replica of the backend that starts, and            *)
(* AccountsService.create.  All of them look before they insert; the       *)
(* unique index on account_number is all that stands in between.           *)
(***************************************************************************)
EXTENDS Integers, FiniteSets

CONSTANTS
  Replicas,      \* processes of the backend
  Clients,       \* requests POST /api/v1/accounts
  Numbers,       \* account numbers
  Wanted,        \* the number each client asks for
  SeedSize,      \* initialAccounts are the numbers 1..SeedSize
  Job,           \* the migration job, as the author of rows
  MaxFaults     \* bound on the deaths of a process

ASSUME SeedAssumption ==
  /\ SeedSize \in Nat \ {0} /\ 1..SeedSize \subseteq Numbers
  /\ Wanted \in [Clients -> Numbers]
  /\ Replicas \intersect Clients = {} /\ Job \notin Replicas \union Clients
  /\ MaxFaults \in Nat

VARIABLES
  schema,        \* to_regclass('public.accounts') IS NOT NULL
  job,           \* where the migration job is
  rows,          \* committed rows of accounts
  boot,          \* where each replica is
  row,           \* the initial account it is about to save
  post,          \* where each creation is, or its answer
  faults,
  cut            \* history: a seeding was cut short by a crash or by a client's row

tableVars == <<schema, job, rows, boot, row, post, faults, cut>>

Seeds     == 1..SeedSize
Authors   == Replicas \union Clients \union {Job}
Reset     == 1   \* connection reset: the client learns nothing
Answers   == {201, 409, 500, Reset}
Begun     == {2, 3}
Unasked   == 0
Inserting == 2   \* findOne has returned nothing
Inserted  == 3   \* the row is committed, the answer is on its way

Taken == {x.num : x \in rows}
RowsOf(n) == {x \in rows : x.num = n}
NewRow(n, a) == [num |-> n, by |-> a]

-----------------------------------------------------------------------------
(* An empty database; its schema may have been left there by an earlier job *)
(* or by DB_SYNCHRONIZE.                                                    *)
TableInit ==
  /\ schema \in BOOLEAN
  /\ job = "start"
  /\ rows = {}
  /\ boot = [r \in Replicas |-> "starting"]
  /\ row = [r \in Replicas |-> 1]
  /\ post = [p \in Clients |-> Unasked]
  /\ faults = 0
  /\ cut = FALSE

(* psql -1 -f schema.sql *)
MigrateSchema ==
  /\ job = "start" /\ ~ schema
  /\ schema' = TRUE
  /\ job' = "seed"
  /\ UNCHANGED <<rows, boot, row, post, faults, cut>>

(* psql -1 -f seed.sql: one INSERT ... ON CONFLICT DO NOTHING *)
MigrateSeed ==
  /\ job = "seed"
  /\ rows' = rows \union {NewRow(n, Job) : n \in Seeds \ Taken}
  /\ job' = "done"
  /\ UNCHANGED <<schema, boot, row, post, faults, cut>>

SkipMigration ==
  /\ job = "start" /\ schema
  /\ job' = "done"
  /\ UNCHANGED <<schema, rows, boot, row, post, faults, cut>>

(* The job dies between its two transactions; the pipeline runs it again    *)
(* before it deploys anything.                                              *)
JobDies ==
  /\ job = "seed" /\ faults < MaxFaults
  /\ job' = "start"
  /\ faults' = faults + 1
  /\ UNCHANGED <<schema, rows, boot, row, post, cut>>

-----------------------------------------------------------------------------
(* Variant: the seed does not ask whether there are accounts. *)
AlwaysSeeds(r) ==
  /\ boot[r] = "starting" /\ job = "done"
  /\ boot' = [boot EXCEPT ![r] = "seeding"]
  /\ row' = [row EXCEPT ![r] = 1]
  /\ UNCHANGED <<schema, job, rows, post, faults, cut>>

(* seedInitialAccounts up to its loop *)
CountAccounts(r) ==
  /\ boot[r] = "starting" /\ job = "done"
  /\ boot' = [boot EXCEPT ![r] = IF rows = {} THEN "seeding" ELSE "ready"]
  /\ row' = [row EXCEPT ![r] = 1]
  /\ UNCHANGED <<schema, job, rows, post, faults, cut>>

(* Variant: all rows are saved at once (Promise.all), in any order. *)
SaveInAnyOrder(r) ==
  /\ boot[r] = "seeding"
  /\ \E n \in Seeds :
       /\ NewRow(n, r) \notin rows
       /\ IF n \in Taken
          THEN /\ boot' = [boot EXCEPT ![r] = "starting"]
               /\ cut' = (cut \/ \E x \in RowsOf(n) : x.by \in Clients)
               /\ UNCHANGED <<rows, row>>
          ELSE /\ rows' = rows \union {NewRow(n, r)}
               /\ row' = [row EXCEPT ![r] = @ + 1]
               /\ boot' = [boot EXCEPT ![r] = IF row[r] = SeedSize THEN "ready" ELSE @]
               /\ UNCHANGED cut
  /\ UNCHANGED <<schema, job, post, faults>>

(* One turn of the loop.  A unique violation leaves the hook and bootstrap: *)
(* the process exits and is started again.  After the last row the service  *)
(* listens.                                                                 *)
SaveRow(r) ==
  /\ boot[r] = "seeding"
  /\ IF row[r] \in Taken
     THEN /\ boot' = [boot EXCEPT ![r] = "starting"]
          /\ cut' = (cut \/ \E x \in RowsOf(row[r]) : x.by \in Clients)
          /\ UNCHANGED <<rows, row>>
     ELSE /\ rows' = rows \union {NewRow(row[r], r)}
          /\ row' = [row EXCEPT ![r] = @ + 1]
          /\ boot' = [boot EXCEPT ![r] = IF row[r] = SeedSize THEN "ready" ELSE @]
          /\ UNCHANGED cut
  /\ UNCHANGED <<schema, job, post, faults>>

-----------------------------------------------------------------------------
(* AccountsService.create: findOne ... *)
FindExisting(p) ==
  /\ post[p] = Unasked
  /\ \E r \in Replicas : boot[r] = "ready"
  /\ post' = [post EXCEPT ![p] = IF Wanted[p] \in Taken THEN 409 ELSE Inserting]
  /\ UNCHANGED <<schema, job, rows, boot, row, faults, cut>>

(* Variant: no unique index on account_number. *)
InsertUnindexed(p) ==
  /\ post[p] = Inserting
  /\ rows' = rows \union {NewRow(Wanted[p], p)}
  /\ post' = [post EXCEPT ![p] = Inserted]
  /\ UNCHANGED <<schema, job, boot, row, faults, cut>>

(* ... and save, some time later: the unique violation is a bare 500. *)
InsertAccount(p) ==
  /\ post[p] = Inserting
  /\ IF Wanted[p] \in Taken
     THEN post' = [post EXCEPT ![p] = 500] /\ UNCHANGED rows
     ELSE /\ rows' = rows \union {NewRow(Wanted[p], p)}
          /\ post' = [post EXCEPT ![p] = Inserted]
  /\ UNCHANGED <<schema, job, boot, row, faults, cut>>

AnswerCreated(p) ==
  /\ post[p] = Inserted
  /\ post' = [post EXCEPT ![p] = 201]
  /\ UNCHANGED <<schema, job, rows, boot, row, faults, cut>>

(* A query of create fails, be it findOne on a number that is taken, or     *)
(* commits and loses its answer: 500 as well.                               *)
CreateFails(p) ==
  /\ faults < MaxFaults
  /\ post[p] \in Begun \/ (post[p] = Unasked /\ \E r \in Replicas : boot[r] = "ready")
  /\ faults' = faults + 1
  /\ post' = [post EXCEPT ![p] = 500]
  /\ UNCHANGED <<schema, job, rows, boot, row, cut>>

(* A replica dies and is started again; some creations it served are reset. *)
Crash(r) ==
  /\ job = "done" /\ faults < MaxFaults
  /\ faults' = faults + 1
  /\ cut' = (cut \/ boot[r] = "seeding")
  /\ boot' = [boot EXCEPT ![r] = "starting"]
  /\ \E S \in SUBSET {p \in Clients : post[p] \in Begun /\ boot[r] = "ready"} :
       post' = [p \in Clients |-> IF p \in S THEN Reset ELSE post[p]]
  /\ UNCHANGED <<schema, job, rows, row>>

-----------------------------------------------------------------------------
Migrate == MigrateSchema \/ MigrateSeed \/ SkipMigration
Start(r) == CountAccounts(r) \/ SaveRow(r)
Create(p) == FindExisting(p) \/ InsertAccount(p) \/ AnswerCreated(p) \/ CreateFails(p)

(* Every step but the crash of a replica, which ends more than its seeding. *)
TableStep ==
  \/ Migrate \/ JobDies
  \/ \E r \in Replicas : Start(r)
  \/ \E p \in Clients : Create(p)

TableNext == TableStep \/ \E r \in Replicas : Crash(r)

TableSpec == TableInit /\ [][TableNext]_tableVars

-----------------------------------------------------------------------------
(* Properties *)

TableTypeOK ==
  /\ schema \in BOOLEAN
  /\ job \in {"start", "seed", "done"}
  /\ rows \subseteq [num : Numbers, by : Authors]
  /\ boot \in [Replicas -> {"starting", "seeding", "ready"}]
  /\ row \in [Replicas -> 1..SeedSize + 1]
  /\ post \in [Clients -> {Unasked} \union Begun \union Answers]
  /\ faults \in 0..MaxFaults
  /\ cut \in BOOLEAN

(* Replicas that start together and both find the table empty do not leave  *)
(* half a seed: as soon as there is an account, all initial accounts are    *)
(* there, or a replica is still saving them, or a crash or a client that    *)
(* took one of their numbers cut it short (SeedService and seed.sql).       *)
SeedWhole ==
  rows # {} =>
    \/ Seeds \subseteq Taken
    \/ cut
    \/ \E r \in Replicas : boot[r] = "seeding" /\ row[r] > 1

(* The answer of a creation tells whose the number is: 201 that it is its   *)
(* own row and nobody else's, 409 that it is another's, however creations,  *)
(* seed, job, crashes and failures interleave (AccountsService.create).     *)
CreatedOnce ==
  \A p \in Clients :
    /\ post[p] = 201 => RowsOf(Wanted[p]) = {NewRow(Wanted[p], p)}
    /\ post[p] = 409 => \E x \in RowsOf(Wanted[p]) : x.by # p
=============================================================================
