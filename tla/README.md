# CloudStore: specifications, checks and proofs

This directory is a TLA+ development of the hierarchy service under
`src/python-server`: a FastAPI service that stores hierarchies of cloud resources (management
groups, subscriptions, resource groups) in PostgreSQL, and reads them back. Two tables hold
the same forest twice. `nodes.parent_id` is the shape; `node_closure` has one row for every
ancestor–descendant pair with its distance, so that a subtree is one `SELECT`. No constraint
can check that the two agree: `store_hierarchy` is the only thing that keeps them consistent,
while other requests run between any two of its statements and any statement may fail. That
is what these modules are about.

Around that core stand the things a request depends on: the connection pool and the write
lock it queues for, the number of parameters one statement can bind, the migration that makes
the tables, and the start-up of the two containers. Each has a module of its own.

TLC checks every property below on small instances. TLAPS proves, for all values of the
constants, every safety property of a passing run: the invariants, the action properties, and
that the write path implements the abstract store. What is left to TLC alone is liveness.

## 1. The system

### Components

| Component | Code | State | Operations |
|---|---|---|---|
| Write path | `app/lib/hierarchy.py`, `store_hierarchy` | locals of one request: flattened payload, captured ancestors, root's parent, doomed ids | flatten, lock, three reads, upsert, delete, replace closure (two statements), read back, commit |
| Read path | `get_hierarchy`, `app/api/routes/hierarchy.py` | none | one `SELECT`, assemble; 404 when there is none |
| Pure passes | `flatten_payload`, `closure_rows`, `assemble_tree` | loop variables | level-by-level walk; rows from nodes; tree from rows |
| Repository | `app/lib/repositories` | none of its own | one method per statement, and `lock_writes`, `commit` |
| Schema | `app/lib/models`, migration 0001 | tables `nodes`, `node_closure` | foreign keys (RESTRICT for `parent_id`, CASCADE for closure rows), primary key, partial unique index, `depth >= 0` |
| Sessions | `app/lib/database.py` | one transaction per request; a connection pool | open at the first statement, roll back on close; wait for a connection, give up |
| HTTP and errors | `app/api/routes`, `app/api/errors.py` | none | maps outcomes to 200, 404, 409, 422, 500; ends the session before or after the answer |
| Migration | `alembic/env.py`, `alembic/versions/0001_*` | the schema and its revision | upgrade, downgrade, each in one transaction |
| Start-up | `docker-compose.yml`, `Dockerfile`, `app/config.py` | state and health of two containers | health check, load settings, upgrade, then serve; other commands by hand meanwhile |
| Health, app factory | `app/api/routes/health.py`, `app/api/main.py` | none | a 200 that opens no session; routers and handlers are registered |
| Go server | `go-server/main.go` | — | the exercise's unimplemented starting point |
| Tests | `python-server/tests`, `tests` | — | fixtures with an independent closure oracle |

A request is a coroutine on one event loop with a session of its own. The handler calls
`HierarchyService`, which calls the repository, whose methods await one statement each. The
requests share nothing but Postgres: the two tables, under READ COMMITTED, and one
transaction-scoped advisory lock that every POST takes before its first read and a GET never
takes; and, inside the server, the connection pool. Exceptions unwind through `get_session`, which closes (rolls back) the session before
the handlers of `errors.py` make the response.

### What is hard in it

* **Interleaving.** Three reads are used several awaits after they are made. Nothing but the
  advisory lock keeps them true; there is no `FOR UPDATE`, no version and no retry.
* **Ordering.** Upsert before delete (else RESTRICT refuses a delete that orphans a node that
  is being moved), closure rows deleted before inserted, ancestors captured before any of it.
* **Completeness of one check.** One test against the captured ancestors is the whole cycle
  test, although a payload can bring in nodes from any other tree.
* **Partial failure.** Any statement may fail, the connection may go, the commit may be
  carried out and not confirmed, the server may die; writers behind must get the lock, and
  the tables must be as some whole request left them.
* **Drift.** Additions, removals, moves within and between trees, in any sequence, must not
  make the two representations disagree: nothing repairs it later, and every constraint may
  be content.
* **Limits.** Every waiting writer keeps a pooled connection; one `INSERT` states every
  closure row and runs into the limit on bound parameters.
* **Stale connections.** The pool does not ping: after Postgres has restarted, a request may
  be handed a connection that is closed, and closing its session fails a second time.
* **DDL among requests.** A migration takes the tables one by one while requests hold them,
  a waiting DDL statement holds up every newcomer, a command can be killed between any two
  statements, and two commands can both have read the same revision.
* **Start-up.** A fresh data directory is first served on a socket that a careless health
  check would take for the database; either container may stop and be started again in any
  state, over a schema at any revision.

The `hazards` of `PROJECT.json` place each of these at its line and name the properties that
would catch it.

### What makes each part correct

* Write path: the representations agree after every commit (`RepresentationsAgree`); reads
  stay true while used (`WhatWasReadStillHolds`); no statement is refused and no tree fails
  to assemble (`NothingRefused`); the answer is what was posted (`AnsweredAsPosted`); it
  looks atomic (`ImplementsStore`); every request ends (`EveryRequestEnds`).
* Abstract store: a forest always (`StoredIsForest`); a POST does what the docstring says and
  nothing else (`PostedIsStored`); sending back what was read changes nothing
  (`RepostChangesNothing`).
* Passes: the loops compute the operators the other modules use (`RepeatsAreRefused`,
  `FlattenedAsNested`, `RowsAreTheClosure`, `RoundTrips`).
* Schema: what it keeps by itself (`StoredGraphIsForest`, which it does not).
* Requests: no connection and no lock outlives its session (`NothingLeaks`); what needs no
  database is answered without it (`AnsweredWithoutPostgres`); nobody waits for ever
  (`RequestLifecycle`'s `EveryRequestEnds`).
* Statements: which writes are small enough to be carried (`OnlyLargeWritesAreRefused`); not
  all of them are (`NoServerError`, which does not hold).
* Migration: whole or not at all (`WholeOrNone`); a command fails only when another overtook
  it (`FailsOnlyWhenOvertaken`); no circle of locks (`NobodyWaitsForEver`).
* Start-up: never against a Postgres that is still being set up (`NeverRacesInitdb`); over
  another schema only if a command by hand has left 0001 after the container's own upgrade had
  it (`ServesOverItsSchema`); always to an end (`EveryStartEnds`); and a
  message that names the variable (`BadUrlNamesTheVariable`, which does not hold).

## 2. The modules

| Module | Models | Extends / instantiates |
|---|---|---|
| `Hierarchy` | row types; what the three pure passes return, as functions | |
| `HierarchyApi` | requests, answers | `Hierarchy` |
| `PostgresTables` | each statement as a function of the two tables; each constraint as a predicate; what agreeing tables are; the tests' oracle (`ClosureFromParentEdges`) | `Hierarchy` |
| `HierarchyStore` | the abstract store: each request takes effect in one step | `HierarchyApi` |
| `WritePath` | requests statement by statement, interleaved, with failures | `HierarchyApi`, `PostgresTables`; `HierarchyStore` as `Store` |
| `PayloadPasses` | the three passes as the loops they are | `PostgresTables` |
| `SchemaConstraints` | the tables under their constraints, any caller | `PostgresTables` |
| `RequestLifecycle` | requests from arrival to the end of their session: the pool, the lock's queue, Postgres going down and coming back | |
| `BoundParameters` | how many parameters each statement of a POST binds | |
| `SchemaMigration` | alembic commands statement by statement, among commands and requests | |
| `Startup` | the two containers from creation to serving | |
| `MCHierarchyStore`, `MCWritePath`, `MCPayloadPasses`, `MCPayloads`, `MCBoundParameters` | finite sets of payloads and shapes, symmetry | the module they instantiate |
| `HierarchyProofs` | lemmas about payloads, rows and tables | `PostgresTables`, `TLAPS` |
| `WritePathProofs` | the invariant of `WritePath`, and that it implements `HierarchyStore` | `WritePath`, `HierarchyProofs`; `HierarchyStoreProofs` as `Promises` |
| `HierarchyStoreProofs` | the invariant and the promises of the abstract store | `HierarchyStore`, `HierarchyProofs` |
| `PayloadPassesProofs` | that the loops compute what the other modules assume | `PayloadPasses`, `HierarchyProofs` |
| `RequestLifecycleProofs`, `SchemaMigrationProofs`, `StartupProofs`, `BoundParametersProofs` | the properties of these four modules | the module, `TLAPS` |

Some definitions are marked `\* mistake:`. They are plausible bugs, each paired with the
definition below it; substituting one must break the property that `mutants` in
`PROJECT.json` names.

### How `WritePath` corresponds to the code

`pc[c]` is the await at which the request of client `c` stands; there is one action per
await, carrying the synchronous code up to the next one.

| Action | Code |
|---|---|
| `Post`, `Get` | the two route functions are entered |
| `FlattenPayload` | `flatten_payload` returns, or raises `InvalidHierarchy` for a repeated id |
| `LockWrites` | `pg_advisory_xact_lock` is granted |
| `CaptureAncestors` | `fetch_ancestor_depths`, and the cycle check |
| `ReadRootParent`, `ReadDoomed` | `fetch_parent_id`; `fetch_descendant_ids(payload_ids) - payload_ids` |
| `UpsertNodes` | `upsert_nodes` with the root's own parent put back; then `if doomed` |
| `DeleteNodes` | `delete_nodes(doomed)` with its cascades |
| `DeleteClosure`, `InsertClosure` | the two statements of `replace_closure` |
| `ReadBack` | `get_hierarchy` inside the transaction |
| `Commit` | `commit()`; the lock goes with the transaction |
| `GetSubtree` | `get_hierarchy` of a GET and the 404 of the route |
| `Rollback`, `Respond` | the session closes; the response is sent |
| `FailStatement`, `LoseConnection`, `CommitInDoubt`, `ServerCrash` | a statement fails with the connection intact; the connection goes and Postgres ends the transaction; `COMMIT` is carried out and unconfirmed; uvicorn dies |

A transaction's writes are kept in `writes[c]` until it commits, and `VisibleNodes(c)`,
`VisibleClosure(c)` are the committed tables seen through them: READ COMMITTED. Each writing
statement is followed by the constraints it could violate; if one does not hold the action
becomes the `IntegrityError` path (`IntegrityRefused`, a 409). `NothingRefused` says this path
is never taken, so it is deliberately part of the model and not of the reachable states.

A GET's transaction holds no lock and writes nothing, so its later rollback or close is not
an action of its own when it succeeds.

### How the other modules correspond to the code

`RequestLifecycle` keeps, for each request, the place its handler waits at. `Proceed(r)`
collects the steps the event loop takes by itself.

| Action | Code |
|---|---|
| `Receive` | a request arrives; health, a body that does not validate and a payload that repeats an id are decided before any session opens a connection |
| `Connect`, `TimeOut` | the first statement of the session takes a connection, or has waited `pool_timeout` for one |
| `FetchSubtreeRows`, `LockWrites`, `Store`, `Commit` | the statements; `Store` is all of `WritePath` between lock and commit |
| `FailStatement`, `MeetClosedConnection` | Postgres refuses a statement; the connection turns out to be closed, and the pool's idle connections are given up |
| `GoDown`, `ComeUp` | Postgres stops, which ends its transactions and the lock; it accepts again |
| `Unwind`, `Respond`, `Close` | the session closes and then `errors.py` answers; a successful GET is answered first and closed after |

`SchemaMigration` has one object for each statement of `upgrade()` and `downgrade()`, in their
order, and one for the row of `alembic_version`; `touched[m]` is how far command `m` is.

| Action | Code |
|---|---|
| `Begin` | alembic reads the revision; at the target there is nothing to do |
| `Wait`, `Execute` | the next statement waits for a table or an object of another transaction; it is carried out, or refused because of what is there (`checkfirst=False`, no `IF EXISTS`) |
| `Commit`, `Die` | `with context.begin_transaction()` is left; the command is killed |
| `NameTable`, `EndRequest` | a request reads or writes a table, which locks it until its transaction ends |

`Startup` has a variable for each container. `InitDb`, `Accept`, `PostgresStops` are the
Postgres image, `CheckHealth` the `healthcheck` with its retries, `StartApi` the
`depends_on`. The command `alembic upgrade head && exec uvicorn` is four steps: `LoadSettings`
the import of `app.config` by `env.py` and the making of the engine, `ReadRevision` the
connection and what alembic finds in `alembic_version`, `Upgrade` the rest of the alembic
process, which finds nothing to do (`NothingToUpgrade`), commits (`CommitUpgrade`) or fails, and
`Serve` the shell going on to uvicorn. A commit may be carried out and the container stop all
the same: the answer was lost, or it was stopped before uvicorn. `MigrateByHand` is any other
alembic command that commits, in the container, from the host or from a newer image, between
any two of these steps; `ApiStops` and `UpAgain` are what operators and crashes do. `outcome`
is a history variable: no action reads it, and it only says whether 0001 has been left since
the container's upgrade had it.

`BoundParameters` runs the statements of one POST in order; a payload is the number of nodes
on each of its levels, which is all that the number of rows depends on.

`PayloadPasses` is one execution of the three passes. `FlattenLevel` is one round of the
`while` loop, `CloseOverNode` one of the `for` loop of `closure_rows`, `AttachRow` one of
`assemble_tree`'s; `Store` stands for the write and the read between them. The level of
`flatten_payload` is a set, since the code sorts the list before it looks at it, and what
`sort` and `ORDER BY` make of a set is `InOrder`: the one sequence of its members that runs as
the order does.

### Abstractions

* Ids are members of a small set of integers; only equality and order matter.
* A posted body is what `flatten_payload` makes of it, a `PayloadNode` per id. That the loop
  makes exactly that is what `PayloadPasses` checks. `PayloadsAssumption` is the interface
  between the two: a payload repeats an id, or `IsFlattened`. `AncestriesAssumption` is the
  other half, what `PayloadPasses` may be given as captured ancestors: one row for each, no two
  equally far, none of them posted (`CapturedIsAlwaysAncestry` proves it of `WritePath`).
* Request validation (422) and the wording of errors are left out: neither touches state.
* `Unavailable` is every 500 that comes from the database, `Broken` every 500 the service
  would cause by itself.
* A client that gives up and sends again is another member of `Clients`.
* A transaction still open in Postgres when the server dies is taken to be over before the
  restarted server reaches the database.
* The engine is made with SQLAlchemy's defaults (`app/lib/database.py` states none): five
  connections and ten of overflow, thirty seconds of waiting, no ping. `PoolLimit` is their
  sum, time is left out (`TimeOut` may happen whenever the pool is drained), and the idle
  connections are one flag: `stale` says that some of them are closed. A disconnect that is
  noticed gives up all idle connections of the pool, as SQLAlchemy does.
* FastAPI closes a dependency with `yield` after the response of a success, and before the
  exception handlers of a failure.
* A statement that must wait for a table is in line for it, and a newcomer waits behind it,
  as in Postgres. The deadlock detector of Postgres is left out, so a circle would show.
* `alembic_version` is its one row. Alembic's offline mode writes SQL to its output and
  touches no database.
* In `Startup` the statements and the commit of a migration are one step, which meets what
  others have committed since the revision was read: `SchemaMigration` shows that a migration
  is whole or nothing. A `DATABASE_URL` is one of six kinds.

## 3. What is checked

| Run | Instance | Shows |
|---|---|---|
| `store` | 1 client, 4 ids, all 116 hierarchies over them, and one that repeats an id | the promise itself is consistent: forest, authoritative below every mentioned node, nothing else touched, re-posting what was read is harmless |
| `write_shapes` | 1 client, 4 ids, every hierarchy on top of every reachable state | additions, removals, moves inside and between trees keep `node_closure` equal to the closure the tests' oracle walks; no constraint ever objects |
| `write_races` | 2 clients, 3 ids, all 18 hierarchies over them, all failures and a crash | the same under every interleaving of statements; what is read under the lock stays true; and `ImplementsStore`: no client can tell the service from `HierarchyStore` |
| `write_liveness` | 2 clients, 2 ids, 2 types, payloads that change types, fairness | every request is answered or dropped by a crash; a re-post that changes types, of the root too, stores them |
| `payload_passes` | every nesting of up to 4 nodes with ids from 4, repeats included, under 0, 1 or 2 ancestors | the loops compute what the other modules assume; no `KeyError` (it would be a deadlock) |
| `schema_alone` | 2 ids | expected violation, finding 1 |
| `request_lifecycle` | 3 requests of all five kinds, a pool of 2, timeouts, failures, restarts of Postgres, fairness | nothing leaks; health and refusals need no database; every request ends |
| `bound_parameters` | stars, chains and bushes on both sides of the limit, under 0 to 60 ancestors, dropping up to 65536 nodes | only a write that is large in a sense one can compute is refused |
| `large_payload` | one parent with 10915 to 10930 children | expected violation, finding 2 |
| `schema_migration` | 2 commands, 2 requests, deaths anywhere, fairness | the schema is whole or absent; only an overtaken command fails; no circle of locks |
| `startup` | 3 retries, all six kinds of URL, all revisions, Postgres and the container stopping anywhere, commands by hand anywhere, fairness | no race with initdb; no server over a schema its own upgrade did not leave there, unless by hand; every start ends |
| `malformed_url` | as `startup` | expected violation, finding 3 |

**Why these bounds.** Four ids are enough for each shape one write has to tell apart: a node
above the posted root, the root, a payload node that comes from elsewhere, and a stored
child of that node which must go; three are enough for two writers to disagree about one
parent. Two clients are enough for the races because all writers are symmetric and
only one can be past `LockWrites`. Symmetry is used on clients alone, and never in a run
with a liveness property. Three requests over two connections are the least in which the pool
is full of a holder of the lock and one who waits for it while a third wants a connection.
Two commands are the least that can overtake one another, and two requests let one hold a
table while the other stands behind the waiting command. In `BoundParameters` the number of
nodes is the code's own: the shapes lie where three times the rows pass 65535. In `Startup`
only reaching the number of retries matters, not the number. The proofs below do not depend on any
of the bounds.

**Deadlock** is checked in every run but `bound_parameters` and `large_payload`, whose one POST
ends. In `PayloadPasses` a finished pass stutters (`Finished`), so that a missing parent in a
lookup is the only way to stop.

**Fairness.** No request, command or `docker compose up` is assumed to arrive, and nothing
is assumed to fail, to time out or to recover.

* `WritePath`: weak fairness of each handler, since the event loop resumes every coroutine
  whose statement is done. `LockWrites` has strong fairness, since the lock is taken and
  released by others while a writer waits: Postgres grants an advisory lock in the order of
  its wait queue, so a waiting writer is not passed for ever.
* `RequestLifecycle`: strong fairness of `Proceed(r)`, for the same reason and because the
  pool's queue is first in, first out too. Postgres need not come back: then requests end in
  a 500.
* `SchemaMigration`: strong fairness of `Wait` and `Execute` (locks are granted in the order
  of the wait queue), weak fairness of `Commit`. A request that has named one table gets on
  to the other when it is granted; only one that has named both is assumed to end, so that a
  request which stands behind the command cannot escape a circle by giving up.
* `Startup`: weak fairness of `CheckHealth`, `LoadSettings`, `ReadRevision`, `Upgrade` and
  `Serve` (docker repeats the check, a started process runs), strong fairness of `StartApi`, whose condition may come and
  go.

### Findings

1. `README.md:210` of the repository and the comment at
   `alembic/versions/0001_create_nodes_and_node_closure.py:88` say that the unique index makes
   the stored graph a forest and that "no future caller can write around it". `schema_alone`
   finds a row whose `parent_id` is its own id, accepted by every constraint. The index
   constrains `node_closure`; nothing relates it to `nodes.parent_id`, as
   `tests/hierarchy_fixtures.py:97` says itself. The forest is kept by the cycle check of
   `store_hierarchy` (`CommittedIsForest` below).
2. `tests/test_error_contract.py:243` speaks of "no 500 for *any* reachable input", and
   `app/lib/hierarchy.py:103` says that deep payloads "should store, not raise".
   `large_payload` finds that a root with 10923 children is answered 500: its 21847 closure
   rows bind 65541 parameters in one statement. A chain of 209 nodes is refused for the same
   reason, because a chain has a row for each pair (`bound_parameters` has it among its shapes).
   `OnlyLargeWritesAreRefused` says what is safe.
3. `README.md:106` says that "an unset or malformed URL is a startup failure that names the
   variable". `malformed_url` finds a start that fails on a malformed URL without naming it:
   `config.py` checks that the value is not empty, and the engine, which refuses it, does not
   know the variable.

One more sentence is to be read with care. `README.md:32` says that "the server can never come up
against a schema it does not match: a failed migration stops the container". The second half is
what the code does, and `ServesOverItsSchema` what follows from it. The first half does not follow
when someone else runs alembic: nothing keeps the database at the revision the upgrade left,
neither between the two processes of the container nor while uvicorn serves, and the server does
not look. `ServesOverItsSchema` says that this is the only way.

## 4. What is proved

Every theorem is proved for all values of the constants, under the named assumptions of the
module that declares them and no other: ids are integers, null values are not ids, payloads are
what `flatten_payload` returns, bodies are trees, a pool has at least one connection, and the
like. TLC evaluates the same assumptions on every instance.

| Module | Theorem | States |
|---|---|---|
| `WritePathProofs` | `InvariantHolds` | `[]IInv` |
| | `TypesAreKept` | `[]TypeOK` |
| | `RepresentationsAlwaysAgree` | `[]RepresentationsAgree` |
| | `ClosureIsAlwaysTheOracles` | `[]ClosureIsTheOracles` |
| | `ReadsAlwaysHold` | `[]WhatWasReadStillHolds` |
| | `NothingIsEverRefused` | `[]NothingRefused` |
| | `PostsAreAnsweredAsPosted` | `[]AnsweredAsPosted` |
| | `CapturedIsAlwaysAncestry` | `[]CapturedIsAncestry` |
| | `WritePathImplementsStore` | `ImplementsStore` |
| | `CommittedIsForest` | `[]Store!StoredIsForest` |
| | `ServiceStoresWhatIsPosted` | `Store!PostedIsStored` |
| | `ServiceIgnoresReposts` | `Store!RepostChangesNothing` |
| `HierarchyStoreProofs` | `TypesAreKept`, `ForestIsKept` | `[]TypeOK`, `[]StoredIsForest` |
| | `PostsDoAsPromised` | `PostedIsStored` |
| | `RepostsChangeNothing` | `RepostChangesNothing` |
| `PayloadPassesProofs` | `RefusesTheRepeated` | `[]RepeatsAreRefused` |
| | `FlattensTheBody` | `[]FlattenedAsNested` |
| | `ClosesThePayload` | `[]RowsAreTheClosure` |
| | `ReadsBackThePosted` | `[]RoundTrips` |
| `RequestLifecycleProofs` | `TypesAreKept` | `[]TypeOK`, with it the limit of the pool |
| | `NothingIsLeaked` | `[]NothingLeaks` |
| | `NoDatabaseIsNeeded` | `[]AnsweredWithoutPostgres` |
| `SchemaMigrationProofs` | `TypesAreKept`, `SchemaIsWholeOrNone` | `[]TypeOK`, `[]WholeOrNone` |
| | `FailuresAreOvertakings` | `FailsOnlyWhenOvertaken` |
| `StartupProofs` | `TypesAreKept`, `NeverRacesInitdbHolds` | `[]TypeOK`, `[]NeverRacesInitdb` |
| | `ServesOverItsSchemaHolds` | `[]ServesOverItsSchema` |
| `BoundParametersProofs` | `SmallWritesAreCarried` | `[]OnlyLargeWritesAreRefused` |

All are of the form `Spec => …`.

### The write path

None of its properties is inductive: that an insert is accepted depends on what was read five
statements earlier, and on what the same transaction has written since. `IInv` adds, for each
client: past `LockWrites` it holds the lock (`HoldsLock`); its payload is a flattened one
(`KnowsRequest`); its locals, and the outcome of the cycle check, are what the *committed*
tables say (`ReadsHold`); and `writes[c]` is a particular function of the committed tables for
each position of `pc` (`HasWritten`), so that just before the commit the transaction sees
`NodesStored` and `ClosureStored`.

`OthersUntouched` and `Bystander` show that a step of one client keeps the invariant of every
other: the tables change only in `Publish`, whose client holds the lock, so no other client is
at a locked statement. The remaining lemmas take one action each.

What happens to the tables is in `HierarchyProofs`, free of any interleaving:

1. `AncestorsEquation` shows that the recursive function of `closure_rows` satisfies its own
   equation, by exhibiting the solution (chains of parents); `DepthsWithinPayload` and
   `RowsStated` then say which rows are stated, by induction on the depth (`SetInduction`,
   from the well-foundedness of `<` on the naturals).
2. `AgreesIsWalks` restates agreement row by row; `RowsCompose` shows that rows of agreeing
   tables compose.
3. `NothingHangsFromTouched`: nothing outside the payload and what is beneath it hangs from
   inside; and if the cycle check passed, neither does the root. This is where the comment
   "that one check is the whole cycle test" is proved.
4. `ParentsStayStored`: the upsert and the delete are accepted in the order they are made.
   `StoreKeepsAgreement`: tables that agree before a write agree after it.
   `InsertIsAccepted`: hence every constraint accepts the insert.
5. `SubtreeRowsAssemble`, `AssembledTreeIs`, `PostedIsReadBack`: rows of agreeing tables
   assemble, and after a write they assemble to the posted hierarchy.
6. `AgreementIsTheOracles`: agreement is stated edge by edge, the tests' oracle walks whole
   paths. The rows of agreeing tables solve the recursion of `WalkUp`, so its walks are the
   rows; and no row is longer than there are nodes, because the rows up from one node lead to
   different nodes. That needs `nodes` to be finite, which is an invariant of its own
   (`NodesAreFinite`). So an agreement determines the closure.

### The refinement

The abstract forest is the committed `nodes`; the abstract answer is `Shown`, the answer of a
request that is past the step where it takes effect. `RInv` adds to `IInv` that the answers
under way are the ones that step gave (`KnowsAnswer`). What the code does in several statements
has then to be what the store does in one:

1. `DescendantsAreFetched`, `SubtreeIsAssembled`: closure rows of agreeing tables give the
   descendants, and the subtree, that the store finds along `parent_id`.
2. `CheckFindsCycles`: the one test against the captured ancestors refuses exactly the
   payloads the store refuses.
3. `StoredAsApplied`: upsert, delete and cascades leave the table the store's `Apply` does.
4. One lemma `…Follows` for each action: POST takes effect at `Commit` (or when the commit is
   carried out and not confirmed), or is refused at `FlattenPayload` or `CaptureAncestors`,
   GET at its one `SELECT`; every other step is a stutter, or an answer on its way.

`CommittedIsForest` follows from agreement alone (`AgreeingTablesAreForests`).

### The abstract store and what it promises

`HierarchyStoreProofs` knows no closure: what hangs from some ids is the least set that holds
them and every child of its members (`DescendantsAre`, `DescendantsAreLeast`).

1. `RootHangsFromUntouched`: when the payload would form no cycle, the stored parent of its
   root is outside all that the payload mentions and all that hangs from it.
2. `PayloadStandsAlone`: so after `Apply` nothing outside the payload hangs from inside, every
   payload node but the root hangs from inside, and the root from outside.
3. `ApplyKeepsForest`: no id is above itself, shown by a set that holds the id and every child
   of its members, and not its parent.
4. `PayloadIsBelowItsRoot`, by induction on the depth: beneath the posted root is the payload,
   all of it and nothing else. `OnlyTheMentionedChanges` is the other half of the docstring,
   `RepostIsIdle` the case of a payload that is what is already there.

`WritePathProofs` instantiates these theorems under the refinement mapping (`Promises`). With
`WritePathImplementsStore` they become theorems about the service: `ServiceStoresWhatIsPosted`
and `ServiceIgnoresReposts` say of the committed table `nodes`, changed by interleaved
statements that may fail, what the docstring says of one call.

### The passes

`PayloadPassesProofs` proves that `WritePath` may use `IsFlattened`, `ClosureRowsOf`,
`Assembles` and `AssembleTree` in place of the loops, for bodies of any size. `IInv` is one
invariant for each loop.

1. `OrderExists`, `InOrderIs`: a finite set with a strict order has its one sorted sequence.
   A member's place is the number of members before it, and no two have the same
   (`RanksAreDifferent`).
2. `FlattenInvariant`: there is a function `deep` on the positions listed so far which counts
   down from the root, `nodes` lists exactly those, once and in order, and the level is what was
   not listed and hangs from what was. `RoundKeepsFlattened` extends `deep` by a level. At the
   end nothing waits, so nothing was left out (`NothingIsLeftOut`, by induction on the position);
   a level that repeats an id is two positions of the body with one id (`RefusedIsRepeated`).
   `PayloadIsFlattened` gives `WritePath` the assumption it makes.
3. `CloseInvariant`: for each node handled so far the list of its ancestors runs upwards one
   edge at a time and is `AncestorsWithinPayload` of it, and no pair has been stated twice:
   within a node's rows distances differ, and captured ancestors are not posted
   (`RowsOfOneNode`, `AncestriesAssumption`). What the loop is given is such a chain whenever
   `WritePath` calls it: `CapturedIsAlwaysAncestry`, from the rows of agreeing tables.
4. `ReadIsThePayload`: of those rows the ones beneath the root are the payload, each at its
   depth, so the read returns the payload in `(depth, id)` order (`RowsInOrderAre`).
   `AssembleInvariant`: what was read so far is built, each node with exactly its children read
   so far, in ascending order. `RowsGoDown` shows that a parent always comes first.

### The others

`NothingLeaks` does not speak of what kind of request can be at which place, on which it
depends: `KnowsItsKind` adds that. `WholeOrNone` needs that a downgrade and a request never
hold the same table (`LocksExclude`), that a command which is not running has changed nothing
(`IdleTouchesNothing`), and that a command is done when it has touched seven objects because
there are only seven (`EverythingIsSeven`). `FailsOnlyWhenOvertaken` follows from `WholeOrNone`
and from what a running command does being what the revision it found calls for
(`RunsFromWhatItFound`): a command fails by a refused statement alone, a statement is refused
because of what others committed, and that came whole, with its revision.
`NeverRacesInitdb` needs that a healthy Postgres has been up, and stays set up
(`HealthyMeansWasUp`). `ServesOverItsSchema` needs that an upgrade which read 0001, and so will
have nothing to do, still finds the database there unless the leaving of it is on record
(`FoundIsRemembered`); an upgrade that read nothing has to create what it needs, and what others
have committed meanwhile refuses it. `OnlyLargeWritesAreRefused` is arithmetic: `TotalIsLastSum` shows
that the recursive function of `Total` has the sums it should, and `WeightedTotalIsBounded`,
by induction on the levels, that the closure of a payload has at most as many rows as it has
nodes, times the depth at which the deepest of them is stored.

### Only model-checked

* Liveness (`EveryRequestEnds` twice, `NobodyWaitsForEver`, `EveryStartEnds`) and fairness are
  out of the prover's reach.
* That no lookup of a parent is a `KeyError` in `PayloadPasses`, and that nothing else stops
  where it should not, is a deadlock to TLC. The invariants above imply it for the lookups, but
  it is a statement about `ENABLED`.
* The three findings are counterexamples on instances, which need no proof.

## 5. Plan

Done: every module and run above; as theorems all invariants and action properties of the
passing runs, and the refinement.

What could be added:

1. `RequestLifecycle` takes the statements of a POST between lock and commit for one step, and
   `WritePath` leaves the pool out; that a `WritePath` behaviour is one of `RequestLifecycle`
   with a pool that is never drained could be stated as a refinement.
2. The start-up over the migration in the same way: `Startup`'s `CommitUpgrade` and
   `MigrateByHand` are one step each because `SchemaMigration` shows that a command is whole or
   nothing.

### Not modelled, and why

* The Go server is not part of the service: it is the exercise's starting point.
* The end-to-end driver and the fixtures are test code; only their oracle is taken from them.
* What makes a body invalid, and the wording of errors: a request is refused before it has
  any effect, and no property is about the text.
* How deep an answer the JSON serializer can write, and how much memory a payload takes: these
  are limits of libraries, which the code neither states nor handles.
