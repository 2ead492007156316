# Stormweaver in TLA+

Stormweaver runs randomized SQL, DDL included, from many worker threads
against PostgreSQL or a MySQL-family server, and keeps in memory a catalog of
the tables it believes exist.  Four promises make it a *test* tool and not
only a load generator:

1. the shared catalog survives any interleaving of its users, and it describes
   the server's schema well enough for the drift oracle (`validate_metadata`)
   to mean something;
2. a transaction never leaks work that may still roll back into that catalog,
   and never leaves a connection in a state the next action cannot use;
3. a worker survives what the server does to it, ends when its time is up, and
   counts what it did exactly once;
4. every server that a run launched is accounted for, its end recorded as what
   it was: a crash is never filed as a clean stop.

This directory models the code those promises rest on, checks the models with
TLC and proves the parts that matter most with TLAPS.  Paths below are relative
to the repository.

- [1. The system](#1-the-system): inventory of components
- [2. The modules](#2-the-modules): which module models what
- [3. The runs](#3-the-runs): what is checked, bounds, fairness
- [4. What the runs found](#4-what-the-runs-found)
- [5. The proofs](#5-the-proofs)
- [6. What is not modelled](#6-what-is-not-modelled)
- [7. The plan](#7-the-plan)

---------------------------------------------------------------------------

## 1. The system

One process.  A *scenario* (Python, free-threaded) builds a `Workload`, which
owns N `RandomWorker`s.  Each worker has one SQL connection, a copy of the
action registry, a random stream, statistics, and a thread.  All workers share
one `metadata::Context`: catalogs of tables.  The scenario's own thread creates
the initial tables, starts and joins the workers, stops and starts the server,
edits registries, and asks the drift oracle between cycles.

| component | state | operations | interacts with | hard |
|---|---|---|---|---|
| **Catalog, Registry** `metadata/catalog.hpp` | `slots_`, `sampling_`, `names_`, `nextId_` | insert, update by delta, erase, randomPick, byId, byName, snapshotAll, reset | every DDL/DML action, the oracle | all threads at once; snapshots outlive their record; three indexes to keep in step |
| **TxnBuffer, CatalogView** `metadata/context.hpp` | op-log `log_`, overlay `local_`/`erased_` | insert, update, erase, mark, rollbackTo, publishAll, merged reads | one TransactionAction; the catalog below | replay over a catalog that changed meanwhile; publish is many calls |
| **TransactionAction** `action/transaction.cpp` | locals of `execute()`: `inTrx`, guard, savepoints, marks, outcome recorder | BEGIN, sub-actions in three branches, savepoint recovery and rewinds, COMMIT/ROLLBACK | server session, TxnBuffer, DDL/DML actions, statistics | a dozen exits; implicit commits; lost answers |
| **DDL actions** `action/ddl.cpp` | none between calls | create/drop/alter/rename table, create/drop index, create/drop partition | catalog (snapshot, then delta), server | decide, SQL by name, publish by id: everyone else runs in between |
| **DML actions** `action/dml.cpp` | none | insert, select, update, delete, own transactions | catalog (read), server | own BEGIN/COMMIT only outside a transaction |
| **Table, normalize** `metadata/table.*` | a record | deltas, `removeReferencesTo`, normalize | DDL, oracle | dangling references |
| **Populator, discovery** `metadata_populator.cpp`, `schema_discovery/` | pending foreign keys, during a call | rebuild a catalog from the server: list, five queries for each table, second pass | oracle, scenario | six statements by name, each of which may fail; two dialects to invert |
| **ActionRegistry** `action/action_registry.cpp` | vector of (factory, weight) under a mutex | insert, remove, setWeight, totalWeight, lookupByWeightOffset, copy, use | worker thread draws while the scenario edits | two critical sections per draw |
| **Worker, RandomWorker** `workload.cpp` | connection, thread, `connectionAttempts`, clock | run_thread, join, reconnect, create_random_tables, validate_metadata | registry, connection, statistics | lost connections, exceptions out of a thread |
| **Statistics** `statistics.cpp` | per action: starts, results, rows, transactions | start, record*, reset, merge | worker loop, connection's observations | counted once, under the right name |
| **SQL connection** `sql_variant/` | handle, `currentAction_`, observations, query count | executeQuery, drain, reconnect | server, worker | what is in flight when it is lost |
| **Dialects** `sql_dialect/` | none | capability flags, SQL text | DDL | the flags decide how deltas must mirror the server |
| **Checksums** `checksum.cpp` | none | per-table checksums to a file | server, catalog | |
| **Query generator** `querygen/` | copy of the catalog, alias counter, recursion | generate, generatePkSelect, generatePredicate, render | SELECT, UPDATE and DELETE actions; the catalog, copied once | what each of three kinds of nested query may see; trimmed and reshaped queries; types that are tags |
| **Session variables** `action/variable.cpp`, `variables.py` | weighted list | SET of a random variable | registry, server | |
| **Custom, composite, Python actions** `action/custom.cpp`, `composite.hpp`, `py_action.hpp` | callable or list of factories | execute in order | worker thread, interpreter | exceptions of any type |
| **Random, logging, flags** | stream per worker | | everyone | |
| **Python Workload** `stormweaver/workload.py` | `_live`, `_cycle`, `_reports` | start, wait, run: construct, launch, join, report | C++ worker, node, interpreter | a start that fails half-way; an interrupted wait; a context left in mid-cycle |
| **Server node** `backends/`, `testing/node.py` | `_session`, `_proc`, `_default`; pid file, outcome file | start, wait_ready, stop, kill, reap, restart, poll_start, close | server and tool processes, scenario | a server that ends or hangs at any moment; handle, pid file and port naming different processes |
| **Clusters, fixtures** `testing/` | nodes | replication set-up, sync waits, fixtures | node | |
| **Wrappers, events, logs** | log records | valgrind/rr/gdb command lines | node | |
| **Keyrings, TDE** | external key servers | set-up | node | |
| **Scenario, CLI, configuration** | arguments | phases of a run | workload, node | |
| **Bindings** `bindings/` | thread states | nanobind glue; release and attach | worker threads, interpreter | a thread that waits attached stops every collection |

What makes each correct, in short:

- *Catalog*: the three indexes agree; an accepted edit is never undone; an id,
  once gone, never means another object; a name answers with its last publisher.
- *TxnBuffer*: the transaction sees what its COMMIT would publish, and that is
  what it publishes.
- *TransactionAction*: only durable work reaches the catalog; a commit is seen
  in part only while it is being published, and then its first tables; the op-log
  mirrors the server's open transaction through every recovery; no exit leaves a
  transaction open; one truthful outcome per transaction.
- *DDL*: concurrent actions merge: at rest, the catalog normalizes to what
  discovery would find, with no dangling reference and limits overshot by no
  more than the other workers.
- *Registry, worker, statistics*: weights decide draws; only named causes end
  the process; each result, row and transaction counts once under its name; a
  run ends.
- *Server node*: a launched server has one line in the outcome file or is still
  held; the line is true; no call forgets a running server, takes another
  session's for its own, or waits for ever.
- *Query generator*: a query is one the server accepts: every column reference
  resolves where it stands, operands and both sides of a set operation are of
  one type family, a locked query is lockable, nesting is bounded, and the
  subqueries of an UPDATE do not read its target.
- *Python Workload*: every worker that was started is joined before the call
  that started or awaited it gives up; a cycle's reports are final, complete
  and filed under their own cycle; a name is used once; no call waits for ever.

The hazards, each at the line where it bites and with the properties that
would catch it, are the list `hazards` of `PROJECT.json`.

---------------------------------------------------------------------------

## 2. The modules

```
 CatalogOps --- extended by --- Registry, TxnBuffer     TxnBuffer --- TxnBuffer_proofs
 Registry   --- extended by --- Catalog, Discovery
 Catalog, Discovery --- Metadata_proofs                 CatalogAbs <== Catalog
 TransactionAction --- TransactionAction_proofs
 Ddl --- Ddl_proofs
 ActionRegistry --- extended by --- RandomWorker --- RandomWorker_proofs
 ServerNode --- ServerNode_proofs     Workload --- Workload_proofs
 QueryGen --- QueryGen_proofs
```

`<==` is refinement (`INSTANCE` under a refinement mapping, the abstract
specification a `PROPERTY`).  Each `MC...` module only gives a component its
model values, definitions for constants and, where sound, its symmetry.

### CatalogOps, Registry, Catalog, CatalogAbs — `metadata/catalog.hpp`

`CatalogOps` has one operator per method of `Catalog<T>`, over a record of the
class's members (`slots`, `sampling`, `names`).  Each method takes the lock
once, so each is one atomic step of the modules that use it.  `erase()`'s
swap-remove and the ownership test of `names_` are there as the code has them.
`Registry` declares the state that `Catalog` and `Discovery` share: a catalog and
the counter its ids come from.

`Catalog` lets actors use it the way every DDL action does: take an id or pick
a snapshot; run SQL with no lock held; publish by id.  A record is a name and
the set of edits merged into it, which is what a lost update would show in.
`Reset` is `validate_metadata`'s reset, which may come at any time here and
keeps `nextId_`.

`CatalogAbs` is what users rely on: a map from ids to records, and a name index
that forgets an entry as soon as it is no longer true.

### TxnBuffer — `metadata/context.hpp`

One transaction's op-log and overlay over a catalog (with `CatalogOps`'s
methods) that other workers (`Rival...`) change through the same methods.
`RollbackTo` truncates and rebuilds; `BeginPublish`/`PublishOp`/`EndPublish`
replay the log one locked call at a time, with rivals in between.  `clash`
records the ids a rival changed after the log wrote them: about those nothing
is promised, and nothing is claimed.  `Replay` is a whole publish at one moment,
`Retaken` one op of a rebuild.

### TransactionAction — `action/transaction.cpp`

`TransactionAction` runs `execute()` again and again on one connection.  The
server is a session with its transaction state (none, open, or PostgreSQL's
failed), its uncommitted work, and its savepoints; each statement has the set
of results it may have: success, an error with the server's reaction (a failed
PostgreSQL transaction; MySQL's rolled-back deadlock; MySQL's implicit commit,
also by a DDL statement that then fails), or a connection that is gone before
or after the server did the work.  Sub-actions are the *programs of statements*
that `ddl.cpp` and `dml.cpp` send, including the failures those swallow.  `pc`
is where `execute()` is; one action per statement, handler or guard destructor:

| code (`transaction.cpp`) | actions |
|---|---|
| BEGIN, guard and recorder | `Begin` |
| draw of a sub-action, choice of its branch | `Draw`, `TakeSavepoint` |
| sub-action's statements | `RunTable`, `RunRow`, `RunSet`, `RunUnchecked`, `RunWrite`, `RunRaise`, `RunOwnBegin`, `RunOwnCommit`, `OwnRollback`, `SubReturns` |
| MySQL DDL in mirror mode | `CountFailure`, `CloseDdl`, `PublishOp`, `ImplicitCommit` |
| savepoint mode | `Rewind`, `NoRewind`, `RecoverSavepoint` |
| abort mode, lost connection, unknown exceptions | `Rethrow` |
| end of the transaction | `Commit`, `PublishOp`, `EndPublish`, `Rollback`, `EndTail`, `Leave` |

`publishAll()` is one locked catalog call per op of the log, after a COMMIT and
after an implicit commit, so `PublishOp` is one op, and what is left of `log` is
still to come (`Publishing`).  Between two ops the other workers see part of a
commit: `PartialCommitsUnderWay` says which part, and for how long (docs/transactions.md
says they do not: section 4).  What other workers *change* in between is `TxnBuffer`'s subject.
On MySQL every DDL action of a transaction takes the mirrored branch and no DML
action writes to the catalog, so an implicit commit finds the log empty.

### Ddl — `action/ddl.cpp`, `metadata/table.*`, `metadata_populator.cpp`, discovery

Several workers in autocommit.  Each action is `Pick` (everything it decides
from the catalog: limits, snapshot, columns, names), its SQL (addressed by
*name*, against the server's own tables, with what each family does to indexes,
foreign keys and partitions), then its publish (a delta by *id*, one action
`Publish...` per kind, most of them a `Delta` on the record that is `Current`),
then what follows it (`Recheck` of the referenced table after a create,
`Sweep`/`Unref` of references after a drop).
Other workers run between any two of these.  `Refused` is a statement that
failed without effect, which is always possible.

The drift oracle is `Valid`: `Normalize(catalog) = Normalize(Discovered)`, with
`Discovered` what discovery and the populator make of the server's tables.

docs/determinism.md names divergence of multi-worker runs a known limitation.
The model makes that precise: `clashes` records four named races (`Clash`) and
the two statements that a server may leave half done (`HalfDone`: an invalid
index, a partitioned table without partitions), and `NoDriftWithoutClash` says
that without them there is no drift.

A draw never repeats a number in the model: the program draws names and numbers
from ranges of 10^6 and more and does not handle repetitions.

### Discovery — `metadata_populator.cpp`, `schema_discovery/`, `workload.cpp`

What Ddl's oracle takes as one function, here query by query.  A call
(`Discover` or `Validate`) lists the tables, and then asks five questions by
name about each; `call` is a record of where it is and what it has read.

| code | actions and operators |
|---|---|
| `discover_existing_schema()`; `validate_metadata()` with its reset | `Discover`, `Validate`, `Ended` |
| `discoverTables()` | `discoverTables` |
| `convertCompleteTable()` with the five queries | `ReadColumns`, `ReadIndexes`, `ReadConstraints`, `ReadPartitionKeys`, `ReadPartitions` |
| insertion with a new id; the handler for one table | `ReadPartitions`, `Fail` |
| second pass over the foreign keys | `Resolve`, `Resolved`, `Finish` |
| `normalize()`, `resolveTargetName()` | `normalize`, `Normal`, `Target` |

The server holds tables as the metadata would describe them.  Rows of the
catalog queries are computed from those by what the dialect's DDL says and what
the server makes of it (`PgColumnRow`, `MyColumnRow`, `IndexRows`,
`Constraints`, `PartitionNames`), and read by what the discoveries do with them
(`PgColumn`, `MyColumn`, `discoverIndexes`, `applyConstraints`, ...): that the
two are inverses is a consequence, checked by `Faithful` and proved.  `ForeignDrop`,
`ForeignRename` and `ForeignAlter` are a session whose worker is gone but whose
statement the server still carries out.  `config.has` and `config.had` are the
server's tables and those the catalog is first made from, of every pair.

### ActionRegistry, RandomWorker — `action/action_registry.cpp`, `workload.cpp`, `statistics.cpp`, `sql_variant/generic.cpp`

`ActionRegistry` has the registry as a sequence with its operations and the
weighted lookup.  `RandomWorker` has the worker's thread (`thread` says where
its loop is), its connection with the observations it collects, the statistics
they are drained into, and the two others involved: the scenario's thread
(`RunThread`, `RunThreadAgain`, `Join`, `Utility`, `ReconnectBetweenRuns`,
`Insert`/`Remove`/`SetWeight` on the registry) and the server
(`LoseConnection`, `StopServer`, `StartServer`).  `terminated` is the process
after an exception left the thread's function.

| code (`workload.cpp`) | actions |
|---|---|
| prologue of the thread's function | `Begin` |
| loop condition; total weight and draw of an offset | `Draw` |
| lookup of the offset (another critical section), start of the action | `FindAction` |
| the action's statements; its result and handlers | `Statement`, `Finish` |
| handler of a lost connection | `HandleGone`, `Reconnect` |
| drain of observations into statistics | `Drain` |
| epilogue | `Epilogue` |

The constants `Edits`, `Outages` and `StartTwice` say what the scenario and the
server may do in an instance, so that the causes can be told apart.

`use()` copies a registry over the worker's without the source's lock and
writes the target's vector without the target's (`action_registry.cpp:274`).
Between `UseBegin` and `UseEnd` (`copying`) a thread that reads the vector, in
its draw or its lookup, has undefined behaviour.  `TornRead` is the outcome that
a reallocated vector makes likely, the end of the process; where the two do not
meet, `Replacement` is the registry the worker goes on with.

### Workload — `stormweaver/workload.py`, `scenario.py`, `bindings/`

A scenario's main thread goes through the Python code of `start()`, `wait()` and
`run()`; `pc` is where.  Each worker is an object with a thread of its own,
whose loop is reduced here to where it is with respect to the interpreter:
`native` C++ code, waiting to attach (`toPython`, `toConnect`, `toLog`), attached
(`python`, an action in Python; `connect`, the connector callable; `log`, the
thread's last message), or finished.  A message of the core attaches because
`log.py:80` gives it a sink in Python (`logging.cpp:122`); those in the loop are
the same class of state as an action in Python, the last one (`workload.cpp:258`)
comes when there is no more action.
The interpreter is free-threaded: attached threads run in parallel, and a
collection stops the world, which takes every attached thread's consent.

| code | actions |
|---|---|
| `start()`: guard and cycle number; construction, `worker_setup`, `run_thread()`, list of the started | `CallStart`, `Construct`, `Setup`, `Launch`, `AppendStarted`, `Publish` |
| its `except`: join what was started, raise | `StepFails`, `Unwind` |
| `wait()`: take `_live`; join all; capture; statistics files | `CallWait`, `EnterWait`, `Join`, `Capture`, `WriteCsv` |
| `run()`: reset, cycles | `CallRun`, `Loop` |
| the scenario: an exception handled or not, its context left, the server restarted | `Interrupt`, `Handle`, `Leave`, `StopServer`, `StartServer` |
| frames that go: `~RandomWorker()` | `Destroy` |
| a worker's thread; `py_action.hpp` | `Act`, `WantPython`, `Attach`, `Detach`, `Finish` |
| a collection | `StopTheWorld`, `ResumeTheWorld` |

`Released` names the places where the main thread waits for a worker detached
from the interpreter: `join()` is bound so (`module.cpp:696`), the destructor is
not.  `provoked` records what the scenario did that the code does not promise to
survive: a KeyboardInterrupt, a context left without `wait()`, a server taken
from running workers.

### ServerNode — `backends/base.py`, `postgres.py`, `mysql.py`, `testing/node.py`, `scenario.py`

The harness (one thread) makes call after call; `op` is the call and `at` is
where in it the thread is.  Around it a server process per session, and under a
tracer a tool process per session, come up, hang, crash and end on their own.
What the harness knows of them is three things that may disagree: the `Popen`
handle (`proc`, whose exit is `code`), the pid file (`pidfile`), and whoever
listens on the port (`Up`).

| code | actions |
|---|---|
| `start()`: guard, `Popen` | `AlreadyStarted`, `Spawn`, `SpawnFails` |
| `wait_ready()`: ask, look at the child, deadline | `Ready`, `NotReady`, `StillRuns`, `ServerExited`, `NotReadyInTime` |
| `stop()`: pg_ctl by the pid file, mysqladmin by the socket | `AskToStop`, `RefuseMode` |
| `kill()`: the child, or the pid of the pid file | `Kill`, `KillFails` |
| `_reap()`: wait, or kill and wait; `_record_outcome` | `Reap`, `ReapByForce` |
| calls of `TestNode` and of a scenario; the end of its `with` block | `Call`, `Close`, `Connect` (`_conn()`), `Check` (`is_running()`) |
| the clocks of `wait_ready`, `_reap`, `poll_start` | `Expire` |
| server and tool | `WritePid`, `ComeUp`, `FailToStart`, `Crash`, `ShutDown`, `ToolEnds` |

`Raise` is an exception out of `start()`: it ends the call, or `poll_start()`
swallows it and tries again.  `Stopped` is what the caller of `stop()` or
`kill()` goes on with.  A configuration is a family, a driver (`TestNode` or a
scenario's context) and a kind of wrapper: none, a prefix that becomes the
server (numactl, valgrind), or a tracer whose child the server is (rr), so that
killing the tool need not kill the server (`severed`).

### QueryGen — `querygen/generator.cpp`, `ir.hpp`, callers in `action/dml.cpp`

`genQuery()` and `genBool()` call each other.  The variable `stack` holds the
calls of `genQuery`, a record per query under construction with its `step`; each
stage is an action, a nested call pushes a record and a `Return...` action gives
its query to the caller, trimmed or reshaped as the code does.

| code (`generator.cpp`) | actions |
|---|---|
| `find_random_table`; other workers' DDL; constructor | `Ask`, `Others`, `Generate`, `NoQuery` |
| CTE, its synthetic table | `CteBody`, `NoCte`, `ReturnCte` |
| FROM and the join loop | `Seed`, `JoinOn`, `JoinCross`, `NoSecondCross`, `NoMoreJoins` |
| select list | `SelectKey`, `SelectAggregates`, `SelectColumns` |
| WHERE, `genBool` | `Where`, `NoWhere`, `Combine`, `Test`, `EndWhere` |
| `genSubqueryBool`, scalar operand | `NestTest`, `NestOperand`, `ReturnExists`, `ReturnIn`, `ReturnOperand` |
| ORDER BY, LIMIT, DISTINCT; set operation | `Ending`, `SetOp`, `NoSetOp`, `ReturnRhs` |
| lock and limit of a key query | `Send` |

An expression is not kept as a tree: `genScalar` and its like are the *sets* of
what can be at the end of one path down the tree, with the tag it carries, the
type the server gives it, the column it reads and what `%` is applied to on the
way.  No property relates two paths of one expression.  A predicate is the set
of its terms.  The generator's `outer` and `whereScope` parameters are in the
records; the properties do not use them but define from the stack alone what a
query may see (`Enclosing`).

---------------------------------------------------------------------------

## 3. The runs

The passing runs; state counts are approximate.

| run | instance | what it shows |
|---|---|---|
| `catalog` | 2 actors, 2 names, 3 ids (symmetric); 243k states | indexes consistent, no lost update, no reused id; implements `CatalogAbs` |
| `txn_buffer` | 2 names, 1 part, 1 old table, 2 ids, log of 3, 1 rival change; 570k | the view is the replay of the log; publish delivers what was seen; merged reads agree |
| `transaction` | PostgreSQL: 2 transactions of up to 2 sub-actions, 1 of up to 4; MySQL: 2 of up to 3; 1.5M | durability, no open transaction, op-log and savepoints in step with the server, truthful outcomes, no drift without a lost connection; a commit is seen in part only while it is being published, in order |
| `ddl` | PostgreSQL and MySQL: 1 worker with every action, 2 workers with every pair of actions, longer histories of 2 workers on names, foreign keys and partitions; 2.4M | the catalog drifts only after a named race; no dangling reference; limits; two columns stay |
| `worker` | 2 runs, 2 actions of 1 factory and an edit that inserts, removes, re-weights or replaces, 2 losses, outages, second starts; 624k | each result, row and transaction counted once, utility queries never; only known causes end the process, or a run early; draws respect weights; every run ends (liveness) |
| `server_node` | both families, drivers and all wrappers; 3 sessions, 4 calls; 1.1M | sessions recorded once and truthfully, no running server forgotten, answers from the right session, every call returns (liveness) |
| `query_gen` | eleven configurations, each with some parts of the generator on: joins (2), cross joins, aggregates and windows, groups, key queries, CTE, set operation, nesting (2), trimming, AND/OR, predicates of DML; 1.2M | every query is one the servers accept: scope, families, shape, locks, nesting, target not read |
| `discovery` | both dialects; catalog and server from every pair of 14 sets of tables, 2 calls, 1 failed query, 2 foreign changes; 154k | a discovery records what it could read exactly as it is; `validate_metadata()` accepts just when catalog and server agree on what was read |
| `workload` | 2 workers, 2 cycles, as start and wait or as run; 1 interrupt, 1 collection, 1 restart; 1.0M | no thread is left running, reports are final and complete, names are unique, only what was provoked ends the process or stops the interpreter, every call returns (liveness) |

A module whose instances differ in kind takes a *set* of them as a constant
(`Setups` of `TransactionAction`, `Configs` of `Ddl`, `QueryGen` and `Discovery`) and `Init` chooses one,
which never changes: what a process is configured with.

### Why the bounds are enough

- *Catalog*: three ids make swap-remove meet the last, a middle and the only
  element; two names make a rename land on a taken name and be overtaken; two
  actors make a publish come from an old snapshot.  The proofs lift all three.
- *TxnBuffer*: a log of three holds insert–update–erase of one object, or two
  objects with a rollback in between; one rival change may fall before, into or
  after the log's writes and between any two ops of a publish.  The proofs
  lift all three.
- *TransactionAction*: one transaction's four savepoints allow a rewind over
  several, further work and a recovery to one that the rewind kept.  Two
  transactions show what an exit leaves to the next one on the connection.
  The proofs lift both bounds, for all four properties.
- *Ddl*: a race is between two actions in flight, so two workers suffice, and
  `Pairs` has every pair of actions, on up to two tables (three with the
  overshoot), once with partitions and once with columns to drop.  Two draws
  (`maxDraws`) are a table and another table, index, column, name or partition;
  `Longer` has three where the third makes a difference: a create against the
  drop of its target, a partition against renames.  One worker alone (`Alone`)
  takes ALTERs of two clauses and partitions that come and go.
  The proofs lift all of these, for all three properties.
- *RandomWorker*: `MaxReconnects = 1` and two losses reach the last permitted
  reconnect and the loss after it; one edit, which may fall between any two
  critical sections, makes the registry empty, longer, or weigh nothing.  The proofs lift every bound but
  those of `RunEnds`.
- *ServerNode*: two sessions let a server outlive the call that launched it and
  meet its successor (the lock, the port, the pid file); the third is what a
  restart after that finds.  Four calls hold a start, a kill or stop, and what
  follows a failed one.  The proofs lift both bounds.
- *QueryGen*: tables of one or two columns have each type, a foreign key, and a
  pair without columns to join on.  Two joins make a second cross join and a
  base other than the first table; two levels of subqueries make a correlated
  reference over two queries; one AND makes two terms.  A select list has one
  plain item and an expression (`maxPicks`; two groups in `Groups`), of which
  the properties look at each alone.  The probabilities 0 and 100 turn parts
  off: no two parts that are never on together share state but through the
  select list's types and the scope, which every configuration has.  The proofs
  lift all of these, for all five properties.

- *Discovery*: the sets of tables have every column type, both orders of a
  two-column index, foreign keys to tables listed later and earlier, in a chain
  and dangling, and partitions with a gap, alone and referenced.  Two calls show
  what one leaves to the next; one failed query falls on any table and any
  question; two foreign changes rename a table and change another, or the same.  The proofs
  lift all of these.

- *Workload*: two workers give a start that fails after one was launched, a join
  of one while the other still runs, and two that wait for the interpreter; two
  cycles give one that follows a cycle that failed, was interrupted or was
  abandoned, and both cycles of a `run()`.  One action per worker is enough to
  meet the interpreter, one collection to stop it, one restart to take the
  server from a cycle.  The proofs lift all of them for the safety properties.

Every bound is a named constant, or field of a configuration, in a guard.
Deadlock is checked except where the system really stops: `RandomWorker`, when
the process ends (`terminated`) or the scenario has started its last run
(`MaxRuns`); `ServerNode`, when the context closes; `QueryGen`, whose generator
is used once; `Discovery`, after its last call; `Workload`, when the context has
been left or the process has ended.  The others have an explicit `Stop` or
cannot block.

### Fairness

Three modules have any.  `RandomWorker`, for `RunEnds`: `WF(ThreadStep)` — the operating
system runs the thread, and an action's statements return (connections have
timeouts, the server answers or drops them) — and `WF(Expire)` — the
duration passes.  Nothing is assumed of the scenario, of the server (it may
stay down or drop connections for ever, up to its bound) or of the random
choices.  `ServerNode`, for `CallsReturn`: `WF(Proceed)` — the harness's thread
runs, and the helpers it calls (pg_isready, pg_ctl with its `-t`, mysqladmin)
return — and `WF(Expire(d))` — clocks advance.  Servers and tools promise
nothing, not even to end when asked.  `Workload`, for its `CallsReturn`:
`WF(InCall)` and `WF(Destroy)` — the main thread runs —, `WF` of each worker's
`Attach`, `Detach` and `Finish` — its thread runs, Python actions and connectors
return, and its duration passes (`RunEnds` is the worker's own promise) — and
`WF(ResumeTheWorld)` — a collection ends once every attached thread consents.
Neither the scenario nor the collector has to do anything.  All other properties are safety properties
and need none.

### Mutants

Every property of every passing run is shown to have teeth: an operator
defined next to the one it mutates ("Mutant of ...") changes it as a plausible
bug would, and TLC then finds the property violated.  `PROJECT.json` lists
which mutant breaks which property.

---------------------------------------------------------------------------

## 4. What the runs found

Three runs check a sentence of the repository that the code does not keep.
TLC's counterexample is a shortest behaviour that shows it.

| run | said | done |
|---|---|---|
| `worker_outage` | `scenarios/demo/basic.py:88` mid-cycle restarts "would be survived" | a reconnect while the server is down throws inside the handler: the process ends |
| `node_poll_start` | `testing/node.py:463` poll_start() retries "transient start failures" and keeps trying "until the node is ready or timeout" | a launch that failed leaves `_proc` set, so every retry raises "already started" until the deadline |
| `workload_destroyed` | `bindings/module.cpp:696` blocking calls "must release the thread state", for a collection waits for "all attached threads" | `~RandomWorker()` joins attached: a scenario that raises between start() and wait() leaves running workers to it, and it and they wait for each other |

Other limits of the code are written into the passing properties, each of which
says exactly where it stops; without the exception TLC refutes it:

- `PartialCommitsUnderWay` allows a reader part of a commit while it is being
  published: `publishAll()` is one locked call per op (`context.hpp:87`), where
  docs/transactions.md:43 says "the whole buffer is published into the shared
  catalog in one shot".  Without the exception TLC's counterexample is a
  PostgreSQL transaction that changes two tables and commits: between the two
  calls the catalog shows the first.  For the same reason `PublishesWhatWasSeen`
  speaks of the catalog with the ops *still to come*: other workers change it in
  between, too.
- `CatalogIsDurable` excepts a lost connection: when the answer to COMMIT is
  lost after the server committed, the buffer is discarded and the catalog never
  learns the tables (`transaction.cpp:266`; docs/transactions.md:48 says the
  catalog "is exactly what's durable").
- `NoDriftWithoutClash` excepts three of the named races.  In "index",
  CreateIndex's delta adds an index on a column that is gone by then
  (`ddl.cpp:526`; `catalog.hpp:35` says deltas skip what no longer applies).
- Two of the races in `NoDriftWithoutClash` need one worker only: "invalid
  index", a CREATE INDEX CONCURRENTLY that fails and leaves an index which
  discovery reports, and "empty table", a new table all of whose partitions
  failed, partitioned in the catalog and not in discovery (`ddl.cpp:179`).
- `QueryGen`'s `NoQuery` reaches "undefined": `generator.hpp:25` says "nullopt
  when the catalog has no usable tables", and SelectThenDelete and
  SelectThenUpdate dereference the result unchecked, though the last tables may
  go after they picked their target (`dml.cpp:248`, `344`).
- docs/python-actions.md:35 says that `connection.execute()` holds the GIL;
  `bindings/module.cpp:200` releases it.  `Workload` follows the code.
- The failed partition statement that CREATE TABLE swallows (`ddl.cpp:168-177`)
  aborts PostgreSQL's transaction: the same sub-action's next statement meets
  25P02, which `transaction.cpp:218` reads as "savepoint recovery has a hole".
  The statement program of `CreateTable` has it, and recovery copes with it.
- `EndsHaveCause` names its causes.  One is an edit of the registry between
  the draw and the lookup, which throws outside the try block
  (`workload.cpp:189`; `scenarios/demo/basic.py:83` says "registries can be
  modified while the worker runs").  Another is `run_thread()` on a
  running worker, which resets the statistics before it refuses
  (`workload.cpp:154`), so that recording the running action throws.
- `WeightsRespected` gives the first action one offset more than its weight:
  offset 0 finds it even at weight 0, which docs/variable-fuzzing.md:51 calls
  dormant (`action_registry.cpp:372`).
- `SessionsAccounted` lets a `TestNode` close on a handle it holds: `close()`
  calls `stop()` only if `is_running()`, so a server that crashed during the
  last cycle gets no line (`testing/node.py`; docs/wrappers.md:48 says "every
  server session end is recorded").
- `OutcomesTruthful` lets a crash that `kill()` finds, but has not seen, be
  recorded as "killed".
- `OperandsFit` excepts the columns of a CTE: an operator over a REAL
  column is tagged with the type that was asked for, the CTE's column takes the
  tag (`generator.cpp:524`), and `%` then meets a REAL operand, where
  `generator.cpp:208` says "both operands exact-INT columns or literals".
- `VerdictTruthful` has to speak of the tables *that could be read*: a table
  whose queries fail is skipped with a message (`metadata_populator.cpp:49`), and
  the verdict is then about a part of the server, wrongly in either direction.
- A partitioned table whose partitions are all dropped is discovered as one that
  is not partitioned (`Truth` says so), and `discover_existing_schema()` without
  a reset records every table a second time: ids are always new, so the branch
  for duplicates (`metadata_populator.cpp:35`) is never taken.
- `NoServerLeftBehind` and `AnsweredByOurs` except the sessions in `severed`: a
  tracer that is killed may leave its server running, and `wait_ready()` of a
  later start may then be answered by it.

---------------------------------------------------------------------------

## 5. The proofs

Checked by TLAPS 1.4.5 with Z3, Zenon and LS4; no step is left without proof.

### Metadata_proofs, Catalog — for any actors, names and number of ids

Assumption: `MaxIdAssumption` (`MaxId \in Nat \ {0}`), which stands for a
64-bit id counter that never runs out.

The inductive invariant `IInv` (theorem `InductiveInv`) has four parts:

- held snapshots are typed;
- `Consistent(catalog)`: the value is typed, `Sampled` (slots' places and
  `sampling` are inverse), `Named` (an entry leads to a live object of that
  name).  Stated over a catalog *value*, so that one lemma per method
  (`InsertedConsistent`, `UpdatedConsistent`, `ErasedConsistent`) serves every
  action that calls it;
- `IdsInOrder`: published, dropped and freshly taken ids are below `nextId_`;
  a fresh id belongs to one actor and was never published.  `NeverResurrected`
  is not inductive without it: nothing else keeps a fresh id from being one
  that was dropped;
- `EditsKept`: an acknowledged edit's id was published, and the edit is in the
  record while it lives.  `NoLostUpdate` alone does not survive an insert: it
  needs that the id inserted was not acknowledged before.

From it: `TypeCorrect`, `SamplingCorrect`, `NamesCorrect`, `NoUpdateLost`,
`IdsNeverReused`, and `Refinement` (`Spec => LastPublishWins`): `InsertPublishes`
and `UpdatePublishes` show that these map to `Publish`, `EraseWithdraws` and
`ResetWithdraws` that those map to `Withdraw`; the name index being *truthful*
is what makes the code's conditional removal equal to the abstract filter.

### Metadata_proofs, Discovery — for any server and catalog, calls, failures and changes

Assumption: `DiscoveryAssumption`.  The server's tables and those of the first
catalog are a schema (`IsSchema`: finitely many tables, names taken once) of
tables that the program's own DDL can make (`IsTable`): a column "id"
(`CreateTable` makes it and `AlterTable` never drops it, `ddl.cpp:112`,
`ddl.cpp:323`), no column but the primary key NOT NULL (`ddl.cpp:115`), a length
only where `randomColumnLength()` gives one, and indexes with at least one field
(`ddl.cpp:511`, and where a drop leaves none the index goes).  The numbers of
calls, of failures and of changes are any.

The argument has three layers.

- *What the dialects write is what the discoveries read.*  For every table of
  the DDL, in both dialects: `ColumnInverse` (types and lengths, through the
  server's own names and the header of a type modifier), `IndexesInverse` (the
  rows of an index, put back in the order of its key), `ConstraintsInverse`,
  `KeysInverse` and `PartitionsInverse`; `InOrderLists` says that a list by rank
  has every name once.
- *What a call knows at each step*: the inductive invariant `DiscoveryInv`
  (theorem `DiscoveryInductiveInv`), about every table that nobody touched.
  `ListedInv`: a name of the list is still to be read, was skipped, or has just
  one record of this call.  `DraftInv`: the draft holds what the answers so far
  could say, field by field up to `step`.  `RecordInv`: a record is its table's,
  and a reference of it either waits for the second pass (`Pends`) or is the id
  of the name that was read (`Settled`).  Neither property is inductive: at the
  end of a call nothing says any more how a record came to be.  `RefLike` is what
  makes it hold next to `Others`: a name that was read of a reference is the
  table's name now, or was touched: of a rename between the answers about two
  tables, the one's reference has the old name and the other's the new.
- *What the others leave alone.*  A step of another session turns each table it
  does not touch into one's later self (`Evolved`: only references to tables it
  does touch are different; lemmas `DropCarries`, `RenameCarries`,
  `AlterCarries`), and everything the invariant says of a table's past it says
  of its later self (`EvolvedColumns`, `FksKept`, `RecordKept`).

One lemma per action; from the invariant `DiscoveryFaithful` and
`VerdictsTruthful`.  For both `RecordTold` says that `normalize()` of a record is
what the server holds, blind to what was lost; the verdict needs on top that
no two records are described alike, so that every count is one
(`WholeCatalogTold`).

### RandomWorker_proofs — for any registry, bounds, edits and outages

Assumptions: `RegistryAssumption` (the initial registry and the one that `use()`
puts in its place are non-empty sequences of distinct names with natural
weights; the untagged marker names no action) and `BoundsAssumption` (types of
the bounds and switches).

- `OnlyKnownEnds` (`EndsHaveCause`) from its two halves.  `CrashesHaveCause`
  needs `CrashInv`: a drawn offset stays in `0 .. TotalWeight` unless an edit
  came between; the registry is not empty unless the scenario emptied it; a
  running action's start is known unless a second `run_thread()` erased it.
  `OffsetInRange` is the lemma on the weighted lookup, `RemovedTyped`,
  `InsertedTyped`, `ReweightedTyped` those on edits.  `CleanExit` needs
  `ExitInv`: past the loop, the time is over or the attempts exceed their maximum.
- `NamesStayDistinct`: edits and `use()` keep the registry's names distinct,
  which `insert()` checks and a lookup by name relies on (`WithoutOne`,
  `RemovedDistinct`, `EditedDistinct`).
- `UtilityQueriesUntagged` (`UtilityUntagged`) from `NameInv`: before a run and
  after it the connection carries no action's name and holds only observations
  without one, because the loop's way out drains and takes the name off.
- `StatisticsComplete` (`StatsComplete`) from `StatsInv`: typed statistics and
  connection, `DrainedHere` (where the loop has just drained, the connection
  holds nothing, which makes its replacement and the way out harmless), and the
  three equations for rows, transactions and results.  `DrainMoves` is the
  central lemma: a drain moves the connection's counts and loses none.
- `OffsetsAreShared` (`WeightsRespected`): the offsets that lead to the factory
  at a place are an interval, from above what the factories before it weigh to
  what it weighs with them (`Share`); the first one takes 0 too.  It rests on
  the registry's names being distinct, on `LookedUp` (the lookup finds the first
  factory that reaches the offset) and on `AccumulatedGrow`.  The accumulated
  weights are a recursive function; that there is one (`SumsDefined`) and that
  they grow is proved place by place, from `Reaches`: see the next section.
- `TypeCorrect` (`TypeOK`) from `TypeInv`: before the way out of the loop the
  attempts are within their limit, so that one more is all there can be; and a
  lookup that is in range finds a known name.

### TxnBuffer_proofs — for any tables, log, names, parts and rival changes

Assumption: `TxnBufferAssumption` (natural bounds, no more old tables than ids,
at least one name).

The log is replayed, and the overlay rebuilt, by a fold.  Neither prover can
instantiate an induction theorem's operator, so what a fold does is said of
*chains*: a sequence of intermediate values, each made of the one before by one
op.  `Least` (a non-empty set of numbers has a least one, from the library's
`WFMin`) gives `Reaches`, induction along `0 .. n` for a *set*; `Defined` that
the fold's recursive function exists, `ReplayIsChain` and `RebuiltIsChain` that
the two folds are the ends of chains.  From these the laws `ReplayNothing`,
`ReplayAppend` and `ReplayFirst`.

What an op does to one id depends on what is found under that id alone
(`Eff`); so a replay is, id by id, a `Trace` through the ops (`ReplayTrace`), and
two catalogs that agree on an id still do after it (`ReplaysAgree`).  This is
why other workers' changes of *other* ids, between any two ops of a publish, do
no harm.  A rebuild is the same trace read through the overlay (`RebuildTrace`),
hence `RebuiltIsReplay`: after a rollback to a mark the view is the replay of
what is left.  The inductive invariant `IInv` has three parts:

- `TypeInv`: the catalog is `Consistent` (as in `Metadata_proofs`), the overlay's
  parts are disjoint and touch only ids of the log, every id was issued;
- `ViewInv`: `ViewIsReplay`'s equation, and `Fresh`: an insert of the log has an
  id that neither the catalog nor an earlier op knows.  Without it the equation
  is not inductive: `applyInsert()` overwrites, while `Catalog::insert()` refuses
  an id that is taken;
- `PublishesWhatWasSeen` as it stands.

From `IInv`: `TheViewIsReplay` (with `TheReadsAgree`, that byId, byName and
snapshotAll see the same) and `WhatWasSeenIsPublished`.

### ServerNode_proofs — for any number of sessions and calls, any set-ups

Assumptions: `ConfigsAssumption` (the set-ups are records of a family, a driver
and a wrapper) and `BoundsAssumption` (at least one session and one call).

`IInv` (theorem `InductiveInvariant`) is the type invariant and ten parts.  The
properties alone are not inductive, because each call spreads over many steps:

- `Lifecycles`: what a child's exit says of its server;
- `Untouched`: until the reap, the held server runs or has ended on its own.
  `close()` needs it: a handle that is not running then means a crash;
- `Requested`: which request leads to the reap, and that it was noted for the
  session, as `_record_outcome` assumes;
- `Ordered`, `Accounted`, `Truthful`: the lines written so far, and that the
  held session is not among them, so that no later kill changes what they say;
- `WithinBound`, `DefaultBetweenCalls`, and the two properties about servers
  that are left behind.

Each action has a lemma.  What a kill may do, whoever it meets, is the predicate
`Killed` (`KillingNobody`, `KillingServer`, `KillingChild`); `KilledKeeps` says
what survives it, and `Recording` serves both ends of `_reap()`.  From `IInv`:
`TypeCorrect`, `SessionsRecorded`, `OutcomesCorrect`, `NothingLeftBehind` and
`AnswersCorrect`.

### TransactionAction_proofs — for both families, any transactions and sub-actions

Assumption: `SetupsAssumption` (a setup is a server family with two natural
bounds).

The proof has two layers.  First the server, statement by statement: a lemma
`XMeans` says which of a few named effects a result of the statement has
(`Untouched`, `Poisoned`, `Cancelled`, `Kept`, `Dies`, `Works`, `Alone`,
`BackTo`), and `XServes` that the effect keeps the session sound (`Serves`:
what is committed only grows, uncommitted work is nowhere durable, a lost
session holds nothing).  Then `execute()`: `IInv` has eleven parts, and each has a
lemma `...Step` with one case per action.

| part | says | needed because |
|---|---|---|
| `SessionInv` | what a session without transaction, lost or failed is | the results are given by the session's state |
| `ControlInv` | which locals go with which `pc` and branch | a handler acts on locals that were set many statements before |
| `ProgramInv` | what is left of a sub-action's program (`Fits`), and that a DDL statement's delta is next (`WriteSoon`) | between a DDL statement and its delta server and op-log differ by one item, `made` |
| `TransactionInv` | which transaction state each `pc` allows | `TxGuard`, `end` and the mirror branch assume it, none checks it |
| `NumbersInv` | work is numbered in the order it is done, the op-log follows that order | a recovery cuts both at a *place*, so the order must agree |
| `MirrorInv` | the op-log is the tables of the server's work, and each savepoint cuts both at the same tables (`Cuts`) | `BufferMirrorsServer` holds only between sub-actions; this is its form for every `pc` |
| `MineInv` | where this transaction's work is, by `end` | `OutcomesTruthful` speaks only of the end |
| `DurableInv` | the catalog is durable, and what it lacks (`Owed`) is in the op-log or in `made`, and is committed (`Within`) | between a commit and its publication the catalog lags |
| `PublishInv` | each commit is settled in the catalog (all of its tables or, before the publication, none), or is under way: what it lacks is exactly the op-log, all of it later than what is shown (`GroupsInv`); a change that bypasses the log is a commit of its own (`MadeInv`) | no commit that was begun to be published may be left, and no op of another commit may be in the log with it |
| `OutcomeInv`, `TypeInv` | one outcome per transaction that began; types | |

`Progress` (an action's program shrinks to one that still `Fits`), `RestFits`,
`CutsTake`, `CutsBack`, `CutsMoreLog` and `CutsMoreWork` (what SAVEPOINT, ROLLBACK
TO, a delta and a statement do to the cuts) and `BackStep` (a name that
`execute()` remembers leads the server to the same savepoint) carry most of it.
`CutsNames` is why the numbering of savepoints goes on after a rewind.  Two
parts came out stronger than they were first written: a program's COMMIT is its
last statement and follows a row; and while the mirrored branch has sent
nothing, the server's transaction is still open.

From `IInv`: `CatalogStaysDurable`, `BufferStaysMirror`, `OutcomesStayTruthful`,
and `PartialCommitsComplete` (`Spec => []PartialCommitsUnderWay`).  For the last,
`CommitsStep` says what a step can add to `commits` (the open transaction, the
statement's own work, or both), `FreshWork` that such work is in no commit and
not in the catalog before, `UnpublishedStep` that a step which publishes nothing
keeps `GroupsInv`, and `OpPublished` that an op leaves the log at the front,
where `NumbersInv` puts the oldest; `GroupsStep` joins them.

### Ddl_proofs — for any number of workers, limits and draws, both families

Assumption: `DdlAssumption` (the workers are finitely many, a configuration is a
family with natural limits, that of the partitions not 0: no script can set it,
and 3 is its default in `ddl.hpp:17`).  It says nothing of the order of the limits.

The proof has two layers.  First each action is reduced to what it does to the
jobs and to the records: what a chosen job owes to the snapshot (`Chosen`, a
lemma per kind), that a statement leaves the catalog alone and its job goes on
or ends (`SqlIsServerStep`), that a delta changes one record in one of a few
ways (`DeltaStep`, `Changes`), and a lemma for each of re-check, drop, sweep and
clean-up.  Then the inductive invariant `Inv`:

- `RefsCovered`: a reference to a table that is gone is in the care of a worker
  that will remove it (`Handles`): the one that created the table and has not
  looked again, one that is about to list the references, or one that has this
  table on its list.  `NoDanglingRefs` is what is left of it when nobody works.
  It is why `CreateTable` must look *after* it published and `DropTable` must
  sweep *after* it erased: the reference passes from one to the other.
- `TablesBounded`: tables and pending creates together do not exceed the limit
  and the other workers.  The limit alone is not inductive: a create that was
  allowed may be published after others'.  A worker that picks sees fewer tables
  than the limit, and at most all workers have a create pending then.
- `RangesBounded`: the same for each table's partitions, and for a table that
  appears: its creator is busy and adds none.
- `ColumnsKept`: two columns are left also after the pending ALTER, and no two
  pending ALTERs drop columns of one table, unless the clash `columns` is on
  record.
- `IdsFresh`: an id that is drawn is given to one table, so that no pending
  ALTER waits for a table that is yet to come.

From `Inv`: `NoReferenceDangles`, `LimitsOvershotByOthersOnly` and `TypesHold`.
The server's tables are in none of these.  `NoDriftWithoutClash` is about both
sides, which agree at rest only and in between differ by every statement that is
not published yet.  `DriftInv` says by what; it has a part that always holds
(`Known`) and one that the races of `clashes` can break (`Agree`).

`Known` lets SQL by name and deltas by id be about the same table:

- `Fresh`: a number drawn for a statement is, until its publish, in no record of
  the catalog, in no other job and nobody else's draw (a draw never repeats);
- `NamesUnique`, `OwnersUnique`: a name, in whichever of its places (the
  catalog, the server, the prefix of a partition, the text of a pending
  statement), is one table's, and so is an index's number on PostgreSQL, where
  DROP INDEX names no table.  Hence `NameIsHome` and `IndexIsHome`: a statement
  that the server accepts hits the table of its job, however often that was
  renamed since the snapshot;
- `Exist`: a table that one side lacks has a create or a drop waiting to be
  published, which gives `SameTablesAtRest` whatever raced;
- `DropsApart`, `IndexesSound`: an ALTER changes no column that it drops, and no
  index is empty.

`Agree` is one equation per field of a record that both sides have: the
server's value is the catalog's after everything that is `Pending` on the table.
A statement adds itself to the pending ones, a publish moves from the pending
ones to the catalog, and each equation needs that the two commute:

- `NamesAgree`: a pending rename is the only one, for a second one would say a
  name that is gone, and the server has its name already;
- `ColumnsAgree`: columns, less the dropped ones, with the added ones
  (`AltersCommute`, from `Fresh`: what one ALTER adds no other knows);
- `IndexesAgree`: indexes cut by pending drops, less the dropped ones, with the
  new ones; `IndexesApart` keeps the race "index" out, without which a new index
  would have to be cut too;
- `RangesAgree`, `RangesSound`: the same for partitions, and a table is
  partitioned just when it has one; `Apart` keeps out "partitions", the race
  that may take PostgreSQL's last partition and leave a table that is
  partitioned in the catalog and not in discovery;
- `RefsAgree`: a reference to a table that is there is the same, unless a worker
  is still going to clear what the server has cleared (`Clears`); `RefsSound`,
  with "reference" kept out by `Apart`;
- `CreatesAgree`: a table nobody knows of yet is as its create made it.

At rest nothing is pending (`NothingPending`), the equations say that the
records are the same, `RefsCovered` of `Inv` that no reference dangles, and the
two normal forms are equal (`NormalizedSame`): `DriftOnlyByClashes`.  `Clean`,
under which `Agree` is kept, excludes the other five of `clashes` but not
"columns": two column drops can leave a table one column, and still merge.

### Workload_proofs — for any number of workers, cycles, actions and collections

Assumption: `WorkloadAssumption` (at least one worker and one cycle; natural
bounds; `NoOne` is no worker).

- `TypeInv` (`TypesHold`): objects, counters, lists and loops keep to their
  types; a list of workers names constructed objects, each once.
- `NamesInv` (`NamesStayUnique`): the objects of the running cycle are numbered
  up to the list's length while they are constructed and are all in a list
  after.  Uniqueness alone is not inductive: a new worker's name must be new.
- `ThreadsInv` (`NothingIsLeftRunning`): `ListedInv`, a running thread's worker
  is in a list that somebody will join; `JoinedInv`, those before `done` have
  stopped; `StartInv`, at which places of `start()` which worker may run.
- `ServerInv` (`OnlyProvokedFailures`): without a restart in mid-cycle the
  server is up whenever a thread may need it.
- `ReportsInv` (`ReportsAreTruthful`): `FinalInv`, a reported worker has stopped
  for good and is in no list; `CsvInv`, files carry the worker's own cycle;
  `CurrentInv` and `RanInv`, whose report is next and which cycles finished;
  `DueInv`, between calls the reports are exactly those due.

### QueryGen_proofs — for any schema, catalog and configuration

Assumption: `QueryGenAssumption` (no table has the id of "no table"; a table has
columns; a configuration has its fields).

A call of `genQuery` is known by the fields that an action changes and those it
keeps.  First come lemmas on data: an expression generated over a scope refers
to nothing but its columns (`ScalarWithin`, `CallsWithin`), both ends of a
join's condition are columns (`EdgesFit`).  Then each stage is reduced to one of
two relations between a call before and after: it goes on over the same tables
(`Goes`), or one more is joined (`Grows`); and each step of the stack to a call
that goes on, in place of those that returned to it (`Turns`), or to a new one
inside of it (`Nests`).  Both relations and both steps keep the inductive
invariant `IInv`:

- `Nested`: the depth of a call is its place on the stack, and only the
  outermost has extras (CTE, set operation, window), which is why these go one
  deeper than the limit and no further; it is who asked for a CTE's body or for
  a right side, the latter when it was ready.  `NestingBounded` alone is not
  inductive: the guard reads the depth and not the length of the stack.
- `Sound`: `FromOk`, the FROM clause as far as it is built, with each join's
  condition over the tables joined so far; `ListOk`, the select list, GROUP BY,
  HAVING and ORDER BY over the own tables; `Drawn`, the clauses drawn so far
  agree and those that follow are as they were, and a query for keys has
  nothing that a row lock does not allow (`KeyOnly`).
- `Visible`: what a WHERE names, may name and is handed down to its subqueries
  is seen through the calls around it (`Seen`), which only get more tables while
  it is built.
- `Distinct`: aliases are given out once and are below the counter.
- `Reads`: the queries inside of the outermost read tables of the generator's
  copy of the catalog, which lacks the predicate's target (`Typed`).
- `Answers`: the outermost query has the purpose and the target that were asked
  for.

From `IInv`: `NestingStaysBounded`, `TargetIsNotRead`, `ReferencesResolve` and
`ClausesStayAgreed`.

`OperandsFit` needs what `IInv` does not say: the type the server gives an
expression, which the generator only knows as a tag.  A second invariant on top
of `IInv`, `FInv`, says that every call has the following (`Fit`):

- every column that it can read has a tag of the family of the server's type,
  and a column of a table has the server's type itself (`ScopeFits`);
- what is generated from such columns is of the family that was asked for, by
  tag and by the server's type (`ExprFits`, lemma `ScalarFits`): an operator may
  make the two differ within the family, so that a CTE's columns, which take the
  tag (`ReturnCteFits`), are only known by their family;
- the terms of the WHERE compare within a family (`TermOk`); the right side of a
  set operation has the families of the select list, neither ORDER BY nor
  OFFSET, and no INTERSECT where the server has none.

Again one lemma per action.  From `FInv`: `OperandsDoFit`.

### What stays with TLC

- Liveness (`RunEnds`, both `CallsReturn`): fairness and ENABLED are beyond this
  prover.

Every invariant and every action property that a passing run checks is proved.

---------------------------------------------------------------------------

## 6. What is not modelled

Per component, with `PROJECT.json` "components" giving the status of each.

- *Left out for good*: SQL text, values and types (data the properties do not
  tell apart); random streams (nondeterministic choice stands for every draw);
  logging, report and CSV formatting, timings and histogram buckets; the
  declarations in `bindings/`; key servers and certificates; file helpers and
  the command line; the C++ class `Workload`, which nothing binds or calls.
- *Left out inside a modelled component*: the catalog's version counter
  ("observability only"); storage engines and key-length limits of DDL, whose
  refusals `Refused` covers; an unlocked registry copy's outcomes other than
  the end of the process (`TornRead`): a torn read that goes unnoticed.
  In `Discovery`: tables that the program's own DDL cannot make, columns whose
  names end in another's (the search for "<column> DESC" would mix them up),
  texts of bounds and defaults; the catalog has no other user during a call, as
  `normalize()` demands (`table.hpp`).
  In `ServerNode`: reuse of a pid by a stranger; configuration files, backups,
  SQL conveniences; a stop mode counts as known or unknown (`RefuseMode`), and
  a fast or an immediate stop both as a stop that may never complete.
- *External*, modelled from how `src/` uses it: the server session in
  `TransactionAction`, the server's tables in `Ddl`, the server's up or down in
  `RandomWorker`, and the server and tool processes in `ServerNode`.
- *Not yet modelled*: see the plan.

---------------------------------------------------------------------------

## 7. The plan

Done, in the order of importance that was chosen: the catalog and its proofs
(everything else publishes into it); the transaction buffer with its
proofs; the transaction action with its proofs; concurrent DDL and the drift oracle with their proofs; registry, worker
and statistics with their proofs; the server node with its proofs; the query
generator with its proofs; schema discovery and `validate_metadata()` with their
proofs; the Python workload with its proofs.

Next modules:

1. **Scenario**: Workload composed with ServerNode: crash, restart, reconnect,
   validate, over an abstract node (down, starting, up, stopping) that
   `ServerNode` is shown to implement.
2. **Checksums, session variables, statistics' merge**: pure
   algorithms checked against reference definitions over bounded inputs.
3. **Clusters**: replication waits and failover helpers of `testing/cluster.py`.
4. In `TransactionAction`, the counts of sub-actions: a rewind that fails is
   counted as a success and as a failure (`transaction.cpp:207`).

Next theorems:

- With a Scenario: that `ServerNode` implements the abstract node.
- With the merge of statistics: that merging is independent of the order in
  which workers are collected.
