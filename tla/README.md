# ssplus-cache-me in TLA+

A model of ssplus-cache-me, an HTTP key/value cache in C++: server threads
answer requests from a shared map in memory, leave their database writes in a
queue, and the main thread executes that queue against SQLite. File names below
are relative to the repository; `server.h` and the other headers are in
`include/ssplus-cache-me`, the `.cpp` files in `src/ssplus-cache-me`.

## Inventory

| component | state | operations | talks to |
|---|---|---|---|
| cache record `data_t` (`cache.h`, `cache.cpp`) | value, `expires_at`; 0 = never, 1 = "known not to exist" | `clear`, `mark_cached`, `cached`, `get_expires_at` | everyone |
| memory cache (`cache.cpp`) | `mcache` under `mcache_m`; `mallcache`, `mallcache_loaded` under `mallcache_m` | `get`, `set`, `del`, `get_all`, `set_all`; `set` and `del` also drop the list | handlers, deletions on the main thread |
| write queue (`run.h`, `run.cpp`) | deque of `query_schedule_t` under `mm`, with condition variable `mcv` | `enqueue_write_query`, `remove_query`, `top`, `pop` | handlers and retries enqueue, the main thread pops |
| database access (`db.cpp`) | table `cache`; prepared statements `stmt_cache` under `stmt_cache_m` | `get_cache`, `get_all_cache` (servers); `set_cache`, `delete_cache` (enqueue); `prepare_statement`, `finalize_statement`, `cleanup` | SQLite, queue, memory cache |
| query runner (`query_runner.cpp`) | none | `run_until_done`: step, retry in 5 s on `SQLITE_BUSY` | SQLite, queue |
| request handlers (`server.h`) | one request per thread | GET, GET list, POST, get-or-set, DELETE | memory cache, database access |
| main thread (`run.cpp`) | `running`, `sigint_count` | `init_db`, `main_loop`, `write_query_routine`, `run_queued_queries`, `sigint_handler`, `shutdown_db` | queue, SQLite, servers |
| server lifecycle (`server.h`, `server_manager.h`) | `sthread`, `sapp`, `sloop`, `db_conn` | `start`, `main`, `defer`, `shutdown_server`, destructor | uWebSockets loop, SQLite |
| configuration (`config.cpp`, `server_config.cpp`) | settings of `main_t` and `server_config_t` | `load_env`, `parse_json_config`, `parse_args` | none after start |
| HTTP plumbing, CORS (`server.h`) | one response per connection | routing, origin check, body chunks, replies | handlers |
| log, debug, util, benchmarks | none | formatting, the clock, `trim` | none |

**What makes it hard.** Every server thread, and the main thread, interleave
between any two critical sections: a POST is three of them (memory, set query,
delete query), a GET miss is up to five. Writes are acknowledged when they are
queued, not when they are in the database. The queue replaces queries by id, so
a request can undo what another has queued. Reads take SQLite's SHARED lock and
make the writer BUSY; a BUSY query comes back five seconds later. Deadlines are
queue entries: a crash loses them. The signal handler takes a lock it should
not. Prepared statements are looked up and inserted under two locks, and freed
while other threads run. Numbers of the configuration pass through three
conversions of different widths.

**What makes each part correct.**
- *Record*: timestamp 1 means absence; only a deadline that a sum makes 1 is
  mistaken for it.
- *Queue*: one query per id; the earliest runs first, arrival order among equals.
- *Set and delete queries*: a queued set is executed, replaced by a newer one or
  failed by SQLite, never forgotten; the newest wins; what is at rest is what
  was acknowledged; the table changes by what is owed and by nothing else.
- *Memory against database*: an entry with a deadline has an eviction queued; at
  rest both agree; an absence marker means an absent row.
- *Main loop*: due work is taken, a SIGINT stops it, the drain runs what is left,
  nothing but the third SIGINT terminates it abruptly; no wakeup is lost.
- *Statements*: a thread uses live statements of its own connection, none is
  lost, none stays stepped, the main connection closes.
- *Lifecycle*: a serving thread has its database and app; servers that run can
  be stopped; a failed start does not go unnoticed.
- *HTTP*: the cache changes only with the reply that says so; enabled origins
  are served.
- *Configuration*: settings are in range, the documented source wins, and the
  list of origins is the one that was written.

The hazards, each at its line and with the properties aimed at it, are in
`PROJECT.json`.

## Modules

| module | content |
|---|---|
| `CacheData` | `data_t` as a record, its predicates, the deadline sum (wraps at `TsMod`, 2^64 in the code), the signed view SQLite has of it, what reading a row as a C string leaves |
| `WriteQueue` | the deque: `Enqueue`, `RemoveQuery`, `IsTop`, `PopAt` on sequences of records with `id` and `ts` |
| `CacheMe` | servers, memory, queue, SQLite and the executing half of the main thread, clock, errors, crash and restart; the refinement mapping to `WriteBehind` |
| `WriteBehind` | the abstract specification of the database half: per key at most one row and one deletion are owed, and the table changes by one job at a time |
| `MainLoop` | the waiting half of the main thread: condition variable, SIGINT, drain, order of `run()` |
| `Signals` | the two mutexes around the queue, and the handler on top of any thread at any instruction |
| `Lifecycle` | starting, serving, closing and joining servers, and the main thread from boot to exit |
| `StatementCache` | the map of prepared statements, its users, the cleanup, and SQLite's view of handles and connections |
| `Http` | routes, the origin check, chunks, validation, replies and their headers |
| `Origins`, `Config` | `trim` and the list of origins; the sources of the settings and their conversions |
| `...Proofs` | theorems about the module of that name |
| `MC...` | model values and definitions for TLC |

`CacheMe` extends `CacheData` and `WriteQueue` and instantiates `WriteBehind`;
`MainLoop` extends `WriteQueue`; `Config` extends `Origins`. The other modules
look at the same threads from another side: `MainLoop`'s `Take` to `Execute` is
`Pop` to `Resched` in `CacheMe`, `Signals` refines the instant at which
`MainLoop` goes to sleep, `Lifecycle`'s `queue` counts what `CacheMe` queues,
and `Http`'s `store` is `CacheMe`'s `mcache` reduced to which keys hold a value.

A definition named `...Late`, `...Once`, `...Forgotten` and the like, with a comment
"Faulty form of the next definition", is a plausible bug in the definition after
it. The specifications never use it; putting it in place of the real one shows
that the property it is meant for can fail.

### CacheMe and the code

`sv[s]` is the request a server thread is handling. A thread runs one handler to
its end before the next, so the request's local variables (`data`, `got`, `rows`)
and a program counter are all there is. Steps end where another thread can
observe or interfere:

| step | code |
|---|---|
| `Receive*` | route lambdas and `parse_to_cache_data`; the deadline is computed here |
| `LookUp` | `cache::get` and the test `cached()` (`server.h` 808) |
| `Read`, `Reset` | the SELECT of `db::get_cache` is stepped, then reset: in between the connection holds SHARED |
| `Schedule`, `Check`, `Fill` | `delete_cache(key, eat)`; comparison with the clock; marker, `cache::set`, reply |
| `Put`, `EnqSet`, `EnqDel` | `cache::set`, then the two halves of `db::set_cache` |
| `Evict`, `EnqNow` | the DELETE route: `cache::del`, `db::delete_cache(key)` |
| `ListAll`, `ReadAll`, `ResetAll`, `SetAll` | GET /cache |
| `Pop` | `run_queued_queries` up to the unlock, and the prepare in `run_query` |
| `EvictMem` | `cache::del` inside a delete query's `run` |
| `Step`, `Commit`, `Resched` | `run_until_done`: nothing to write, got the lock, or BUSY |
| `GiveUp` | SQLite fails the query: prepare, bind, or a step with the bit of `SQLITE_ERROR` (`query_runner.cpp` 34) |
| `Crash` | the process dies at any point and `run()` starts again on what SQLite committed |

A missing key and an empty record are the same to every caller of
`cache::get` and `db::get_cache`, so both are `Blank`. `mn` is the query the
main thread is running. SQLite is external and modelled by its locking and by
the failure of a query of the main thread, at any of its points: rollback-journal
mode, no busy timeout (the code sets neither); a writer that has pages to write
is BUSY while a connection is inside a SELECT (`Readers`), and a SELECT is BUSY
while the writer commits (`Locked`). A DELETE that matches no row and a CREATE of
a table that exists dirty no page and are never BUSY. A SELECT that SQLite fails
is left out: its caller gets an empty record, as from one that is BUSY.

`last`, `fate` and `magic` are history variables: the newest row enqueued for a
key; whether later requests let it live, require it gone, or leave either
possible; and the values posted with a deadline that wrapped to 1. No action
reads them. A set or deletion that SQLite fails takes its claim back (`Undone`).

In the mapping to `WriteBehind` the table is the table, `next` and `doomed` are
the sets and deletions in the queue without their timestamps and their order,
`hand` is the main thread's query, and errors and crashes are its faults.
Memory, requests, reads, clock and deadlines are stuttering: no request touches
the table, whatever it finds or is told.

### The main thread: MainLoop and Signals

`MainLoop`'s `pc` follows `write_query_routine`. `test` is the predicate with
`mm` held, `presleep` the moment after it returned false and before the thread
sleeps, `asleep` and `woken` surround the sleep. `until` is the timed wait's
`top_sch`, `Anything` for the untimed wait, `Nothing` when it does not wait.
Server threads can call in whenever the main thread does not hold `mm`, in the
order `set_cache` makes its calls. The signal handler is two steps, `Sigint`
(running = false, count) and `SigintNotify`, and can come between any two
others. A notify takes a mutex of the condition variable's own: a handler that
interrupted its holder, and whoever needs it then, never return. `SigintHangs`
is the main thread interrupted there, `NotifyHangs` a server, which keeps `mm`
with it; `hung` says which of the two is lost. `missed` is a history variable: a
SIGINT was overwritten by `running = true` or its notify came in `presleep`.

`Signals` goes below that: `condition_variable_any` holds a mutex of its own
(`im`), which `wait` takes before it releases `mm` and which `notify_one` and
`notify_all` take. SIGINT is delivered to any thread (`Deliver`), whose code
waits below the handler (`hpc`); `sigint_count++` is a read and a write, and the
test that follows it uses the value just written.

### Lifecycle, StatementCache, Http, Config

`Lifecycle`: `main` and `th[s]` are the positions of the main thread and of each
server's thread; `sapp` and `sloop` say that the pointer of that name is set,
`closing` that the call of `close()` was deferred to the loop. A database that
does not open and a port that is taken throw (`Terminate`). The main thread
reads `sapp` and `sloop` without a lock while the thread writes them: a value
that is seen late is the same behaviour as one that is written late.

`StatementCache`: `Find` and `Insert` are the two critical sections of
`prepare_statement`, with `Prepare` between them; `stmt[h]` is what SQLite has
at address `h`, the connection and whether the statement is stepped. Addresses
come back after `Finalize`. What stepping answers is chosen from `Codes`;
marking a freed statement leaves it as it is and stands for whatever undefined
behaviour does, because every property about it is about getting there.

`Http`: one record per connection, and one callback at a time, as the loop runs
them. HEAD and OPTIONS share the preflight's route. `Chunk` is `onData`, `Abort` the client that goes away. `reply.cors` says
whether the reply still carries the Access-Control headers when the response
object is destroyed.

`Config`: `LoadEnv` and `ParseOption` take any file, variable or option; `Atoi`,
`Strtoull` and `AsInt` are the conversions with the widths `IntSize` and
`LongSize`. `given`, `rank` and `wide` are history variables: what the source
that is documented to win asks for. `OriginsIn` is `set_cors_enabled_origins`,
checked against `Holds`, a definition that takes the text apart with sets. A
text is a sequence of `Characters`, of which only `Comma` and `Space` matter.


## Runs

| run | instance | asks |
|---|---|---|
| `all_requests` | 2 servers, 1 key, 1 value, ttls 0, 1 and 6, which wraps to deadline 0 and to 1 (`TsMod` 8), 2 requests, 2 faults; with and without a table, a row that is still to expire | `TypeOK`, `QueueIdsUnique`, `MagicMarksAbsence`, `PendingSetsSurvive`, `WritesBehind` |
| `writes_only` | 2 servers that POST and DELETE one key, 2 values, 3 requests, 2 faults, with and without a table | `NoStaleRow`, `AcknowledgedIsDurable` |
| `one_server` | 1 server that POSTs and DELETEs, 2 values, 3 requests, a row that expired while no process ran or no table, fair | `CoherentAtRest`, `EvictionScheduled`, `SetsAreExecuted`, `EntriesExpire`, `RowsExpire` |
| `main_loop` | 2 enqueues, 1 removal, 1 BUSY, 3 SIGINTs, clock to 3, fair | `TypeOK`, `TerminatedBySigint`, `DueIsTaken`, `SigintStops`, `DrainRunsDue` |
| `signals` | 1 server that enqueues 3 times, 3 SIGINTs on either thread, fair | `TypeOK`, `NoLostWakeup`, `TwoAreHarmless`, `HandlersReturn` |
| `lifecycle` | 3 servers, 1 write, fair | `TypeOK`, `ServesOnOpenDb`, `StopsWhenUp`, `AllOrNothing` |
| `statements` | 2 servers and the main thread, 3 addresses, result codes 5, 10 and 101, 2 queries, fair | `TypeOK`, `OwnLiveStatement`, `NoStatementLost`, `IdleHoldsNoLock`, `MainCloses`, `QueriesEnd` |
| `requests` | 2 connections, 1 key, 3 origins with `*`, an Origin header required, bodies in 2 chunks, 2 requests, fair | `TypeOK`, `EnabledCanRead`, `ChangesAreReplied`, `SuccessMeansStored`, `EveryRequestEnds` |
| `config` | `int` of 8 values, `unsigned long long` of 16, ports 1 and 2, 4 texts of up to a few characters, 2 paths, 3 values | `TypeOK`, `PortUsable`, `LastSourceWins`, `HoldsTheOrigins` |
| `marker_over_row` | 1 server, GET, POST, DELETE, 3 requests | `MarkerMeansAbsent`, which does not hold |
| `delete_undone` | 1 server, GET, POST, DELETE, 3 requests, a row that was kept | `DeletedStaysDeleted`, which does not hold |
| `both_create` | 2 servers, 1 get-or-set each for one absent key | `GetOrSetKeeps`, which does not hold |

A fault is a crash or a query that SQLite fails. The largest is `writes_only` (1.3
million states); the longest, `signals`, takes about three minutes with two
workers, and the others finish in less than two.

**Why the bounds are enough.** Queries of different keys never replace each
other and meet only in SQLite's locks, so one key is where requests interfere;
the theorems have any number. Two servers are what it takes for a request to
run between two steps of another one, and for a lock on the database that is
not the writer's own. Three requests are a row, its deletion and what replaces
or undoes it. One crash suffices for what a restart finds, since nothing but
`db` and `table` outlives it; the second fault is an error before or after it, or
one of `init_db` and one of a write (`MaxFaults` bounds both together).
`one_server` has none: a deletion that fails leaves its row for good. `MaxTime` lets the clock pass every ttl that is
used by at least one tick; `RetryDelay` stands for the five seconds of a BUSY
query and may be longer or shorter than a ttl, as there. Two queries in the
queue of `MainLoop` distinguish the top from the rest; a third SIGINT terminates.
Three servers in `Lifecycle` put one before and one after the server that
fails. The widths in `Config` keep the order of the real ones: a port fits
in an `int`, an `int` in an `unsigned long long`.

Deadlock is not looked for: clients, signals, clock and crashes are bounded and
the program may end, so every run reaches states without a next one. What must
not get stuck is stated as a liveness property instead.

**Fairness.** `CacheMe`: weak fairness of every server's `Handle`, of `Main` and
of `Tick`: threads are scheduled and time passes. `GiveUp` is enabled only beside
another step of `Main`, so it is never owed. `MainLoop`: weak fairness of the main
thread, of a handler that has started, which notifies or hangs, and of the clock. `Signals`: strong
fairness of every thread's code and handler, because a thread that competes for
a mutex gets it at last (without that no `pthread` program terminates), and weak
fairness of the delivery of a pending signal. `Lifecycle` and `StatementCache`:
weak fairness of each thread. `Http`: weak fairness of the loop and of a client
that has begun a body: it sends the rest or goes away, which the kernel reports.
No request, no SIGINT, no crash, no spurious wakeup, no expiry of SQLite's locks
is ever assumed to come.

## What is proved

The theorems hold for every value of the constants that the named assumptions
of the modules allow: any number of servers, keys, values, queries, SIGINTs and
crashes, with no bound on the clock but the one that is a constant.

| module | theorems | inductive invariant |
|---|---|---|
| `WriteQueueProofs` | what `Enqueue`, `RemoveQuery` and `PopAt` keep, of the order of arrival too, and that a queue that is not empty has a top | none, lemmas about sequences |
| `CacheMeProofs` | `TypeCorrect`, `QueueIdsAreUnique` | `TypeInv`: types and unique ids, which need each other |
| | `NewestSetWins`, `WritersKeepTheNewest` | `LastInv`: a queued set of a key, or the one in flight, holds the newest row of that key; `WriterInv`: no connection reads, so nothing is BUSY |
| | `MagicIsAbsence` | `MarkInv`: a value with timestamp 1 on its way through a request, and one in memory, was posted with it; none is in a query, the list or a row |
| | `SetsSurvive` | `DueInv`: an `init_db` that waits where the boot put it is ahead of everything else |
| | `AcknowledgedStays`, `WritersGetWhatTheyWereTold` | `DurableInv`: which of a key's set and deletion comes first in the queue; `BootInv`: until there is a table `init_db` is first in the queue or in flight; `StoreInv`: both, or `init_db` failed and there is no table |
| | `EvictionIsScheduled`, `OneServerEvicts` | `EvictInv`: the deletion of an entry is queued no later than its deadline, or the one server at that key still has to queue it |
| | `MemoryIsCoherent`, `OneServerIsCoherent` | `CoherentInv`: which of the queue, the main thread and the database holds the row that memory shows, and that the purge of boot comes before it |
| | `ImplementsWriteBehind` | `TableInv`: without a table there is no row, and the main thread is at no query but `init_db` |
| `MainLoopProofs` | `LoopTypeCorrect`, `OnlySigintTerminates` | `LoopInv`: while it waits for a timestamp there is a query, unless one was removed |
| | `DrainLeavesNothingDue` | `LoopInv`, and that the query taken is the earliest |
| | `NeverSleepsOverWork`, `SignalsAreHeard` | `SleepsForTop`: what it sleeps for is no later than the earliest query; `SignalReaches` |
| `SignalsProofs` | `SignalsTypeCorrect`, `WakeupsAreKept`, `DeadlockIsOwn` | `LockInv`: each mutex is held exactly at the steps between its lock and unlock, and a thread asleep with work has a notify on its way |
| | `TwoSigintsAreHarmless` | `CountInv`: the count, and every copy of it about to be written back, is covered by signals sent |
| `LifecycleProofs` | `LifecycleTypeCorrect`, `ServersKeepTheirDb` | `DestroyInv`: a server's state goes after its thread was joined |
| | `ServersUpAreAsked` | `UpInv`, and `Stopping`: servers not yet stopped run and can be asked, the one being joined was |
| | `NoServerIsMissing` | `StartedInv`: who has a thread, and that none ends before the servers are stopped |
| `StatementCacheProofs` | `StatementsTypeCorrect`, `StatementsAreOwn`, `StatementsAreFound`, `IdleThreadsHoldNoLock`, `MainConnectionCloses` | `CacheInv`: each live statement is in the map under its owner's key or in its owner's hand; `MainInv` |
| `HttpProofs` | `HttpTypeCorrect`, `EnabledOriginsCanRead`, `ChangesHaveReplies`, `SuccessIsStored` | `HttpInv`: what a request that is still open has been granted and checked |
| `ConfigProofs` | `ConfigTypeCorrect`, `ThePortIsOne`, `TheLastSourceWins` | `ConfInv`: sources come in the order of their rank, and the settings are those of the highest one so far |
| | `OriginsInHolds`, `TheOriginsAreThoseOfTheText` | `ConfInv`, and for every text that `getline` and `trim` leave its origins, each as often and in the order it has them |

**Argument.** The invariants of the runs are not inductive as they stand. For
`NoStaleRow` the database alone says nothing: it holds because each place a row
can be in (the queue, the main thread) is already the newest one, and the queue
lemmas show that enqueueing replaces the older one. `WriterInv` then shows that
without reads the one step that breaks this, putting a postponed set back over
a newer one, is never enabled. For `OwnLiveStatement`
the map must be known to hold live statements only, and not two under one
address, or `Prepare` could hand out an address that is still in use. For
`NoLostWakeup` the invariant follows the notify through both mutexes: whoever
added the query has still to notify, or the main thread has still to test.
For `MagicMarksAbsence` the invariant follows the mark through every record a
server, the queue or the main thread holds, back to the body it was parsed from.
For
`AcknowledgedIsDurable` and `CoherentAtRest` contents are not enough: a set and
a deletion of one key may both be due, so the invariants speak of the order
they arrived in (`Before`), which every operation on the queue keeps and which
the top respects among equal timestamps (`FirstIsTaken`). That a write is not
lost for want of a table is the same argument with `init_db` in the first place
(`BootInv`), and once `init_db` has failed nothing is claimed until a restart
(`NoTable`). For the refinement the order in the queue does not matter, only
that each operation on it adds, replaces or removes what is owed to one key.
Theorems for several servers carry, for each key, what the one
request at that key has done so far; requests for other keys leave all of it
alone (`OthersElsewhere`). The proof about `OriginsIn` is an
argument from the least position of the text at which the claim would fail.

Where the property is a liveness property, its safety half is a theorem: that
no reachable state is one from which it could not come true for want of a
wakeup, a signal, a mutex or a request to stop, where the property itself does
not exempt it. `NeverSleepsOverWork` is that
half of `DueIsTaken`, `SignalsAreHeard` of `SigintStops`, `DeadlockIsOwn` of
`HandlersReturn`, `ServersUpAreAsked` of `StopsWhenUp`, `NoServerIsMissing` of
`AllOrNothing`, `SetsSurvive` of `SetsAreExecuted`, `EvictionIsScheduled` of
`EntriesExpire`.

**Assumptions of single theorems.** Each says what must not happen, not how
small the instance is, and without it the property is false.

| theorem | assumes | because |
|---|---|---|
| `NewestSetWins` | no step is `PutsBackOld`: a postponed set put back while a newer one is queued | `query_runner.cpp` 31 replaces the newer one |
| `AcknowledgedStays` | no step is one of `Requeues`: a read that schedules a deletion, a postponed query | a deletion queued late removes what was acknowledged since |
| `EvictionIsScheduled`, `MemoryIsCoherent` | clients POST and DELETE; `NoOverlap`: no two requests for one key at once | two writers can leave the memory of one and the row, or the deletion, of the other |
| | no step is a `GiveUp`: SQLite fails no query | a deletion or a set that is given up is not made good: the entry stays without an eviction, or without its row |
| `NeverSleepsOverWork` | no handler hangs (`hung = {}`) | the mutex the main thread needs is then lost |

`TypeCorrect`, `QueueIdsAreUnique`, `MagicIsAbsence`, `SetsSurvive` and
`ImplementsWriteBehind` assume nothing beyond the constants: they hold for every
request, with readers, ttls that wrap, crashes and errors. `WritersKeepTheNewest` and `WritersGetWhatTheyWereTold` have clients that POST
and DELETE in place of the condition on steps, and `OneServer...` one server in
place of `NoOverlap`; these are the instances that the runs check.

**Only model-checked.** Everything that is to happen at last: `SetsAreExecuted`,
`EntriesExpire`, `RowsExpire`, `DueIsTaken`, `SigintStops`, `QueriesEnd`,
`StopsWhenUp`, `AllOrNothing`, `HandlersReturn`, `EveryRequestEnds`; the prover
has no rule for fairness. Every invariant and action property that a run checks
is stated by a theorem.

## What does not hold

Three disagreements between a document and the code are runs of their own,
`marker_over_row`, `delete_undone` and `both_create` (two get-or-sets on two
servers both find nothing and both create; `server.h` 408). The others, met while the modules were
written, are kept out of the properties by a condition that is named, or by the
instance; each can be seen by dropping it.

*Memory, queue and database.*
- `query_runner.cpp` 31: a BUSY set is enqueued again five seconds later and
  replaces a newer set of its key. Needs a reader.
- `server.h` 896: two concurrent writers may leave the memory of one and the
  row of the other (`CoherentAtRest`), or an entry without an eviction
  (`EvictionScheduled`).
- `server.h` 744: a POST whose deadline wraps to 1 is stored in memory as absent:
  clients get a 404 for it, while its row, stored without a deadline, is not
  found before a restart.
- `server.h` 820: a row is compared with the clock before it is put in memory;
  if it expires and is deleted in between, the entry outlives its deadline
  (`EntriesExpire` with a GET).
- `query_runner.cpp` 34, `run.cpp` 97: a write that SQLite fails is logged and
  gone, although its client was told 201; a failed deletion leaves a row that
  nothing deletes before the next boot. If `init_db` fails there is no table until
  a restart, and every write is dropped.
- `server.h` 828, `db.cpp` 171: a GET stores its marker over a POST that came in
  between, and takes BUSY for absence.
- `server.h` 783: the list of GET /cache is read from the table, which lacks
  what is queued, and no commit resets it.
- `db.cpp` 282, 288: a new row is enqueued before the old deletion of its key is
  removed; a deletion that is due in between runs after it.
- `db.cpp` 174, 262: a value is bound with its length and read as a C string; one
  that begins with NUL reads as empty after a restart and is marked absent.
- `run.cpp` 266: a deadline of 2^63 or more is negative in the column and purged
  at the next boot.
- `db.cpp` 288: a row whose deadline is ahead at a crash stays until it is read
  or the program is started once more.

*Main thread and shutdown.*
- `run.cpp` 138: the drain ends at the first query that is not due; a BUSY set
  behind it is lost.
- `run.cpp` 172: a wait that ends with an empty queue reaches `top()`.
- `run.cpp` 296: POSTs between the drain and the end of the servers are answered
  201 and not executed.
- `query_runner.cpp` 34: an error code with the lowest bit clear steps the same
  statement for ever.
- `db.cpp` 336, `run.cpp` 298: the cleanup finalizes statements that servers are
  using; one prepared after it keeps its connection open.
- `server.h` 312, 319: a server that has not come up when it is told to close is
  joined for ever.
- `run.cpp` 82, 73: a handler that interrupts the holder of the condition
  variable's mutex never returns. In a server it keeps `mm` locked, in the main
  thread it keeps that thread; either way the program does not stop, and a third
  SIGINT may not terminate it. Two handlers at once may count one SIGINT.

*HTTP and configuration.*
- `server.h` 862: the body `null` is answered 200 and stores nothing.
- `server.h` 409: a get-or-set that creates loses its CORS headers.
- `server.h` 576: `Access-Control-Allow-Methods` lacks DELETE.
- `config.cpp` 225, 232, 159: a JSON concurrency is not checked, so 0 starts no
  server; a JSON port is checked after it was cut to `int`; a max age of 0 is
  ignored in a variable or an argument and accepted in a file.

## Not modelled

- `json.hpp` (24,837 of the 27,662 lines) is third party; so are SQLite and
  uWebSockets, which are not in the repository. What the program relies on is
  modelled from its use and marked external. The share of the program's own
  lines that the modules stand for is therefore about ten times the share of
  all lines.
- `from_json` and `from_json_str` have no caller. `to_json`, log, debug and the
  benchmarks produce text only; so do `--help` and the values of headers.
- `setup()` of `db.cpp` and the path of the database: an empty path or `:memory:`
  gives each connection a database of its own, and `CacheMe` has one.
- Failing allocations.

## Plan

Written, in this order: the data and the queue, `CacheMe`, its proofs,
`MainLoop`, `Signals`, `Lifecycle`, `StatementCache`, `Http`, `Config`, and the
write-behind store that `CacheMe` implements. Left, in the order of their worth:

1. `CacheMe` with `MainLoop`'s drain in place of `Crash`, for what is lost between
   the drain and the exit.
2. An abstract specification of what clients of two servers may be told: not a
   register, since a reader may see the older value, a marker or an entry that
   was deleted.
3. The safety halves of the liveness properties that have none yet:
   `RowsExpire`, `QueriesEnd`, `EveryRequestEnds`.
