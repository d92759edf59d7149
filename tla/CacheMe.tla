------------------------------ MODULE CacheMe ------------------------------
(***************************************************************************)
(* The running program: server threads that answer HTTP requests from a    *)
(* shared memory cache, the queue of database writes they leave behind,    *)
(* and the main thread that executes that queue against SQLite.            *)
(*                                                                         *)
(* A server handles one request at a time, but other threads run between   *)
(* any two of its calls: every critical section, every clock reading a     *)
(* decision depends on and every SQLite call is a step of its own.         *)
(***************************************************************************)
EXTENDS CacheData, WriteQueue

CONSTANTS
  Servers,      \* server threads, each with its own loop and connection
  Keys, NoKey,  \* NoKey is the empty string
  Ops,          \* the requests clients send
  TTLs,         \* the ttl of a POST; 0 when it has none
  StartTime, MaxTime,   \* the clock runs between these
  MaxReqs,      \* bound on requests
  MaxFaults,    \* bound on crashes and SQLite errors together
  RetryDelay,   \* 5000 ms in run_until_done
  OldRows,      \* rows an earlier process may have left, Blank for none
  OldTable      \* whether that process left a table: a set of BOOLEANs

AllOps == {"get", "get_all", "post", "get_or_set", "delete"}

ASSUME KeyAssumption  == NoKey \notin Keys
ASSUME OpsAssumption  == Ops \subseteq AllOps
ASSUME TimeAssumption ==
  /\ StartTime \in Nat /\ MaxTime \in Nat /\ RetryDelay \in Nat
  /\ TTLs \subseteq 0 .. TsMod - 1
  \* 1970 is over: no clock reading is the magic timestamp 1
  /\ StartTime > 1 /\ StartTime <= MaxTime
ASSUME BoundAssumption == MaxReqs \in Nat /\ MaxFaults \in Nat
ASSUME OldDbAssumption ==
  /\ OldRows \subseteq Data /\ Blank \in OldRows
  \* nothing but set_cache writes rows
  /\ \A d \in OldRows : ~ IsMarker(d)
  /\ OldTable \subseteq BOOLEAN

VARIABLES
  mcache,   \* cache::mcache; an absent key is Blank, as get() answers
  mall,     \* cache::mallcache and mallcache_loaded
  wq,       \* main_state.write_queries
  db,       \* the rows of table "cache"; Blank for none
  table,    \* the table exists
  sv,       \* the request each server is handling, and how far it is
  mn,       \* the query the main thread is running, and how far it is
  now,      \* system clock
  reqs, crashes,
  errors,   \* queries of the main thread that SQLite failed
  last,     \* history: the latest row enqueued for a key
  fate,     \* history: whether that row must, must not or may survive
  magic     \* history: what was posted with a deadline that wrapped to 1

memVars   == <<mcache, mall>>
dbVars    == <<db, table>>
boundVars == <<now, reqs, crashes, errors>>
history   == <<last, fate, magic>>
vars == <<memVars, wq, dbVars, sv, mn, boundVars, history>>

-----------------------------------------------------------------------------
\* Queries and their ids.

Id(kind, k) == [kind |-> kind, key |-> k]
Ids   == [kind : {"init_db", "delete_expires"}, key : {NoKey}]
           \cup [kind : {"set", "del"}, key : Keys]
Query == [id : Ids, ts : Nat, data : Data]

BootQuery(kind) == [id |-> Id(kind, NoKey), ts |-> 0, data |-> Blank]
SetQuery(k, d)  == [id |-> Id("set", k), ts |-> 0, data |-> Stored(d)]
\* Faulty form of the next definition: one clock tick late.
DelQueryLate(k, at) == [id |-> Id("del", k), ts |-> at + 1, data |-> Blank]
DelQuery(k, at) == [id |-> Id("del", k), ts |-> at, data |-> Blank]

\* Faulty form of the next definition: nothing purges at boot.
BootQueueInitOnly == <<BootQuery("init_db")>>

\* init_db leaves these two to run before any request's write.
BootQueue == <<BootQuery("init_db"), BootQuery("delete_expires")>>

NoRows     == [k \in Keys |-> Blank]
NotLoaded  == [rows |-> NoRows, loaded |-> FALSE]

ServerPcs == {"idle", "get", "read", "reset", "schedule", "check", "fill",
              "put", "enq_set", "enq_del", "evict", "enq_now",
              "list", "read_all", "reset_all", "set_all"}
\* Where a server stands without a key.
Keyless   == {"idle", "list", "read_all", "reset_all", "set_all"}
Request   == [pc : ServerPcs, op : AllOps, key : Keys \cup {NoKey},
              data : Data, got : Data, rows : [Keys -> Data]]
IdleServer == [pc |-> "idle", op |-> "get", key |-> NoKey,
               data |-> Blank, got |-> Blank, rows |-> NoRows]
MainPcs    == {"idle", "evict", "step", "commit", "resched"}
IdleMain   == [pc |-> "idle", q |-> BootQuery("init_db"), cts |-> 0]

\* A row with a deadline may expire at any time, any other has to stay.
FateOf(d) == IF d.expires_at = 0 THEN "live" ELSE "either"

Init ==
  /\ mcache = NoRows /\ mall = NotLoaded
  /\ wq = BootQueue
  /\ table \in OldTable
  /\ db \in [Keys -> IF table THEN OldRows ELSE {Blank}]
  /\ sv = [s \in Servers |-> IdleServer]
  /\ mn = IdleMain
  /\ now = StartTime /\ reqs = 0 /\ crashes = 0 /\ errors = 0
  /\ last = db /\ fate = [k \in Keys |-> FateOf(db[k])] /\ magic = {}

-----------------------------------------------------------------------------
\* Steps of a server.

At(s, pc)   == sv[s].pc = pc
Goto(s, pc) == sv' = [sv EXCEPT ![s].pc = pc]
Reply(s)    == sv' = [sv EXCEPT ![s] = IdleServer]

\* cache::set and cache::del: any change of the map forgets the list.  Both
\* happen under mcache_m, so no thread sees one without the other.
CacheSet(k, d) == mcache' = [mcache EXCEPT ![k] = d] /\ mall' = NotLoaded
CacheDel(k)    == CacheSet(k, Blank)

\* Connections inside a SELECT hold SQLite's SHARED lock ...
Readers == {s \in Servers : At(s, "reset") \/ At(s, "reset_all")}
\* ... and a writer that has none to wait for excludes new ones.
Locked  == mn.pc = "commit"

Accept(s, op, pc, k, d) ==
  /\ op \in Ops /\ At(s, "idle") /\ reqs < MaxReqs
  /\ sv' = [sv EXCEPT ![s] = [IdleServer EXCEPT !.pc = pc, !.op = op,
                                                !.key = k, !.data = d]]
  /\ reqs' = reqs + 1
  /\ magic' = IF IsMarker(d) THEN magic \cup {<<k, d.value>>} ELSE magic
  /\ UNCHANGED <<memVars, wq, dbVars, mn, now, crashes, errors, last, fate>>

ReceiveGet(s)    == \E k \in Keys : Accept(s, "get", "get", k, Blank)
ReceiveGetAll(s) == Accept(s, "get_all", "list", NoKey, Blank)
ReceiveDelete(s) == \E k \in Keys : Accept(s, "delete", "evict", k, Blank)
\* The body is parsed, and its deadline fixed, before anything is looked up.
ReceivePost(s) ==
  \E k \in Keys, v \in Values, ttl \in TTLs :
    LET d == [value |-> v, expires_at |-> Deadline(now, ttl)]
    IN  \/ Accept(s, "post", "put", k, d)
        \/ Accept(s, "get_or_set", "get", k, d)

\* The end of http_handlers::get_cache: a marker is a 404, on which
\* get-or-set goes on to store its data; anything else is the reply.
Answer(s, d) ==
  IF IsMarker(d) /\ sv[s].op = "get_or_set" THEN Goto(s, "put") ELSE Reply(s)

LookUp(s) ==
  /\ At(s, "get")
  /\ LET d == mcache[sv[s].key]
     IN  IF IsCached(d) THEN Answer(s, d) ELSE Goto(s, "read")
  /\ UNCHANGED <<memVars, wq, dbVars, mn, boundVars, history>>

\* Whatever the SELECT did, get_cache went on with this record.
Found(s, pc, d) == sv' = [sv EXCEPT ![s].pc = pc, ![s].got = d]

\* db::get_cache.  Without a table preparing fails, after the schema was
\* read under a SHARED lock; while the writer commits the step answers
\* SQLITE_BUSY.  Either way the caller gets an empty record.
Read(s) ==
  /\ At(s, "read")
  /\ IF Locked THEN Found(s, "fill", Blank)
               ELSE Found(s, "reset", AsRead(db[sv[s].key]))
  /\ UNCHANGED <<memVars, wq, dbVars, mn, boundVars, history>>

Reset(s) ==
  /\ At(s, "reset")
  /\ Goto(s, IF ExpiresAt(sv[s].got) # 0 THEN "schedule" ELSE "fill")
  /\ UNCHANGED <<memVars, wq, dbVars, mn, boundVars, history>>

Schedule(s) ==
  /\ At(s, "schedule")
  /\ wq' = Enqueue(wq, DelQuery(sv[s].key, ExpiresAt(sv[s].got)))
  /\ Goto(s, "check")
  /\ UNCHANGED <<memVars, dbVars, mn, boundVars, history>>

Check(s) ==
  /\ At(s, "check")
  /\ Found(s, "fill", IF ExpiresAt(sv[s].got) <= now THEN Blank ELSE sv[s].got)
  /\ UNCHANGED <<memVars, wq, dbVars, mn, boundVars, history>>

\* Faulty form of the next definition: mark_cached whatever was found.
FilledMarked(d) == MarkCached(d)

\* What a miss leaves in memory: the row, or the marker that there is none.
Filled(d) == IF IsEmpty(d) THEN MarkCached(d) ELSE d

Fill(s) ==
  /\ At(s, "fill")
  /\ CacheSet(sv[s].key, Filled(sv[s].got))
  /\ Answer(s, Filled(sv[s].got))
  /\ UNCHANGED <<wq, dbVars, mn, boundVars, history>>

Put(s) ==
  /\ At(s, "put")
  /\ CacheSet(sv[s].key, sv[s].data)
  /\ Goto(s, "enq_set")
  /\ UNCHANGED <<wq, dbVars, mn, boundVars, history>>

\* A delete with a deadline may run after the row that was just enqueued.
DelayedDel(k) == \E i \in DOMAIN wq : wq[i].id = Id("del", k) /\ wq[i].ts > 0

EnqSet(s) ==
  /\ At(s, "enq_set")
  /\ LET k == sv[s].key
     IN  /\ wq' = Enqueue(wq, SetQuery(k, sv[s].data))
         /\ last' = [last EXCEPT ![k] = Stored(sv[s].data)]
         /\ fate' = [fate EXCEPT ![k] =
              IF DelayedDel(k) THEN "either" ELSE FateOf(Stored(sv[s].data))]
  /\ Goto(s, "enq_del")
  /\ UNCHANGED <<memVars, dbVars, mn, boundVars, magic>>

\* The second half of db::set_cache, and the end of a POST.
EnqDel(s) ==
  /\ At(s, "enq_del")
  /\ LET k  == sv[s].key
         at == ExpiresAt(sv[s].data)
     IN  IF at = 0
         THEN wq' = RemoveQuery(wq, Id("del", k)) /\ UNCHANGED fate
         ELSE /\ wq' = Enqueue(wq, DelQuery(k, at))
              /\ fate' = [fate EXCEPT ![k] = "either"]
  /\ Reply(s)
  /\ UNCHANGED <<memVars, dbVars, mn, boundVars, last, magic>>

Evict(s) ==
  /\ At(s, "evict")
  /\ CacheDel(sv[s].key)
  /\ Goto(s, "enq_now")
  /\ UNCHANGED <<wq, dbVars, mn, boundVars, history>>

\* A POST between its two enqueues overlaps the DELETE: either may win.
EnqNow(s) ==
  /\ At(s, "enq_now")
  /\ LET k == sv[s].key
         overlapped == \E t \in Servers : At(t, "enq_del") /\ sv[t].key = k
     IN  /\ wq' = Enqueue(wq, DelQuery(k, 0))
         /\ fate' = [fate EXCEPT ![k] = IF overlapped THEN "either" ELSE "gone"]
  /\ Reply(s)
  /\ UNCHANGED <<memVars, dbVars, mn, boundVars, last, magic>>

\* GET /cache: the list is kept apart from the map and filled on demand.
ListAll(s) ==
  /\ At(s, "list")
  /\ IF mall.loaded THEN Reply(s) ELSE Goto(s, "read_all")
  /\ UNCHANGED <<memVars, wq, dbVars, mn, boundVars, history>>

FoundAll(s, pc, rows) == sv' = [sv EXCEPT ![s].pc = pc, ![s].rows = rows]

ReadAll(s) ==
  /\ At(s, "read_all")
  /\ IF Locked THEN FoundAll(s, "set_all", NoRows)
               ELSE FoundAll(s, "reset_all", [k \in Keys |-> AsRead(db[k])])
  /\ UNCHANGED <<memVars, wq, dbVars, mn, boundVars, history>>

ResetAll(s) ==
  /\ At(s, "reset_all")
  /\ Goto(s, "set_all")
  /\ UNCHANGED <<memVars, wq, dbVars, mn, boundVars, history>>

SetAll(s) ==
  /\ At(s, "set_all")
  /\ mall' = [rows |-> sv[s].rows, loaded |-> TRUE]
  /\ Reply(s)
  /\ UNCHANGED <<mcache, wq, dbVars, mn, boundVars, history>>

Receive(s) ==
  \/ ReceiveGet(s) \/ ReceiveGetAll(s) \/ ReceivePost(s) \/ ReceiveDelete(s)

Handle(s) ==
  \/ LookUp(s) \/ Read(s) \/ Reset(s) \/ Schedule(s) \/ Check(s) \/ Fill(s)
  \/ Put(s) \/ EnqSet(s) \/ EnqDel(s) \/ Evict(s) \/ EnqNow(s)
  \/ ListAll(s) \/ ReadAll(s) \/ ResetAll(s) \/ SetAll(s)

-----------------------------------------------------------------------------
\* Steps of the main thread.

\* run_queued_queries takes the top when it is due; run_query drops it when
\* it cannot be prepared.  The waiting in between is module MainLoop's.
Pop ==
  /\ mn.pc = "idle"
  /\ \E i \in DOMAIN wq :
       /\ IsTop(wq, i) /\ wq[i].ts <= now
       /\ wq' = PopAt(wq, i)
       /\ LET q == wq[i]
          IN  mn' = IF q.id.kind # "init_db" /\ ~ table THEN IdleMain
                    ELSE [pc |-> IF q.id.kind = "del" THEN "evict" ELSE "step",
                          q |-> q,
                          cts |-> IF q.id.kind = "delete_expires" THEN now ELSE 0]
  /\ UNCHANGED <<memVars, dbVars, sv, boundVars, history>>

\* Faulty form of the next definition: the row goes, the entry stays.
EvictMemForgotten ==
  /\ mn.pc = "evict"
  /\ mn' = [mn EXCEPT !.pc = "step"]
  /\ UNCHANGED <<memVars, wq, dbVars, sv, boundVars, history>>

\* The run function of a del query evicts before it steps its statement.
EvictMem ==
  /\ mn.pc = "evict"
  /\ CacheDel(mn.q.id.key)
  /\ mn' = [mn EXCEPT !.pc = "step"]
  /\ UNCHANGED <<wq, dbVars, sv, boundVars, history>>

\* Faulty form of the next definition: a row without a deadline goes as well.
PurgedAny(d) == d # Blank /\ AsSigned(d.expires_at) <= AsSigned(mn.cts)

\* The WHERE clause of delete_expires, on signed columns.
Purged(d) == d.expires_at # 0 /\ AsSigned(d.expires_at) <= AsSigned(mn.cts)

\* The table after mn.q.
Written ==
  CASE mn.q.id.kind = "set" -> [db EXCEPT ![mn.q.id.key] = mn.q.data]
    [] mn.q.id.kind = "del" -> [db EXCEPT ![mn.q.id.key] = Blank]
    [] mn.q.id.kind = "delete_expires" -> [k \in Keys |-> IF Purged(db[k]) THEN Blank ELSE db[k]]
    [] OTHER -> db

\* An INSERT always dirties a page; the others only when there is work.
Dirties ==
  \/ mn.q.id.kind = "set"
  \/ mn.q.id.kind = "init_db" /\ ~ table
  \/ Written # db

\* Faulty form of the next definition: a BUSY statement is given up.
StepGivesUp ==
  /\ mn.pc = "step"
  /\ mn' = IF ~ Dirties \/ Readers # {} THEN IdleMain ELSE [mn EXCEPT !.pc = "commit"]
  /\ UNCHANGED <<memVars, wq, dbVars, sv, boundVars, history>>

\* run_until_done: the step ends at once when it has nothing to write, is
\* BUSY when some connection is reading, and otherwise gets the lock.
Step ==
  /\ mn.pc = "step"
  /\ mn' = IF ~ Dirties THEN IdleMain
           ELSE [mn EXCEPT !.pc = IF Readers # {} THEN "resched" ELSE "commit"]
  /\ UNCHANGED <<memVars, wq, dbVars, sv, boundVars, history>>

Commit ==
  /\ mn.pc = "commit"
  /\ db' = Written /\ table' = TRUE
  /\ mn' = IdleMain
  /\ UNCHANGED <<memVars, wq, sv, boundVars, history>>

\* SQLITE_BUSY: a copy goes back to the queue, five seconds from now.
Resched ==
  /\ mn.pc = "resched"
  /\ wq' = Enqueue(wq, [mn.q EXCEPT !.ts = now + RetryDelay])
  /\ mn' = IdleMain
  /\ UNCHANGED <<memVars, dbVars, sv, boundVars, history>>

\* What the history makes of a set or deletion SQLite failed: the row that is
\* there stays the latest until the next set, and may be there or not.
Undone ==
  LET id == mn.q.id
      k  == id.key
  IN  /\ last' = IF id.kind = "set" /\ ~ Queued(wq, id)
                 THEN [last EXCEPT ![k] = db[k]] ELSE last
      /\ fate' = CASE id.kind = "set" /\ ~ Queued(wq, id) /\ fate[k] = "live" ->
                        [fate EXCEPT ![k] = "either"]
                   [] id.kind = "del" /\ fate[k] = "gone" ->
                        [fate EXCEPT ![k] = "either"]
                   [] OTHER -> fate

\* SQLite fails the query: it cannot be prepared or bound, or its step ends
\* with the bit of SQLITE_ERROR set.  That is logged and the query is gone.
\* A code without that bit is stepped again.
GiveUp ==
  /\ mn.pc \in {"evict", "step", "commit"}
  /\ crashes + errors < MaxFaults
  /\ errors' = errors + 1
  /\ mn' = IdleMain
  /\ Undone
  /\ UNCHANGED <<memVars, wq, dbVars, sv, now, reqs, crashes, magic>>

Main == Pop \/ EvictMem \/ Step \/ Commit \/ Resched \/ GiveUp

-----------------------------------------------------------------------------
Tick ==
  /\ now < MaxTime
  /\ now' = now + 1
  /\ UNCHANGED <<memVars, wq, dbVars, sv, mn, reqs, crashes, errors, history>>

\* The process dies (a third SIGINT, or the machine) and is started again:
\* what SQLite committed stays, everything in memory is gone.
Crash ==
  /\ crashes + errors < MaxFaults
  /\ crashes' = crashes + 1
  /\ mcache' = NoRows /\ mall' = NotLoaded
  /\ wq' = BootQueue
  /\ sv' = [s \in Servers |-> IdleServer]
  /\ mn' = IdleMain
  /\ last' = db /\ fate' = [k \in Keys |-> FateOf(db[k])] /\ magic' = {}
  /\ UNCHANGED <<dbVars, now, reqs, errors>>

Next == (\E s \in Servers : Receive(s) \/ Handle(s)) \/ Main \/ Tick \/ Crash

Spec == Init /\ [][Next]_vars

\* Threads that can take a step do, and time passes; clients, crashes and
\* errors owe nothing: WF(Main) is met without a GiveUp, which is only ever
\* enabled beside another step of the main thread.
Fairness ==
  /\ \A s \in Servers : WF_vars(Handle(s))
  /\ WF_vars(Main) /\ WF_vars(Tick)

FairSpec == Spec /\ Fairness

-----------------------------------------------------------------------------
\* Properties.

TypeOK ==
  /\ mcache \in [Keys -> Data]
  /\ mall \in [rows : [Keys -> Data], loaded : BOOLEAN]
  /\ wq \in Seq(Query)
  /\ db \in [Keys -> Data] /\ table \in BOOLEAN
  /\ sv \in [Servers -> Request]
  /\ mn \in [pc : MainPcs, q : Query, cts : Nat]
  /\ now \in Nat /\ reqs \in Nat /\ crashes \in Nat /\ errors \in Nat
  /\ last \in [Keys -> Data]
  /\ fate \in [Keys -> {"live", "gone", "either"}]
  /\ magic \subseteq (Keys \cup {NoKey}) \X (Values \cup {NoValue})
  \* a server that acts on a key has one, and the main thread evicts one
  /\ \A s \in Servers :
       sv[s].pc \notin Keyless => sv[s].key \in Keys
  /\ mn.pc = "evict" => mn.q.id.kind = "del"

\* At most one query per id waits: every enqueue replaces the older one.
QueueIdsUnique == UniqueIds(wq)

InFlight(id)  == mn.pc # "idle" /\ mn.q.id = id
SetPending(k) == Queued(wq, Id("set", k)) \/ InFlight(Id("set", k))

\* Expiry time 1 is kept for "known not to exist" (server.h 831).  Memory
\* carries it on an entry with a value, which clients are then told is a 404,
\* only after a POST of that very value whose deadline wrapped to 1; no fill,
\* replacement or restart hands the mark on, and it never reaches the table.
MagicMarksAbsence ==
  \A k \in Keys :
    /\ IsMarker(mcache[k]) =>
         mcache[k].value = NoValue \/ <<k, mcache[k].value>> \in magic
    /\ ~ IsMarker(db[k])

\* init_db still waits where the boot put it, ahead of every request's write.
BootDue == \E i \in DOMAIN wq : wq[i] = BootQuery("init_db")

\* A set that was enqueued for a key leaves the program, through SQLITE_BUSY,
\* rescheduling and replacement, in four ways only: a set of its key is
\* committed; the process dies; SQLite fails it; or there is no table to
\* prepare it for, because init_db was itself put back or failed.
PendingSetsSurvive ==
  [][\A k \in Keys :
       SetPending(k) /\ ~ SetPending(k)'
         => \/ crashes' # crashes
            \/ InFlight(Id("set", k)) /\ db'[k] = mn.q.data
            \/ InFlight(Id("set", k)) /\ errors' # errors
            \/ ~ table /\ ~ BootDue]_vars

\* Once no set of a key is pending, its row is the one enqueued last, or
\* gone: an older set never overtakes a newer one ("Mark skip all previous
\* query with the same key", server.h 895).
NoStaleRow ==
  \A k \in Keys : ~ SetPending(k) => db[k] \in {Blank, last[k]}

\* All requests are answered, and the queue holds nothing but deletions that
\* wait for the deadline of the row they delete.
AtRest ==
  /\ mn.pc = "idle"
  /\ \A s \in Servers : At(s, "idle")
  /\ \A i \in DOMAIN wq : /\ wq[i].id.kind = "del"
                          /\ wq[i].ts > now
                          /\ wq[i].ts = db[wq[i].id.key].expires_at

\* At rest every acknowledged POST without a deadline is in the database and
\* every acknowledged DELETE has removed its row, unless the two overlapped or
\* SQLite failed the write.  (If it failed init_db there is no table.)
AcknowledgedIsDurable ==
  AtRest /\ table => \A k \in Keys :
              /\ fate[k] = "live" => db[k] = last[k]
              /\ fate[k] = "gone" => db[k] = Blank

\* At rest a row whose key was deleted after its last POST is gone: DELETE
\* "deletes the cache entry associated with the specified key" (README 53).
DeletedStaysDeleted ==
  AtRest => \A k \in Keys : fate[k] = "gone" => db[k] = Blank

\* At rest a key marked as known not to exist has no row (cache.h 16).
MarkerMeansAbsent ==
  AtRest => \A k \in Keys : IsMarker(mcache[k]) => db[k] = Blank

\* The program as a write-behind store: what a queue owes to each key, and
\* the set or deletion the main thread is at.
SetsIn(w) == [k \in Keys |-> {d \in Data :
               \E i \in DOMAIN w : w[i].id = Id("set", k) /\ w[i].data = d}]
DelsIn(w) == {k \in Keys : Queued(w, Id("del", k))}
Job(m) ==
  IF m.pc = "idle" THEN [kind |-> "none"]
  ELSE CASE m.q.id.kind = "set" -> [kind |-> "set", key |-> m.q.id.key, row |-> m.q.data]
         [] m.q.id.kind = "del" -> [kind |-> "del", key |-> m.q.id.key]
         [] OTHER -> [kind |-> "none"]

Behind == INSTANCE WriteBehind WITH
  row <- db, open <- table, next <- SetsIn(wq), doomed <- DelsIn(wq),
  hand <- Job(mn), faults <- crashes + errors

\* Every step of the program is a step of that store or none of its business:
\* the table changes by one job at a time; a job was owed when it was taken,
\* with the row it was owed with; it ends by changing its own row, by being
\* owed again, or by an error or a crash; and what is owed to a key is only
\* replaced, taken or, with the process, lost.
WritesBehind == Behind!Spec

\* A get-or-set never replaces an entry that memory holds: "If a cache entry
\* with the specified key already exists, the existing value will be returned.
\* Otherwise, a new entry is created" (README 45).
GetOrSetKeeps ==
  [][\A s \in Servers :
       At(s, "put") /\ sv[s].op = "get_or_set" /\ At(s, "enq_set")'
         => mcache[sv[s].key].value = NoValue]_vars

\* At rest memory and database agree on every key memory knows about.
CoherentAtRest ==
  AtRest => \A k \in Keys : mcache[k] # Blank => Stored(mcache[k]) = db[k]

\* An entry with a deadline is never forgotten: its eviction is queued for no
\* later than the deadline, being run, or about to be queued by its POST.
EvictionScheduled ==
  \A k \in Keys : ExpiresAt(mcache[k]) # 0 =>
    \/ \E i \in DOMAIN wq : /\ wq[i].id = Id("del", k)
                            /\ wq[i].ts <= mcache[k].expires_at
    \/ mn.pc = "evict" /\ mn.q.id = Id("del", k)
    \/ \E s \in Servers : sv[s].key = k /\ (At(s, "enq_set") \/ At(s, "enq_del"))

\* Every enqueued set is eventually executed.
SetsAreExecuted == \A k \in Keys : SetPending(k) ~> ~ SetPending(k)

\* An entry, or a row, that can expire before the clock stops goes away.
EntriesExpire ==
  \A k \in Keys, t \in StartTime .. MaxTime :
    mcache[k].expires_at = t ~> mcache[k].expires_at # t

\* So does a row, those included that expired before the process started
\* (delete_expires at boot).
RowsExpire ==
  \A k \in Keys, t \in 2 .. MaxTime : db[k].expires_at = t ~> db[k].expires_at # t

=============================================================================
