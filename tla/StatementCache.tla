--------------------------- MODULE StatementCache ---------------------------
(***************************************************************************)
(* db.cpp's cache of prepared statements, shared by every server thread    *)
(* and the main thread, through boot, running and shutdown.  Each thread   *)
(* has a SQLite connection of its own; what keeps it off the statements of *)
(* the others is only the key it looks them up by.                         *)
(*                                                                         *)
(* Looking a statement up, preparing it and inserting it are three steps   *)
(* (two critical sections with SQLite in between), and every call of       *)
(* SQLite is a step.  Handles are memory: a finalized one may come back as *)
(* another connection's statement.                                         *)
(***************************************************************************)
EXTENDS Integers, FiniteSets

CONSTANTS
  Servers, Main,    \* threads, each with a connection
  Handles, Null,    \* addresses sqlite3_prepare_v2 may return
  Codes,            \* result codes sqlite3_step may return to the main thread
  MaxQueries        \* bound on the queries of all threads after boot

Threads == Servers \cup {Main}

DONE == 101
BUSY == 5

ASSUME ThreadAssumption == Main \notin Servers
ASSUME HandleAssumption == Null \notin Handles \cup Threads
ASSUME CodeAssumption   == Codes \subseteq Nat
ASSUME QueryAssumption  == MaxQueries \in Nat

VARIABLES
  stmt_cache,  \* what each key maps to, Null when it is not there
  stmt,        \* SQLite's side: the connection a live handle belongs to, and
               \* whether it was stepped since its last reset
  th,          \* the query each thread runs, and how far it is
  conn,        \* "open", "closed", or "intact" when closing it was refused
  phase,       \* how far the main thread is, see Phases
  retry,       \* boot queries that were BUSY and are scheduled again
  queries

vars == <<stmt_cache, stmt, th, conn, phase, retry, queries>>

-----------------------------------------------------------------------------
ServerSql == {"s", "a"}                      \* get_cache, get_all_cache
BootSql   == {"init_db", "delete_expires"}
MainSql   == BootSql \cup {"set", "del"}

\* Faulty form of the next definition: server_id is left out of the key.
KeyOfAny(t, sql) == <<IF t = Main THEN Main ELSE CHOOSE s \in Servers : TRUE, sql>>

\* A server's key is "<id>s" or "<id>a", the main thread's the query itself.
KeyOf(t, sql) == <<t, sql>>

StmtKeys == ({Main} \X MainSql) \cup (Servers \X ServerSql)

\* A handle that is no statement.
Freed == [conn |-> Null, stepped |-> FALSE]

\* The two boot queries come first, in this order.
Phases == {"init_db", "delete_expires", "loop", "cleanup", "close", "exited"}

ThreadPcs == {"idle", "find", "prepare", "insert", "bind", "step", "reset", "finalize"}
Idle == [pc |-> "idle", sql |-> "", h |-> Null, code |-> DONE]

Init ==
  /\ stmt_cache = [k \in StmtKeys |-> Null]
  /\ stmt = [h \in Handles |-> Freed]
  /\ th = [t \in Threads |-> Idle]
  /\ conn = [t \in Threads |-> "open"]
  /\ phase = "init_db" /\ retry = {} /\ queries = 0

Key(t)      == KeyOf(t, th[t].sql)
At(t, pc)   == th[t].pc = pc
Goto(t, pc) == th' = [th EXCEPT ![t].pc = pc]
Return(t)   == th' = [th EXCEPT ![t] = Idle]
Start(t, sql) == th' = [th EXCEPT ![t] = [Idle EXCEPT !.pc = "find", !.sql = sql]]

-----------------------------------------------------------------------------
\* One query of one thread.

\* A server reads for a request it was sent.
ServerBegin(s) ==
  /\ At(s, "idle") /\ conn[s] = "open" /\ queries < MaxQueries
  /\ \E sql \in ServerSql : Start(s, sql)
  /\ queries' = queries + 1
  /\ UNCHANGED <<stmt_cache, stmt, conn, phase, retry>>

\* The main thread runs sets and deletions, those of the drain included, and
\* what is left of the boot.
MainBegin ==
  /\ At(Main, "idle") /\ phase = "loop" /\ queries < MaxQueries
  /\ \E sql \in (MainSql \ BootSql) \cup retry :
       Start(Main, sql) /\ retry' = retry \ {sql}
  /\ queries' = queries + 1
  /\ UNCHANGED <<stmt_cache, stmt, conn, phase>>

\* The shared lock of prepare_statement.
Find(t) ==
  /\ At(t, "find")
  /\ LET h == stmt_cache[Key(t)]
     IN  th' = [th EXCEPT ![t].pc = IF h = Null THEN "prepare" ELSE "bind",
                          ![t].h = h]
  /\ UNCHANGED <<stmt_cache, stmt, conn, phase, retry, queries>>

\* sqlite3_prepare_v2: a new statement of t's connection.  It may fail (no
\* table yet, no memory), after which a server goes on to finalize nothing
\* and the main thread gives the query up.
Prepare(t) ==
  /\ At(t, "prepare")
  /\ \/ \E h \in Handles :
          /\ stmt[h] = Freed
          /\ stmt' = [stmt EXCEPT ![h].conn = t]
          /\ th' = [th EXCEPT ![t].pc = "insert", ![t].h = h]
     \/ /\ IF t = Main THEN Return(t) ELSE Goto(t, "finalize")
        /\ UNCHANGED stmt
  /\ UNCHANGED <<stmt_cache, conn, phase, retry, queries>>

\* The exclusive lock of prepare_statement.
Insert(t) ==
  /\ At(t, "insert")
  /\ stmt_cache' = [stmt_cache EXCEPT ![Key(t)] = th[t].h]
  /\ Goto(t, "bind")
  /\ UNCHANGED <<stmt, conn, phase, retry, queries>>

\* Binding may fail, except that two of the statements have no parameter.
\* Here it is also fixed what stepping will answer the main thread: a result
\* that would pass by itself is one that had not come.
Bind(t) ==
  /\ At(t, "bind")
  /\ \/ \E code \in IF t = Main THEN Codes ELSE {DONE} :
          th' = [th EXCEPT ![t].pc = "step", ![t].code = code]
     \/ th[t].sql \notin {"a", "init_db"} /\ Goto(t, "finalize")
  /\ UNCHANGED <<stmt_cache, stmt, conn, phase, retry, queries>>

\* Faulty form of the next definition: no way out of a busy database.
EndsOnDone(code) == code = DONE \/ (code % 2 = 1 /\ code # BUSY)

\* run_until_done leaves its loop: done, busy and rescheduled, or an error
\* that has the bit of SQLITE_ERROR (1).  Any other code steps again.
Ends(code) == code = DONE \/ code = BUSY \/ code % 2 = 1

\* SQLite marks the statement at h; on a freed one the outcome is undefined,
\* and leaving it as it is stands for all of them.
Mark(h, stepped) == [stmt EXCEPT ![h].stepped = stepped /\ stmt[h] # Freed]

\* Faulty form of the next definition: every busy query counts as one of the
\* boot.
AgainAny(t) == {th[t].sql}

\* The query to schedule again after SQLITE_BUSY.
Again(t) == {th[t].sql} \cap BootSql

\* A server steps its SELECT once, or until it has every row, and resets it
\* whatever came back; the boot queries are finalized instead.
Step(t) ==
  /\ At(t, "step")
  /\ stmt' = Mark(th[t].h, TRUE)
  /\ Goto(t, IF ~ Ends(th[t].code) THEN "step"
             ELSE IF th[t].sql \in BootSql THEN "finalize" ELSE "reset")
  /\ retry' = IF th[t].code = BUSY THEN retry \cup Again(t) ELSE retry
  /\ UNCHANGED <<stmt_cache, conn, phase, queries>>

\* Faulty form of the next definition: the statement is left as it was.
ResetForgotten(t) ==
  /\ At(t, "reset")
  /\ Return(t)
  /\ UNCHANGED <<stmt_cache, stmt, conn, phase, retry, queries>>

\* reset_statement.
Reset(t) ==
  /\ At(t, "reset")
  /\ stmt' = Mark(th[t].h, FALSE)
  /\ Return(t)
  /\ UNCHANGED <<stmt_cache, conn, phase, retry, queries>>

\* Faulty forms of the next definition: the key stays, or only the key goes.
FinalizeKeepsKey(t) ==
  /\ At(t, "finalize")
  /\ stmt' = IF th[t].h = Null THEN stmt ELSE [stmt EXCEPT ![th[t].h] = Freed]
  /\ Return(t)
  /\ UNCHANGED <<stmt_cache, conn, phase, retry, queries>>
FinalizeKeyOnly(t) ==
  /\ At(t, "finalize")
  /\ stmt_cache' = [stmt_cache EXCEPT ![Key(t)] = Null]
  /\ Return(t)
  /\ UNCHANGED <<stmt, conn, phase, retry, queries>>

\* finalize_statement, after which reset_statement has nothing to reset.
Finalize(t) ==
  /\ At(t, "finalize")
  /\ stmt' = IF th[t].h = Null THEN stmt ELSE [stmt EXCEPT ![th[t].h] = Freed]
  /\ stmt_cache' = [stmt_cache EXCEPT ![Key(t)] = Null]
  /\ Return(t)
  /\ UNCHANGED <<conn, phase, retry, queries>>

Run(t) ==
  \/ Find(t) \/ Prepare(t) \/ Insert(t) \/ Bind(t)
  \/ Step(t) \/ Reset(t) \/ Finalize(t)

-----------------------------------------------------------------------------
\* The main thread's way through the program.

\* init_db leaves two queries that run before any other.
Boot ==
  /\ At(Main, "idle")
  /\ \/ phase = "init_db" /\ Start(Main, "init_db") /\ phase' = "delete_expires"
     \/ phase = "delete_expires" /\ Start(Main, "delete_expires") /\ phase' = "loop"
  /\ UNCHANGED <<stmt_cache, stmt, conn, retry, queries>>

\* SIGINT; the queue has been drained.
Stop ==
  /\ phase = "loop" /\ At(Main, "idle")
  /\ phase' = "cleanup"
  /\ UNCHANGED <<stmt_cache, stmt, th, conn, retry, queries>>

\* db::cleanup: every statement in the map is finalized, whoever uses it.
Cleanup ==
  /\ phase = "cleanup"
  /\ LET cached == {stmt_cache[k] : k \in StmtKeys}
     IN  stmt' = [h \in Handles |-> IF h \in cached THEN Freed ELSE stmt[h]]
  /\ stmt_cache' = [k \in StmtKeys |-> Null]
  /\ phase' = "close"
  /\ UNCHANGED <<th, conn, retry, queries>>

\* sqlite3_close refuses a connection that still has statements.
Closed(t) == IF \E h \in Handles : stmt[h].conn = t THEN "intact" ELSE "closed"

\* First the main connection ...
CloseMain ==
  /\ phase = "close" /\ conn[Main] = "open"
  /\ conn' = [conn EXCEPT ![Main] = Closed(Main)]
  /\ UNCHANGED <<stmt_cache, stmt, th, phase, retry, queries>>

\* ... then each server is told to stop, joined after the request it is in,
\* and its connection closed.
CloseServer(s) ==
  /\ phase = "close" /\ conn[Main] # "open" /\ conn[s] = "open"
  /\ At(s, "idle")
  /\ conn' = [conn EXCEPT ![s] = Closed(s)]
  /\ UNCHANGED <<stmt_cache, stmt, th, phase, retry, queries>>

Exit ==
  /\ phase = "close" /\ \A t \in Threads : conn[t] # "open"
  /\ phase' = "exited"
  /\ UNCHANGED <<stmt_cache, stmt, th, conn, retry, queries>>

Shutdown == Cleanup \/ CloseMain \/ (\E s \in Servers : CloseServer(s)) \/ Exit

Next ==
  \/ \E t \in Threads : Run(t)
  \/ \E s \in Servers : ServerBegin(s)
  \/ Boot \/ MainBegin \/ Stop \/ Shutdown

\* Clients need not ask and nobody need press ^C; the rest runs.
Spec ==
  /\ Init /\ [][Next]_vars
  /\ \A t \in Threads : WF_vars(Run(t))
  /\ WF_vars(Boot) /\ WF_vars(Shutdown)

-----------------------------------------------------------------------------
\* Properties.

\* The state is well typed.
TypeOK ==
  /\ stmt_cache \in [StmtKeys -> Handles \cup {Null}]
  /\ stmt \in [Handles -> [conn : Threads \cup {Null}, stepped : BOOLEAN]]
  /\ th \in [Threads -> [pc : ThreadPcs, h : Handles \cup {Null},
                         sql : ServerSql \cup MainSql \cup {""},
                         code : Codes \cup {DONE}]]
  /\ conn \in [Threads -> {"open", "closed", "intact"}]
  /\ phase \in Phases /\ retry \subseteq BootSql /\ queries \in Nat

\* A thread that is about to hand its statement to SQLite.
Uses(t, h) == th[t].h = h /\ th[t].pc \in {"insert", "bind", "step", "reset", "finalize"}

\* Before db::cleanup has run.
Running == phase \notin {"close", "exited"}

\* While the program runs, what a thread hands to SQLite is a live statement
\* of its own connection: the two locks of prepare_statement and the erasing
\* of finalize_statement never leave a freed or a foreign handle in its
\* hands.  SQLite is in its multi-thread mode (db.cpp 20), where sharing a
\* connection is undefined.
OwnLiveStatement ==
  Running => \A t \in Threads, h \in Handles : Uses(t, h) => stmt[h].conn = t

\* While the program runs no statement is lost: one that lives is found by
\* its key or is in the hands of the thread that prepared it.
NoStatementLost ==
  Running => \A h \in Handles : stmt[h] # Freed =>
    \/ \E k \in StmtKeys : stmt_cache[k] = h
    \/ Uses(stmt[h].conn, h)

\* A thread between two queries leaves no statement stepped: an open SELECT
\* would keep its SHARED lock, and every write would be BUSY from then on.
IdleHoldsNoLock ==
  Running => \A t \in Threads, h \in Handles :
               At(t, "idle") /\ stmt[h].conn = t => ~ stmt[h].stepped

\* The main connection closes: its statements are all found by cleanup, the
\* boot queries' having been finalized (run.cpp 249, 279).
MainCloses == conn[Main] # "intact"

\* Every query comes to an end: the main thread is to report an "Error running
\* scheduled query with status" (run.cpp 144) and to go on with the next.  Only
\* an error without the lowest bit set, such as SQLITE_IOERR (10), keeps it in
\* run_until_done.
QueriesEnd ==
  \A t \in Threads :
    LET missed == th[t].code # DONE /\ th[t].code % 2 = 0
    IN  ~ At(t, "idle") ~> At(t, "idle") \/ missed

=============================================================================
