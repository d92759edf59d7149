----------------------------- MODULE Lifecycle ------------------------------
(***************************************************************************)
(* From start to exit: the main thread starts a thread per server, runs    *)
(* the write queue, is stopped by SIGINT, drains the queue, and destroys   *)
(* the servers one after the other; each server's thread opens a database, *)
(* builds its app, listens, and runs its loop until the app is closed.     *)
(*                                                                         *)
(* The main thread reads a server's sapp and sloop without a lock while    *)
(* its thread writes them; a write that is seen late is one made late.     *)
(***************************************************************************)
EXTENDS Integers, Sequences, FiniteSets

CONSTANTS
  Concurrency,   \* main_state.concurrency
  MaxWrites      \* bound on the writes clients send

ASSUME ConcurrencyAssumption == Concurrency \in Nat
ASSUME WritesAssumption      == MaxWrites \in Nat

Servers == 0 .. Concurrency - 1

VARIABLES
  main,      \* what the main thread is doing, see MainPcs
  cur,       \* the server it is starting or destroying
  running,   \* main_state.running
  queue,     \* writes that are acknowledged and not executed
  writes,    \* how many there were
  main_db,   \* the main connection is open
  th,        \* where each server's thread is, see ThreadPcs
  sapp, sloop,  \* these pointers are not null
  closing,   \* the call of sapp->close() that was deferred to the loop
  server_db  \* the server's connection is open

mainVars   == <<main, cur, running, queue, writes, main_db>>
serverVars == <<th, sapp, sloop, closing, server_db>>
vars == <<mainVars, serverVars>>

MainPcs == {"init_db", "start", "loop", "drain", "close", "stop", "join",
            "shutdown_db", "exited", "failed", "terminated"}
ThreadPcs == {"none", "init_db", "new_app", "listen", "get_loop", "run",
              "delete_app", "returned"}

Init ==
  /\ main = "init_db" /\ cur = 0 /\ running = TRUE
  /\ queue = 0 /\ writes = 0 /\ main_db = FALSE
  /\ th = [s \in Servers |-> "none"]
  /\ sapp = [s \in Servers |-> FALSE] /\ sloop = [s \in Servers |-> FALSE]
  /\ closing = [s \in Servers |-> FALSE]
  /\ server_db = [s \in Servers |-> FALSE]

\* The process is there.
Alive == main \notin {"exited", "failed", "terminated"}

-----------------------------------------------------------------------------
\* The thread of server s.

ThreadAt(s, pc) == Alive /\ th[s] = pc
Goto(s, pc)     == th' = [th EXCEPT ![s] = pc]

\* An exception that leaves a thread's function calls std::terminate.
Terminate ==
  main' = "terminated" /\ UNCHANGED <<cur, running, queue, writes, main_db, serverVars>>

\* Faulty form of the next definition: an error is logged and no more.
InitDbGoesOn(s) ==
  /\ ThreadAt(s, "init_db")
  /\ \/ Goto(s, "new_app") /\ server_db' = [server_db EXCEPT ![s] = TRUE]
     \/ Goto(s, "returned") /\ UNCHANGED server_db
  /\ UNCHANGED <<mainVars, sapp, sloop, closing>>

\* main() opens the connection, or throws.
InitDb(s) ==
  /\ ThreadAt(s, "init_db")
  /\ \/ /\ Goto(s, "new_app")
        /\ server_db' = [server_db EXCEPT ![s] = TRUE]
        /\ UNCHANGED <<mainVars, sapp, sloop, closing>>
     \/ Terminate

NewApp(s) ==
  /\ ThreadAt(s, "new_app")
  /\ sapp' = [sapp EXCEPT ![s] = TRUE]
  /\ Goto(s, "listen")
  /\ UNCHANGED <<mainVars, sloop, closing, server_db>>

\* The port may be taken; then the callback throws.
Listen(s) ==
  /\ ThreadAt(s, "listen")
  /\ \/ Goto(s, "get_loop") /\ UNCHANGED <<mainVars, sapp, sloop, closing, server_db>>
     \/ Terminate

GetLoop(s) ==
  /\ ThreadAt(s, "get_loop")
  /\ sloop' = [sloop EXCEPT ![s] = TRUE]
  /\ Goto(s, "run")
  /\ UNCHANGED <<mainVars, sapp, closing, server_db>>

\* A request that writes: acknowledged as soon as its query is queued.
Write(s) ==
  /\ ThreadAt(s, "run") /\ writes < MaxWrites
  /\ queue' = queue + 1 /\ writes' = writes + 1
  /\ UNCHANGED <<main, cur, running, main_db, serverVars>>

\* The loop makes the deferred call; without a socket left, run() returns.
CloseApp(s) ==
  /\ ThreadAt(s, "run") /\ closing[s]
  /\ closing' = [closing EXCEPT ![s] = FALSE]
  /\ Goto(s, "delete_app")
  /\ UNCHANGED <<mainVars, sapp, sloop, server_db>>

DeleteApp(s) ==
  /\ ThreadAt(s, "delete_app")
  /\ sapp' = [sapp EXCEPT ![s] = FALSE]
  /\ Goto(s, "returned")
  /\ UNCHANGED <<mainVars, sloop, closing, server_db>>

Thread(s) ==
  \/ InitDb(s) \/ NewApp(s) \/ Listen(s) \/ GetLoop(s) \/ CloseApp(s) \/ DeleteApp(s)

-----------------------------------------------------------------------------
\* The main thread.

\* The database may not open, or may be read-only: run() returns 1.
InitMainDb ==
  /\ main = "init_db"
  /\ \/ main' = "start" /\ main_db' = TRUE
     \/ main' = "failed" /\ UNCHANGED main_db
  /\ running' = TRUE
  /\ UNCHANGED <<cur, queue, writes, serverVars>>

\* server_manager_t::run.
StartThread ==
  /\ main = "start"
  /\ IF cur < Concurrency
     THEN Goto(cur, "init_db") /\ cur' = cur + 1 /\ UNCHANGED main
     ELSE main' = "loop" /\ cur' = 0 /\ UNCHANGED th
  /\ UNCHANGED <<running, queue, writes, main_db, sapp, sloop, closing, server_db>>

Execute ==
  /\ main = "loop" /\ running /\ queue > 0
  /\ queue' = queue - 1
  /\ UNCHANGED <<main, cur, running, writes, main_db, serverVars>>

\* One SIGINT, once run() has set running (module MainLoop has the others).
Sigint ==
  /\ main \in {"start", "loop"} /\ running
  /\ running' = FALSE
  /\ UNCHANGED <<main, cur, queue, writes, main_db, serverVars>>

LeaveLoop ==
  /\ main = "loop" /\ ~ running
  /\ main' = "drain"
  /\ UNCHANGED <<cur, running, queue, writes, main_db, serverVars>>

\* Faulty form of the next definition: off by one.
DrainPastEmpty ==
  /\ main = "drain"
  /\ IF queue >= 0 THEN queue' = queue - 1 /\ UNCHANGED main
                   ELSE main' = "close" /\ UNCHANGED queue
  /\ UNCHANGED <<cur, running, writes, main_db, serverVars>>

\* run_queued_queries(true) returns when it finds the queue empty.
Drain ==
  /\ main = "drain"
  /\ IF queue > 0 THEN queue' = queue - 1 /\ UNCHANGED main
                  ELSE main' = "close" /\ UNCHANGED queue
  /\ UNCHANGED <<cur, running, writes, main_db, serverVars>>

CloseMainDb ==
  /\ main = "close"
  /\ main_db' = FALSE
  /\ main' = "stop"
  /\ UNCHANGED <<cur, running, queue, writes, serverVars>>

\* Faulty form of the next definition: the app is closed by the main thread,
\* and its loop is not asked.
StopServerDirectly ==
  /\ main = "stop" /\ cur < Concurrency
  /\ sapp' = [sapp EXCEPT ![cur] = FALSE]
  /\ main' = "join"
  /\ UNCHANGED <<cur, running, queue, writes, main_db, th, sloop, closing, server_db>>

\* shutdown_server: a server without an app is not told to close, and for one
\* without a loop defer() returns 1, which nobody looks at.
StopServer ==
  /\ main = "stop" /\ cur < Concurrency
  /\ closing' = [closing EXCEPT ![cur] = sapp[cur] /\ sloop[cur]]
  /\ main' = "join"
  /\ UNCHANGED <<cur, running, queue, writes, main_db, th, sapp, sloop, server_db>>

\* Faulty form of the next definition: the thread is left to itself.
JoinNot ==
  /\ main = "join"
  /\ main' = "shutdown_db"
  /\ UNCHANGED <<cur, running, queue, writes, main_db, serverVars>>

Join ==
  /\ main = "join" /\ th[cur] = "returned"
  /\ main' = "shutdown_db"
  /\ UNCHANGED <<cur, running, queue, writes, main_db, serverVars>>

\* The rest of ~server_t.
ShutdownDb ==
  /\ main = "shutdown_db"
  /\ server_db' = [server_db EXCEPT ![cur] = FALSE]
  /\ sloop' = [sloop EXCEPT ![cur] = FALSE]
  /\ cur' = cur + 1 /\ main' = "stop"
  /\ UNCHANGED <<running, queue, writes, main_db, th, sapp, closing>>

Exit ==
  /\ main = "stop" /\ cur = Concurrency
  /\ main' = "exited"
  /\ UNCHANGED <<cur, running, queue, writes, main_db, serverVars>>

Main ==
  \/ InitMainDb \/ StartThread \/ Execute \/ LeaveLoop \/ Drain \/ CloseMainDb
  \/ StopServer \/ Join \/ ShutdownDb \/ Exit

Next == Main \/ Sigint \/ \E s \in Servers : Thread(s) \/ Write(s)

\* Threads that can take a step do; nobody has to send a request or press ^C.
Spec ==
  /\ Init /\ [][Next]_vars
  /\ WF_vars(Main) /\ \A s \in Servers : WF_vars(Thread(s))

-----------------------------------------------------------------------------
\* Properties.

\* The state is well typed.
TypeOK ==
  /\ main \in MainPcs /\ cur \in 0 .. Concurrency
  /\ running \in BOOLEAN /\ main_db \in BOOLEAN
  /\ queue \in Nat /\ writes \in Nat
  /\ th \in [Servers -> ThreadPcs]
  /\ {sapp, sloop, closing, server_db} \subseteq [Servers -> BOOLEAN]

\* A thread that can still touch its server finds it there: its connection is
\* open while it serves, and its app is deleted by nobody but itself.
ServesOnOpenDb ==
  \A s \in Servers :
    /\ th[s] \in {"new_app", "listen", "get_loop", "run", "delete_app"} => server_db[s]
    /\ th[s] \in {"listen", "get_loop", "run", "delete_app"} => sapp[s]

\* Without an error at start-up, servers that run are stopped, one after the
\* other, in whatever order they came up, and the program exits.
StopsWhenUp ==
  (main = "drain" /\ \A s \in Servers : th[s] = "run") ~> main = "exited"

\* The servers all come up, or are told to stop, or the process ends: a
\* failed start never leaves a program behind that serves with fewer threads.
AllOrNothing ==
  main = "init_db" ~> ~ Alive \/ ~ running \/ \A s \in Servers : th[s] = "run"

=============================================================================
