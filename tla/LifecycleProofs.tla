-------------------------- MODULE LifecycleProofs --------------------------
(***************************************************************************)
(* Proofs about Lifecycle for any number of servers and writes.            *)
(***************************************************************************)
EXTENDS Lifecycle, TLAPS

Typed ==
  /\ main \in MainPcs /\ cur \in 0 .. Concurrency
  /\ running \in BOOLEAN /\ main_db \in BOOLEAN
  /\ queue \in Nat /\ writes \in Nat
  /\ th \in [Servers -> ThreadPcs]
  /\ sapp \in [Servers -> BOOLEAN] /\ sloop \in [Servers -> BOOLEAN]
  /\ closing \in [Servers -> BOOLEAN] /\ server_db \in [Servers -> BOOLEAN]

LEMMA TypedIsTypeOK == Typed => TypeOK
  BY DEF Typed, TypeOK

\* What makes destroying a server safe: a server is destroyed only when it
\* was joined, and the ones before it were.
Joined ==
  /\ main \in {"stop", "join", "shutdown_db", "exited"} =>
       \A s \in Servers : s < cur => th[s] = "returned"
  /\ main \in {"join", "shutdown_db"} => cur \in Servers
  /\ main = "shutdown_db" => th[cur] = "returned"

\* Nobody has started a thread twice: those to come are not there yet.
NotStarted == main = "start" => \A s \in Servers : s >= cur => th[s] = "none"

DestroyInv == Typed /\ ServesOnOpenDb /\ Joined /\ NotStarted
           /\ (main \in {"init_db", "failed"} => cur = 0 /\ \A s \in Servers : th[s] = "none")
           /\ (main \in {"loop", "drain", "close"} => cur = 0)

LEMMA ServersType == \A s \in Servers : s \in Nat /\ s < Concurrency
  BY ConcurrencyAssumption DEF Servers

LEMMA DestroyInit == Init => DestroyInv
<1> SUFFICES ASSUME Init PROVE DestroyInv
  OBVIOUS
<1>1. Typed
  <2>1. /\ main \in MainPcs /\ cur \in 0 .. Concurrency /\ queue \in Nat /\ writes \in Nat
        /\ th \in [Servers -> ThreadPcs]
    BY ConcurrencyAssumption DEF Init, MainPcs, ThreadPcs
  <2>2. /\ running \in BOOLEAN /\ main_db \in BOOLEAN
        /\ sapp \in [Servers -> BOOLEAN] /\ sloop \in [Servers -> BOOLEAN]
        /\ closing \in [Servers -> BOOLEAN] /\ server_db \in [Servers -> BOOLEAN]
    BY DEF Init
  <2> QED
    BY <2>1, <2>2 DEF Typed
<1>2. main = "init_db" /\ cur = 0 /\ \A s \in Servers : th[s] = "none"
  BY DEF Init
<1>3. ServesOnOpenDb
  BY <1>2 DEF ServesOnOpenDb
<1>4. Joined
  BY <1>2 DEF Joined
<1>5. NotStarted
  BY <1>2 DEF NotStarted
<1> QED
  BY <1>1, <1>2, <1>3, <1>4, <1>5 DEF DestroyInv

LEMMA DestroyStep == DestroyInv /\ [Next]_vars => DestroyInv'
<1> SUFFICES ASSUME DestroyInv, [Next]_vars PROVE DestroyInv'
  OBVIOUS
<1> USE ConcurrencyAssumption, ServersType
    DEF DestroyInv, Typed, ServesOnOpenDb, Joined, NotStarted, mainVars, serverVars
<1>1. ASSUME NEW s \in Servers, Thread(s) \/ Write(s) PROVE DestroyInv'
  <2> USE DEF ThreadAt, Goto, Alive, Terminate, ThreadPcs, MainPcs
  <2>1. CASE InitDb(s)
    <3>1. CASE Terminate
      BY <3>1
    <3>2. ASSUME ~ Terminate PROVE DestroyInv'
      <4>1. /\ Alive /\ th[s] = "init_db" /\ th' = [th EXCEPT ![s] = "new_app"]
            /\ server_db' = [server_db EXCEPT ![s] = TRUE]
            /\ UNCHANGED <<main, cur, running, queue, writes, main_db, sapp, sloop, closing>>
        BY <2>1, <3>2, Zenon DEF InitDb
      <4> HIDE DEF Terminate
      <4>2. th' \in [Servers -> ThreadPcs] /\ th'[s] = "new_app"
            /\ \A u \in Servers : u # s => th'[u] = th[u]
        BY <4>1
      <4>3. server_db' \in [Servers -> BOOLEAN] /\ server_db'[s]
            /\ \A u \in Servers : u # s => server_db'[u] = server_db[u]
        BY <4>1
      <4> QED
        BY <4>1, <4>2, <4>3
    <3> QED
      BY <3>1, <3>2
  <2>2. CASE NewApp(s)
    BY <2>2 DEF NewApp
  <2>3. CASE Listen(s)
    BY <2>3 DEF Listen
  <2>4. CASE GetLoop(s)
    BY <2>4 DEF GetLoop
  <2>5. CASE CloseApp(s)
    BY <2>5 DEF CloseApp
  <2>6. CASE DeleteApp(s)
    BY <2>6 DEF DeleteApp
  <2>7. CASE Write(s)
    BY <2>7 DEF Write
  <2> QED
    BY <1>1, <2>1, <2>2, <2>3, <2>4, <2>5, <2>6, <2>7 DEF Thread
<1>2. CASE Main
  <2> USE DEF MainPcs
  <2>1. CASE InitMainDb
    BY <2>1 DEF InitMainDb
  <2>2. CASE StartThread
    BY <2>2 DEF StartThread, Goto, ThreadPcs, Servers
  <2>3. CASE Execute
    BY <2>3 DEF Execute
  <2>4. CASE LeaveLoop
    BY <2>4 DEF LeaveLoop
  <2>5. CASE Drain
    BY <2>5 DEF Drain
  <2>6. CASE CloseMainDb
    <3>1. /\ main = "close" /\ main' = "stop" /\ main_db' \in BOOLEAN
          /\ UNCHANGED <<cur, running, queue, writes, serverVars>>
      BY <2>6 DEF CloseMainDb
    <3>2. cur' = 0 /\ \A s \in Servers : ~ (s < 0)
      BY <3>1
    <3> QED
      BY <3>1, <3>2
  <2>7. CASE StopServer
    <3>1. closing' \in [Servers -> BOOLEAN]
      <4>1. (sapp[cur] /\ sloop[cur]) \in BOOLEAN
        BY Zenon
      <4>2. closing' = [closing EXCEPT ![cur] = sapp[cur] /\ sloop[cur]]
        BY <2>7, Zenon DEF StopServer
      <4> DEFINE b == sapp[cur] /\ sloop[cur]
      <4>3. b \in BOOLEAN /\ closing' = [closing EXCEPT ![cur] = b]
        BY <4>1, <4>2, Zenon
      <4> HIDE DEF b
      <4> QED
        BY <4>3
    <3>2. /\ main = "stop" /\ cur < Concurrency /\ main' = "join"
          /\ UNCHANGED <<cur, running, queue, writes, main_db, th, sapp, sloop, server_db>>
      BY <2>7, Zenon DEF StopServer
    <3> QED
      BY <3>1, <3>2 DEF Servers
  <2>8. CASE Join
    BY <2>8 DEF Join
  <2>9. CASE ShutdownDb
    BY <2>9 DEF ShutdownDb, Servers
  <2>10. CASE Exit
    BY <2>10 DEF Exit
  <2> QED
    BY <1>2, <2>1, <2>2, <2>3, <2>4, <2>5, <2>6, <2>7, <2>8, <2>9, <2>10 DEF Main
<1>3. CASE Sigint
  BY <1>3 DEF Sigint
<1>4. CASE UNCHANGED vars
  BY <1>4 DEF vars
<1> QED
  BY <1>1, <1>2, <1>3, <1>4 DEF Next

\* Start-up, service and shutdown stay well typed for any number of servers.
THEOREM LifecycleTypeCorrect == Spec => []TypeOK
<1>1. Init => DestroyInv
  BY DestroyInit
<1>2. DestroyInv /\ [Next]_vars => DestroyInv'
  BY DestroyStep
<1>3. DestroyInv => TypeOK
  BY TypedIsTypeOK DEF DestroyInv
<1> QED
  BY <1>1, <1>2, <1>3, PTL DEF Spec

\* However many servers there are and however far each of them is, destroying
\* one never takes its database or its app from under its thread.
THEOREM ServersKeepTheirDb == Spec => []ServesOnOpenDb
<1>1. Init => DestroyInv
  BY DestroyInit
<1>2. DestroyInv /\ [Next]_vars => DestroyInv'
  BY DestroyStep
<1>3. DestroyInv => ServesOnOpenDb
  BY DEF DestroyInv
<1> QED
  BY <1>1, <1>2, <1>3, PTL DEF Spec

-----------------------------------------------------------------------------
\* A server that runs has its loop, and nobody is told to close before the
\* main thread has closed its own connection.
UpInv ==
  /\ \A s \in Servers : th[s] = "run" => sloop[s]
  /\ main \in {"init_db", "start", "loop", "drain", "close"} =>
       \A s \in Servers : ~ closing[s]

LEMMA UpInit == Init => UpInv
  BY DEF Init, UpInv

LEMMA UpStep == DestroyInv /\ UpInv /\ [Next]_vars => UpInv'
<1> SUFFICES ASSUME DestroyInv, UpInv, [Next]_vars PROVE UpInv'
  OBVIOUS
<1> USE DEF UpInv, mainVars, serverVars, ThreadAt, Goto, Terminate
<1>t. /\ th \in [Servers -> ThreadPcs] /\ sloop \in [Servers -> BOOLEAN]
      /\ closing \in [Servers -> BOOLEAN] /\ Joined
  BY DEF DestroyInv, Typed
<1>1. ASSUME NEW s \in Servers, Thread(s) \/ Write(s) PROVE UpInv'
  BY <1>1, <1>t DEF Thread, InitDb, NewApp, Listen, GetLoop, CloseApp, DeleteApp, Write
<1>2. CASE StartThread
  BY <1>2, <1>t DEF StartThread
<1>3. CASE ShutdownDb
  BY <1>3, <1>t DEF ShutdownDb, Joined
<1>4. CASE Sigint \/ (Main /\ ~ StartThread /\ ~ ShutdownDb)
  BY <1>4, <1>t DEF Sigint, Main, InitMainDb, Execute, LeaveLoop, Drain, CloseMainDb,
                    StopServer, Join, Exit
<1>5. CASE UNCHANGED vars
  BY <1>5 DEF vars
<1> QED
  BY <1>1, <1>2, <1>3, <1>4, <1>5 DEF Next

\* The servers whose turn to be stopped has not come.
Ahead(s) == s > cur \/ (s = cur /\ main \notin {"join", "shutdown_db"})

\* The server the main thread waits for has stopped, is stopping, or runs with
\* the call of close() on its way.
WaitsForClosing ==
  main = "join" => \/ th[cur] \in {"delete_app", "returned"}
                   \/ th[cur] = "run" /\ closing[cur]

Stopping ==
  /\ main \in {"drain", "close", "stop", "join", "shutdown_db", "exited"}
  /\ \A s \in Servers : Ahead(s) => th[s] = "run" /\ ~ closing[s]
  /\ WaitsForClosing

LEMMA StoppingStep == DestroyInv /\ UpInv /\ Stopping /\ [Next]_vars => Stopping'
<1> SUFFICES ASSUME DestroyInv, UpInv, Stopping, [Next]_vars PROVE Stopping'
  OBVIOUS
<1> USE DEF Stopping, WaitsForClosing, Ahead, mainVars, serverVars, ThreadAt, Goto
<1>t. /\ th \in [Servers -> ThreadPcs] /\ closing \in [Servers -> BOOLEAN]
      /\ cur \in Nat /\ cur \in 0 .. Concurrency /\ Joined
      /\ main \in {"drain", "close"} => cur = 0
      /\ main \in {"join", "shutdown_db"} => cur \in Servers
      /\ \A s \in Servers : th[s] = "run" => sapp[s] /\ sloop[s]
  BY ConcurrencyAssumption DEF DestroyInv, Typed, UpInv, ServesOnOpenDb, Joined
<1>s. \A s \in Servers : s \in Nat /\ s < Concurrency
  BY ServersType
<1>c. \A n \in Nat : n < Concurrency => n \in Servers
  BY ConcurrencyAssumption DEF Servers
<1>1. ASSUME NEW s \in Servers, Thread(s) PROVE Stopping'
  <2>1. ~ Ahead(s) \/ (th[s] = "run" /\ ~ closing[s])
    OBVIOUS
  <2>2. th[s] \notin {"init_db", "new_app", "listen", "get_loop"}
    BY <1>t, <1>s DEF Joined
  <2>3. CloseApp(s) \/ DeleteApp(s)
    BY <1>1, <2>2 DEF Thread, InitDb, NewApp, Listen, GetLoop
  <2>4. ~ Ahead(s) /\ UNCHANGED <<main, cur>> /\ \A u \in Servers : u # s => th'[u] = th[u]
        /\ closing'[u] = closing[u]
    BY <2>1, <2>3, <1>t DEF CloseApp, DeleteApp
  <2>5. th'[s] \in {"delete_app", "returned"}
    BY <2>3, <1>t DEF CloseApp, DeleteApp
  <2> QED
    BY <2>4, <2>5, <1>t
<1>2. CASE Drain \/ CloseMainDb
  BY <1>2, <1>t, <1>s DEF Drain, CloseMainDb
<1>3. CASE StopServer
  <2>1. cur \in Servers /\ th[cur] = "run" /\ sapp[cur] /\ sloop[cur]
    BY <1>3, <1>t, <1>c DEF StopServer
  <2>2. th' = th /\ cur' = cur /\ main' = "join"
    BY <1>3 DEF StopServer
  <2>3. closing'[cur] /\ \A s \in Servers : s # cur => closing'[s] = closing[s]
    BY <1>3, <1>t, <2>1 DEF StopServer
  <2> QED
    BY <2>1, <2>2, <2>3, <1>t
<1>4. CASE Join \/ Exit
  BY <1>4, <1>t, <1>s DEF Join, Exit
<1>5. CASE ShutdownDb
  <2>1. th' = th /\ closing' = closing /\ cur' = cur + 1 /\ main' = "stop"
    BY <1>5 DEF ShutdownDb
  <2>2. \A s \in Servers : s >= cur + 1 => s > cur
    BY <1>t, <1>s
  <2> QED
    BY <2>1, <2>2, <1>t, <1>s, <1>5 DEF ShutdownDb
<1>6. CASE (\E s \in Servers : Write(s)) \/ UNCHANGED vars
  BY <1>6 DEF Write, vars
<1> QED
  BY <1>1, <1>2, <1>3, <1>4, <1>5, <1>6
  DEF Next, Main, InitMainDb, StartThread, Execute, LeaveLoop, Sigint

\* Once every server was up when the drain began, the main thread never waits
\* for a thread that does not know it should end: each was asked through its
\* loop, in whatever order and however late the loops make the call, and the
\* process does not die on the way.
THEOREM ServersUpAreAsked ==
  Spec => [](main = "drain" /\ (\A s \in Servers : th[s] = "run")
               => [](main # "terminated" /\ WaitsForClosing))
<1>1. Init => DestroyInv /\ UpInv
  BY DestroyInit, UpInit
<1>2. DestroyInv /\ UpInv /\ [Next]_vars => (DestroyInv /\ UpInv)'
  BY DestroyStep, UpStep
<1>3. DestroyInv /\ UpInv /\ (main = "drain" /\ \A s \in Servers : th[s] = "run") => Stopping
  BY DEF UpInv, Stopping, WaitsForClosing
<1>4. (DestroyInv /\ UpInv) /\ Stopping /\ [Next]_vars => Stopping'
  BY StoppingStep
<1>5. Stopping => main # "terminated" /\ WaitsForClosing
  BY DEF Stopping
<1> QED
  BY <1>1, <1>2, <1>3, <1>4, <1>5, PTL DEF Spec

-----------------------------------------------------------------------------
\* Every server has its thread once the main loop runs, and no thread ends
\* before the servers are being stopped.
Ending == {"stop", "join", "shutdown_db", "exited", "terminated"}

StartedInv ==
  \A s \in Servers :
    /\ main \in {"loop", "drain", "close", "stop", "join", "shutdown_db", "exited"}
       \/ (main = "start" /\ s < cur) => th[s] # "none"
    /\ th[s] \in {"delete_app", "returned"} => main \in Ending

LEMMA StartedStep == DestroyInv /\ UpInv /\ StartedInv /\ [Next]_vars => StartedInv'
<1> SUFFICES ASSUME DestroyInv, UpInv, StartedInv, [Next]_vars PROVE StartedInv'
  OBVIOUS
<1> USE DEF StartedInv, Ending, mainVars, serverVars, ThreadAt, Goto, Terminate
<1>t. /\ th \in [Servers -> ThreadPcs] /\ main \in MainPcs /\ cur \in Nat
      /\ \A s \in Servers : s \in Nat /\ s < Concurrency
      /\ \A s \in Servers : closing[s] =>
           main \notin {"init_db", "start", "loop", "drain", "close"}
      /\ main \in {"init_db", "failed"} => cur = 0
  BY ServersType, ConcurrencyAssumption DEF DestroyInv, Typed, UpInv
<1>1. ASSUME NEW s \in Servers, Thread(s) \/ Write(s) PROVE StartedInv'
  <2>1. CASE CloseApp(s)
    <3>1. main \notin {"init_db", "start", "loop", "drain", "close"}
          /\ main \notin {"failed", "exited"}
      BY <2>1, <1>t DEF CloseApp, Alive
    <3> QED
      BY <2>1, <3>1, <1>t DEF CloseApp, MainPcs
  <2>2. CASE ~ CloseApp(s)
    BY <1>1, <2>2, <1>t DEF Thread, InitDb, NewApp, Listen, GetLoop, DeleteApp, Write
  <2> QED
    BY <2>1, <2>2
<1>2. CASE StartThread
  <2>1. CASE cur < Concurrency
    <3>1. main' = "start" /\ cur' = cur + 1 /\ th' = [th EXCEPT ![cur] = "init_db"]
      BY <1>2, <2>1 DEF StartThread
    <3>2. \A s \in Servers : s < cur + 1 => s = cur \/ s < cur
      BY <1>t
    <3> QED
      BY <3>1, <3>2, <1>t, <1>2 DEF StartThread
  <2>2. CASE ~ (cur < Concurrency)
    <3>1. main = "start" /\ main' = "loop" /\ th' = th
      BY <1>2, <2>2 DEF StartThread
    <3>2. \A s \in Servers : s < cur
      BY <2>2, <1>t, ConcurrencyAssumption
    <3> QED
      BY <3>1, <3>2
  <2> QED
    BY <2>1, <2>2
<1>3. CASE Sigint \/ (Main /\ ~ StartThread)
  BY <1>3, <1>t DEF Sigint, Main, InitMainDb, Execute, LeaveLoop, Drain, CloseMainDb,
                    StopServer, Join, ShutdownDb, Exit
<1>4. CASE UNCHANGED vars
  BY <1>4 DEF vars
<1> QED
  BY <1>1, <1>2, <1>3, <1>4 DEF Next

\* The safety half of AllOrNothing: in the main loop every server runs, or is
\* still on its way there.  A start that fails takes the process with it.
THEOREM NoServerIsMissing ==
  Spec => [](main = "loop" =>
               \A s \in Servers :
                 th[s] \in {"init_db", "new_app", "listen", "get_loop", "run"})
<1>1. Init => DestroyInv /\ UpInv /\ StartedInv
  <2>1. Init => StartedInv
    BY DEF Init, StartedInv
  <2> QED
    BY <2>1, DestroyInit, UpInit
<1>2. (DestroyInv /\ UpInv /\ StartedInv) /\ [Next]_vars
        => (DestroyInv /\ UpInv /\ StartedInv)'
  BY DestroyStep, UpStep, StartedStep
<1>3. DestroyInv /\ StartedInv =>
        (main = "loop" =>
           \A s \in Servers :
             th[s] \in {"init_db", "new_app", "listen", "get_loop", "run"})
  BY DEF DestroyInv, Typed, StartedInv, Ending, ThreadPcs
<1> QED
  BY <1>1, <1>2, <1>3, PTL DEF Spec

=============================================================================
