------------------------------ MODULE Signals ------------------------------
(***************************************************************************)
(* The two mutexes and the signal handler around the write queue: mm, the  *)
(* program's own, and the one a std::condition_variable_any keeps inside,  *)
(* which wait() takes before it gives mm back and which notify takes too.  *)
(*                                                                         *)
(* SIGINT is sent to the process: its handler runs on top of any thread    *)
(* that is not in a handler already, at any point of that thread's code,   *)
(* and the interrupted code waits below it.                                *)
(***************************************************************************)
EXTENDS Integers, FiniteSets

CONSTANTS
  Servers, Main,   \* the threads; Main waits, Servers enqueue
  MaxEnqueues,     \* bounds on queries and signals
  MaxSigints

Threads == Servers \cup {Main}
Nobody  == <<"nobody">>

ASSUME ThreadAssumption == Main \notin Servers /\ IsFiniteSet(Servers)
ASSUME BoundAssumption  == MaxEnqueues \in Nat /\ MaxSigints \in Nat

VARIABLES
  pc,        \* where each thread's code is
  hpc,       \* where the handler on top of it is, "none" without one
  seen,      \* the value of sigint_count a handler has read
  mm, im,    \* who holds the two mutexes: a thread's code or its handler
  queue,     \* length of write_queries
  running, sigint_count, terminated,
  enqueues, sent, pending   \* bounds; SIGINTs sent, and not yet delivered

lockVars == <<mm, im>>
sigVars  == <<running, sigint_count, terminated, sent, pending, seen>>
vars == <<pc, hpc, lockVars, queue, enqueues, sigVars>>

MainPcs   == {"lock", "test", "cv_lock", "unlock", "sleep", "asleep", "awake",
              "cv_unlock", "relock", "take", "left"}
ServerPcs == {"idle", "lock", "push", "cv_lock", "notify", "unlock"}
Hpcs      == {"none", "stop", "read", "write", "cv_lock", "notify"}

Code(t)    == <<t, "code">>
Handler(t) == <<t, "handler">>

Init ==
  /\ pc = [t \in Threads |-> IF t = Main THEN "lock" ELSE "idle"]
  /\ hpc = [t \in Threads |-> "none"] /\ seen = [t \in Threads |-> 0]
  /\ mm = Nobody /\ im = Nobody
  /\ queue = 0 /\ enqueues = 0
  /\ running = TRUE /\ sigint_count = 0 /\ terminated = FALSE
  /\ sent = 0 /\ pending = 0

\* The code of thread t moves, not being interrupted.
Moves(t, from, to) ==
  /\ ~ terminated /\ hpc[t] = "none"
  /\ pc[t] = from /\ pc' = [pc EXCEPT ![t] = to]

\* notify_one and notify_all; only the main thread ever waits.
Woken(p) == IF p[Main] = "asleep" THEN [p EXCEPT ![Main] = "awake"] ELSE p

-----------------------------------------------------------------------------
\* write_query_routine, on an empty queue.

Lock ==
  /\ mm = Nobody /\ Moves(Main, "lock", "test") /\ mm' = Code(Main)
  /\ UNCHANGED <<hpc, im, queue, enqueues, sigVars>>

\* Faulty form of the next definition: the predicate is about running alone.
TestDeaf ==
  /\ Moves(Main, "test", IF ~ running THEN "take" ELSE "cv_lock")
  /\ UNCHANGED <<hpc, lockVars, queue, enqueues, sigVars>>

\* The predicate of the wait.
Test ==
  /\ Moves(Main, "test", IF queue # 0 \/ ~ running THEN "take" ELSE "cv_lock")
  /\ UNCHANGED <<hpc, lockVars, queue, enqueues, sigVars>>

\* wait() takes its own mutex before it gives mm back.
CvLock ==
  /\ im = Nobody /\ Moves(Main, "cv_lock", "unlock") /\ im' = Code(Main)
  /\ UNCHANGED <<hpc, mm, queue, enqueues, sigVars>>

Unlock ==
  /\ Moves(Main, "unlock", "sleep") /\ mm' = Nobody
  /\ UNCHANGED <<hpc, im, queue, enqueues, sigVars>>

\* Blocking releases the inner mutex in the same step.
Sleep ==
  /\ Moves(Main, "sleep", "asleep") /\ im' = Nobody
  /\ UNCHANGED <<hpc, mm, queue, enqueues, sigVars>>

Awake ==
  /\ im = Nobody /\ Moves(Main, "awake", "cv_unlock") /\ im' = Code(Main)
  /\ UNCHANGED <<hpc, mm, queue, enqueues, sigVars>>

CvUnlock ==
  /\ Moves(Main, "cv_unlock", "relock") /\ im' = Nobody
  /\ UNCHANGED <<hpc, mm, queue, enqueues, sigVars>>

Relock ==
  /\ mm = Nobody /\ Moves(Main, "relock", "test") /\ mm' = Code(Main)
  /\ UNCHANGED <<hpc, im, queue, enqueues, sigVars>>

\* Faulty form of the next definition: an empty queue is popped.
PoppedAny(q) == q - 1

Popped(q) == IF q = 0 THEN 0 ELSE q - 1

\* One query is taken, or main_loop is left.
Take ==
  /\ Moves(Main, "take", IF queue = 0 /\ ~ running THEN "left" ELSE "lock")
  /\ queue' = Popped(queue)
  /\ mm' = Nobody
  /\ UNCHANGED <<hpc, im, enqueues, sigVars>>

MainThread ==
  \/ Lock \/ Test \/ CvLock \/ Unlock \/ Sleep \/ Awake \/ CvUnlock \/ Relock \/ Take

-----------------------------------------------------------------------------
\* enqueue_write_query.

Request(s) ==
  /\ enqueues < MaxEnqueues /\ Moves(s, "idle", "lock")
  /\ enqueues' = enqueues + 1
  /\ UNCHANGED <<hpc, lockVars, queue, sigVars>>

ServerLock(s) ==
  /\ mm = Nobody /\ Moves(s, "lock", "push") /\ mm' = Code(s)
  /\ UNCHANGED <<hpc, im, queue, enqueues, sigVars>>

Push(s) ==
  /\ Moves(s, "push", "cv_lock") /\ queue' = queue + 1
  /\ UNCHANGED <<hpc, lockVars, enqueues, sigVars>>

ServerCvLock(s) ==
  /\ im = Nobody /\ Moves(s, "cv_lock", "notify") /\ im' = Code(s)
  /\ UNCHANGED <<hpc, mm, queue, enqueues, sigVars>>

NotifyOne(s) ==
  /\ ~ terminated /\ hpc[s] = "none" /\ pc[s] = "notify"
  /\ pc' = Woken([pc EXCEPT ![s] = "unlock"]) /\ im' = Nobody
  /\ UNCHANGED <<hpc, mm, queue, enqueues, sigVars>>

ServerUnlock(s) ==
  /\ Moves(s, "unlock", "idle") /\ mm' = Nobody
  /\ UNCHANGED <<hpc, im, queue, enqueues, sigVars>>

ServerThread(s) ==
  \/ ServerLock(s) \/ Push(s) \/ ServerCvLock(s) \/ NotifyOne(s) \/ ServerUnlock(s)

-----------------------------------------------------------------------------
\* SIGINT.

\* ^C is pressed again when the last signal was delivered; otherwise the two
\* would be one.
Sigint ==
  /\ ~ terminated /\ sent < MaxSigints /\ pending = 0
  /\ sent' = sent + 1 /\ pending' = 1
  /\ UNCHANGED <<pc, hpc, lockVars, queue, enqueues, running, sigint_count, terminated, seen>>

\* signal() keeps SIGINT blocked in a thread for as long as its handler runs.
Deliver(t) ==
  /\ ~ terminated /\ pending = 1 /\ hpc[t] = "none"
  /\ pending' = 0 /\ hpc' = [hpc EXCEPT ![t] = "stop"]
  /\ UNCHANGED <<pc, lockVars, queue, enqueues, running, sigint_count, terminated, sent, seen>>

HandlerMoves(t, from, to) ==
  /\ ~ terminated /\ hpc[t] = from /\ hpc' = [hpc EXCEPT ![t] = to]

StopRunning(t) ==
  /\ HandlerMoves(t, "stop", "read") /\ running' = FALSE
  /\ UNCHANGED <<pc, lockVars, queue, enqueues, sigint_count, terminated, sent, pending, seen>>

\* sigint_count++ of a plain int: a read and a write.
ReadCount(t) ==
  /\ HandlerMoves(t, "read", "write") /\ seen' = [seen EXCEPT ![t] = sigint_count]
  /\ UNCHANGED <<pc, lockVars, queue, enqueues, running, sigint_count, terminated, sent, pending>>

\* Faulty form of the next definition: the second one is enough.
TooMany(n) == n >= 2

ThirdIs(n) == n >= 3

\* sigint_count++ keeps what it wrote for the test that follows.
WriteCount(t) ==
  /\ HandlerMoves(t, "write", "cv_lock")
  /\ sigint_count' = seen[t] + 1
  /\ terminated' = ThirdIs(seen[t] + 1)
  /\ UNCHANGED <<pc, lockVars, queue, enqueues, running, sent, pending, seen>>

HandlerCvLock(t) ==
  /\ im = Nobody /\ HandlerMoves(t, "cv_lock", "notify") /\ im' = Handler(t)
  /\ UNCHANGED <<pc, mm, queue, enqueues, sigVars>>

\* Faulty form of the next definition: the handler returns with the mutex.
NotifyAllKeeping(t) ==
  /\ HandlerMoves(t, "notify", "none") /\ pc' = Woken(pc)
  /\ UNCHANGED <<mm, im, queue, enqueues, sigVars>>

NotifyAll(t) ==
  /\ HandlerMoves(t, "notify", "none") /\ pc' = Woken(pc) /\ im' = Nobody
  /\ UNCHANGED <<mm, queue, enqueues, sigVars>>

HandlerOf(t) ==
  \/ StopRunning(t) \/ ReadCount(t) \/ WriteCount(t) \/ HandlerCvLock(t) \/ NotifyAll(t)

Next ==
  \/ MainThread \/ Sigint
  \/ \E s \in Servers : Request(s) \/ ServerThread(s)
  \/ \E t \in Threads : Deliver(t) \/ HandlerOf(t)

\* Threads and handlers run, and mutexes are fair; a pending signal is
\* delivered when a thread can take it.
Spec ==
  /\ Init /\ [][Next]_vars
  /\ SF_vars(MainThread) /\ \A s \in Servers : SF_vars(ServerThread(s))
  /\ \A t \in Threads : SF_vars(HandlerOf(t))
  /\ WF_vars(\E t \in Threads : Deliver(t))

-----------------------------------------------------------------------------
\* Properties.

Owners == {Nobody} \cup {Code(t) : t \in Threads} \cup {Handler(t) : t \in Threads}

\* The state is well typed.
TypeOK ==
  /\ \A t \in Threads : pc[t] \in IF t = Main THEN MainPcs ELSE ServerPcs
  /\ hpc \in [Threads -> Hpcs] /\ seen \in [Threads -> Nat]
  /\ mm \in Owners /\ im \in Owners
  /\ queue \in Nat /\ enqueues \in Nat /\ sigint_count \in Nat
  /\ sent \in Nat /\ pending \in 0 .. 1
  /\ running \in BOOLEAN /\ terminated \in BOOLEAN

\* The main thread sleeps on a queue that holds a query only while the server
\* that put it there has still to notify (run.cpp 401): the inner mutex is
\* taken before mm is given back, so no notify falls between the two.
NoLostWakeup ==
  pc[Main] = "asleep" /\ queue # 0 =>
    \E s \in Servers : pc[s] \in {"cv_lock", "notify"}

\* Two SIGINTs never force the process to terminate (run.cpp 75).
TwoAreHarmless == terminated => sent >= 3

\* A handler on top of code that holds the inner mutex waits for that code.
SelfDeadlock == \E t \in Threads : hpc[t] = "cv_lock" /\ im = Code(t)

\* A handler returns, unless one has interrupted the very code it waits for:
\* nothing else in the program can hold a signal up.
HandlersReturn ==
  \A t \in Threads : hpc[t] # "none" ~> hpc[t] = "none" \/ SelfDeadlock \/ terminated

=============================================================================
