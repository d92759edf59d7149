------------------------------ MODULE MainLoop ------------------------------
(***************************************************************************)
(* How the main thread waits for work and stops: the condition variable in *)
(* write_query_routine, the SIGINT handler, and the drain of the queue     *)
(* before the database is closed.  What a query does is CacheMe's; here it *)
(* is an id, a timestamp and whether it is a deletion (must_on_schedule).  *)
(***************************************************************************)
EXTENDS WriteQueue, FiniteSets

CONSTANTS
  SetIds, DelIds,       \* ids of queries that must run, and of deletions
  Deadlines,            \* timestamps a deletion may be scheduled for
  Anything, Nothing,         \* what the main thread may wait for: see until
  MaxTime, RetryDelay,
  MaxEnqueues, MaxRemovals, MaxBusy, MaxSigints   \* bounds

ASSUME IdAssumption ==
  /\ SetIds \cap DelIds = {}
  /\ {"init_db", "delete_expires"} \cap (SetIds \cup DelIds) = {}
ASSUME WaitAssumption  == Anything \notin Nat /\ Nothing \notin Nat /\ Anything # Nothing
ASSUME ClockAssumption ==
  MaxTime \in Nat /\ RetryDelay \in Nat \ {0} /\ Deadlines \subseteq Nat
ASSUME LimitAssumption ==
  MaxEnqueues \in Nat /\ MaxRemovals \in Nat /\ MaxBusy \in Nat /\ MaxSigints \in Nat

VARIABLES
  wq,        \* main_state.write_queries
  running,   \* main_state.running
  now,       \* system clock
  pc,        \* the main thread
  until,     \* what it waits for: top_sch, or Anything, or nothing
  drain,     \* run_queued_queries was called by shutdown_db
  q,         \* the query it is running
  handler,   \* the SIGINT handler is between its two effects
  hung,      \* "main": that thread, "mm": that mutex, are lost for good
  posting,   \* POSTs between their two calls
  enqs, removals, busies, sigints,
  missed     \* history: a SIGINT came while nobody could notice it

counters == <<enqs, removals, busies, sigints>>
vars == <<wq, running, now, pc, until, drain, q, handler, hung, posting, counters, missed>>

\* init_db leaves these to the main loop.
BootQueue == <<[id |-> "init_db", ts |-> 0], [id |-> "delete_expires", ts |-> 0]>>
NoQuery   == BootQueue[1]

IsDel(id) == id \in DelIds
Ids       == SetIds \cup DelIds \cup {"init_db", "delete_expires"}
Query     == [id : Ids, ts : Nat]

Pcs == {"boot", "loop", "enter", "test", "presleep", "asleep", "woken",
        "guard", "take", "exec", "closed", "stopped", "terminated"}

\* Between these steps the main thread keeps mm locked.
HoldsMm == pc \in {"test", "presleep", "guard"}

\* Threads of the servers run, and may call into the queue.
ServersRun == pc \notin {"boot", "stopped", "terminated"}

Init ==
  /\ wq = BootQueue /\ running = FALSE /\ now = 0
  /\ pc = "boot" /\ until = Nothing /\ drain = FALSE /\ q = NoQuery
  /\ handler = FALSE /\ hung = {} /\ missed = FALSE /\ posting = 0
  /\ enqs = 0 /\ removals = 0 /\ busies = 0 /\ sigints = 0

TopTs(w) == CHOOSE t \in {w[i].ts : i \in DOMAIN w} :
              \A i \in DOMAIN w : t <= w[i].ts

-----------------------------------------------------------------------------
\* Server threads.  Each call is one critical section under mm, with the
\* notify inside it; servers run until smanager.shutdown().

\* Faulty form of the next definition: the notify is forgotten.
NotNotified == pc

\* notify_one: the main thread is the only one that ever waits.
Notified == IF pc = "asleep" THEN "woken" ELSE pc

\* notify takes a mutex of the condition variable's own.  This notify hangs
\* when the handler interrupted it, whose notify needs the same mutex, and
\* when the mutex was lost before: with its caller, and with mm.
NotifyHangs(lost) ==
  /\ handler \/ hung # {}
  /\ handler' = FALSE
  /\ hung' = hung \cup lost

ServerCall ==
  ServersRun /\ "mm" \notin hung /\ (HoldsMm => "main" \in hung)

ServerEnqueue(new) ==
  /\ ServerCall /\ enqs < MaxEnqueues
  /\ wq' = Enqueue(wq, new)
  /\ \/ hung = {} /\ pc' = Notified /\ UNCHANGED <<handler, hung>>
     \/ NotifyHangs({"mm"}) /\ UNCHANGED pc
  /\ enqs' = enqs + 1
  /\ UNCHANGED <<running, now, until, drain, q, removals, busies, sigints, missed>>

\* The first half of a POST.
EnqueueSet ==
  \E id \in SetIds :
    ServerEnqueue([id |-> id, ts |-> 0]) /\ posting' = posting + 1

\* A DELETE; a GET that found a deadline, or the second half of a POST.
EnqueueDel ==
  \E id \in DelIds :
    \/ ServerEnqueue([id |-> id, ts |-> 0]) /\ UNCHANGED posting
    \/ \E ts \in Deadlines :
         /\ ServerEnqueue([id |-> id, ts |-> ts])
         /\ posting' \in {posting, posting - 1} /\ posting' >= 0

\* The second half of a POST without ttl: remove_query, which notifies nobody.
ServerRemove ==
  /\ ServerCall /\ posting > 0 /\ removals < MaxRemovals
  /\ \E id \in DelIds : wq' = RemoveQuery(wq, id)
  /\ posting' = posting - 1
  /\ removals' = removals + 1
  /\ UNCHANGED <<running, now, pc, until, drain, q, handler, hung, enqs, busies,
                 sigints, missed>>

-----------------------------------------------------------------------------
\* The signal handler.  It runs on any thread, between any two steps; once
\* something hangs further handlers may hang as well, but still count.

Sigint ==
  /\ pc \notin {"stopped", "terminated"} /\ sigints < MaxSigints
  /\ handler => hung # {}
  /\ running' = FALSE
  /\ sigints' = sigints + 1
  /\ IF sigints' >= 3 THEN pc' = "terminated" /\ UNCHANGED handler
                      ELSE handler' = TRUE /\ UNCHANGED pc
  /\ UNCHANGED <<wq, now, until, drain, q, hung, posting, enqs, removals, busies,
                 missed>>

SigintNotify ==
  /\ handler /\ hung = {}
  /\ handler' = FALSE
  /\ pc' = Notified
  /\ missed' = (missed \/ pc = "presleep")   \* nobody waits yet
  /\ UNCHANGED <<wq, running, now, until, drain, q, hung, posting, counters>>

\* It interrupted the main thread while that held the condition variable's
\* mutex: in init_db's enqueues, on the way into the sleep, before or after mm
\* is released, or on the way out of it.
SigintHangs ==
  /\ handler /\ hung = {}
  /\ pc \in {"boot", "presleep", "woken"}
  /\ handler' = FALSE
  /\ hung' \in {{"main"}, {"main", "mm"}} /\ (pc = "woken" => "mm" \notin hung')
  /\ UNCHANGED <<wq, running, now, pc, until, drain, q, posting, counters, missed>>

-----------------------------------------------------------------------------
\* The main thread.

Unchanged ==
  UNCHANGED <<running, now, handler, hung, posting, enqs, removals, sigints, missed>>

\* run() starts the servers: a SIGINT during the boot is overwritten.
Boot ==
  /\ pc = "boot"
  /\ pc' = "loop" /\ running' = TRUE
  /\ missed' = (sigints > 0)
  /\ UNCHANGED <<wq, now, until, drain, q, handler, hung, posting, counters>>

\* main_loop's test; when it fails, shutdown_db drains the queue.
Loop ==
  /\ pc = "loop"
  /\ IF running THEN pc' = "enter" /\ UNCHANGED drain
                ELSE pc' = "take" /\ drain' = TRUE
  /\ UNCHANGED <<wq, until, q, busies>> /\ Unchanged

\* write_query_routine locks mm and picks one of its two waits, or none.
Enter ==
  /\ pc = "enter" /\ hung = {}
  /\ until' = IF wq = <<>> THEN Anything
              ELSE IF TopTs(wq) > now THEN TopTs(wq) ELSE Nothing
  /\ pc' = IF until' = Nothing THEN "guard" ELSE "test"
  /\ UNCHANGED <<wq, drain, q, busies>> /\ Unchanged

\* Faulty form of the next definition: the untimed wait asks as well.
TopThrowsUntimed == wq = <<>> /\ (until = Anything \/ until > now)

\* The predicates of the two waits, evaluated under mm.  The timed one asks
\* for the top before it looks whether there is one, and top() throws.
TopThrows == until # Anything /\ until > now /\ wq = <<>>

\* Faulty form of the next definition: it forgets running.
WaitIsOverDeaf ==
  \/ until = Anything /\ wq # <<>>
  \/ until # Anything /\ (until <= now \/ until # TopTs(wq))

WaitIsOver ==
  \/ ~ running
  \/ until = Anything /\ wq # <<>>
  \/ until # Anything /\ (until <= now \/ until # TopTs(wq))

EvaluatePredicate ==
  /\ pc = "test"
  /\ pc' = IF TopThrows THEN "terminated"
           ELSE IF WaitIsOver THEN "guard" ELSE "presleep"
  /\ UNCHANGED <<wq, until, drain, q, busies>> /\ Unchanged

\* Only now is the condition variable able to deliver a notification.
FallAsleep ==
  /\ pc = "presleep"
  /\ pc' = "asleep"
  /\ UNCHANGED <<wq, until, drain, q, busies>> /\ Unchanged

Timeout ==
  /\ pc = "asleep" /\ until # Anything /\ until <= now
  /\ pc' = "woken"
  /\ UNCHANGED <<wq, until, drain, q, busies>> /\ Unchanged

SpuriousWake ==
  /\ pc = "asleep"
  /\ pc' = "woken"
  /\ UNCHANGED <<wq, until, drain, q, busies>> /\ Unchanged

Relock ==
  /\ pc = "woken" /\ hung = {}
  /\ pc' = "test"
  /\ UNCHANGED <<wq, until, drain, q, busies>> /\ Unchanged

\* Both "spurious wake guards", under mm.
Guard ==
  /\ pc = "guard"
  /\ pc' = IF \/ wq = <<>>
              \/ until \notin {Anything, Nothing} /\ TopTs(wq) # until
              \/ TopTs(wq) > now
           THEN "loop" ELSE "take"
  /\ until' = Nothing
  /\ UNCHANGED <<wq, drain, q, busies>> /\ Unchanged

\* Where run_queued_queries returns to: the loop, or the end of shutdown_db.
Back == IF drain THEN "closed" ELSE "loop"

\* One iteration of run_queued_queries up to the unlock.  While draining it
\* runs what is not due as well, but a deletion that is not due ends it.
TakeNone ==
  /\ pc = "take" /\ hung = {}
  /\ ~ \E i \in DOMAIN wq : drain \/ wq[i].ts <= now
  /\ pc' = Back
  /\ UNCHANGED <<wq, until, drain, q, busies>> /\ Unchanged

\* Faulty form of the next definition: any deletion ends the drain.
TakeEager ==
  /\ pc = "take" /\ hung = {}
  /\ \E i \in DOMAIN wq :
       /\ IsTop(wq, i) /\ (drain \/ wq[i].ts <= now)
       /\ wq' = PopAt(wq, i)
       /\ IF drain /\ IsDel(wq[i].id)
          THEN pc' = Back /\ UNCHANGED q
          ELSE pc' = "exec" /\ q' = wq[i]
  /\ UNCHANGED <<until, drain, busies>> /\ Unchanged

Take ==
  /\ pc = "take" /\ hung = {}
  /\ \E i \in DOMAIN wq :
       /\ IsTop(wq, i) /\ (drain \/ wq[i].ts <= now)
       /\ wq' = PopAt(wq, i)
       /\ IF drain /\ IsDel(wq[i].id) /\ wq[i].ts > now
          THEN pc' = Back /\ UNCHANGED q
          ELSE pc' = "exec" /\ q' = wq[i]
  /\ UNCHANGED <<until, drain, busies>> /\ Unchanged

Execute ==
  /\ pc = "exec"
  /\ pc' = "take" /\ q' = NoQuery
  /\ UNCHANGED <<wq, until, drain, busies>> /\ Unchanged

\* SQLITE_BUSY: run_until_done enqueues a later copy.
ExecuteBusy ==
  /\ pc = "exec" /\ busies < MaxBusy /\ hung = {}
  /\ wq' = Enqueue(wq, [q EXCEPT !.ts = now + RetryDelay])
  /\ \/ pc' = "take" /\ q' = NoQuery /\ UNCHANGED <<handler, hung>>
     \/ NotifyHangs({"main", "mm"}) /\ UNCHANGED <<pc, q>>
  /\ busies' = busies + 1
  /\ UNCHANGED <<until, drain, running, now, posting, enqs, removals, sigints, missed>>

\* The end of run(): the database is closed, then the servers are joined.  A
\* server that hangs in its notify is never done.
StopServers ==
  /\ pc = "closed" /\ hung = {}
  /\ pc' = "stopped"
  /\ UNCHANGED <<wq, until, drain, q, busies>> /\ Unchanged

MainStep ==
  /\ "main" \notin hung
  /\ \/ Boot \/ Loop \/ Enter \/ EvaluatePredicate \/ FallAsleep \/ Timeout
     \/ Relock \/ Guard
     \/ TakeNone \/ Take \/ Execute \/ ExecuteBusy \/ StopServers

Tick ==
  /\ now < MaxTime
  /\ now' = now + 1
  /\ UNCHANGED <<wq, running, pc, until, drain, q, handler, hung, posting, counters, missed>>

Next ==
  \/ EnqueueSet \/ EnqueueDel \/ ServerRemove \/ Sigint \/ SigintNotify \/ SigintHangs
  \/ MainStep \/ SpuriousWake \/ Tick

Spec == Init /\ [][Next]_vars

\* The main thread runs; a handler that interrupted no holder of the condition
\* variable's mutex gets it, for nobody else keeps it long; time passes.
\* Nothing is owed by clients, signals or spurious wakeups.
Fairness == WF_vars(MainStep) /\ WF_vars(SigintNotify) /\ WF_vars(Tick)

FairSpec == Spec /\ Fairness

-----------------------------------------------------------------------------
\* Properties.

TypeOK ==
  /\ wq \in Seq(Query) /\ UniqueIds(wq)
  /\ running \in BOOLEAN /\ drain \in BOOLEAN
  /\ handler \in BOOLEAN /\ missed \in BOOLEAN /\ hung \subseteq {"main", "mm"}
  /\ now \in Nat /\ pc \in Pcs /\ until \in Nat \cup {Anything, Nothing}
  /\ q \in Query
  /\ posting \in Nat /\ enqs \in Nat /\ removals \in Nat /\ busies \in Nat /\ sigints \in Nat
  /\ pc \in {"test", "presleep", "asleep", "woken"} => until # Nothing

Over == pc \in {"closed", "stopped", "terminated"}

\* The process is terminated by a third SIGINT only, as long as no POST
\* without a ttl takes a query out of the queue: the predicates never ask an
\* empty queue for its top.
TerminatedBySigint == pc = "terminated" => sigints >= 3 \/ removals > 0

\* A query that is due is taken from the queue, or postponed, unless the
\* program is shutting down or a SIGINT handler hangs: no enqueue, timeout or
\* postponement leaves the main thread asleep over work.
DueIsTaken ==
  \A id \in Ids :
    LET due == \E i \in DOMAIN wq : wq[i].id = id /\ wq[i].ts <= now
    IN  due ~> (~ due \/ Over \/ hung # {})

\* A SIGINT stops the program but for three cases: it came before running was
\* set; its notify fell between the predicate and the sleep; or its handler
\* interrupted a thread inside a notify or wait of the condition variable,
\* and hangs there with it.
SigintStops == (~ running /\ pc # "boot") ~> (Over \/ missed \/ hung # {})

\* When the drain ends nothing that was due is left.
DrainRunsDue ==
  [][pc # "closed" /\ pc' = "closed" => \A i \in DOMAIN wq' : wq'[i].ts > now]_vars

=============================================================================
