--------------------------- MODULE MainLoopProofs ---------------------------
(***************************************************************************)
(* Proofs about MainLoop for every set of queries and deadlines and any    *)
(* number of enqueues, removals, retries and signals.                      *)
(***************************************************************************)
EXTENDS MainLoop, WriteQueueProofs

Waiting == pc \in {"test", "presleep", "asleep", "woken"}

LEMMA BootQueueType == BootQueue \in Seq(Query) /\ UniqueIds(BootQueue) /\ NoQuery \in Query
  BY DEF BootQueue, UniqueIds, Query, Ids, NoQuery

\* top() of a queue that has queries is a timestamp, and none is earlier.
LEMMA TopTsIsLeast ==
  ASSUME NEW w \in Seq(Query), w # <<>>
  PROVE  TopTs(w) \in Nat /\ \A i \in DOMAIN w : TopTs(w) <= w[i].ts
<1>1. DOMAIN w = 1 .. Len(w) /\ Len(w) \in Nat /\ Len(w) # 0
  BY LenProperties, EmptySeq
<1>a. \A i \in 1 .. Len(w) : w[i] \in Query
  BY <1>1, ElementOfSeq
<1>2. \A i \in 1 .. Len(w) : w[i].ts \in Nat
  BY <1>a DEF Query
<1>3. PICK i \in DOMAIN w : IsTop(w, i)
  BY <1>1, <1>2, TopExists
<1>4. \E t \in {w[j].ts : j \in DOMAIN w} : \A j \in DOMAIN w : t <= w[j].ts
  BY <1>3 DEF IsTop
<1>5. /\ TopTs(w) \in {w[j].ts : j \in DOMAIN w}
      /\ \A j \in DOMAIN w : TopTs(w) <= w[j].ts
  BY <1>4 DEF TopTs
<1> QED
  BY <1>1, <1>2, <1>5

LEMMA EnqueueNotEmpty ==
  ASSUME NEW w \in Seq(Query), UniqueIds(w), NEW new \in Query
  PROVE  /\ Enqueue(w, new) \in Seq(Query) /\ UniqueIds(Enqueue(w, new))
         /\ Enqueue(w, new) # <<>>
<1>1. new \in ToSet(Enqueue(w, new))
  BY EnqueueProperties
<1> QED
  BY <1>1, EnqueueProperties DEF ToSet

-----------------------------------------------------------------------------
\* While the main thread waits for a timestamp the queue holds a query, for
\* nothing but a removal empties it behind the main thread's back; then the
\* predicate never asks an empty queue for its top.
WaitsForQuery ==
  Waiting /\ until # Anything /\ removals = 0 => wq # <<>>

LoopInv == TypeOK /\ WaitsForQuery /\ TerminatedBySigint

LEMMA LoopInit == Init => LoopInv
<1> SUFFICES ASSUME Init PROVE LoopInv
  OBVIOUS
<1>1. wq \in Seq(Query) /\ UniqueIds(wq) /\ q \in Query
  BY BootQueueType DEF Init
<1> QED
  BY <1>1 DEF Init, LoopInv, TypeOK, Pcs, WaitsForQuery, Waiting, TerminatedBySigint

LEMMA LoopStep == LoopInv /\ [Next]_vars => LoopInv'
<1> SUFFICES ASSUME LoopInv, [Next]_vars PROVE LoopInv'
  OBVIOUS
<1> USE DEF LoopInv, TypeOK, WaitsForQuery, Waiting, TerminatedBySigint, counters
<1>n. Notified \in Pcs /\ (Notified = pc \/ (pc = "asleep" /\ Notified = "woken"))
  BY DEF Notified, Pcs
<1>a. ASSUME NEW new \in Query, ServerEnqueue(new), posting' \in Nat PROVE LoopInv'
  <2>1. wq' \in Seq(Query) /\ UniqueIds(wq') /\ wq' # <<>>
    BY <1>a, EnqueueNotEmpty DEF ServerEnqueue
  <2>2. /\ pc' = Notified \/ pc' = pc
        /\ UNCHANGED handler \/ handler' = FALSE
        /\ hung' \in {hung, hung \cup {"mm"}}
    BY <1>a DEF ServerEnqueue, NotifyHangs
  <2>3. handler' \in BOOLEAN
    BY <2>2, Zenon
  <2>4. /\ UNCHANGED <<running, now, until, drain, q, removals, busies, sigints, missed>>
        /\ enqs' = enqs + 1
    BY <1>a DEF ServerEnqueue
  <2> QED
    BY <1>a, <1>n, <2>1, <2>2, <2>3, <2>4
<1>b. \A id \in SetIds \cup DelIds, t \in Nat : [id |-> id, ts |-> t] \in Query
  BY DEF Query, Ids
<1>1. CASE EnqueueSet \/ EnqueueDel
  <2>1. PICK id \in SetIds \cup DelIds, t \in Nat : ServerEnqueue([id |-> id, ts |-> t])
    BY <1>1, ClockAssumption DEF EnqueueSet, EnqueueDel
  <2>2. posting' \in Nat
    <3>1. posting' \in {posting, posting + 1} \/ (posting' = posting - 1 /\ posting' >= 0)
      BY <1>1 DEF EnqueueSet, EnqueueDel
    <3>2. posting \in Nat
      OBVIOUS
    <3> HIDE DEF LoopInv, TypeOK
    <3> QED BY <3>1, <3>2
  <2> QED
    BY <1>a, <1>b, <2>1, <2>2
<1>2. CASE ServerRemove
  <2>1. wq' \in Seq(Query) /\ UniqueIds(wq')
    BY <1>2, RemoveQueryProperties DEF ServerRemove
  <2>2. removals' = removals + 1 /\ posting' \in Nat
    BY <1>2 DEF ServerRemove
  <2> QED
    BY <1>2, <2>1, <2>2 DEF ServerRemove
<1>3. CASE Sigint
  <2>1. sigints' \in Nat /\ handler' \in BOOLEAN
    <3>1. handler' = handler \/ handler' = TRUE
      BY <1>3, Zenon DEF Sigint
    <3>2. sigints' \in Nat
      BY <1>3 DEF Sigint
    <3>3. handler' \in BOOLEAN
      BY <3>1, Zenon
    <3> QED BY <3>2, <3>3
  <2>2. \/ pc' = pc
        \/ pc' = "terminated" /\ sigints' >= 3
    BY <1>3 DEF Sigint
  <2>3. pc # "terminated" /\ UNCHANGED <<wq, now, until, drain, q, hung, posting, enqs, removals, busies, missed>>
        /\ running' = FALSE
    BY <1>3 DEF Sigint
  <2> QED
    BY <2>1, <2>2, <2>3 DEF Pcs
<1>4. CASE SigintNotify \/ SigintHangs
  BY <1>4, <1>n DEF SigintNotify, SigintHangs
<1>5. CASE MainStep
  <2> USE DEF Unchanged, Pcs
  <2>1. CASE Boot
    BY <2>1 DEF Boot
  <2>2. CASE Loop
    BY <2>2 DEF Loop
  <2>3. CASE Enter
    <3>1. wq # <<>> => TopTs(wq) \in Nat
      BY TopTsIsLeast
    <3>2. until' \in Nat \cup {Anything, Nothing}
      BY <2>3, <3>1 DEF Enter
    <3>3. wq = <<>> => until' = Anything
      BY <2>3 DEF Enter
    <3>4. until' = Nothing => pc' = "guard"
      BY <2>3 DEF Enter
    <3> QED
      BY <2>3, <3>2, <3>3, <3>4 DEF Enter
  <2>4. CASE EvaluatePredicate
    <3>1. TopThrows => removals # 0
      BY <2>4 DEF EvaluatePredicate, TopThrows
    <3> QED
      BY <2>4, <3>1 DEF EvaluatePredicate
  <2>5. CASE FallAsleep \/ Timeout \/ Relock
    BY <2>5 DEF FallAsleep, Timeout, Relock
  <2>6. CASE Guard
    BY <2>6 DEF Guard
  <2>7. CASE TakeNone
    BY <2>7 DEF TakeNone, Back
  <2>8. CASE Take
    <3>1. PICK i \in DOMAIN wq :
            /\ wq' = PopAt(wq, i)
            /\ \/ pc' = Back /\ UNCHANGED q
               \/ pc' = "exec" /\ q' = wq[i]
      BY <2>8 DEF Take
    <3>2. wq' \in Seq(Query) /\ UniqueIds(wq')
      BY <3>1, PopProperties
    <3>3. wq[i] \in Query
      BY LenProperties, ElementOfSeq
    <3> QED
      BY <2>8, <3>1, <3>2, <3>3 DEF Take, Back
  <2>9. CASE Execute
    BY <2>9, BootQueueType DEF Execute
  <2>10. CASE ExecuteBusy
    <3>1. [q EXCEPT !.ts = now + RetryDelay] \in Query
      <4>1. now + RetryDelay \in Nat /\ q \in Query
        BY ClockAssumption
      <4> HIDE DEF LoopInv, TypeOK
      <4> QED BY <4>1 DEF Query
    <3>2. wq' \in Seq(Query) /\ UniqueIds(wq')
      BY <2>10, <3>1, EnqueueNotEmpty DEF ExecuteBusy
    <3>3. \/ pc' = "take" /\ q' = NoQuery /\ UNCHANGED <<handler, hung>>
          \/ UNCHANGED <<pc, q>> /\ handler' = FALSE /\ hung' = hung \cup {"main", "mm"}
      BY <2>10 DEF ExecuteBusy, NotifyHangs
    <3>4. handler' \in BOOLEAN
      BY <3>3, Zenon
    <3>5. pc' \in {"take", "exec"} /\ q' \in Query /\ hung' \subseteq {"main", "mm"}
      BY <2>10, <3>3, BootQueueType DEF ExecuteBusy
    <3>6. /\ UNCHANGED <<until, drain, running, now, posting, enqs, removals, sigints, missed>>
          /\ busies' = busies + 1
      BY <2>10 DEF ExecuteBusy
    <3> QED
      BY <3>2, <3>4, <3>5, <3>6
  <2>11. CASE StopServers
    BY <2>11 DEF StopServers
  <2> QED
    BY <1>5, <2>1, <2>2, <2>3, <2>4, <2>5, <2>6, <2>7, <2>8, <2>9, <2>10, <2>11
    DEF MainStep
<1>6. CASE SpuriousWake
  BY <1>6 DEF SpuriousWake, Unchanged, Pcs
<1>7. CASE Tick
  BY <1>7 DEF Tick
<1>8. CASE UNCHANGED vars
  BY <1>8 DEF vars
<1> QED
  BY <1>1, <1>2, <1>3, <1>4, <1>5, <1>6, <1>7, <1>8 DEF Next

\* Types of the main loop, and unique ids in its queue, in every state.
THEOREM LoopTypeCorrect == Spec => []TypeOK
<1>1. LoopInv => TypeOK
  BY DEF LoopInv
<1> QED
  BY <1>1, LoopInit, LoopStep, PTL DEF Spec

\* The wait predicates terminate the process only when a POST without a ttl
\* has removed a query: whatever else servers enqueue and signals interrupt.
THEOREM OnlySigintTerminates == Spec => []TerminatedBySigint
<1>1. LoopInv => TerminatedBySigint
  BY DEF LoopInv
<1> QED
  BY <1>1, LoopInit, LoopStep, PTL DEF Spec

-----------------------------------------------------------------------------
\* Only taking from the queue ends the drain, and it takes the earliest first.
LEMMA DrainStep ==
  LoopInv /\ [Next]_vars /\ pc # "closed" /\ pc' = "closed"
    => \A i \in DOMAIN wq' : wq'[i].ts > now
<1> SUFFICES ASSUME LoopInv, [Next]_vars, pc # "closed", pc' = "closed"
             PROVE  \A i \in DOMAIN wq' : wq'[i].ts > now
  OBVIOUS
<1>0. wq \in Seq(Query) /\ UniqueIds(wq) /\ now \in Nat
  BY DEF LoopInv, TypeOK
<1>1. TakeNone \/ Take
  BY DEF Next, MainStep, EnqueueSet, EnqueueDel, ServerEnqueue, ServerRemove, Sigint, SigintNotify, SigintHangs,
         NotifyHangs, Boot, Loop,
         Enter, EvaluatePredicate, FallAsleep, Timeout, Relock, Guard, Execute,
         ExecuteBusy, StopServers, SpuriousWake, Tick, Notified, vars
<1>2. CASE TakeNone
  <2>1. drain /\ wq' = wq
    BY <1>2 DEF TakeNone, Back
  <2> QED
    BY <1>2, <2>1 DEF TakeNone
<1>3. CASE Take
  <2>1. PICK i \in DOMAIN wq :
          IsTop(wq, i) /\ wq' = PopAt(wq, i) /\ wq[i].ts > now
    BY <1>3 DEF Take, Back
  <2>2. \A p \in ToSet(wq') : p \in ToSet(wq)
    BY <1>0, <2>1, PopProperties
  <2>3. \A p \in ToSet(wq) : p.ts > now
    <3>1. \A j \in DOMAIN wq : wq[j] \in Query
      BY <1>0, LenProperties, ElementOfSeq
    <3>2. \A j \in DOMAIN wq : wq[j].ts \in Nat /\ wq[i].ts <= wq[j].ts
      BY <2>1, <3>1 DEF IsTop, Query
    <3>3. \A j \in DOMAIN wq : wq[j].ts > now
      BY <1>0, <2>1, <3>2
    <3> QED BY <3>3 DEF ToSet
  <2> QED
    BY <2>2, <2>3 DEF ToSet
<1> QED
  BY <1>1, <1>2, <1>3

\* When the drain of the shutdown ends no due query is left in the queue.
THEOREM DrainLeavesNothingDue == Spec => DrainRunsDue
<1>1. LoopInv /\ [Next]_vars
        => [pc # "closed" /\ pc' = "closed"
              => \A i \in DOMAIN wq' : wq'[i].ts > now]_vars
  BY DrainStep
<1> QED
  BY <1>1, LoopInit, LoopStep, PTL DEF Spec, DrainRunsDue

-----------------------------------------------------------------------------
\* What liveness rests on: the main thread, about to sleep or asleep, waits
\* for nothing while its queue is empty and otherwise for no later than the
\* earliest query.  An enqueue that would change that wakes it, or hangs.
Dozing == pc \in {"presleep", "asleep"}

SleepsForTop ==
  Dozing /\ hung = {} =>
    /\ until = Anything => wq = <<>>
    /\ until # Anything => \A i \in DOMAIN wq : until <= wq[i].ts

\* When it dozes over a SIGINT the handler has its notify still to make, or
\* the notify fell where nobody could receive it, or a handler hangs.
SignalReaches == Dozing /\ ~ running => handler \/ missed \/ hung # {}

LEMMA DozeInit == Init => SleepsForTop /\ SignalReaches
  BY DEF Init, SleepsForTop, SignalReaches, Dozing

\* Only the evaluation of the predicate starts a doze, and it compares what
\* it waits for with the top of the queue, and asks running.
LEMMA DozeBegins ==
  ASSUME LoopInv, EvaluatePredicate
  PROVE  SleepsForTop' /\ SignalReaches'
<1>1. wq \in Seq(Query) /\ now \in Nat /\ until \in Nat \cup {Anything, Nothing}
      /\ until # Nothing
  BY DEF LoopInv, TypeOK, EvaluatePredicate
<1>2. UNCHANGED <<wq, until, running>>
  BY DEF EvaluatePredicate, Unchanged
<1>3. SUFFICES ASSUME Dozing' PROVE SleepsForTop' /\ SignalReaches'
  BY DEF SleepsForTop, SignalReaches
<1>4. ~ TopThrows /\ ~ WaitIsOver
  BY <1>3 DEF EvaluatePredicate, Dozing
<1>5. running
  BY <1>4 DEF WaitIsOver
<1>6. until = Anything => wq = <<>>
  BY <1>4 DEF WaitIsOver
<1>7. ASSUME until # Anything PROVE \A i \in DOMAIN wq : until <= wq[i].ts
  <2>1. until \in Nat /\ ~ (until <= now) /\ until = TopTs(wq)
    BY <1>1, <1>4, <1>7 DEF WaitIsOver
  <2>2. wq # <<>>
    BY <1>1, <1>4, <1>7, <2>1 DEF TopThrows
  <2> QED
    BY <1>1, <2>1, <2>2, TopTsIsLeast
<1> QED
  BY <1>2, <1>5, <1>6, <1>7 DEF SleepsForTop, SignalReaches

LEMMA DozeStep ==
  LoopInv /\ SleepsForTop /\ SignalReaches /\ [Next]_vars
    => SleepsForTop' /\ SignalReaches'
<1> SUFFICES ASSUME LoopInv, SleepsForTop, SignalReaches, [Next]_vars
             PROVE  SleepsForTop' /\ SignalReaches'
  OBVIOUS
<1>0. wq \in Seq(Query)
  BY DEF LoopInv, TypeOK
<1> USE DEF Dozing
<1>1. CASE EnqueueSet \/ EnqueueDel
  <2>1. PICK new : ServerEnqueue(new)
    BY <1>1 DEF EnqueueSet, EnqueueDel
  <2>2. pc' \notin {"presleep", "asleep"} \/ hung' # {}
    BY <2>1 DEF ServerEnqueue, NotifyHangs, ServerCall, HoldsMm, Notified
  <2> QED BY <2>2 DEF SleepsForTop, SignalReaches
<1>2. CASE ServerRemove
  <2>1. PICK id \in DelIds : wq' = RemoveQuery(wq, id)
    BY <1>2 DEF ServerRemove
  <2>2. wq' \in Seq(Query) /\ ToSet(wq') \subseteq ToSet(wq)
    BY <1>0, <2>1, RemoveQueryProperties DEF LoopInv, TypeOK
  <2>3. UNCHANGED <<pc, until, running, handler, hung, missed>>
    BY <1>2 DEF ServerRemove
  <2>4. SignalReaches'
    BY <2>3 DEF SignalReaches
  <2>5. wq = <<>> => wq' = <<>>
    <3> SUFFICES ASSUME wq = <<>>, wq' # <<>> PROVE FALSE
      OBVIOUS
    <3>1. 1 \in DOMAIN wq'
      BY <2>2, LenProperties, EmptySeq
    <3>2. PICK i \in DOMAIN wq : wq'[1] = wq[i]
      BY <2>2, <3>1 DEF ToSet
    <3> QED BY <1>0, <3>2, LenProperties, EmptySeq
  <2>6. (\A i \in DOMAIN wq : until <= wq[i].ts) => \A i \in DOMAIN wq' : until <= wq'[i].ts
    BY <2>2 DEF ToSet
  <2> QED
    BY <2>3, <2>4, <2>5, <2>6 DEF SleepsForTop
<1>3. CASE Sigint
  <2>1. UNCHANGED <<wq, until, hung>> /\ (pc' = "terminated" \/ (pc' = pc /\ handler'))
    BY <1>3 DEF Sigint
  <2> QED BY <2>1 DEF SleepsForTop, SignalReaches
<1>9. CASE SigintHangs
  BY <1>9 DEF SigintHangs, SleepsForTop, SignalReaches
<1>4. CASE SigintNotify
  <2>1. UNCHANGED <<wq, until, hung>> /\ pc' = Notified /\ missed' = (missed \/ pc = "presleep")
    BY <1>4 DEF SigintNotify
  <2> QED BY <2>1 DEF SleepsForTop, SignalReaches, Notified
<1>5. CASE EvaluatePredicate
  BY <1>5, DozeBegins
<1>6. CASE FallAsleep
  BY <1>6 DEF FallAsleep, Unchanged, SleepsForTop, SignalReaches
<1>7. CASE SpuriousWake \/ (MainStep /\ ~ EvaluatePredicate /\ ~ FallAsleep)
  <2>1. pc' \notin {"presleep", "asleep"}
    BY <1>7 DEF MainStep, SpuriousWake, Boot, Loop, Enter, Timeout, Relock, Guard,
       TakeNone, Take, Back, Execute, ExecuteBusy, NotifyHangs, StopServers
  <2> QED BY <2>1 DEF SleepsForTop, SignalReaches
<1>8. CASE Tick \/ UNCHANGED vars
  BY <1>8 DEF Tick, vars, SleepsForTop, SignalReaches
<1> QED
  BY <1>1, <1>2, <1>3, <1>4, <1>5, <1>6, <1>7, <1>8, <1>9 DEF Next

\* No lost wakeup: unless a SIGINT handler hangs, a main thread that sleeps
\* while a query is due sleeps in a timed wait that has expired, whatever servers enqueue or remove, a
\* signal interrupts, or the clock does between its two looks at the queue.
THEOREM NeverSleepsOverWork ==
  Spec => [](pc = "asleep" /\ hung = {} /\ (\E i \in DOMAIN wq : wq[i].ts <= now)
               => until \in Nat /\ until <= now)
<1>1. LoopInv /\ SleepsForTop
        => (pc = "asleep" /\ hung = {} /\ (\E i \in DOMAIN wq : wq[i].ts <= now)
              => until \in Nat /\ until <= now)
  <2> SUFFICES ASSUME LoopInv, SleepsForTop, pc = "asleep", hung = {},
                      NEW i \in DOMAIN wq, wq[i].ts <= now
               PROVE  until \in Nat /\ until <= now
    OBVIOUS
  <2>1. wq \in Seq(Query) /\ now \in Nat /\ until \in Nat \cup {Anything, Nothing}
        /\ until # Nothing
    BY DEF LoopInv, TypeOK
  <2>2. wq[i] \in Query
    BY <2>1, LenProperties, ElementOfSeq
  <2>3. wq[i].ts \in Nat
    BY <2>2 DEF Query
  <2>4. wq # <<>>
    BY <2>1, LenProperties, EmptySeq
  <2>5. until # Anything /\ until <= wq[i].ts
    BY <2>4 DEF SleepsForTop, Dozing
  <2> QED
    BY <2>1, <2>3, <2>5
<1>2. Init => LoopInv /\ SleepsForTop /\ SignalReaches
  BY LoopInit, DozeInit
<1>3. (LoopInv /\ SleepsForTop /\ SignalReaches) /\ [Next]_vars
        => (LoopInv /\ SleepsForTop /\ SignalReaches)'
  BY LoopStep, DozeStep
<1> QED
  BY <1>1, <1>2, <1>3, PTL DEF Spec

\* A SIGINT is slept over only until its handler notifies, when the notify
\* came between the predicate and the sleep, or when a handler hangs: the
\* exceptions of SigintStops are the only ways to lose it.
THEOREM SignalsAreHeard == Spec => []SignalReaches
<1>1. Init => LoopInv /\ SleepsForTop /\ SignalReaches
  BY LoopInit, DozeInit
<1>2. (LoopInv /\ SleepsForTop /\ SignalReaches) /\ [Next]_vars
        => (LoopInv /\ SleepsForTop /\ SignalReaches)'
  BY LoopStep, DozeStep
<1> QED
  BY <1>1, <1>2, PTL DEF Spec

=============================================================================
