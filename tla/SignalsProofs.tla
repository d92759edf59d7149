--------------------------- MODULE SignalsProofs ---------------------------
(***************************************************************************)
(* Proofs about Signals for any number of servers, queries and SIGINTs.    *)
(***************************************************************************)
EXTENDS Signals, FiniteSetTheorems, TLAPS

LEMMA OwnersDiffer ==
  ASSUME NEW t \in Threads, NEW u \in Threads
  PROVE  /\ Code(t) # Nobody /\ Handler(t) # Nobody /\ Code(t) # Handler(u)
         /\ Code(t) = Code(u) => t = u
         /\ Handler(t) = Handler(u) => t = u
         /\ Code(t) \in Owners /\ Handler(t) \in Owners /\ Nobody \in Owners
<1>1. Code(t)[2] = "code" /\ Handler(u)[2] = "handler"
  BY DEF Code, Handler
<1>2. DOMAIN Code(t) = 1 .. 2 /\ DOMAIN Handler(t) = 1 .. 2 /\ DOMAIN Nobody = 1 .. 1
  BY DEF Code, Handler, Nobody
<1>3. Code(t) # Nobody /\ Handler(t) # Nobody
  BY <1>2
<1>4. Code(t)[1] = t /\ Code(u)[1] = u /\ Handler(t)[1] = t /\ Handler(u)[1] = u
  BY DEF Code, Handler
<1>5. Code(t) # Handler(u)
  BY <1>1
<1> QED
  BY <1>3, <1>4, <1>5 DEF Owners

\* What waking does: the main thread alone moves, from asleep.
LEMMA WokenProperties ==
  ASSUME NEW p \in [Threads -> MainPcs \cup ServerPcs], Main \in Threads
  PROVE  /\ Woken(p) \in [Threads -> MainPcs \cup ServerPcs]
         /\ \A s \in Servers : Woken(p)[s] = p[s]
         /\ Woken(p)[Main] = IF p[Main] = "asleep" THEN "awake" ELSE p[Main]
  BY ThreadAssumption DEF Woken, Threads, MainPcs

-----------------------------------------------------------------------------
\* Where a thread holds mm, and where it holds the inner mutex.
HoldsMm(t) == pc[t] \in {"test", "push", "cv_lock", "notify", "unlock", "take"}
HoldsIm(t) == IF t = Main THEN pc[t] \in {"unlock", "sleep", "cv_unlock"}
                          ELSE pc[t] = "notify"

\* A mutex is held there and nowhere else: every path gives it back.
MutexInv ==
  \A t \in Threads :
    /\ HoldsMm(t) <=> mm = Code(t)
    /\ HoldsIm(t) <=> im = Code(t)
    /\ hpc[t] = "notify" <=> im = Handler(t)
    /\ mm # Handler(t)

\* NoLostWakeup from the moment the main thread has decided to sleep.
WakeupInv ==
  /\ pc[Main] \in {"cv_lock", "unlock"} => queue = 0
  /\ pc[Main] \in {"sleep", "asleep"} /\ queue # 0 =>
       \E s \in Servers : pc[s] \in {"cv_lock", "notify"}

PcFunction == pc \in [Threads -> MainPcs \cup ServerPcs]

LockInv == TypeOK /\ PcFunction /\ MutexInv /\ WakeupInv

LEMMA LockInit == Init => LockInv
<1> SUFFICES ASSUME Init PROVE LockInv
  OBVIOUS
<1> USE ThreadAssumption DEF Init, Threads
<1>1. TypeOK
  <2>1. \A t \in Threads : pc[t] \in IF t = Main THEN MainPcs ELSE ServerPcs
    BY DEF MainPcs, ServerPcs
  <2>2. mm \in Owners /\ im \in Owners
    BY DEF Owners
  <2>3. hpc \in [Threads -> Hpcs] /\ seen \in [Threads -> Nat]
    BY DEF Hpcs
  <2>4. /\ queue \in Nat /\ enqueues \in Nat /\ sigint_count \in Nat
        /\ sent \in Nat /\ pending \in 0 .. 1
    OBVIOUS
  <2>5. running \in BOOLEAN /\ terminated \in BOOLEAN
    OBVIOUS
  <2> HIDE DEF Init, Threads
  <2> QED
    BY <2>1, <2>2, <2>3, <2>4, <2>5 DEF TypeOK
<1>2. PcFunction
  BY DEF PcFunction, MainPcs, ServerPcs
<1>3. MutexInv
  <2>1. \A t \in Threads : ~ HoldsMm(t) /\ ~ HoldsIm(t) /\ hpc[t] # "notify"
    BY DEF HoldsMm, HoldsIm
  <2>2. mm = Nobody /\ im = Nobody
    OBVIOUS
  <2> HIDE DEF Init, Threads
  <2> QED
    BY <2>1, <2>2, OwnersDiffer DEF MutexInv
<1>4. WakeupInv
  BY DEF WakeupInv
<1> QED
  BY <1>1, <1>2, <1>3, <1>4 DEF LockInv

LEMMA LockStep == LockInv /\ [Next]_vars => LockInv'
<1> SUFFICES ASSUME LockInv, [Next]_vars PROVE LockInv'
  OBVIOUS
<1>m. Main \in Threads /\ Servers \subseteq Threads /\ \A t \in Threads : t # Main => t \in Servers
  BY DEF Threads
<1>d. \A t, u \in Threads :
        /\ Code(t) # Nobody /\ Handler(t) # Nobody /\ Code(t) # Handler(u)
        /\ Code(t) = Code(u) => t = u
        /\ Handler(t) = Handler(u) => t = u
        /\ Code(t) \in Owners /\ Handler(t) \in Owners /\ Nobody \in Owners
  BY OwnersDiffer
<1> USE <1>m, <1>d, ThreadAssumption
    DEF LockInv, TypeOK, PcFunction, MutexInv, WakeupInv, HoldsMm, HoldsIm,
        lockVars, sigVars, Moves
<1>1. CASE MainThread
  <2> USE DEF MainPcs, ServerPcs
  <2>1. CASE Lock
    BY <2>1 DEF Lock
  <2>2. CASE Test
    BY <2>2 DEF Test
  <2>3. CASE CvLock
    BY <2>3 DEF CvLock
  <2>4. CASE Unlock
    BY <2>4 DEF Unlock
  <2>5. CASE Sleep
    BY <2>5 DEF Sleep
  <2>6. CASE Awake
    BY <2>6 DEF Awake
  <2>7. CASE CvUnlock
    BY <2>7 DEF CvUnlock
  <2>8. CASE Relock
    BY <2>8 DEF Relock
  <2>9. CASE Take
    BY <2>9 DEF Take, Popped
  <2> QED
    BY <1>1, <2>1, <2>2, <2>3, <2>4, <2>5, <2>6, <2>7, <2>8, <2>9 DEF MainThread
<1>2. ASSUME NEW s \in Servers, Request(s) \/ ServerThread(s) PROVE LockInv'
  <2> USE DEF MainPcs, ServerPcs
  <2>1. CASE Request(s)
    BY <2>1 DEF Request
  <2>2. CASE ServerLock(s)
    BY <2>2 DEF ServerLock
  <2>3. CASE Push(s)
    BY <2>3 DEF Push
  <2>4. CASE ServerCvLock(s)
    BY <2>4 DEF ServerCvLock
  <2>5. CASE NotifyOne(s)
    <3> DEFINE p == [pc EXCEPT ![s] = "unlock"]
    <3>1. p \in [Threads -> MainPcs \cup ServerPcs] /\ p[s] = "unlock"
          /\ \A t \in Threads : t # s => p[t] = pc[t]
      OBVIOUS
    <3>2. pc' = Woken(p) /\ im' = Nobody /\ ~ terminated /\ pc[s] = "notify" /\ hpc[s] = "none"
          /\ UNCHANGED <<hpc, mm, queue, enqueues, sigVars>>
      BY <2>5 DEF NotifyOne
    <3> HIDE DEF p
    <3>3. /\ pc' \in [Threads -> MainPcs \cup ServerPcs] /\ pc'[s] = "unlock"
          /\ \A t \in Servers : t # s => pc'[t] = pc[t]
          /\ pc'[Main] = IF pc[Main] = "asleep" THEN "awake" ELSE pc[Main]
      BY <3>1, <3>2, WokenProperties
    <3>4. TypeOK' /\ PcFunction'
      BY <3>2, <3>3
    <3>5. MutexInv'
      BY <3>2, <3>3
    <3>6. WakeupInv'
      BY <3>2, <3>3
    <3> QED
      BY <3>4, <3>5, <3>6
  <2>6. CASE ServerUnlock(s)
    BY <2>6 DEF ServerUnlock
  <2> QED
    BY <1>2, <2>1, <2>2, <2>3, <2>4, <2>5, <2>6 DEF ServerThread
<1>3. CASE Sigint
  BY <1>3 DEF Sigint
<1>4. ASSUME NEW t \in Threads, Deliver(t) \/ HandlerOf(t) PROVE LockInv'
  <2> USE DEF Hpcs, HandlerMoves
  <2>1. CASE Deliver(t)
    BY <2>1 DEF Deliver
  <2>2. CASE StopRunning(t)
    BY <2>2 DEF StopRunning
  <2>3. CASE ReadCount(t)
    BY <2>3 DEF ReadCount
  <2>4. CASE WriteCount(t)
    BY <2>4 DEF WriteCount, ThirdIs
  <2>5. CASE HandlerCvLock(t)
    BY <2>5 DEF HandlerCvLock
  <2>6. CASE NotifyAll(t)
    BY <2>6, WokenProperties DEF NotifyAll, MainPcs, ServerPcs
  <2> QED
    BY <1>4, <2>1, <2>2, <2>3, <2>4, <2>5, <2>6 DEF HandlerOf
<1>5. CASE UNCHANGED vars
  BY <1>5 DEF vars
<1> QED
  BY <1>1, <1>2, <1>3, <1>4, <1>5 DEF Next

\* The state of the two mutexes, the signals and the queue stays well typed.
THEOREM SignalsTypeCorrect == Spec => []TypeOK
<1>1. Init => LockInv
  BY LockInit
<1>2. LockInv /\ [Next]_vars => LockInv'
  BY LockStep
<1>3. LockInv => TypeOK
  BY DEF LockInv
<1> QED
  BY <1>1, <1>2, <1>3, PTL DEF Spec

\* However many servers enqueue and wherever signals interrupt them, the main
\* thread never sleeps on a queue that holds a query unless the server that
\* put it there has still to notify.
THEOREM WakeupsAreKept == Spec => []NoLostWakeup
<1>1. Init => LockInv
  BY LockInit
<1>2. LockInv /\ [Next]_vars => LockInv'
  BY LockStep
<1>3. LockInv => NoLostWakeup
  BY DEF LockInv, WakeupInv, NoLostWakeup
<1> QED
  BY <1>1, <1>2, <1>3, PTL DEF Spec

-----------------------------------------------------------------------------
\* What the next step of a thread takes: of its handler when it is in one.
NeedsMm(t) == hpc[t] = "none" /\ pc[t] \in {"lock", "relock"}
NeedsIm(t) == hpc[t] = "cv_lock" \/ (hpc[t] = "none" /\ pc[t] \in {"cv_lock", "awake"})

\* The inner mutex is held by a thread that asks for no mutex, and mm by one
\* that asks at most for the inner one; neither of them sleeps.
NoCircularWait ==
  /\ im # Nobody => \E t \in Threads :
                      /\ im \in {Code(t), Handler(t)}
                      /\ pc[t] # "asleep" \/ hpc[t] # "none"
                      /\ ~ NeedsIm(t) /\ ~ NeedsMm(t)
  /\ mm # Nobody => \E t \in Threads : mm = Code(t) /\ pc[t] # "asleep" /\ ~ NeedsMm(t)

\* Waiting for each other is out of the question for the main thread, any
\* number of servers and a handler on top of each: the one deadlock the two
\* mutexes allow is a handler that waits for the code below it.
THEOREM DeadlockIsOwn == Spec => [](~ SelfDeadlock => NoCircularWait)
<1>1. LockInv /\ ~ SelfDeadlock => NoCircularWait
  <2> SUFFICES ASSUME LockInv, ~ SelfDeadlock PROVE NoCircularWait
    OBVIOUS
  <2>t. /\ \A t \in Threads : pc[t] \in IF t = Main THEN MainPcs ELSE ServerPcs
        /\ mm \in Owners /\ im \in Owners /\ MutexInv
    BY DEF LockInv, TypeOK
  <2>1. ASSUME im # Nobody
        PROVE  \E t \in Threads : /\ im \in {Code(t), Handler(t)}
                                  /\ pc[t] # "asleep" \/ hpc[t] # "none"
                                  /\ ~ NeedsIm(t) /\ ~ NeedsMm(t)
    <3>1. PICK t \in Threads : im = Code(t) \/ im = Handler(t)
      BY <2>t, <2>1 DEF Owners
    <3>2. CASE im = Code(t)
      <4>1. HoldsIm(t) /\ hpc[t] # "cv_lock"
        BY <2>t, <3>2 DEF MutexInv, SelfDeadlock
      <4> QED BY <3>2, <4>1 DEF HoldsIm, NeedsIm, NeedsMm
    <3>3. CASE im = Handler(t)
      <4>1. hpc[t] = "notify"
        BY <2>t, <3>3 DEF MutexInv
      <4> QED BY <3>3, <4>1 DEF NeedsIm, NeedsMm
    <3> QED BY <3>1, <3>2, <3>3
  <2>2. ASSUME mm # Nobody
        PROVE  \E t \in Threads : mm = Code(t) /\ pc[t] # "asleep" /\ ~ NeedsMm(t)
    <3>1. PICK t \in Threads : mm = Code(t)
      BY <2>t, <2>2 DEF Owners, MutexInv
    <3>2. HoldsMm(t)
      BY <2>t, <3>1 DEF MutexInv
    <3> QED BY <3>1, <3>2 DEF HoldsMm, NeedsMm
  <2> QED
    BY <2>1, <2>2 DEF NoCircularWait
<1>2. Init => LockInv
  BY LockInit
<1>3. LockInv /\ [Next]_vars => LockInv'
  BY LockStep
<1> QED
  BY <1>1, <1>2, <1>3, PTL DEF Spec

-----------------------------------------------------------------------------
\* The handlers that have not counted their signal yet.
Uncounted == {t \in Threads : hpc[t] \in {"stop", "read", "write"}}

\* The count, and every copy of it that is about to be written back, is
\* bounded by the signals counted.
CountInv ==
  LET left == pending + Cardinality(Uncounted)
  IN  /\ sigint_count + left <= sent
      /\ \A t \in Threads : hpc[t] = "write" => seen[t] + left <= sent
      /\ terminated => sent >= 3

LEMMA UncountedFinite == IsFiniteSet(Uncounted) /\ Cardinality(Uncounted) \in Nat
<1>1. IsFiniteSet(Threads)
  BY FS_AddElement, ThreadAssumption DEF Threads
<1>2. IsFiniteSet(Uncounted)
  BY <1>1, FS_Subset DEF Uncounted
<1> QED
  BY <1>2, FS_CardinalityType

LEMMA CountInit == Init => CountInv
<1> SUFFICES ASSUME Init PROVE CountInv
  OBVIOUS
<1>1. Uncounted = {}
  BY DEF Init, Uncounted
<1> QED
  BY <1>1, FS_EmptySet DEF Init, CountInv

LEMMA CountStep == LockInv /\ CountInv /\ [Next]_vars => CountInv'
<1> SUFFICES ASSUME LockInv, CountInv, [Next]_vars PROVE CountInv'
  OBVIOUS
<1>f. IsFiniteSet(Uncounted) /\ Cardinality(Uncounted) \in Nat
  BY UncountedFinite
<1>t. /\ hpc \in [Threads -> Hpcs] /\ seen \in [Threads -> Nat] /\ sigint_count \in Nat
      /\ sent \in Nat /\ pending \in Nat /\ pending' \in Int
      /\ terminated \in BOOLEAN
  BY LockStep DEF LockInv, TypeOK
<1>1. ASSUME UNCHANGED <<hpc, seen, sigint_count, sent, pending, terminated>> PROVE CountInv'
  <2>1. Uncounted' = Uncounted
    BY <1>1 DEF Uncounted
  <2> QED
    BY <1>1, <2>1 DEF CountInv
<1>2. CASE MainThread
  BY <1>1, <1>2 DEF MainThread, Lock, Test, CvLock, Unlock, Sleep, Awake, CvUnlock, Relock,
                    Take, sigVars
<1>3. ASSUME NEW s \in Servers, Request(s) \/ ServerThread(s) PROVE CountInv'
  BY <1>1, <1>3 DEF Request, ServerThread, ServerLock, Push, ServerCvLock, NotifyOne,
                    ServerUnlock, sigVars
<1>4. CASE Sigint
  <2>1. Uncounted' = Uncounted
    BY <1>4 DEF Sigint, Uncounted
  <2> QED
    BY <1>4, <1>f, <1>t, <2>1 DEF Sigint, CountInv
<1>5. ASSUME NEW t \in Threads, Deliver(t) PROVE CountInv'
  <2>1. t \notin Uncounted /\ Uncounted' = Uncounted \cup {t}
    BY <1>5, <1>t DEF Deliver, Uncounted, Hpcs
  <2>2. Cardinality(Uncounted') = Cardinality(Uncounted) + 1
    BY <2>1, <1>f, FS_AddElement
  <2>3. \A u \in Threads : hpc'[u] = "write" => hpc[u] = "write"
    BY <1>5, <1>t DEF Deliver
  <2> QED
    BY <1>5, <1>f, <1>t, <2>2, <2>3 DEF Deliver, CountInv
<1>6. ASSUME NEW t \in Threads, HandlerOf(t) PROVE CountInv'
  <2> USE DEF HandlerMoves
  <2>1. CASE StopRunning(t)
    <3>1. Uncounted' = Uncounted /\ \A u \in Threads : hpc'[u] = "write" => hpc[u] = "write"
      BY <2>1, <1>t DEF StopRunning, Uncounted
    <3> QED
      BY <2>1, <3>1 DEF StopRunning, CountInv
  <2>2. CASE ReadCount(t)
    <3>1. Uncounted' = Uncounted
      BY <2>2, <1>t DEF ReadCount, Uncounted
    <3>2. \A u \in Threads : hpc'[u] = "write" =>
            seen'[u] = sigint_count \/ (hpc[u] = "write" /\ seen'[u] = seen[u])
      BY <2>2, <1>t DEF ReadCount
    <3> QED
      BY <2>2, <3>1, <3>2 DEF ReadCount, CountInv
  <2>3. CASE WriteCount(t)
    <3>1. t \in Uncounted /\ Uncounted' = Uncounted \ {t}
      BY <2>3, <1>t DEF WriteCount, Uncounted
    <3>2. Cardinality(Uncounted') = Cardinality(Uncounted) - 1
          /\ Cardinality(Uncounted') \in Nat
      <4>1. IsFiniteSet(Uncounted')
        BY <3>1, <1>f, FS_RemoveElement
      <4> QED
        BY <3>1, <4>1, <1>f, FS_RemoveElement, FS_CardinalityType
    <3>3. /\ hpc[t] = "write" /\ sigint_count' = seen[t] + 1 /\ seen' = seen
          /\ terminated' = (seen[t] + 1 >= 3) /\ sent' = sent /\ pending' = pending
          /\ \A u \in Threads : hpc'[u] = "write" => hpc[u] = "write"
      BY <2>3, <1>t DEF WriteCount, ThirdIs
    <3>4. seen[t] \in Nat /\ seen[t] + pending + Cardinality(Uncounted) <= sent
      BY <3>3, <1>t, <1>f DEF CountInv
    <3>5. \A u \in Threads : hpc'[u] = "write" =>
            seen[u] \in Nat /\ seen[u] + (pending + Cardinality(Uncounted)) <= sent
      BY <3>3, <1>t DEF CountInv
    <3> QED
      BY <3>2, <3>3, <3>4, <3>5, <1>f, <1>t DEF CountInv
  <2>4. CASE HandlerCvLock(t) \/ NotifyAll(t)
    <3>1. Uncounted' = Uncounted /\ \A u \in Threads : hpc'[u] = "write" => hpc[u] = "write"
      BY <2>4, <1>t DEF HandlerCvLock, NotifyAll, Uncounted
    <3>2. UNCHANGED <<seen, sigint_count, sent, pending, terminated>>
      BY <2>4 DEF HandlerCvLock, NotifyAll, sigVars
    <3> QED
      BY <3>1, <3>2 DEF CountInv
  <2> QED
    BY <1>6, <2>1, <2>2, <2>3, <2>4 DEF HandlerOf
<1>7. CASE UNCHANGED vars
  BY <1>1, <1>7 DEF vars, sigVars
<1> QED
  BY <1>2, <1>3, <1>4, <1>5, <1>6, <1>7 DEF Next

\* However the increments of the handlers interleave, two SIGINTs never force
\* the process to terminate.
THEOREM TwoSigintsAreHarmless == Spec => []TwoAreHarmless
<1>1. Init => LockInv /\ CountInv
  BY LockInit, CountInit
<1>2. LockInv /\ CountInv /\ [Next]_vars => (LockInv /\ CountInv)'
  BY LockStep, CountStep
<1>3. CountInv => TwoAreHarmless
  BY DEF CountInv, TwoAreHarmless
<1> QED
  BY <1>1, <1>2, <1>3, PTL DEF Spec

=============================================================================
