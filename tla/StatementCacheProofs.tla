------------------------ MODULE StatementCacheProofs ------------------------
(***************************************************************************)
(* Proofs about StatementCache for any number of servers, any set of       *)
(* handles and of result codes, and any number of queries.                 *)
(***************************************************************************)
EXTENDS StatementCache, TLAPS

ThreadRec == [pc : ThreadPcs, h : Handles \cup {Null}, sql : ServerSql \cup MainSql \cup {""},
              code : Codes \cup {DONE}]

StmtRec == [conn : Threads \cup {Null}, stepped : BOOLEAN]

\* Keys of different threads, or of different queries, differ.
LEMMA KeysDiffer ==
  ASSUME NEW t, NEW sql, NEW u, NEW sql2
  PROVE  /\ KeyOf(t, sql)[1] = t
         /\ KeyOf(t, sql) = KeyOf(u, sql2) => t = u /\ sql = sql2
  BY DEF KeyOf

\* What stepping and resetting do to a statement.
LEMMA MarkProperties ==
  ASSUME stmt \in [Handles -> StmtRec],
         NEW h \in Handles, NEW b \in BOOLEAN
  PROVE  /\ Mark(h, b) \in [Handles -> StmtRec]
         /\ \A g \in Handles : Mark(h, b)[g].conn = stmt[g].conn
         /\ \A g \in Handles : g # h => Mark(h, b)[g] = stmt[g]
         /\ Mark(h, b)[h].stepped => b /\ stmt[h] # Freed
         /\ stmt[h] = Freed => Mark(h, b)[h] = Freed
<1> DEFINE mark == b /\ stmt[h] # Freed
<1>1. mark \in BOOLEAN
  BY Zenon
<1>2. Mark(h, b) = [stmt EXCEPT ![h].stepped = mark]
  BY Zenon DEF Mark
<1>3. mark => b /\ stmt[h] # Freed
  BY Zenon
<1>4. stmt[h] = Freed => mark = FALSE
  BY Zenon
<1> HIDE DEF mark
<1>5. stmt[h] \in StmtRec
  OBVIOUS
<1> USE DEF StmtRec
<1>6. Mark(h, b) = [stmt EXCEPT ![h] = [stmt[h] EXCEPT !.stepped = mark]]
  BY <1>2
<1>7. [stmt[h] EXCEPT !.stepped = mark] = [conn |-> stmt[h].conn, stepped |-> mark]
  BY <1>5
<1>8. Mark(h, b)[h] = [conn |-> stmt[h].conn, stepped |-> mark]
  BY <1>6, <1>7
<1>9. Mark(h, b) \in [Handles -> StmtRec]
  BY <1>1, <1>5, <1>6, <1>7
<1>a. ASSUME stmt[h] = Freed PROVE Mark(h, b)[h] = Freed
  <2>1. mark = FALSE
    BY <1>4, <1>a, Zenon
  <2>2. stmt[h].conn = Null
    BY <1>a DEF Freed
  <2> QED
    BY <1>8, <2>1, <2>2, Zenon DEF Freed
<1>b. Mark(h, b)[h].stepped = mark /\ Mark(h, b)[h].conn = stmt[h].conn
  BY <1>8
<1>c. \A g \in Handles : g # h => Mark(h, b)[g] = stmt[g]
  BY <1>6
<1>d. Mark(h, b)[h].stepped => b /\ stmt[h] # Freed
  BY <1>3, <1>b, Zenon
<1> QED
  BY <1>9, <1>a, <1>b, <1>c, <1>d

-----------------------------------------------------------------------------
\* A thread's query has a key, and from insert on a handle.
ThreadInv(t) ==
  /\ ~ At(t, "idle") => Key(t) \in StmtKeys
  /\ th[t].pc \in {"insert", "bind", "step", "reset"} => th[t].h \in Handles
  /\ th[t].pc = "prepare" => th[t].h = Null

FreedInv == \A h \in Handles : stmt[h].conn = Null <=> stmt[h] = Freed

BaseInv == TypeOK /\ FreedInv /\ \A t \in Threads : ThreadInv(t)

LEMMA BaseInit == Init => BaseInv
<1> SUFFICES ASSUME Init PROVE BaseInv
  OBVIOUS
<1>1. TypeOK
  <2>1. /\ stmt_cache \in [StmtKeys -> Handles \cup {Null}]
        /\ conn \in [Threads -> {"open", "closed", "intact"}]
    BY DEF Init
  <2>2. Freed \in StmtRec
    BY DEF Freed, StmtRec
  <2>3. stmt \in [Handles -> StmtRec]
    BY <2>2 DEF Init
  <2>4. Idle \in ThreadRec
    BY DEF Idle, ThreadPcs, ThreadRec
  <2>5. th \in [Threads -> ThreadRec]
    BY <2>4 DEF Init
  <2>6. phase \in Phases /\ retry \subseteq BootSql /\ queries \in Nat
    BY DEF Init, Phases
  <2> QED
    BY <2>1, <2>3, <2>5, <2>6 DEF TypeOK, ThreadRec, StmtRec
<1>2. FreedInv
  BY DEF Init, FreedInv, Freed
<1>3. \A t \in Threads : ThreadInv(t)
  BY DEF Init, ThreadInv, Idle, At
<1> QED
  BY <1>1, <1>2, <1>3 DEF BaseInv

LEMMA IdleFields == Idle.pc = "idle" /\ Idle.h = Null
  BY DEF Idle

LEMMA ThreadRecUpdates ==
  ASSUME NEW r \in ThreadRec, NEW p \in ThreadPcs, NEW h \in Handles \cup {Null},
         NEW c \in Codes \cup {DONE}
  PROVE  /\ [r EXCEPT !.pc = p] \in ThreadRec
         /\ [r EXCEPT !.pc = p, !.h = h] \in ThreadRec
         /\ [r EXCEPT !.pc = p, !.code = c] \in ThreadRec
         /\ Idle \in ThreadRec /\ Idle.pc = "idle" /\ Idle.h = Null
         /\ r.pc \in ThreadPcs /\ r.h \in Handles \cup {Null} /\ r.code \in Codes \cup {DONE}
<1>1. Idle \in ThreadRec /\ Idle.pc = "idle" /\ Idle.h = Null
  BY DEF ThreadRec, Idle, ThreadPcs
<1>2. /\ [r EXCEPT !.pc = p] \in ThreadRec
      /\ [r EXCEPT !.pc = p, !.h = h] \in ThreadRec
      /\ [r EXCEPT !.pc = p, !.code = c] \in ThreadRec
  BY DEF ThreadRec
<1>3. r.pc \in ThreadPcs /\ r.h \in Handles \cup {Null} /\ r.code \in Codes \cup {DONE}
  BY DEF ThreadRec
<1> QED
  BY <1>1, <1>2, <1>3

\* What one step of thread t's query makes of its record.
LEMMA RunOfThread ==
  ASSUME BaseInv, NEW t \in Threads, Run(t)
  PROVE  /\ UNCHANGED <<conn, phase, queries>>
         /\ Key(t) \in StmtKeys
         /\ \E r \in ThreadRec :
              /\ th' = [th EXCEPT ![t] = r]
              /\ r.pc = "idle" \/ r.sql = th[t].sql
              /\ r.pc \in {"insert", "bind", "step", "reset"} => r.h \in Handles
              /\ r.pc = "prepare" => r.h = Null
<1>t. /\ th \in [Threads -> ThreadRec] /\ th[t] \in ThreadRec
      /\ stmt_cache \in [StmtKeys -> Handles \cup {Null}] /\ Codes \cup {DONE} # {}
      /\ DONE \in Codes \cup {DONE} /\ ThreadInv(t)
  BY DEF BaseInv, TypeOK, ThreadRec
<1>k. Key(t) \in StmtKeys
  BY <1>t DEF Run, Find, Prepare, Insert, Bind, Step, Reset, Finalize, At, ThreadInv
<1>p. {"idle", "find", "prepare", "insert", "bind", "step", "reset", "finalize"} = ThreadPcs
  BY DEF ThreadPcs
<1>i. Idle \in ThreadRec /\ Idle.pc = "idle"
  BY <1>t, <1>p, ThreadRecUpdates
<1>1. CASE Find(t)
  <2> DEFINE h == stmt_cache[Key(t)]
             p == IF h = Null THEN "prepare" ELSE "bind"
             r == [th[t] EXCEPT !.pc = p, !.h = h]
  <2>1. th' = [th EXCEPT ![t] = r] /\ UNCHANGED <<conn, phase, queries>>
    BY <1>1, <1>t DEF Find
  <2>2. h \in Handles \cup {Null} /\ p \in ThreadPcs
    BY <1>t, <1>k, <1>p
  <2>3. r \in ThreadRec
    BY <1>t, <2>2, ThreadRecUpdates
  <2>4. r.pc = p /\ r.h = h /\ r.sql = th[t].sql
    BY <1>t DEF ThreadRec
  <2>5. p \in {"prepare", "bind"} /\ (p = "prepare" => h = Null) /\ (p = "bind" => h \in Handles)
    BY <2>2
  <2> HIDE DEF r, p, h
  <2>6. /\ r.pc \in {"insert", "bind", "step", "reset"} => r.h \in Handles
        /\ r.pc = "prepare" => r.h = Null
    BY <2>4, <2>5
  <2> QED
    BY <1>k, <2>1, <2>3, <2>4, <2>6
<1>2. CASE Prepare(t)
  <2>1. CASE Return(t)
    BY <1>2, <1>k, <1>i, <2>1 DEF Prepare, Return
  <2>2. CASE Goto(t, "finalize")
    <3>1. [th[t] EXCEPT !.pc = "finalize"] \in ThreadRec
      BY <1>t, <1>p, ThreadRecUpdates
    <3>2. th' = [th EXCEPT ![t] = [th[t] EXCEPT !.pc = "finalize"]]
      BY <2>2, <1>t DEF Goto
    <3> QED
      BY <1>2, <1>k, <1>t, <3>1, <3>2 DEF Prepare, ThreadRec
  <2>3. ASSUME NEW h \in Handles, th' = [th EXCEPT ![t].pc = "insert", ![t].h = h]
        PROVE  \E r \in ThreadRec :
                 /\ th' = [th EXCEPT ![t] = r] /\ r.sql = th[t].sql
                 /\ r.pc = "insert" /\ r.h = h
    <3>1. [th[t] EXCEPT !.pc = "insert", !.h = h] \in ThreadRec
      BY <1>t, <1>p, ThreadRecUpdates
    <3>2. th' = [th EXCEPT ![t] = [th[t] EXCEPT !.pc = "insert", !.h = h]]
      BY <2>3, <1>t
    <3> QED
      BY <1>t, <3>1, <3>2 DEF ThreadRec
  <2> QED
    BY <1>2, <1>k, <2>1, <2>2, <2>3 DEF Prepare
<1>g. ASSUME NEW p \in ThreadPcs, Goto(t, p), p # "prepare",
             p \in {"insert", "bind", "step", "reset"} => th[t].h \in Handles
      PROVE  \E r \in ThreadRec :
               /\ th' = [th EXCEPT ![t] = r] /\ r.sql = th[t].sql
               /\ r.pc \in {"insert", "bind", "step", "reset"} => r.h \in Handles
               /\ r.pc # "prepare"
  <2>1. [th[t] EXCEPT !.pc = p] \in ThreadRec
    BY <1>t, <1>g, ThreadRecUpdates
  <2>2. th' = [th EXCEPT ![t] = [th[t] EXCEPT !.pc = p]]
    BY <1>g, <1>t DEF Goto
  <2> QED
    BY <1>t, <1>g, <2>1, <2>2 DEF ThreadRec
<1>3. CASE Insert(t)
  <2>1. Goto(t, "bind") /\ th[t].h \in Handles /\ UNCHANGED <<conn, phase, queries>>
    BY <1>3, <1>t DEF Insert, At, ThreadInv
  <2> QED
    BY <1>k, <1>g, <1>p, <2>1
<1>4. CASE Bind(t)
  <2>1. th[t].h \in Handles /\ UNCHANGED <<conn, phase, queries>>
    BY <1>4, <1>t DEF Bind, At, ThreadInv
  <2>2. CASE Goto(t, "finalize")
    BY <1>k, <1>g, <1>p, <2>1, <2>2
  <2>3. ASSUME NEW c \in Codes \cup {DONE}, th' = [th EXCEPT ![t].pc = "step", ![t].code = c]
        PROVE  \E r \in ThreadRec :
                 th' = [th EXCEPT ![t] = r] /\ r.sql = th[t].sql /\ r.pc = "step" /\ r.h = th[t].h
    <3>1. [th[t] EXCEPT !.pc = "step", !.code = c] \in ThreadRec
      BY <1>t, <1>p, <2>3, ThreadRecUpdates
    <3>2. th' = [th EXCEPT ![t] = [th[t] EXCEPT !.pc = "step", !.code = c]]
      BY <2>3, <1>t
    <3> QED
      BY <1>t, <3>1, <3>2 DEF ThreadRec
  <2> QED
    BY <1>4, <1>k, <2>1, <2>2, <2>3 DEF Bind
<1>5. CASE Step(t)
  <2>1. th[t].h \in Handles /\ UNCHANGED <<conn, phase, queries>>
    BY <1>5, <1>t DEF Step, At, ThreadInv
  <2>2. PICK p \in {"step", "finalize", "reset"} : Goto(t, p)
    BY <1>5 DEF Step
  <2> QED
    BY <1>k, <1>g, <1>p, <2>1, <2>2
<1>6. CASE Reset(t) \/ Finalize(t)
  BY <1>6, <1>k, <1>i DEF Reset, Finalize, Return
<1> QED
  BY <1>1, <1>2, <1>3, <1>4, <1>5, <1>6 DEF Run

LEMMA BaseStep == BaseInv /\ [Next]_vars => BaseInv'
<1> SUFFICES ASSUME BaseInv, [Next]_vars PROVE BaseInv'
  OBVIOUS
<1>n. Null \notin Handles /\ Null \notin Threads
  BY HandleAssumption
<1>t. /\ stmt_cache \in [StmtKeys -> Handles \cup {Null}] /\ stmt \in [Handles -> StmtRec]
      /\ th \in [Threads -> ThreadRec] /\ conn \in [Threads -> {"open", "closed", "intact"}]
      /\ phase \in Phases /\ retry \subseteq BootSql /\ queries \in Nat
      /\ FreedInv /\ \A t \in Threads : ThreadInv(t)
  BY DEF BaseInv, TypeOK, StmtRec, ThreadRec
<1>f. Freed \in StmtRec /\ Freed.conn = Null
  BY DEF Freed, StmtRec
<1>o. ASSUME stmt_cache' \in [StmtKeys -> Handles \cup {Null}], stmt' \in [Handles -> StmtRec],
             th' \in [Threads -> ThreadRec], conn' \in [Threads -> {"open", "closed", "intact"}],
             phase' \in Phases, retry' \subseteq BootSql, queries' \in Nat,
             FreedInv', \A t \in Threads : ThreadInv(t)'
      PROVE  BaseInv'
  BY <1>o DEF BaseInv, TypeOK, StmtRec, ThreadRec
<1>s. ASSUME NEW t \in Threads, NEW sql \in ServerSql \cup MainSql, KeyOf(t, sql) \in StmtKeys,
             Start(t, sql)
      PROVE  th' \in [Threads -> ThreadRec] /\ \A u \in Threads : ThreadInv(u)'
  <2> DEFINE r == [Idle EXCEPT !.pc = "find", !.sql = sql]
  <2>1. r \in ThreadRec /\ r.pc = "find" /\ r.sql = sql
    BY DEF Idle, ThreadRec, ThreadPcs
  <2>2. th' = [th EXCEPT ![t] = r]
    BY <1>s, Zenon DEF Start
  <2> HIDE DEF r
  <2>3. th' \in [Threads -> ThreadRec] /\ th'[t] = r /\ \A u \in Threads : u # t => th'[u] = th[u]
    BY <1>t, <2>1, <2>2
  <2> QED
    BY <2>1, <2>3, <1>s, <1>t DEF ThreadInv, At, Key
<1>1. ASSUME NEW t \in Threads, Run(t) PROVE BaseInv'
  <2>r. UNCHANGED <<conn, phase, queries>> /\ Key(t) \in StmtKeys
    BY <1>1, RunOfThread
  <2>p. PICK r \in ThreadRec :
          /\ th' = [th EXCEPT ![t] = r]
          /\ r.pc = "idle" \/ r.sql = th[t].sql
          /\ r.pc \in {"insert", "bind", "step", "reset"} => r.h \in Handles
          /\ r.pc = "prepare" => r.h = Null
    BY <1>1, RunOfThread
  <2>q. th' \in [Threads -> ThreadRec] /\ th'[t] = r /\ \A u \in Threads : u # t => th'[u] = th[u]
    BY <2>p, <1>t
  <2>i. \A u \in Threads : ThreadInv(u)'
    BY <2>r, <2>p, <2>q, <1>t DEF ThreadInv, At, Key
  <2>s. stmt_cache' \in [StmtKeys -> Handles \cup {Null}] /\ retry' \subseteq BootSql
    BY <1>1, <1>t DEF Run, Find, Prepare, Insert, Bind, Step, Reset, Finalize, At, Again,
                      ThreadInv, ThreadRec
  <2>m. stmt' \in [Handles -> StmtRec] /\ FreedInv'
    <3>1. CASE Step(t) \/ Reset(t)
      <4>1. PICK b \in BOOLEAN : stmt' = Mark(th[t].h, b)
        BY <3>1 DEF Step, Reset
      <4>2. th[t].h \in Handles
        BY <3>1, <1>t DEF Step, Reset, At, ThreadInv
      <4>3. /\ stmt' \in [Handles -> StmtRec]
            /\ \A g \in Handles : stmt'[g].conn = stmt[g].conn
            /\ \A g \in Handles : stmt[g] = Freed => stmt'[g] = Freed
        BY <4>1, <4>2, <1>t, MarkProperties
      <4> QED
        BY <4>3, <1>t, <1>f DEF FreedInv
    <3>2. CASE Prepare(t)
      <4>1. CASE UNCHANGED stmt
        BY <4>1, <1>t DEF FreedInv
      <4>2. ASSUME NEW h \in Handles, stmt' = [stmt EXCEPT ![h].conn = t]
            PROVE  stmt' \in [Handles -> StmtRec] /\ FreedInv'
        <5>1. stmt' = [stmt EXCEPT ![h] = [stmt[h] EXCEPT !.conn = t]]
          BY <4>2, <1>t
        <5>2. /\ [stmt[h] EXCEPT !.conn = t] \in StmtRec
              /\ [stmt[h] EXCEPT !.conn = t].conn = t
          BY <1>t DEF StmtRec
        <5>3. t # Null
          BY <1>n
        <5> QED
          BY <5>1, <5>2, <5>3, <1>t, <1>f DEF FreedInv
      <4> QED
        BY <3>2, <4>1, <4>2 DEF Prepare
    <3>3. CASE Finalize(t)
      <4>1. stmt' = stmt \/ stmt' = [stmt EXCEPT ![th[t].h] = Freed]
        BY <3>3 DEF Finalize
      <4> QED
        BY <4>1, <1>t, <1>f DEF FreedInv
    <3>4. CASE Find(t) \/ Insert(t) \/ Bind(t)
      BY <3>4, <1>t DEF Find, Insert, Bind, FreedInv
    <3> QED
      BY <1>1, <3>1, <3>2, <3>3, <3>4 DEF Run
  <2> QED
    BY <2>r, <2>q, <2>i, <2>s, <2>m, <1>o, <1>t
<1>2. ASSUME NEW s \in Servers, ServerBegin(s) PROVE BaseInv'
  <2>1. PICK sql \in ServerSql : Start(s, sql)
    BY <1>2 DEF ServerBegin
  <2>2. s \in Threads /\ KeyOf(s, sql) \in StmtKeys
    BY DEF Threads, StmtKeys, KeyOf
  <2>3. UNCHANGED <<stmt_cache, stmt, conn, phase, retry>> /\ queries' \in Nat
    BY <1>2, <1>t DEF ServerBegin
  <2> QED
    BY <2>1, <2>2, <2>3, <1>s, <1>t, <1>o DEF FreedInv
<1>3. CASE MainBegin \/ Boot
  <2>1. PICK sql \in MainSql : Start(Main, sql)
    BY <1>3, <1>t DEF MainBegin, Boot, MainSql, BootSql
  <2>2. Main \in Threads /\ KeyOf(Main, sql) \in StmtKeys
    BY DEF Threads, StmtKeys, KeyOf
  <2>3. UNCHANGED <<stmt_cache, stmt, conn>> /\ queries' \in Nat /\ phase' \in Phases
        /\ retry' \subseteq BootSql
    BY <1>3, <1>t DEF MainBegin, Boot, Phases
  <2> QED
    BY <2>1, <2>2, <2>3, <1>s, <1>t, <1>o DEF FreedInv
<1>4. CASE Stop \/ Exit
  BY <1>4, <1>t, <1>o DEF Stop, Exit, Phases, FreedInv, ThreadInv, At, Key
<1>5. CASE Cleanup
  <2>1. stmt' \in [Handles -> StmtRec] /\ FreedInv'
    BY <1>5, <1>t, <1>f DEF Cleanup, FreedInv
  <2> QED
    BY <1>5, <2>1, <1>t, <1>o DEF Cleanup, Phases, ThreadInv, At, Key
<1>6. ASSUME CloseMain \/ \E s \in Servers : CloseServer(s) PROVE BaseInv'
  <2>1. conn' \in [Threads -> {"open", "closed", "intact"}]
    BY <1>6, <1>t DEF CloseMain, CloseServer, Closed
  <2> QED
    BY <1>6, <2>1, <1>t, <1>o DEF CloseMain, CloseServer, FreedInv, ThreadInv, At, Key
<1>7. CASE UNCHANGED vars
  BY <1>7, <1>t, <1>o DEF vars, FreedInv, ThreadInv, At, Key
<1> QED
  BY <1>1, <1>2, <1>3, <1>4, <1>5, <1>6, <1>7 DEF Next, Shutdown

-----------------------------------------------------------------------------
\* The cache, and the hands of the threads, while the program runs.

\* The cache remembers no handle that was freed or that has become another
\* thread's, and no handle twice.
CachedIsLive ==
  \A k \in StmtKeys : stmt_cache[k] # Null => stmt[stmt_cache[k]].conn = k[1]
OneKey ==
  \A k, l \in StmtKeys : stmt_cache[k] = stmt_cache[l] /\ stmt_cache[k] # Null => k = l

\* What a thread has in its hands against what the cache has under its key.
HandInv(t) ==
  /\ th[t].pc \in {"bind", "step", "reset", "finalize"} => stmt_cache[Key(t)] = th[t].h
  /\ th[t].pc \in {"prepare", "insert"} => stmt_cache[Key(t)] = Null
  /\ th[t].pc = "insert" => stmt[th[t].h].conn = t /\ \A k \in StmtKeys : stmt_cache[k] # th[t].h

\* A stepped statement is in the hands of its thread, which will reset it.
SteppedInHand ==
  \A h \in Handles : stmt[h].stepped =>
    /\ stmt[h].conn \in Threads /\ th[stmt[h].conn].h = h
    /\ th[stmt[h].conn].pc \in {"step", "reset", "finalize"}

Found ==
  \A h \in Handles : stmt[h] # Freed =>
    (\E k \in StmtKeys : stmt_cache[k] = h) \/ Uses(stmt[h].conn, h)

CacheInv ==
  CachedIsLive /\ OneKey /\ SteppedInHand /\ Found /\ \A t \in Threads : HandInv(t)

\* The main connection is closed by an idle main thread that has no statement.
MainInv ==
  /\ phase \in {"cleanup", "close", "exited"} => At(Main, "idle")
  /\ phase \in {"close", "exited"} => \A h \in Handles : stmt[h].conn # Main
  /\ MainCloses

StmtInv == BaseInv /\ (Running => CacheInv) /\ MainInv

LEMMA KeyFacts ==
  ASSUME NEW t \in Threads, NEW u \in Threads, u # t
  PROVE  Key(t) # Key(u) /\ Key(t)[1] = t /\ \A k \in StmtKeys : k[1] \in Threads
<1>1. \A k \in StmtKeys : k[1] \in Threads
  BY DEF StmtKeys, Threads
<1> QED
  BY <1>1, KeysDiffer DEF Key

LEMMA StmtInit == Init => StmtInv
<1> SUFFICES ASSUME Init PROVE StmtInv
  OBVIOUS
<1>1. BaseInv
  BY BaseInit
<1>2. CacheInv
  <2>1. \A h \in Handles : ~ stmt[h].stepped /\ stmt[h] = Freed
    BY DEF Init, Freed
  <2>2. \A t \in Threads : th[t].pc = "idle"
    BY DEF Init, Idle
  <2> QED
    BY <2>1, <2>2 DEF Init, CacheInv, CachedIsLive, OneKey, SteppedInHand, Found, HandInv
<1>3. MainInv
  BY DEF Init, MainInv, MainCloses, At, Idle, Threads
<1> QED
  BY <1>1, <1>2, <1>3 DEF StmtInv

LEMMA CacheRun ==
  ASSUME BaseInv, BaseInv', CacheInv, NEW t \in Threads, Run(t)
  PROVE  CacheInv'
<1> DEFINE k == Key(t)
           h == th[t].h
<1>n. Null \notin Handles /\ Null \notin Threads
  BY HandleAssumption
<1>t. /\ stmt_cache \in [StmtKeys -> Handles \cup {Null}] /\ stmt \in [Handles -> StmtRec]
      /\ th \in [Threads -> ThreadRec]
      /\ FreedInv /\ \A u \in Threads : ThreadInv(u)
  BY DEF BaseInv, TypeOK, StmtRec, ThreadRec
<1>r. k \in StmtKeys
  BY RunOfThread
<1>p. PICK r \in ThreadRec : th' = [th EXCEPT ![t] = r]
  BY RunOfThread
<1>q. \A u \in Threads : u # t => th'[u] = th[u] /\ Key(u)' = Key(u) /\ Key(u) # k
  BY <1>p, <1>t, KeyFacts DEF Key
<1>k. k[1] = t /\ \A l \in StmtKeys : l[1] \in Threads /\ l[1] # Null
  BY <1>n, KeysDiffer DEF Key, StmtKeys, Threads
<1>s. th'[t].pc = "idle" \/ Key(t)' = k
  BY <1>t, RunOfThread DEF Key
<1>i. /\ CachedIsLive /\ OneKey /\ SteppedInHand /\ Found /\ \A u \in Threads : HandInv(u)
  BY DEF CacheInv
<1>c. \A l \in StmtKeys : stmt_cache[l] = Null \/ stmt_cache[l] \in Handles
  BY <1>t
<1>u. \A u \in Threads : /\ th[u].pc # "idle" => Key(u) \in StmtKeys
                         /\ th[u].pc \in {"insert", "bind", "step", "reset"} => th[u].h \in Handles
  BY <1>t DEF ThreadInv, At
<1>f. Freed.conn = Null /\ ~ Freed.stepped
  BY DEF Freed
<1>o. \A g \in Handles : stmt[g] # Freed => stmt[g].conn \in Threads
  BY <1>t DEF FreedInv, StmtRec
<1>g. ASSUME NEW p, Goto(t, p) PROVE th'[t].pc = p /\ th'[t].h = h
  <2>1. th'[t] = [th[t] EXCEPT !.pc = p]
    BY <1>g, <1>t DEF Goto
  <2> QED
    BY <2>1, <1>t DEF ThreadRec
<1>z. ASSUME Return(t) PROVE th'[t].pc = "idle"
  <2>1. th'[t] = Idle
    BY <1>z, <1>t DEF Return
  <2> QED
    BY <2>1, IdleFields
<1>w. ASSUME NEW g \in Handles, NEW u \in Threads, u # t, th[u].pc \in {"insert", "bind", "step", "reset", "finalize"},
             th[u].h = g, stmt[g].conn = t
      PROVE  FALSE
  <2>1. th[u].pc = "insert" => stmt[g].conn = u
    BY <1>w, <1>i DEF HandInv
  <2>2. th[u].pc # "insert" => stmt_cache[Key(u)] = g /\ Key(u) \in StmtKeys
    BY <1>w, <1>i, <1>u DEF HandInv
  <2>3. Key(u)[1] = u /\ g # Null
    BY <1>n, KeysDiffer DEF Key
  <2> QED
    BY <1>w, <2>1, <2>2, <2>3, <1>i DEF CachedIsLive
<1>1. CASE Find(t)
  <2>1. /\ th[t].pc = "find" /\ UNCHANGED <<stmt_cache, stmt>>
        /\ th'[t].h = stmt_cache[k]
        /\ th'[t].pc = IF stmt_cache[k] = Null THEN "prepare" ELSE "bind"
    BY <1>1, <1>t DEF Find, At, ThreadRec
  <2>2. CachedIsLive' /\ OneKey'
    BY <2>1, <1>i DEF CachedIsLive, OneKey
  <2>3. SteppedInHand' /\ Found'
    BY <2>1, <1>i, <1>q, <1>o DEF SteppedInHand, Found, Uses
  <2>4. \A u \in Threads : HandInv(u)'
    BY <2>1, <1>i, <1>q, <1>s DEF HandInv
  <2> QED
    BY <2>2, <2>3, <2>4 DEF CacheInv
<1>2. CASE Prepare(t)
  <2>1. th[t].pc = "prepare" /\ UNCHANGED stmt_cache
    BY <1>2 DEF Prepare, At
  <2>2. CASE UNCHANGED stmt
    <3>1. th'[t].pc = "idle" \/ (th'[t].pc = "finalize" /\ th'[t].h = Null)
      <4>1. ~ \E g \in Handles : stmt[g] = Freed /\ stmt' = [stmt EXCEPT ![g].conn = t]
        <5> SUFFICES ASSUME NEW g \in Handles, stmt[g] = Freed, stmt' = [stmt EXCEPT ![g].conn = t]
                     PROVE  FALSE
          OBVIOUS
        <5>1. stmt'[g].conn = t
          BY <1>t DEF StmtRec
        <5> QED
          BY <5>1, <2>2, <1>f, <1>n
      <4>2. Return(t) \/ Goto(t, "finalize")
        BY <1>2, <4>1 DEF Prepare
      <4>3. h = Null
        BY <2>1, <1>t DEF ThreadInv
      <4> QED
        BY <4>2, <4>3, <1>g, <1>z
    <3>2. CachedIsLive' /\ OneKey'
      BY <2>1, <2>2, <1>i DEF CachedIsLive, OneKey
    <3>3. SteppedInHand' /\ Found'
      BY <2>1, <2>2, <1>i, <1>q, <1>o DEF SteppedInHand, Found, Uses
    <3>4. \A u \in Threads : HandInv(u)'
      BY <2>1, <2>2, <3>1, <1>i, <1>q, <1>s DEF HandInv
    <3> QED
      BY <3>2, <3>3, <3>4 DEF CacheInv
  <2>3. ASSUME NEW g \in Handles, stmt[g] = Freed, stmt' = [stmt EXCEPT ![g].conn = t],
               th' = [th EXCEPT ![t].pc = "insert", ![t].h = g]
        PROVE  CacheInv'
    <3>1. /\ th'[t].pc = "insert" /\ th'[t].h = g
          /\ stmt'[g].conn = t /\ ~ stmt'[g].stepped /\ stmt[g].conn = Null
          /\ \A x \in Handles : x # g => stmt'[x] = stmt[x]
      <4>1. th'[t] = [th[t] EXCEPT !.pc = "insert", !.h = g]
        BY <2>3, <1>t
      <4>2. th'[t].pc = "insert" /\ th'[t].h = g
        BY <4>1, <1>t DEF ThreadRec
      <4>3. stmt'[g] = [stmt[g] EXCEPT !.conn = t] /\ \A x \in Handles : x # g => stmt'[x] = stmt[x]
        BY <2>3, <1>t
      <4>4. [Freed EXCEPT !.conn = t].conn = t /\ ~ [Freed EXCEPT !.conn = t].stepped
        BY DEF Freed
      <4> QED
        BY <4>2, <4>3, <4>4, <2>3, <1>f
    <3>2. \A l \in StmtKeys : stmt_cache[l] # g
      BY <3>1, <1>i, <1>k, <1>n DEF CachedIsLive
    <3>3. CachedIsLive' /\ OneKey'
      BY <2>1, <3>1, <3>2, <1>c, <1>i DEF CachedIsLive, OneKey
    <3>4. SteppedInHand'
      BY <2>1, <3>1, <1>i, <1>q DEF SteppedInHand
    <3>5. Found'
      BY <2>1, <3>1, <1>i, <1>q, <1>o DEF Found, Uses
    <3>6. \A u \in Threads : HandInv(u)'
      <4>1. \A u \in Threads : u # t /\ th[u].pc = "insert" => th[u].h # g
        BY <3>1, <1>i, <1>n DEF HandInv
      <4> QED
        BY <2>1, <3>1, <3>2, <4>1, <1>u, <1>i, <1>q, <1>s DEF HandInv
    <3> QED
      BY <3>3, <3>4, <3>5, <3>6 DEF CacheInv
  <2> QED
    BY <1>2, <2>2, <2>3 DEF Prepare
<1>3. CASE Insert(t)
  <2>1. /\ th[t].pc = "insert" /\ UNCHANGED stmt /\ h \in Handles
        /\ stmt_cache' = [stmt_cache EXCEPT ![k] = h]
        /\ th'[t].pc = "bind" /\ th'[t].h = h
    BY <1>3, <1>t, <1>u DEF Insert, Goto, At, ThreadRec
  <2>2. stmt_cache'[k] = h /\ \A l \in StmtKeys : l # k => stmt_cache'[l] = stmt_cache[l]
    BY <2>1, <1>t, <1>r
  <2>3. stmt_cache[k] = Null /\ stmt[h].conn = t /\ \A l \in StmtKeys : stmt_cache[l] # h
    BY <2>1, <1>i DEF HandInv
  <2>4. CachedIsLive' /\ OneKey'
    BY <2>1, <2>2, <2>3, <1>i, <1>k, <1>c DEF CachedIsLive, OneKey
  <2>5. SteppedInHand'
    BY <2>1, <1>i, <1>q DEF SteppedInHand
  <2>6. Found'
    BY <2>1, <2>2, <2>3, <1>i, <1>q, <1>o, <1>r, <1>n DEF Found, Uses
  <2>7. \A u \in Threads : HandInv(u)'
    <3>1. ASSUME NEW u \in Threads, u # t PROVE HandInv(u)'
      <4>1. th[u].pc # "idle" => stmt_cache'[Key(u)] = stmt_cache[Key(u)]
        BY <3>1, <2>2, <1>u, <1>q
      <4>2. th[u].pc = "insert" => th[u].h # h
        BY <3>1, <2>1, <2>3, <1>w
      <4> QED
        BY <3>1, <2>1, <2>2, <4>1, <4>2, <1>i, <1>q DEF HandInv
    <3>2. HandInv(t)'
      BY <2>1, <2>2, <1>s DEF HandInv
    <3> QED
      BY <3>1, <3>2
  <2> QED
    BY <2>4, <2>5, <2>6, <2>7 DEF CacheInv
<1>4. CASE Bind(t)
  <2>1. /\ th[t].pc = "bind" /\ UNCHANGED <<stmt_cache, stmt>>
        /\ th'[t].h = h /\ th'[t].pc \in {"step", "finalize"}
    <3>1. th[t].pc = "bind" /\ UNCHANGED <<stmt_cache, stmt>>
      BY <1>4 DEF Bind, At
    <3>2. ASSUME NEW c, th' = [th EXCEPT ![t].pc = "step", ![t].code = c]
          PROVE  th'[t].h = h /\ th'[t].pc = "step"
      <4>1. th'[t] = [th[t] EXCEPT !.pc = "step", !.code = c]
        BY <3>2, <1>t
      <4> QED
        BY <4>1, <1>t DEF ThreadRec
    <3>3. Goto(t, "finalize") \/ \E c : th' = [th EXCEPT ![t].pc = "step", ![t].code = c]
      BY <1>4 DEF Bind
    <3> QED
      BY <3>1, <3>2, <3>3, <1>g
  <2>2. CachedIsLive' /\ OneKey'
    BY <2>1, <1>i DEF CachedIsLive, OneKey
  <2>3. SteppedInHand' /\ Found'
    BY <2>1, <1>i, <1>q, <1>o DEF SteppedInHand, Found, Uses
  <2>4. \A u \in Threads : HandInv(u)'
    BY <2>1, <1>i, <1>q, <1>s DEF HandInv
  <2> QED
    BY <2>2, <2>3, <2>4 DEF CacheInv
<1>5. CASE Step(t) \/ Reset(t)
  <2>1. /\ th[t].pc \in {"step", "reset"} /\ UNCHANGED stmt_cache /\ h \in Handles
        /\ \/ th'[t].pc \in {"step", "finalize", "reset"} /\ th'[t].h = h /\ th[t].pc = "step"
           \/ th'[t].pc = "idle" /\ th[t].pc = "reset"
    <3>1. CASE Step(t)
      <4>1. th[t].pc = "step" /\ UNCHANGED stmt_cache
        BY <3>1 DEF Step, At
      <4>2. Goto(t, "step") \/ Goto(t, "finalize") \/ Goto(t, "reset")
        BY <3>1 DEF Step
      <4> QED
        BY <4>1, <4>2, <1>g, <1>u
    <3>2. CASE Reset(t)
      BY <3>2, <1>z, <1>u DEF Reset, At
    <3> QED
      BY <1>5, <3>1, <3>2
  <2>2. PICK b \in BOOLEAN : stmt' = Mark(h, b) /\ (b => th[t].pc = "step")
    BY <1>5 DEF Step, Reset, At
  <2>3. /\ \A g \in Handles : stmt'[g].conn = stmt[g].conn
        /\ \A g \in Handles : g # h => stmt'[g] = stmt[g]
        /\ stmt'[h].stepped => b
        /\ \A g \in Handles : stmt[g] = Freed => stmt'[g] = Freed
    BY <2>1, <2>2, <1>t, MarkProperties
  <2>4. stmt_cache[k] = h /\ stmt[h].conn = t
    BY <2>1, <1>i, <1>r, <1>n, <1>k DEF HandInv, CachedIsLive
  <2>5. CachedIsLive' /\ OneKey'
    BY <2>1, <2>3, <1>c, <1>i DEF CachedIsLive, OneKey
  <2>6. SteppedInHand'
    BY <2>1, <2>2, <2>3, <2>4, <1>i, <1>q DEF SteppedInHand
  <2>7. Found'
    BY <2>1, <2>3, <2>4, <1>i, <1>q, <1>o, <1>r DEF Found, Uses
  <2>8. \A u \in Threads : HandInv(u)'
    BY <2>1, <2>3, <2>4, <1>u, <1>i, <1>q, <1>s DEF HandInv
  <2> QED
    BY <2>5, <2>6, <2>7, <2>8 DEF CacheInv
<1>6. CASE Finalize(t)
  <2>1. /\ th[t].pc = "finalize" /\ th'[t].pc = "idle"
        /\ stmt_cache' = [stmt_cache EXCEPT ![k] = Null]
        /\ stmt' = IF h = Null THEN stmt ELSE [stmt EXCEPT ![h] = Freed]
    BY <1>6, <1>t DEF Finalize, Return, Idle, At
  <2>2. stmt_cache'[k] = Null /\ \A l \in StmtKeys : l # k => stmt_cache'[l] = stmt_cache[l]
    BY <2>1, <1>t, <1>r
  <2>3. stmt_cache[k] = h /\ (h # Null => h \in Handles /\ stmt[h].conn = t)
    BY <2>1, <1>i, <1>r, <1>k, <1>c DEF HandInv, CachedIsLive
  <2>4. \A g \in Handles : IF g = h THEN stmt'[g] = Freed ELSE stmt'[g] = stmt[g]
    BY <2>1, <1>t, <1>n
  <2>5. \A l \in StmtKeys : l # k /\ stmt_cache[l] # Null => stmt_cache[l] # h
    BY <2>3, <1>i, <1>r DEF OneKey
  <2>6. CachedIsLive' /\ OneKey'
    BY <2>2, <2>4, <2>5, <1>i, <1>c DEF CachedIsLive, OneKey
  <2>7. SteppedInHand'
    BY <2>1, <2>4, <1>i, <1>q, <1>f DEF SteppedInHand
  <2>8. Found'
    BY <2>1, <2>2, <2>3, <2>4, <1>i, <1>q, <1>o, <1>r DEF Found, Uses
  <2>9. \A u \in Threads : HandInv(u)'
    <3>1. ASSUME NEW u \in Threads, u # t PROVE HandInv(u)'
      <4>1. th[u].pc # "idle" => stmt_cache'[Key(u)] = stmt_cache[Key(u)]
        BY <3>1, <2>2, <1>u, <1>q
      <4>2. th[u].pc = "insert" => th[u].h # h
        BY <3>1, <2>3, <1>n, <1>u, <1>w
      <4>3. th[u].pc = "insert" => stmt'[th[u].h] = stmt[th[u].h]
        BY <3>1, <2>4, <4>2, <1>u
      <4>4. th[u].pc = "insert" => \A l \in StmtKeys : stmt_cache'[l] # th[u].h
        BY <3>1, <2>2, <1>u, <1>n, <1>i DEF HandInv
      <4> QED
        BY <3>1, <4>1, <4>3, <4>4, <1>i, <1>q DEF HandInv
    <3>2. HandInv(t)'
      BY <2>1 DEF HandInv
    <3> QED
      BY <3>1, <3>2
  <2> QED
    BY <2>6, <2>7, <2>8, <2>9 DEF CacheInv
<1> QED
  BY <1>1, <1>2, <1>3, <1>4, <1>5, <1>6 DEF Run

LEMMA StmtStep == StmtInv /\ [Next]_vars => StmtInv'
<1> SUFFICES ASSUME StmtInv, [Next]_vars PROVE StmtInv'
  OBVIOUS
<1>b. BaseInv /\ BaseInv'
  BY BaseStep DEF StmtInv
<1>n. Main \notin Servers /\ Main \in Threads /\ Main # Null /\ Null \notin Handles
  BY ThreadAssumption, HandleAssumption DEF Threads
<1>t. /\ stmt_cache \in [StmtKeys -> Handles \cup {Null}] /\ stmt \in [Handles -> StmtRec]
      /\ th \in [Threads -> ThreadRec] /\ conn \in [Threads -> {"open", "closed", "intact"}]
      /\ phase \in Phases /\ FreedInv
  BY <1>b DEF BaseInv, TypeOK, StmtRec, ThreadRec
<1>m. MainInv /\ (Running => CacheInv)
  BY DEF StmtInv
<1>f. Freed.conn = Null
  BY DEF Freed
<1>s. ASSUME NEW t \in Threads, NEW sql, At(t, "idle"), Start(t, sql), UNCHANGED <<stmt_cache, stmt>>,
             CacheInv
      PROVE  CacheInv'
  <2>1. th'[t].pc = "find" /\ \A u \in Threads : u # t => th'[u] = th[u] /\ Key(u)' = Key(u)
    <3>1. th'[t] = [Idle EXCEPT !.pc = "find", !.sql = sql] /\ \A u \in Threads : u # t => th'[u] = th[u]
      BY <1>s, <1>t DEF Start
    <3>2. th'[t].pc = "find"
      BY <3>1 DEF Idle
    <3> QED
      BY <3>1, <3>2 DEF Key
  <2>2. \A g \in Handles : stmt[g] # Freed => stmt[g].conn \in Threads
    BY <1>t DEF FreedInv, StmtRec
  <2>3. CachedIsLive' /\ OneKey'
    BY <1>s DEF CacheInv, CachedIsLive, OneKey
  <2>4. SteppedInHand' /\ Found'
    BY <1>s, <2>1, <2>2 DEF CacheInv, SteppedInHand, Found, Uses, At
  <2>5. \A u \in Threads : HandInv(u)'
    BY <1>s, <2>1 DEF CacheInv, HandInv, At
  <2> QED
    BY <2>3, <2>4, <2>5 DEF CacheInv
<1>u. ASSUME UNCHANGED <<stmt_cache, stmt, th>>, CacheInv PROVE CacheInv'
  BY <1>u DEF CacheInv, CachedIsLive, OneKey, SteppedInHand, Found, HandInv, Uses, Key
<1>1. ASSUME NEW t \in Threads, Run(t) PROVE StmtInv'
  <2>1. UNCHANGED <<conn, phase>>
    BY <1>1, <1>b, RunOfThread
  <2>2. Running' => CacheInv'
    BY <1>1, <1>b, <1>m, <2>1, CacheRun DEF Running
  <2>3. t = Main => ~ At(Main, "idle")
    BY <1>1 DEF Run, Find, Prepare, Insert, Bind, Step, Reset, Finalize, At
  <2>4. phase \in {"cleanup", "close", "exited"} => t # Main /\ th'[Main] = th[Main]
    <3>1. \E r \in ThreadRec : th' = [th EXCEPT ![t] = r]
      BY <1>1, <1>b, RunOfThread
    <3> QED
      BY <3>1, <2>3, <1>m, <1>t, <1>n DEF MainInv
  <2>5. ASSUME t # Main, \A h \in Handles : stmt[h].conn # Main
        PROVE  \A h \in Handles : stmt'[h].conn # Main
    <3>1. CASE Find(t) \/ Insert(t) \/ Bind(t)
      BY <3>1, <2>5 DEF Find, Insert, Bind
    <3>2. CASE Prepare(t)
      <4>1. CASE UNCHANGED stmt
        BY <4>1, <2>5
      <4>2. ASSUME NEW h \in Handles, stmt' = [stmt EXCEPT ![h].conn = t]
            PROVE  \A g \in Handles : stmt'[g].conn # Main
        <5>1. stmt'[h].conn = t /\ \A g \in Handles : g # h => stmt'[g] = stmt[g]
          BY <4>2, <1>t DEF StmtRec
        <5> QED
          BY <5>1, <2>5
      <4> QED
        BY <3>2, <4>1, <4>2 DEF Prepare
    <3>3. CASE Step(t) \/ Reset(t)
      <4>1. PICK b \in BOOLEAN : stmt' = Mark(th[t].h, b)
        BY <3>3 DEF Step, Reset
      <4>2. th[t].h \in Handles
        BY <3>3, <1>b DEF Step, Reset, At, BaseInv, ThreadInv
      <4> QED
        BY <4>1, <4>2, <1>t, <2>5, MarkProperties
    <3>4. CASE Finalize(t)
      <4>1. stmt' = stmt \/ stmt' = [stmt EXCEPT ![th[t].h] = Freed]
        BY <3>4 DEF Finalize
      <4> QED
        BY <4>1, <1>t, <1>f, <1>n, <2>5
    <3> QED
      BY <1>1, <3>1, <3>2, <3>3, <3>4 DEF Run
  <2>6. MainInv'
    BY <2>1, <2>4, <2>5, <1>m DEF MainInv, MainCloses, At
  <2> QED
    BY <1>b, <2>2, <2>6 DEF StmtInv
<1>2. ASSUME NEW s \in Servers, ServerBegin(s) PROVE StmtInv'
  <2>1. PICK sql \in ServerSql : Start(s, sql)
    BY <1>2 DEF ServerBegin
  <2>2. At(s, "idle") /\ UNCHANGED <<stmt_cache, stmt, conn, phase>> /\ s \in Threads /\ s # Main
    BY <1>2, <1>n DEF ServerBegin, Threads
  <2>3. Running' => CacheInv'
    BY <2>1, <2>2, <1>s, <1>m DEF Running
  <2>4. th'[Main] = th[Main]
    BY <2>1, <2>2, <1>t, <1>n DEF Start
  <2>5. MainInv'
    BY <2>2, <2>4, <1>m DEF MainInv, MainCloses, At
  <2> QED
    BY <1>b, <2>3, <2>5 DEF StmtInv
<1>3. CASE MainBegin \/ Boot
  <2>1. PICK sql : Start(Main, sql)
    BY <1>3 DEF MainBegin, Boot
  <2>2. /\ At(Main, "idle") /\ UNCHANGED <<stmt_cache, stmt, conn>>
        /\ phase' \in {"delete_expires", "loop"} /\ Running
    BY <1>3 DEF MainBegin, Boot, Running
  <2>3. Running' => CacheInv'
    BY <2>1, <2>2, <1>n, <1>s, <1>m
  <2>4. MainInv'
    BY <2>2, <1>m DEF MainInv, MainCloses
  <2> QED
    BY <1>b, <2>3, <2>4 DEF StmtInv
<1>4. CASE Stop
  <2>1. /\ UNCHANGED <<stmt_cache, stmt, th, conn>> /\ At(Main, "idle") /\ Running /\ phase' = "cleanup"
    BY <1>4 DEF Stop, Running
  <2>2. CacheInv' /\ MainInv'
    BY <2>1, <1>u, <1>m DEF MainInv, MainCloses, At
  <2> QED
    BY <1>b, <2>2 DEF StmtInv
<1>5. CASE Cleanup
  <2>1. /\ phase = "cleanup" /\ phase' = "close" /\ UNCHANGED <<th, conn>> /\ CacheInv /\ At(Main, "idle")
    BY <1>5, <1>m DEF Cleanup, Running, MainInv
  <2>2. \A h \in Handles : stmt[h].conn = Main => \E k \in StmtKeys : stmt_cache[k] = h
    BY <2>1, <1>n, <1>f DEF CacheInv, Found, Uses, At
  <2>3. \A h \in Handles : stmt'[h] = Freed \/ (stmt'[h] = stmt[h] /\ \A k \in StmtKeys : stmt_cache[k] # h)
    BY <1>5 DEF Cleanup
  <2>4. \A h \in Handles : stmt'[h].conn # Main
    BY <2>2, <2>3, <1>f, <1>n
  <2>5. MainInv'
    BY <2>1, <2>4, <1>m DEF MainInv, MainCloses, At
  <2> QED
    BY <1>b, <2>1, <2>5 DEF StmtInv, Running
<1>6. ASSUME CloseMain \/ \E s \in Servers : CloseServer(s) PROVE StmtInv'
  <2>1. phase = "close" /\ UNCHANGED <<stmt_cache, stmt, th, phase>>
    BY <1>6 DEF CloseMain, CloseServer
  <2>2. conn'[Main] # "intact"
    BY <1>6, <2>1, <1>t, <1>n, <1>m DEF CloseMain, CloseServer, Closed, MainInv, MainCloses
  <2>3. MainInv'
    BY <2>1, <2>2, <1>m DEF MainInv, MainCloses, At
  <2> QED
    BY <1>b, <2>1, <2>3 DEF StmtInv, Running
<1>7. CASE Exit
  BY <1>7, <1>b, <1>m DEF Exit, StmtInv, Running, MainInv, MainCloses, At
<1>8. CASE UNCHANGED vars
  BY <1>8, <1>b, <1>m, <1>u DEF vars, StmtInv, Running, MainInv, MainCloses, At
<1> QED
  BY <1>1, <1>2, <1>3, <1>4, <1>5, <1>6, <1>7, <1>8 DEF Next, Shutdown

LEMMA StmtInvariant == Spec => []StmtInv
<1>1. Init => StmtInv
  BY StmtInit
<1>2. StmtInv /\ [Next]_vars => StmtInv'
  BY StmtStep
<1> QED
  BY <1>1, <1>2, PTL DEF Spec

\* The cache, the statements and the threads stay well typed.
THEOREM StatementsTypeCorrect == Spec => []TypeOK
<1>1. StmtInv => TypeOK
  BY DEF StmtInv, BaseInv
<1> QED
  BY <1>1, StmtInvariant, PTL

\* However the threads interleave between the two locks of prepare_statement
\* and SQLite, none is left with a freed statement or another one's.
THEOREM StatementsAreOwn == Spec => []OwnLiveStatement
<1>1. StmtInv => OwnLiveStatement
  <2> SUFFICES ASSUME StmtInv, Running, NEW t \in Threads, NEW h \in Handles, Uses(t, h)
               PROVE  stmt[h].conn = t
    BY DEF OwnLiveStatement
  <2>1. HandInv(t) /\ CachedIsLive /\ ThreadInv(t) /\ h # Null /\ Key(t)[1] = t
    BY HandleAssumption, KeysDiffer DEF StmtInv, CacheInv, BaseInv, Key
  <2> QED
    BY <2>1 DEF HandInv, CachedIsLive, ThreadInv, Uses, At
<1> QED
  BY <1>1, StmtInvariant, PTL

\* A statement that lives is in the cache, or its thread has it in hand.
THEOREM StatementsAreFound == Spec => []NoStatementLost
<1>1. StmtInv => NoStatementLost
  BY DEF StmtInv, CacheInv, Found, NoStatementLost
<1> QED
  BY <1>1, StmtInvariant, PTL

\* No thread goes idle with a statement of its own stepped: no SHARED lock
\* outlives a query.
THEOREM IdleThreadsHoldNoLock == Spec => []IdleHoldsNoLock
<1>1. StmtInv => IdleHoldsNoLock
  BY DEF StmtInv, CacheInv, SteppedInHand, IdleHoldsNoLock, At
<1> QED
  BY <1>1, StmtInvariant, PTL

\* The main connection is closed, never left intact, whatever the servers do
\* meanwhile.
THEOREM MainConnectionCloses == Spec => []MainCloses
<1>1. StmtInv => MainCloses
  BY DEF StmtInv, MainInv
<1> QED
  BY <1>1, StmtInvariant, PTL

=============================================================================
