--------------------------- MODULE CacheMeProofs ---------------------------
(***************************************************************************)
(* Proofs about CacheMe for every number of servers, every set of keys and *)
(* values, every clock and any number of requests, crashes and errors.             *)
(***************************************************************************)
EXTENDS CacheMe, WriteQueueProofs

-----------------------------------------------------------------------------
\* Types of the pieces.

LEMMA BlankType == Blank \in Data
  BY TsModAssumption DEF Data, Blank

LEMMA StoredType == \A d \in Data : Stored(d) \in Data /\ ExpiresAt(d) \in Nat
  BY TsModAssumption DEF Data, Stored, ExpiresAt

LEMMA FilledType == \A d \in Data : Filled(d) \in Data
  BY TsModAssumption DEF Data, Filled, MarkCached, IsEmpty

\* A record read back may have lost text, never its deadline.
LEMMA AsReadType ==
  \A d \in Data : AsRead(d) \in Data /\ AsRead(d).expires_at = d.expires_at
  BY TsModAssumption, CTextAssumption DEF Data, AsRead

\* A deadline always fits: the sum wraps.
LEMMA DeadlineType ==
  ASSUME NEW v \in Values, NEW base \in Nat, NEW ttl \in TTLs
  PROVE  [value |-> v, expires_at |-> Deadline(base, ttl)] \in Data
<1>1. ttl \in Nat
  BY TimeAssumption, TsModAssumption
<1>2. Deadline(base, ttl) \in 0 .. TsMod - 1
  BY <1>1, TsModAssumption DEF Deadline
<1> QED
  BY <1>2 DEF Data

LEMMA QueryTypes ==
  /\ BootQuery("init_db") \in Query /\ BootQuery("delete_expires") \in Query
  /\ \A k \in Keys, d \in Data : SetQuery(k, d) \in Query
  /\ \A k \in Keys, at \in Nat : DelQuery(k, at) \in Query
  BY BlankType, StoredType DEF BootQuery, SetQuery, DelQuery, Query, Ids, Id

LEMMA BootQueueType == BootQueue \in Seq(Query) /\ UniqueIds(BootQueue)
  BY QueryTypes DEF BootQueue, UniqueIds, BootQuery, Id

LEMMA IdleTypes ==
  /\ NoRows \in [Keys -> Data] /\ NotLoaded \in [rows : [Keys -> Data], loaded : BOOLEAN]
  /\ IdleServer \in Request
  /\ IdleMain \in [pc : MainPcs, q : Query, cts : Nat]
  BY BlankType, QueryTypes
  DEF NoRows, NotLoaded, IdleServer, IdleMain, Request, ServerPcs, AllOps, MainPcs

-----------------------------------------------------------------------------
\* Every state is well typed and no id is queued twice.  Enqueue keeps ids
\* unique only when they were, so the two are one inductive invariant.
TypeInv == TypeOK /\ QueueIdsUnique

LEMMA TypeInit == Init => TypeInv
<1> SUFFICES ASSUME Init PROVE TypeInv
  OBVIOUS
<1>1. db \in [Keys -> Data] /\ table \in BOOLEAN
  BY OldDbAssumption DEF Init
<1>2. \A k \in Keys : FateOf(db[k]) \in {"live", "gone", "either"}
  BY DEF FateOf
<1> QED
  BY <1>1, <1>2, IdleTypes, BootQueueType, TimeAssumption
  DEF Init, TypeInv, TypeOK, QueueIdsUnique, IdleServer, Keyless, IdleMain

\* How each helper moves a server, as far as types go.
SvTyped ==
  /\ sv \in [Servers -> Request]
  /\ \A s \in Servers : sv[s].pc \notin Keyless => sv[s].key \in Keys

LEMMA ReplyTyped == ASSUME SvTyped, NEW s \in Servers, Reply(s) PROVE SvTyped'
<1>1. IdleServer.pc \in Keyless
  BY DEF IdleServer, Keyless
<1> QED
  BY <1>1, IdleTypes DEF SvTyped, Reply

LEMMA GotoTyped ==
  ASSUME SvTyped, NEW s \in Servers, NEW pc \in ServerPcs, Goto(s, pc),
         pc \notin Keyless => sv[s].pc \notin Keyless
  PROVE  SvTyped'
<1>1. [sv[s] EXCEPT !.pc = pc] \in Request
  BY DEF SvTyped, Request
<1>2. [sv[s] EXCEPT !.pc = pc].pc = pc /\ [sv[s] EXCEPT !.pc = pc].key = sv[s].key
  BY DEF SvTyped, Request
<1> QED
  BY <1>1, <1>2 DEF SvTyped, Goto

LEMMA FoundTyped ==
  ASSUME SvTyped, NEW s \in Servers, NEW pc \in ServerPcs, NEW d \in Data,
         Found(s, pc, d), sv[s].pc \notin Keyless
  PROVE  SvTyped'
<1> DEFINE r == [sv[s] EXCEPT !.pc = pc, !.got = d]
<1>1. r \in Request /\ r.key = sv[s].key /\ sv' = [sv EXCEPT ![s] = r]
  BY DEF SvTyped, Request, Found
<1> QED
  BY <1>1 DEF SvTyped

LEMMA FoundAllTyped ==
  ASSUME SvTyped, NEW s \in Servers, NEW pc \in ServerPcs, NEW rows \in [Keys -> Data],
         FoundAll(s, pc, rows), pc \in Keyless
  PROVE  SvTyped'
<1> DEFINE r == [sv[s] EXCEPT !.pc = pc, !.rows = rows]
<1>1. r \in Request /\ r.pc = pc /\ sv' = [sv EXCEPT ![s] = r]
  BY DEF SvTyped, Request, FoundAll
<1> QED
  BY <1>1 DEF SvTyped

LEMMA AcceptTyped ==
  ASSUME SvTyped, NEW s \in Servers, NEW op \in AllOps, NEW pc \in ServerPcs,
         NEW k \in Keys \cup {NoKey}, NEW d \in Data,
         Accept(s, op, pc, k, d), pc \notin Keyless => k \in Keys
  PROVE  SvTyped'
<1> DEFINE r == [IdleServer EXCEPT !.pc = pc, !.op = op, !.key = k, !.data = d]
<1>1. r \in Request /\ r.pc = pc /\ r.key = k
  BY IdleTypes DEF Request
<1>2. sv' = [sv EXCEPT ![s] = r]
  BY DEF Accept
<1> QED
  BY <1>1, <1>2 DEF SvTyped

LEMMA AnswerTyped ==
  ASSUME SvTyped, NEW s \in Servers, NEW d, Answer(s, d), sv[s].pc \notin Keyless
  PROVE  SvTyped'
  BY ReplyTyped, GotoTyped DEF Answer, ServerPcs

LEMMA TypeStep == TypeInv /\ [Next]_vars => TypeInv'
<1> SUFFICES ASSUME TypeInv, [Next]_vars PROVE TypeInv'
  OBVIOUS
<1> USE DEF TypeInv, TypeOK, QueueIdsUnique, memVars, dbVars, boundVars, history
<1>0. SvTyped
  BY DEF SvTyped
<1>1. ASSUME NEW s \in Servers, Receive(s) PROVE TypeInv'
  <2>1. ASSUME NEW op \in AllOps, NEW pc \in ServerPcs, NEW k \in Keys \cup {NoKey},
               NEW d \in Data, Accept(s, op, pc, k, d), pc \notin Keyless => k \in Keys
        PROVE  TypeInv'
    <3>1. SvTyped'
      BY <1>0, <2>1, AcceptTyped
    <3>2. magic' \subseteq (Keys \cup {NoKey}) \X (Values \cup {NoValue})
      <4>1. <<k, d.value>> \in (Keys \cup {NoKey}) \X (Values \cup {NoValue})
        BY <2>1 DEF Data
      <4>2. magic' = magic \/ magic' = magic \cup {<<k, d.value>>}
        BY <2>1 DEF Accept
      <4> QED BY <4>1, <4>2
    <3> QED
      BY <2>1, <3>1, <3>2 DEF Accept, SvTyped
  <2>2. CASE ReceiveGet(s)
    BY <2>1, <2>2, BlankType DEF ReceiveGet, AllOps, ServerPcs
  <2>3. CASE ReceiveGetAll(s)
    BY <2>1, <2>3, BlankType DEF ReceiveGetAll, AllOps, ServerPcs, Keyless
  <2>4. CASE ReceivePost(s)
    <3>1. PICK k \in Keys, d \in Data, op \in {"post", "get_or_set"}, pc \in {"put", "get"} :
            Accept(s, op, pc, k, d)
      <4>1. PICK k \in Keys, v \in Values, ttl \in TTLs :
              LET d == [value |-> v, expires_at |-> Deadline(now, ttl)]
              IN  Accept(s, "post", "put", k, d) \/ Accept(s, "get_or_set", "get", k, d)
        BY <2>4 DEF ReceivePost
      <4>2. [value |-> v, expires_at |-> Deadline(now, ttl)] \in Data
        BY DeadlineType
      <4> HIDE DEF TypeInv, TypeOK
      <4> QED
        BY <4>1, <4>2
    <3>2. op \in AllOps /\ pc \in ServerPcs /\ k \in Keys \cup {NoKey}
      BY DEF AllOps, ServerPcs
    <3> QED
      BY <2>1, <3>1, <3>2
  <2>5. CASE ReceiveDelete(s)
    BY <2>1, <2>5, BlankType DEF ReceiveDelete, AllOps, ServerPcs
  <2> QED
    BY <1>1, <2>2, <2>3, <2>4, <2>5 DEF Receive
<1>2. ASSUME NEW s \in Servers, Handle(s) PROVE TypeInv'
  <2>a. sv[s] \in Request /\ (sv[s].pc \notin Keyless => sv[s].key \in Keys)
    OBVIOUS
  <2> DEFINE k == sv[s].key
  <2>1. CASE LookUp(s)
    <3>1. SvTyped'
      BY <1>0, <2>1, AnswerTyped, GotoTyped DEF LookUp, At, ServerPcs, Keyless
    <3> QED
      BY <2>1, <3>1 DEF LookUp, SvTyped
  <2>2. CASE Read(s)
    <3>1. SvTyped'
      <4>1. sv[s].key \in Keys /\ AsRead(db[sv[s].key]) \in Data
        BY <2>2, <2>a, AsReadType DEF Read, At, Keyless
      <4> QED
        BY <1>0, <2>2, <2>a, <4>1, BlankType, FoundTyped DEF Read, At, ServerPcs, Keyless
    <3> QED
      BY <2>2, <3>1 DEF Read, SvTyped
  <2>3. CASE Reset(s)
    <3>1. SvTyped'
      BY <1>0, <2>3, GotoTyped DEF Reset, At, ServerPcs, Keyless
    <3> QED
      BY <2>3, <3>1 DEF Reset, SvTyped
  <2>4. CASE Schedule(s)
    <3>1. /\ k \in Keys /\ DelQuery(k, ExpiresAt(sv[s].got)) \in Query
      BY <2>4, <2>a, QueryTypes, StoredType DEF Schedule, At, Request, Keyless
    <3>2. wq' \in Seq(Query) /\ UniqueIds(wq')
      BY <2>4, <3>1, EnqueueProperties DEF Schedule
    <3>3. SvTyped'
      BY <1>0, <2>4, GotoTyped DEF Schedule, At, ServerPcs, Keyless
    <3> QED
      BY <2>4, <3>2, <3>3 DEF Schedule, SvTyped
  <2>5. CASE Check(s)
    BY <2>5, <2>a, BlankType DEF Check, Found, At, Request, ServerPcs, Keyless
  <2>6. CASE Fill(s)
    <3>1. k \in Keys /\ Filled(sv[s].got) \in Data
      BY <2>6, <2>a, FilledType DEF Fill, At, Request, Keyless
    <3>2. SvTyped'
      BY <1>0, <2>6, AnswerTyped DEF Fill, At, Keyless
    <3> QED
      BY <2>6, <3>1, <3>2, IdleTypes DEF Fill, CacheSet, SvTyped
  <2>7. CASE Put(s)
    BY <2>7, <2>a, IdleTypes DEF Put, CacheSet, Goto, At, Request, ServerPcs, Keyless
  <2>8. CASE EnqSet(s)
    <3>1. /\ k \in Keys /\ sv[s].data \in Data /\ Stored(sv[s].data) \in Data
          /\ SetQuery(k, sv[s].data) \in Query
      BY <2>8, <2>a, QueryTypes, StoredType DEF EnqSet, At, Request, Keyless
    <3>2. wq' \in Seq(Query) /\ UniqueIds(wq')
      BY <2>8, <3>1, EnqueueProperties DEF EnqSet
    <3>3. fate' \in [Keys -> {"live", "gone", "either"}]
      BY <2>8 DEF EnqSet, FateOf
    <3>4. SvTyped'
      BY <1>0, <2>8, GotoTyped DEF EnqSet, At, ServerPcs, Keyless
    <3> QED
      BY <2>8, <3>1, <3>2, <3>3, <3>4 DEF EnqSet, SvTyped
  <2>9. CASE EnqDel(s)
    <3>1. /\ k \in Keys /\ DelQuery(k, ExpiresAt(sv[s].data)) \in Query
      BY <2>9, <2>a, QueryTypes, StoredType DEF EnqDel, At, Request, Keyless
    <3>2. wq' \in Seq(Query) /\ UniqueIds(wq')
      <4>0. wq \in Seq(Query) /\ UniqueIds(wq)
        BY DEF TypeInv, TypeOK, QueueIdsUnique
      <4>1. CASE wq' = RemoveQuery(wq, Id("del", k))
        BY <4>0, <4>1, RemoveQueryProperties
      <4>2. CASE wq' = Enqueue(wq, DelQuery(k, ExpiresAt(sv[s].data)))
        BY <3>1, <4>0, <4>2, EnqueueProperties
      <4> QED
        BY <2>9, <4>1, <4>2 DEF EnqDel
    <3>3. fate' \in [Keys -> {"live", "gone", "either"}]
      BY <2>9 DEF EnqDel
    <3>4. SvTyped'
      BY <1>0, <2>9, ReplyTyped DEF EnqDel
    <3> QED
      BY <2>9, <3>2, <3>3, <3>4 DEF EnqDel, SvTyped
  <2>10. CASE Evict(s)
    BY <2>10, <2>a, IdleTypes, BlankType
    DEF Evict, CacheDel, CacheSet, Goto, At, Request, ServerPcs, Keyless
  <2>11. CASE EnqNow(s)
    <3>1. /\ k \in Keys /\ DelQuery(k, 0) \in Query
      BY <2>11, <2>a, QueryTypes DEF EnqNow, At, Request, Keyless
    <3>2. wq' \in Seq(Query) /\ UniqueIds(wq')
      BY <2>11, <3>1, EnqueueProperties DEF EnqNow
    <3>3. fate' \in [Keys -> {"live", "gone", "either"}]
      BY <2>11 DEF EnqNow
    <3>4. SvTyped'
      BY <1>0, <2>11, ReplyTyped DEF EnqNow
    <3> QED
      BY <2>11, <3>2, <3>3, <3>4 DEF EnqNow, SvTyped
  <2>12. CASE ListAll(s)
    <3>1. SvTyped'
      BY <1>0, <2>12, ReplyTyped, GotoTyped DEF ListAll, ServerPcs, Keyless
    <3> QED
      BY <2>12, <3>1 DEF ListAll, SvTyped
  <2>13. CASE ReadAll(s)
    <3>1. SvTyped'
      <4>1. [key \in Keys |-> AsRead(db[key])] \in [Keys -> Data]
        BY AsReadType
      <4> QED
        BY <1>0, <2>13, <4>1, IdleTypes, FoundAllTyped DEF ReadAll, ServerPcs, Keyless
    <3> QED
      BY <2>13, <3>1 DEF ReadAll, SvTyped
  <2>14. CASE ResetAll(s)
    BY <2>14, <2>a DEF ResetAll, Goto, At, Request, ServerPcs, Keyless
  <2>15. CASE SetAll(s)
    BY <2>15, <2>a, IdleTypes DEF SetAll, Reply, At, Request, IdleServer, Keyless
  <2> QED
    BY <1>2, <2>1, <2>2, <2>3, <2>4, <2>5, <2>6, <2>7, <2>8, <2>9, <2>10,
       <2>11, <2>12, <2>13, <2>14, <2>15 DEF Handle
<1>3. CASE Main
  <2>1. CASE Pop
    <3>1. PICK i \in DOMAIN wq :
            /\ wq' = PopAt(wq, i)
            /\ mn' \in {IdleMain,
                        [pc |-> IF wq[i].id.kind = "del" THEN "evict" ELSE "step",
                         q |-> wq[i],
                         cts |-> IF wq[i].id.kind = "delete_expires" THEN now ELSE 0]}
      BY <2>1 DEF Pop
    <3>2. wq' \in Seq(Query) /\ UniqueIds(wq') /\ wq[i] \in Query
      BY <3>1, PopProperties, ElementOfSeq, LenProperties
    <3>3. /\ mn' \in [pc : MainPcs, q : Query, cts : Nat]
          /\ mn'.pc = "evict" => mn'.q.id.kind = "del"
      BY <3>1, <3>2, IdleTypes DEF MainPcs, IdleMain
    <3> QED
      BY <2>1, <3>2, <3>3 DEF Pop
  <2>2. CASE EvictMem
    <3>1. mn.q.id.key \in Keys
      BY <2>2 DEF EvictMem, Query, Ids
    <3> QED
      BY <2>2, <3>1, IdleTypes, BlankType DEF EvictMem, CacheDel, CacheSet, MainPcs
  <2>3. CASE Step
    BY <2>3, IdleTypes DEF Step, MainPcs, IdleMain
  <2>4. CASE Commit
    <3>1. Written \in [Keys -> Data]
      BY BlankType DEF Written, Query
    <3> QED
      BY <2>4, <3>1, IdleTypes DEF Commit, IdleMain
  <2>5. CASE Resched
    <3>1. [mn.q EXCEPT !.ts = now + RetryDelay] \in Query
      <4>1. now + RetryDelay \in Nat /\ mn.q \in Query
        BY TimeAssumption
      <4> HIDE DEF TypeInv, TypeOK
      <4> QED
        BY <4>1 DEF Query
    <3>2. wq' \in Seq(Query) /\ UniqueIds(wq')
      BY <2>5, <3>1, EnqueueProperties DEF Resched
    <3> QED
      BY <2>5, <3>2, IdleTypes DEF Resched, IdleMain
  <2>6. CASE GiveUp
    <3>1. last' \in [Keys -> Data]
      BY <2>6 DEF GiveUp, Undone
    <3>2. fate' \in [Keys -> {"live", "gone", "either"}]
      BY <2>6 DEF GiveUp, Undone
    <3> QED
      BY <2>6, <3>1, <3>2, IdleTypes DEF GiveUp, IdleMain
  <2> QED
    BY <1>3, <2>1, <2>2, <2>3, <2>4, <2>5, <2>6 DEF Main
<1>4. CASE Tick
  BY <1>4 DEF Tick
<1>5. CASE Crash
  <2>1. \A k \in Keys : FateOf(db[k]) \in {"live", "gone", "either"}
    BY DEF FateOf
  <2> QED
    BY <1>5, <2>1, IdleTypes, BootQueueType DEF Crash, IdleServer, IdleMain, Keyless
<1>6. CASE UNCHANGED vars
  BY <1>6 DEF vars
<1> QED
  BY <1>1, <1>2, <1>3, <1>4, <1>5, <1>6 DEF Next

\* Every reachable state is well typed (CacheMe!TypeOK).
THEOREM TypeCorrect == Spec => []TypeOK
<1>1. Spec => []TypeInv
  BY TypeInit, TypeStep, PTL DEF Spec
<1>2. TypeInv => TypeOK
  BY DEF TypeInv
<1> QED
  BY <1>1, <1>2, PTL

\* No query id is ever queued twice (CacheMe!QueueIdsUnique).
THEOREM QueueIdsAreUnique == Spec => []QueueIdsUnique
<1>1. Spec => []TypeInv
  BY TypeInit, TypeStep, PTL DEF Spec
<1>2. TypeInv => QueueIdsUnique
  BY DEF TypeInv
<1> QED
  BY <1>1, <1>2, PTL

-----------------------------------------------------------------------------
\* A newer set is overtaken by an older one in one way only: the main thread
\* finds the database busy and puts a set back while a newer set of the same
\* key is queued (server.h 320).  The strengthening says where the newest row
\* of a key is: in the queue, or with the main thread, or committed.

PutsBackOld == Resched /\ mn.q.id.kind = "set" /\ Queued(wq, mn.q.id)

LastInv ==
  /\ \A q \in ToSet(wq) : q.id.kind = "set" => q.data = last[q.id.key]
  /\ \A k \in Keys : InFlight(Id("set", k)) /\ ~ Queued(wq, Id("set", k))
                       => mn.q.data = last[k]
  /\ ~ table => \A k \in Keys : db[k] = Blank
  /\ NoStaleRow

LEMMA QueuedIsMember == \A w, id : Queued(w, id) <=> \E q \in ToSet(w) : q.id = id
  BY DEF Queued, ToSet

\* A step that leaves the sets in the queue, the main thread and the
\* database alone keeps the invariant.
LEMMA SameSets ==
  ASSUME LastInv, UNCHANGED <<mn, dbVars, last>>,
         \A q : q.id.kind = "set" => (q \in ToSet(wq') <=> q \in ToSet(wq))
  PROVE  LastInv'
<1>1. \A k : Queued(wq', Id("set", k)) <=> Queued(wq, Id("set", k))
  <2>1. \A k : Id("set", k).kind = "set"
    BY DEF Id
  <2> QED
    BY <2>1, QueuedIsMember
<1>2. \A k : SetPending(k)' <=> SetPending(k)
  BY <1>1 DEF SetPending, InFlight
<1> QED
  BY <1>1, <1>2 DEF LastInv, NoStaleRow, InFlight, dbVars

LEMMA LastInit == Init => LastInv
<1> SUFFICES ASSUME Init PROVE LastInv
  OBVIOUS
<1>1. \A k : ~ InFlight(Id("set", k))
  BY DEF Init, InFlight, IdleMain
<1>2. \A q \in ToSet(wq) : q.id.kind # "set"
  BY DEF Init, ToSet, BootQueue, BootQuery, Id
<1>3. ~ table => \A k \in Keys : db[k] = Blank
  BY DEF Init
<1> QED
  BY <1>1, <1>2, <1>3 DEF Init, LastInv, NoStaleRow

\* Enqueueing or removing a del query leaves the sets alone.
LEMMA DelsLeaveSets ==
  ASSUME TypeInv, NEW k \in Keys,
         \/ wq' = RemoveQuery(wq, Id("del", k))
         \/ \E at \in Nat : wq' = Enqueue(wq, DelQuery(k, at))
  PROVE  \A q : q.id.kind = "set" => (q \in ToSet(wq') <=> q \in ToSet(wq))
<1>a. wq \in Seq(Query) /\ UniqueIds(wq)
  BY DEF TypeInv, TypeOK, QueueIdsUnique
<1>1. \A q : q.id.kind = "set" => q.id # Id("del", k)
  BY DEF Id
<1>2. CASE wq' = RemoveQuery(wq, Id("del", k))
  BY <1>a, <1>1, <1>2, RemoveQueryProperties
<1>3. ASSUME NEW at \in Nat, wq' = Enqueue(wq, DelQuery(k, at))
      PROVE  \A q : q.id.kind = "set" => (q \in ToSet(wq') <=> q \in ToSet(wq))
  <2>1. DelQuery(k, at) \in Query /\ DelQuery(k, at).id = Id("del", k)
    BY QueryTypes DEF DelQuery
  <2>2. \A q : q.id.kind = "set" => q # DelQuery(k, at)
    BY <1>1, <2>1
  <2> QED
    BY <1>a, <1>1, <1>3, <2>1, <2>2, EnqueueProperties
<1> QED
  BY <1>2, <1>3

LEMMA LastServer ==
  ASSUME TypeInv, LastInv, NEW s \in Servers, Receive(s) \/ Handle(s)
  PROVE  LastInv'
<1>a. /\ sv[s] \in Request /\ wq \in Seq(Query) /\ UniqueIds(wq)
      /\ sv[s].pc \notin Keyless => sv[s].key \in Keys
  BY DEF TypeInv, TypeOK, QueueIdsUnique
<1> DEFINE k == sv[s].key
<1>1. CASE Receive(s)
  <2>1. UNCHANGED <<wq, mn, dbVars, last>>
    BY <1>1 DEF Receive, ReceiveGet, ReceiveGetAll, ReceivePost, ReceiveDelete,
                Accept, history
  <2> QED
    BY <2>1, SameSets
<1>2. CASE \/ LookUp(s) \/ Read(s) \/ Reset(s) \/ Check(s) \/ Fill(s) \/ Put(s)
           \/ Evict(s) \/ ListAll(s) \/ ReadAll(s) \/ ResetAll(s) \/ SetAll(s)
  <2>1. UNCHANGED <<wq, mn, dbVars, last>>
    BY <1>2 DEF LookUp, Read, Reset, Check, Fill, Put, Evict, ListAll, ReadAll,
                ResetAll, SetAll, history
  <2> QED
    BY <2>1, SameSets
<1>3. CASE Schedule(s) \/ EnqNow(s) \/ EnqDel(s)
  <2>1. /\ k \in Keys
        /\ ExpiresAt(sv[s].data) \in Nat /\ ExpiresAt(sv[s].got) \in Nat
    BY <1>3, <1>a, StoredType DEF Schedule, EnqNow, EnqDel, At, Request, Keyless
  <2>2. \/ wq' = RemoveQuery(wq, Id("del", k))
        \/ \E at \in Nat : wq' = Enqueue(wq, DelQuery(k, at))
    BY <1>3, <2>1 DEF Schedule, EnqNow, EnqDel
  <2>3. UNCHANGED <<mn, dbVars, last>>
    BY <1>3 DEF Schedule, EnqNow, EnqDel, history
  <2> QED
    BY <2>1, <2>2, <2>3, DelsLeaveSets, SameSets
<1>4. CASE EnqSet(s)
  <2> DEFINE row == SetQuery(k, sv[s].data)
             id  == Id("set", k)
  <2>1. k \in Keys /\ row \in Query /\ row.id = id /\ row.data = Stored(sv[s].data)
    BY <1>4, <1>a, QueryTypes
    DEF EnqSet, At, Request, Keyless, TypeInv, TypeOK, SetQuery
  <2>2. \A q : q \in ToSet(wq') <=> q = row \/ (q \in ToSet(wq) /\ q.id # id)
    BY <1>4, <1>a, <2>1, EnqueueProperties DEF EnqSet
  <2>3. last' = [last EXCEPT ![k] = row.data] /\ last \in [Keys -> Data]
    BY <1>4, <2>1 DEF EnqSet, TypeInv, TypeOK
  <2>4. ASSUME NEW q \in ToSet(wq'), q.id.kind = "set"
        PROVE  q.data = last'[q.id.key]
    <3>1. CASE q = row
      BY <2>1, <2>3, <3>1 DEF Id
    <3>2. CASE q \in ToSet(wq) /\ q.id # id
      <4>1. q \in Query
        BY <1>a, <3>2, ElementOfSeq, LenProperties DEF ToSet
      <4>2. q.id.key # k /\ q.id.key \in Keys
        BY <2>4, <3>2, <4>1 DEF Query, Ids, Id
      <4> QED
        BY <2>3, <2>4, <3>2, <4>2 DEF LastInv
    <3> QED
      BY <2>2, <3>1, <3>2
  <2>5. Queued(wq', id)
    BY <2>1, <2>2, QueuedIsMember
  <2>6. \A j \in Keys : j # k => (Queued(wq', Id("set", j)) <=> Queued(wq, Id("set", j)))
    <3>1. \A j \in Keys : j # k => Id("set", j) # id
      BY DEF Id
    <3> QED
      BY <2>1, <2>2, <3>1, QueuedIsMember
  <2>7. UNCHANGED <<mn, db, table>>
    BY <1>4 DEF EnqSet, dbVars
  <2>8. \A j \in Keys : InFlight(Id("set", j))' <=> InFlight(Id("set", j))
    BY <2>7 DEF InFlight
  <2>9. \A j \in Keys : InFlight(Id("set", j))' /\ ~ Queued(wq', Id("set", j))
                          => mn'.q.data = last'[j]
    BY <2>3, <2>5, <2>6, <2>7, <2>8 DEF LastInv
  <2>10. NoStaleRow'
    BY <2>3, <2>5, <2>6, <2>7, <2>8 DEF LastInv, NoStaleRow, SetPending
  <2> QED
    BY <2>4, <2>7, <2>9, <2>10 DEF LastInv
<1> QED
  BY <1>1, <1>2, <1>3, <1>4 DEF Handle

LEMMA LastMain ==
  ASSUME TypeInv, LastInv, Main, ~ PutsBackOld
  PROVE  LastInv'
<1>a. wq \in Seq(Query) /\ UniqueIds(wq) /\ mn.q \in Query /\ db \in [Keys -> Data]
  BY DEF TypeInv, TypeOK, QueueIdsUnique
<1>1. CASE Pop
  <2>1. PICK i \in DOMAIN wq :
          /\ wq' = PopAt(wq, i)
          /\ mn' = IF wq[i].id.kind # "init_db" /\ ~ table THEN IdleMain
                   ELSE [pc |-> IF wq[i].id.kind = "del" THEN "evict" ELSE "step",
                         q |-> wq[i],
                         cts |-> IF wq[i].id.kind = "delete_expires" THEN now ELSE 0]
    BY <1>1 DEF Pop
  <2>2. mn.pc = "idle" /\ UNCHANGED <<db, table, last>>
    BY <1>1 DEF Pop, dbVars, history
  <2>3. /\ wq[i] \in ToSet(wq)
        /\ \A q : q \in ToSet(wq') <=> q \in ToSet(wq) /\ q # wq[i]
    <3>1. wq[i] \in ToSet(wq)
      BY <2>1 DEF ToSet
    <3> QED
      BY <1>a, <2>1, <3>1, PopProperties
  <2>4. CASE wq[i].id.kind # "init_db" /\ ~ table
    <3>1. mn' = IdleMain
      BY <2>1, <2>4
    <3>2. \A k \in Keys : ~ InFlight(Id("set", k))'
      BY <3>1 DEF InFlight, IdleMain
    <3> QED
      BY <2>2, <2>3, <2>4, <3>1, <3>2 DEF LastInv, NoStaleRow, IdleMain
  <2>5. CASE ~ (wq[i].id.kind # "init_db" /\ ~ table)
    <3>1. mn'.q = wq[i] /\ mn'.pc \in {"evict", "step"}
      BY <2>1, <2>5
    <3>2. ASSUME NEW k \in Keys, InFlight(Id("set", k))'
          PROVE  mn'.q.data = last'[k]
      BY <2>2, <2>3, <3>1, <3>2 DEF InFlight, LastInv, Id
    <3>3. ASSUME NEW k \in Keys, ~ SetPending(k)' PROVE ~ SetPending(k)
      <4>1. ~ InFlight(Id("set", k))
        BY <2>2 DEF InFlight
      <4>2. wq[i].id # Id("set", k)
        BY <3>1, <3>3 DEF SetPending, InFlight
      <4>3. ~ Queued(wq, Id("set", k))
        BY <2>3, <3>3, <4>2, QueuedIsMember DEF SetPending
      <4> QED
        BY <4>1, <4>3 DEF SetPending
    <3>4. NoStaleRow'
      BY <2>2, <3>3 DEF LastInv, NoStaleRow
    <3> QED
      BY <2>2, <2>3, <3>1, <3>2, <3>4 DEF LastInv
  <2> QED
    BY <2>4, <2>5
<1>2. CASE EvictMem
  <2>1. /\ mn'.pc = "step" /\ mn'.q = mn.q /\ mn.pc = "evict"
        /\ UNCHANGED <<wq, db, table, last>>
    BY <1>2 DEF EvictMem, dbVars, history, TypeInv, TypeOK
  <2>2. \A k \in Keys : /\ InFlight(Id("set", k))' <=> InFlight(Id("set", k))
                        /\ SetPending(k)' <=> SetPending(k)
    BY <2>1 DEF InFlight, SetPending
  <2> QED
    BY <2>1, <2>2 DEF LastInv, NoStaleRow
<1>3. CASE Step
  <2>1. UNCHANGED <<wq, db, table, last>> /\ mn.pc = "step"
    BY <1>3 DEF Step, dbVars, history
  <2>2. CASE Dirties
    <3>1. mn'.pc \in {"commit", "resched"} /\ mn'.q = mn.q
      BY <1>3, <2>2 DEF Step, TypeInv, TypeOK
    <3>2. \A k \in Keys : /\ InFlight(Id("set", k))' <=> InFlight(Id("set", k))
                          /\ SetPending(k)' <=> SetPending(k)
      BY <2>1, <3>1 DEF InFlight, SetPending
    <3> QED
      BY <2>1, <3>1, <3>2 DEF LastInv, NoStaleRow
  <2>3. CASE ~ Dirties
    <3>1. mn' = IdleMain
      BY <1>3, <2>3 DEF Step
    <3>2. \A k \in Keys : ~ InFlight(Id("set", k)) /\ ~ InFlight(Id("set", k))'
      BY <2>3, <3>1 DEF Dirties, InFlight, IdleMain, Id
    <3>3. \A k \in Keys : SetPending(k)' <=> SetPending(k)
      BY <2>1, <3>2 DEF SetPending
    <3> QED
      BY <2>1, <3>1, <3>2, <3>3 DEF LastInv, NoStaleRow, IdleMain
  <2> QED
    BY <2>2, <2>3
<1>4. CASE Commit
  <2>1. /\ mn.pc = "commit" /\ mn' = IdleMain /\ db' = Written /\ table' = TRUE
        /\ UNCHANGED <<wq, last>>
    BY <1>4 DEF Commit, history
  <2>2. \A k \in Keys : ~ InFlight(Id("set", k))'
    BY <2>1 DEF InFlight, IdleMain
  <2>3. ASSUME NEW k \in Keys, ~ SetPending(k)' PROVE db'[k] \in {Blank, last[k]}
    <3>1. ~ Queued(wq, Id("set", k))
      BY <2>1, <2>3 DEF SetPending
    <3>2. CASE InFlight(Id("set", k))
      <4>1. mn.q.data = last[k] /\ mn.q.id.kind = "set" /\ mn.q.id.key = k
        BY <3>1, <3>2 DEF LastInv, InFlight, Id
      <4>2. Written[k] = mn.q.data
        BY <1>a, <4>1 DEF Written
      <4> QED
        BY <2>1, <4>1, <4>2
    <3>3. CASE ~ InFlight(Id("set", k))
      <4>1. db[k] \in {Blank, last[k]}
        BY <3>1, <3>3 DEF LastInv, NoStaleRow, SetPending
      <4>2. ~ (mn.q.id.kind = "set" /\ mn.q.id.key = k)
        BY <1>a, <2>1, <3>3 DEF InFlight, Id, Query, Ids
      <4>3. Written[k] \in {Blank, db[k]}
        BY <1>a, <4>2 DEF Written
      <4> QED
        BY <2>1, <4>1, <4>3
    <3> QED
      BY <3>2, <3>3
  <2> QED
    BY <2>1, <2>2, <2>3 DEF LastInv, NoStaleRow, IdleMain
<1>5. CASE Resched
  <2>1. /\ mn.pc = "resched" /\ mn' = IdleMain /\ UNCHANGED <<db, table, last>>
        /\ wq' = Enqueue(wq, [mn.q EXCEPT !.ts = now + RetryDelay])
    BY <1>5 DEF Resched, dbVars, history
  <2> DEFINE q == [mn.q EXCEPT !.ts = now + RetryDelay]
  <2>2. q \in Query /\ q.id = mn.q.id /\ q.data = mn.q.data
    <3>1. now + RetryDelay \in Nat
      BY TimeAssumption DEF TypeInv, TypeOK
    <3> QED
      BY <1>a, <3>1 DEF Query
  <2>3. \A p : p \in ToSet(wq') <=> p = q \/ (p \in ToSet(wq) /\ p.id # mn.q.id)
    <3> HIDE DEF q
    <3>1. wq' = Enqueue(wq, q)
      BY <2>1 DEF q
    <3>2. wq \in Seq(Query) /\ UniqueIds(wq) /\ q \in Query
      BY <1>a, <2>2
    <3>3. \A p : p \in ToSet(Enqueue(wq, q))
                   <=> p = q \/ (p \in ToSet(wq) /\ p.id # q.id)
      BY <3>2, EnqueueProperties
    <3> QED
      BY <2>2, <3>1, <3>3
  <2> HIDE DEF q
  <2>4. \A k : InFlight(Id("set", k)) <=> mn.q.id = Id("set", k)
    BY <2>1 DEF InFlight
  <2>5. \A k : ~ InFlight(Id("set", k))'
    BY <2>1 DEF InFlight, IdleMain
  <2>6. \A k : Queued(wq', Id("set", k)) <=> SetPending(k)
    BY <2>2, <2>3, <2>4, QueuedIsMember DEF SetPending
  <2>7. \A k : SetPending(k)' <=> SetPending(k)
    BY <2>5, <2>6 DEF SetPending
  <2>8. ASSUME q.id.kind = "set" PROVE q.data = last[q.id.key]
    <3>1. q.id.key \in Keys /\ q.id = Id("set", q.id.key)
      BY <2>2, <2>8 DEF Query, Ids, Id
    <3>2. ~ Queued(wq, q.id)
      BY <1>5, <2>2, <2>8 DEF PutsBackOld
    <3> QED
      BY <2>2, <2>4, <3>1, <3>2 DEF LastInv
  <2>9. \A p \in ToSet(wq') : p.id.kind = "set" => p.data = last'[p.id.key]
    BY <2>1, <2>3, <2>8 DEF LastInv
  <2> QED
    BY <2>1, <2>5, <2>7, <2>9 DEF LastInv, NoStaleRow
<1>6. CASE GiveUp
  <2>1. /\ mn.pc # "idle" /\ mn' = IdleMain /\ UNCHANGED <<wq, db, table>>
        /\ Undone /\ last \in [Keys -> Data]
    BY <1>6 DEF GiveUp, dbVars, TypeInv, TypeOK
  <2>2. \A k : ~ InFlight(Id("set", k))'
    BY <2>1 DEF InFlight, IdleMain
  <2>3. \A k : SetPending(k)' <=> Queued(wq, Id("set", k))
    BY <2>1, <2>2 DEF SetPending
  <2>4. ASSUME NEW k \in Keys
        PROVE  last'[k] = IF InFlight(Id("set", k)) /\ ~ Queued(wq, Id("set", k))
                          THEN db[k] ELSE last[k]
    <3>1. CASE InFlight(Id("set", k))
      <4>1. mn.q.id = Id("set", k) /\ mn.q.id.kind = "set" /\ mn.q.id.key = k
        BY <3>1 DEF InFlight, Id
      <4> QED BY <2>1, <3>1, <4>1 DEF Undone
    <3>2. CASE ~ InFlight(Id("set", k))
      <4>1. mn.q.id.kind = "set" => mn.q.id.key # k
        BY <1>a, <2>1, <3>2 DEF InFlight, Id, Query, Ids
      <4>2. last' = last \/ (mn.q.id.kind = "set" /\ last' = [last EXCEPT ![mn.q.id.key] = db[mn.q.id.key]])
        BY <2>1 DEF Undone
      <4> QED BY <2>1, <3>2, <4>1, <4>2
    <3> QED BY <3>1, <3>2
  <2>5. ASSUME NEW k \in Keys, ~ SetPending(k)' PROVE db'[k] \in {Blank, last'[k]}
    BY <2>1, <2>3, <2>4, <2>5 DEF LastInv, NoStaleRow, SetPending
  <2>6. ASSUME NEW p \in ToSet(wq'), p.id.kind = "set" PROVE p.data = last'[p.id.key]
    <3>1. p \in ToSet(wq) /\ p \in Query
      BY <1>a, <2>1, ElementOfSeq, LenProperties DEF ToSet
    <3>2. p.id.key \in Keys /\ p.id = Id("set", p.id.key)
      BY <2>6, <3>1 DEF Query, Ids, Id
    <3>3. Queued(wq, Id("set", p.id.key))
      BY <3>1, <3>2, QueuedIsMember
    <3> QED
      BY <2>4, <2>6, <3>1, <3>2, <3>3 DEF LastInv
  <2> QED
    BY <2>1, <2>2, <2>5, <2>6 DEF LastInv, NoStaleRow
<1> QED
  BY <1>1, <1>2, <1>3, <1>4, <1>5, <1>6 DEF Main

LEMMA LastCrash ==
  ASSUME TypeInv, LastInv, Crash
  PROVE  LastInv'
<1>1. wq' = BootQueue /\ mn' = IdleMain /\ last' = db /\ UNCHANGED <<db, table>>
  BY DEF Crash, dbVars
<1>2. \A k : ~ InFlight(Id("set", k))'
  BY <1>1 DEF InFlight, IdleMain
<1>3. \A q \in ToSet(wq') : q.id.kind # "set"
  BY <1>1 DEF ToSet, BootQueue, BootQuery, Id
<1> QED
  BY <1>1, <1>2, <1>3 DEF LastInv, NoStaleRow

LEMMA LastStep == TypeInv /\ LastInv /\ [Next /\ ~ PutsBackOld]_vars => LastInv'
<1> SUFFICES ASSUME TypeInv, LastInv, [Next /\ ~ PutsBackOld]_vars PROVE LastInv'
  OBVIOUS
<1>1. CASE Tick
  BY <1>1, SameSets DEF Tick, dbVars, history
<1>2. CASE UNCHANGED vars
  BY <1>2, SameSets DEF vars, history
<1> QED
  BY <1>1, <1>2, LastServer, LastMain, LastCrash DEF Next

\* An older set never overwrites a newer one (CacheMe!NoStaleRow), whatever the
\* requests, servers, keys, ttls, crashes and errors of SQLite, unless a postponed set is
\* put back over a newer one.
THEOREM NewestSetWins == Spec /\ [][~ PutsBackOld]_vars => []NoStaleRow
<1>1. LastInv => NoStaleRow
  BY DEF LastInv
<1>2. [Next]_vars /\ [~ PutsBackOld]_vars => [Next /\ ~ PutsBackOld]_vars
  OBVIOUS
<1> QED
  BY <1>1, <1>2, TypeInit, TypeStep, LastInit, LastStep, PTL DEF Spec

\* While clients only write no connection is ever inside a SELECT, so SQLite
\* never answers BUSY and nothing is put back.

WriterPcs == {"idle", "put", "enq_set", "enq_del", "evict", "enq_now"}

NoReaders == \A s \in Servers : sv[s].pc \in WriterPcs

WriterInv == NoReaders /\ mn.pc # "resched"

NewestInv == WriterInv /\ LastInv

LEMMA WriterInit == Init => WriterInv
  BY DEF Init, WriterInv, NoReaders, WriterPcs, IdleServer, IdleMain

LEMMA WriterStep ==
  ASSUME Ops \subseteq {"post", "delete"}
  PROVE  TypeInv /\ WriterInv /\ [Next]_vars => WriterInv'
<1> SUFFICES ASSUME TypeInv, WriterInv, [Next]_vars PROVE WriterInv'
  OBVIOUS
<1>1. ASSUME NEW s \in Servers, Receive(s) \/ Handle(s) PROVE WriterInv'
  <2>1. UNCHANGED mn
    BY <1>1 DEF Receive, ReceiveGet, ReceiveGetAll, ReceivePost, ReceiveDelete,
         Accept, Handle, LookUp, Read, Reset, Schedule, Check, Fill, Put, EnqSet,
         EnqDel, Evict, EnqNow, ListAll, ReadAll, ResetAll, SetAll
  <2>2. ASSUME NEW r, r.pc \in WriterPcs, sv' = [sv EXCEPT ![s] = r]
        PROVE  WriterInv'
    BY <2>1, <2>2 DEF WriterInv, NoReaders, TypeInv, TypeOK
  <2>3. CASE Receive(s)
    <3>1. ASSUME NEW op, NEW pc \in WriterPcs, NEW k, NEW d, Accept(s, op, pc, k, d)
          PROVE  WriterInv'
      <4> DEFINE r == [IdleServer EXCEPT !.pc = pc, !.op = op, !.key = k, !.data = d]
      <4>1. r.pc = pc /\ sv' = [sv EXCEPT ![s] = r]
        BY <3>1 DEF Accept, IdleServer
      <4> QED
        BY <2>2, <4>1
    <3>2. ~ ReceiveGet(s) /\ ~ ReceiveGetAll(s)
      BY DEF ReceiveGet, ReceiveGetAll, Accept
    <3>3. CASE ReceivePost(s)
      <4>1. PICK k \in Keys, v \in Values, ttl \in TTLs :
              LET d == [value |-> v, expires_at |-> Deadline(now, ttl)]
              IN  \/ Accept(s, "post", "put", k, d)
                  \/ Accept(s, "get_or_set", "get", k, d)
        BY <3>3 DEF ReceivePost
      <4> DEFINE d == [value |-> v, expires_at |-> Deadline(now, ttl)]
      <4>2. Accept(s, "post", "put", k, d)
        BY <4>1 DEF Accept
      <4> QED
        BY <3>1, <4>2 DEF WriterPcs
    <3>4. CASE ReceiveDelete(s)
      BY <3>1, <3>4 DEF ReceiveDelete, WriterPcs
    <3> QED
      BY <2>3, <3>2, <3>3, <3>4 DEF Receive
  <2>4. CASE Handle(s)
    <3>1. sv[s] \in Request /\ sv[s].pc \in WriterPcs
      BY DEF TypeInv, TypeOK, WriterInv, NoReaders
    <3>2. ASSUME NEW pc \in WriterPcs, Goto(s, pc) PROVE WriterInv'
      BY <2>1, <3>1, <3>2 DEF Goto, WriterInv, NoReaders, TypeInv, TypeOK, Request
    <3>3. ASSUME Reply(s) PROVE WriterInv'
      <4>1. IdleServer.pc \in WriterPcs /\ sv' = [sv EXCEPT ![s] = IdleServer]
        BY <3>3 DEF Reply, IdleServer, WriterPcs
      <4> QED
        BY <2>2, <4>1
    <3>4. CASE Put(s) \/ EnqSet(s) \/ Evict(s)
      BY <3>2, <3>4 DEF Put, EnqSet, Evict, WriterPcs
    <3>5. CASE EnqDel(s) \/ EnqNow(s)
      BY <3>3, <3>5 DEF EnqDel, EnqNow
    <3> QED
      BY <2>4, <3>1, <3>4, <3>5
      DEF Handle, LookUp, Read, Reset, Schedule, Check, Fill, ListAll, ReadAll,
          ResetAll, SetAll, At, WriterPcs
  <2> QED
    BY <1>1, <2>3, <2>4
<1>2. CASE Main
  <2>1. UNCHANGED sv
    BY <1>2 DEF Main, Pop, EvictMem, Step, Commit, Resched, GiveUp
  <2>2. Readers = {}
    BY DEF WriterInv, NoReaders, WriterPcs, Readers, At
  <2>3. mn'.pc # "resched"
    BY <1>2, <2>2 DEF Main, Pop, EvictMem, Step, Commit, Resched, GiveUp, IdleMain,
                      WriterInv, TypeInv, TypeOK
  <2> QED
    BY <2>1, <2>3 DEF WriterInv, NoReaders
<1>3. CASE Crash
  BY <1>3 DEF Crash, WriterInv, NoReaders, WriterPcs, IdleServer, IdleMain
<1>4. CASE Tick \/ UNCHANGED vars
  BY <1>4 DEF Tick, vars, WriterInv, NoReaders
<1> QED
  BY <1>1, <1>2, <1>3, <1>4 DEF Next

LEMMA NothingPutBack == TypeInv /\ WriterInv => ~ PutsBackOld
  BY DEF PutsBackOld, Resched, WriterInv

LEMMA NewestInit == Init => NewestInv
  BY WriterInit, LastInit DEF NewestInv

LEMMA NewestStep ==
  ASSUME Ops \subseteq {"post", "delete"}
  PROVE  TypeInv /\ NewestInv /\ [Next]_vars => NewestInv'
<1>1. TypeInv /\ NewestInv /\ [Next]_vars => [Next /\ ~ PutsBackOld]_vars
  BY NothingPutBack DEF NewestInv
<1> QED
  BY <1>1, WriterStep, LastStep DEF NewestInv

\* Without reads an older set never overwrites a newer one.
THEOREM WritersKeepTheNewest ==
  ASSUME Ops \subseteq {"post", "delete"}
  PROVE  Spec => []NoStaleRow
<1>1. TypeInv /\ NewestInv /\ [Next]_vars => NewestInv'
  BY NewestStep
<1>2. NewestInv => NoStaleRow
  BY DEF NewestInv, LastInv
<1> QED
  BY <1>1, <1>2, TypeInit, TypeStep, NewestInit, PTL DEF Spec

-----------------------------------------------------------------------------
\* Timestamp 1 means absence, or what a client posted with a deadline that
\* wrapped to it.  The strengthening follows the timestamps through every
\* record a server, the queue or the main thread holds: only a body just
\* parsed carries the mark, and only with the value it was posted with.

\* Holds a value, or is blank: not the marker.
Plain(d) == ~ IsMarker(d)

Posted(k, d) == IsMarker(d) => <<k, d.value>> \in magic

SvPlain == \A s \in Servers : Plain(sv[s].got) /\ Posted(sv[s].key, sv[s].data)

MarkInv ==
  /\ SvPlain
  /\ \A k \in Keys : mcache[k].value = NoValue \/ Posted(k, mcache[k])
  /\ \A k \in Keys : Plain(db[k])
  /\ \A q \in ToSet(wq) : Plain(q.data)
  /\ Plain(mn.q.data)

LEMMA BlankIsPlain == Plain(Blank)
  BY DEF Plain, IsMarker, Blank

LEMMA StoredIsPlain == \A d \in Data : Plain(Stored(d))
  BY DEF Plain, IsMarker, Stored, ExpiresAt, Data

LEMMA FilledMarker ==
  ASSUME NEW d \in Data, Plain(d), IsMarker(Filled(d))
  PROVE  Filled(d).value = NoValue
  BY DEF Plain, IsMarker, Filled, IsEmpty, MarkCached, Data

LEMMA MarkInit == Init => MarkInv
<1> SUFFICES ASSUME Init PROVE MarkInv
  OBVIOUS
<1>1. \A k \in Keys : Plain(db[k])
  BY OldDbAssumption, BlankIsPlain DEF Init, Plain
<1>2. \A q \in ToSet(wq) : Plain(q.data)
  BY BlankIsPlain DEF Init, ToSet, BootQueue, BootQuery
<1>3. \A k \in Keys : mcache[k].value = NoValue
  BY DEF Init, NoRows, Blank
<1> QED
  BY <1>1, <1>2, <1>3, BlankIsPlain
  DEF Init, MarkInv, SvPlain, Posted, Plain, IdleServer, IdleMain, BootQuery

\* Plain records in, plain records out, for the moves a server makes.

LEMMA MovePlain ==
  ASSUME TypeInv, SvPlain, NEW s \in Servers, UNCHANGED magic,
         \/ Reply(s)
         \/ \E pc \in ServerPcs : Goto(s, pc)
         \/ \E pc \in ServerPcs, d \in Data : Plain(d) /\ Found(s, pc, d)
         \/ \E pc \in ServerPcs, rows \in [Keys -> Data] : FoundAll(s, pc, rows)
  PROVE  SvPlain'
<1>a. sv \in [Servers -> Request]
  BY DEF TypeInv, TypeOK
<1>1. CASE Reply(s)
  BY <1>a, <1>1, BlankIsPlain DEF Reply, SvPlain, IdleServer, Posted, Plain
<1>2. ASSUME NEW pc \in ServerPcs, Goto(s, pc) PROVE SvPlain'
  BY <1>a, <1>2 DEF Goto, SvPlain, Posted, Request
<1>3. ASSUME NEW pc \in ServerPcs, NEW d \in Data, Plain(d), Found(s, pc, d)
      PROVE  SvPlain'
  <2> DEFINE r == [sv[s] EXCEPT !.pc = pc, !.got = d]
  <2>1. /\ r.data = sv[s].data /\ r.got = d /\ r.key = sv[s].key
        /\ sv' = [sv EXCEPT ![s] = r]
    BY <1>a, <1>3 DEF Found, Request
  <2> QED
    BY <1>a, <1>3, <2>1 DEF SvPlain, Posted
<1>4. ASSUME NEW pc \in ServerPcs, NEW rows \in [Keys -> Data], FoundAll(s, pc, rows)
      PROVE  SvPlain'
  <2> DEFINE r == [sv[s] EXCEPT !.pc = pc, !.rows = rows]
  <2>1. r.data = sv[s].data /\ r.got = sv[s].got /\ r.key = sv[s].key
    <3>1. sv[s] \in Request
      BY <1>a
    <3> QED
      BY <3>1 DEF Request
  <2>2. sv' = [sv EXCEPT ![s] = r]
    BY <1>4 DEF FoundAll
  <2> QED
    BY <1>a, <2>1, <2>2 DEF SvPlain, Posted
<1> QED
  BY <1>1, <1>2, <1>3, <1>4

LEMMA AnswerPlain ==
  ASSUME TypeInv, SvPlain, NEW s \in Servers, NEW d, Answer(s, d), UNCHANGED magic
  PROVE  SvPlain'
  BY MovePlain DEF Answer, ServerPcs

LEMMA EnqueuePlain ==
  ASSUME NEW w \in Seq(Query), UniqueIds(w), NEW q \in Query, Plain(q.data),
         \A p \in ToSet(w) : Plain(p.data)
  PROVE  \A p \in ToSet(Enqueue(w, q)) : Plain(p.data)
  BY EnqueueProperties

LEMMA Receives ==
  ASSUME NEW s \in Servers, Receive(s)
  PROVE  \E op, pc, key, d : pc # "enq_del" /\ Accept(s, op, pc, key, d)
<1>1. CASE ReceivePost(s)
  <2>1. PICK key \in Keys, v \in Values, ttl \in TTLs :
          LET d == [value |-> v, expires_at |-> Deadline(now, ttl)]
          IN  \/ Accept(s, "post", "put", key, d)
              \/ Accept(s, "get_or_set", "get", key, d)
    BY <1>1 DEF ReceivePost
  <2> QED
    BY <2>1
<1>2. CASE ReceiveGet(s)
  BY <1>2 DEF ReceiveGet
<1>3. CASE ReceiveGetAll(s)
  BY <1>3 DEF ReceiveGetAll
<1>4. CASE ReceiveDelete(s)
  BY <1>4 DEF ReceiveDelete
<1> QED
  BY <1>1, <1>2, <1>3, <1>4 DEF Receive

LEMMA MarkServer ==
  ASSUME TypeInv, MarkInv, NEW s \in Servers, Receive(s) \/ Handle(s)
  PROVE  MarkInv'
<1> DEFINE k == sv[s].key
<1>a. /\ sv[s] \in Request /\ (sv[s].pc \notin Keyless => k \in Keys)
      /\ wq \in Seq(Query) /\ UniqueIds(wq) /\ mcache \in [Keys -> Data]
      /\ db \in [Keys -> Data]
  BY DEF TypeInv, TypeOK, QueueIdsUnique
<1>b. SvPlain /\ Posted(k, sv[s].data) /\ Plain(sv[s].got)
  BY DEF MarkInv, SvPlain
<1>c. sv[s].data \in Data /\ sv[s].got \in Data
  BY <1>a DEF Request
\* Three kinds of steps: on the request alone, on memory, on the queue.
<1>d. ASSUME SvPlain', magic \subseteq magic', UNCHANGED <<mcache, wq, dbVars, mn>>
      PROVE  MarkInv'
  BY <1>d DEF MarkInv, Posted, dbVars
<1>e. ASSUME SvPlain', UNCHANGED <<wq, dbVars, mn, magic>>, NEW j, NEW d \in Data,
             CacheSet(j, d), d.value = NoValue \/ Posted(j, d)
      PROVE  MarkInv'
  BY <1>a, <1>e DEF MarkInv, Posted, dbVars, CacheSet
<1>f. ASSUME SvPlain', UNCHANGED <<mcache, dbVars, mn, magic>>,
             \A p \in ToSet(wq') : Plain(p.data)
      PROVE  MarkInv'
  BY <1>f DEF MarkInv, Posted, dbVars
<1>g. Handle(s) => UNCHANGED magic
  BY DEF Handle, LookUp, Read, Reset, Schedule, Check, Fill, Put, EnqSet, EnqDel,
         Evict, EnqNow, ListAll, ReadAll, ResetAll, SetAll, history
<1>1. CASE Receive(s)
  <2>1. PICK op, pc, key, d : pc # "enq_del" /\ Accept(s, op, pc, key, d)
    BY <1>1, Receives
  <2> DEFINE r == [IdleServer EXCEPT !.pc = pc, !.op = op, !.key = key, !.data = d]
  <2>2. /\ r.data = d /\ r.got = Blank /\ r.key = key
        /\ sv' = [sv EXCEPT ![s] = r]
    BY <2>1 DEF Accept, IdleServer
  <2>3. magic \subseteq magic' /\ (IsMarker(d) => <<key, d.value>> \in magic')
    BY <2>1 DEF Accept
  <2> HIDE DEF r
  <2>4. SvPlain'
    BY <1>b, <2>2, <2>3, BlankIsPlain DEF SvPlain, Posted, TypeInv, TypeOK
  <2> QED
    BY <1>d, <2>1, <2>3, <2>4 DEF Accept, memVars
<1>2. CASE Handle(s)
  <2>m. UNCHANGED magic /\ magic \subseteq magic'
    BY <1>2, <1>g
  <2>1. CASE LookUp(s)
    BY <1>b, <2>m, <1>d, <2>1, AnswerPlain, MovePlain DEF LookUp, memVars, boundVars, ServerPcs
  <2>2. CASE Read(s)
    <3>1. k \in Keys /\ AsRead(db[k]) \in Data /\ Plain(AsRead(db[k]))
      <4>1. k \in Keys /\ db[k] \in Data /\ Plain(db[k])
        BY <1>a, <2>2 DEF Read, At, Keyless, MarkInv
      <4> QED
        BY <4>1, AsReadType DEF Plain, IsMarker
    <3>2. SvPlain'
      BY <1>b, <2>m, <2>2, <3>1, BlankType, BlankIsPlain, MovePlain DEF Read, ServerPcs
    <3> QED
      BY <1>d, <2>m, <2>2, <3>2 DEF Read, memVars, boundVars
  <2>3. CASE Reset(s)
    BY <1>b, <2>m, <1>d, <2>3, MovePlain DEF Reset, memVars, boundVars, ServerPcs
  <2>4. CASE Schedule(s)
    <3>1. /\ DelQuery(k, ExpiresAt(sv[s].got)) \in Query
          /\ Plain(DelQuery(k, ExpiresAt(sv[s].got)).data)
      BY <1>a, <1>c, <2>4, QueryTypes, StoredType, BlankIsPlain
      DEF Schedule, At, Keyless, DelQuery
    <3>2. \A p \in ToSet(wq') : Plain(p.data)
      BY <1>a, <2>4, <3>1, EnqueuePlain DEF Schedule, MarkInv
    <3>3. SvPlain'
      BY <1>b, <2>m, <2>4, MovePlain DEF Schedule, ServerPcs
    <3> QED
      BY <1>f, <2>m, <2>4, <3>2, <3>3 DEF Schedule, memVars, boundVars
  <2>5. CASE Check(s)
    <3>1. SvPlain'
      BY <1>b, <2>m, <1>c, <2>5, BlankType, BlankIsPlain, MovePlain DEF Check, ServerPcs
    <3> QED
      BY <1>d, <2>m, <2>5, <3>1 DEF Check, memVars, boundVars
  <2>6. CASE Fill(s)
    <3>1. /\ Filled(sv[s].got) \in Data
          /\ IsMarker(Filled(sv[s].got)) => Filled(sv[s].got).value = NoValue
          /\ Filled(sv[s].got).value = NoValue \/ Posted(k, Filled(sv[s].got))
      BY <1>b, <1>c, FilledType, FilledMarker DEF Posted
    <3>2. SvPlain'
      BY <1>b, <2>m, <2>6, AnswerPlain DEF Fill
    <3> QED
      BY <1>e, <2>m, <2>6, <3>1, <3>2 DEF Fill, boundVars
  <2>7. CASE Put(s)
    <3>1. SvPlain'
      BY <1>b, <2>m, <2>7, MovePlain DEF Put, ServerPcs
    <3> QED
      BY <1>b, <2>m, <1>c, <1>e, <2>7, <3>1 DEF Put, boundVars
  <2>8. CASE EnqSet(s)
    <3>1. SetQuery(k, sv[s].data) \in Query /\ Plain(SetQuery(k, sv[s].data).data)
      BY <1>a, <1>c, <2>8, QueryTypes, StoredIsPlain DEF EnqSet, At, Keyless, SetQuery
    <3>2. \A p \in ToSet(wq') : Plain(p.data)
      BY <1>a, <2>8, <3>1, EnqueuePlain DEF EnqSet, MarkInv
    <3>3. SvPlain'
      BY <1>b, <2>m, <2>8, MovePlain DEF EnqSet, ServerPcs
    <3> QED
      BY <1>f, <2>m, <2>8, <3>2, <3>3 DEF EnqSet, memVars, boundVars
  <2>9. CASE EnqDel(s) \/ EnqNow(s)
    <3>1. k \in Keys /\ ExpiresAt(sv[s].data) \in Nat
      BY <1>a, <1>c, <2>9, StoredType DEF EnqDel, EnqNow, At, Keyless
    <3>2. \/ wq' = RemoveQuery(wq, Id("del", k))
          \/ \E at \in Nat : wq' = Enqueue(wq, DelQuery(k, at))
      BY <2>9, <3>1 DEF EnqDel, EnqNow
    <3>3. \A at \in Nat : DelQuery(k, at) \in Query /\ Plain(DelQuery(k, at).data)
      BY <3>1, QueryTypes, BlankIsPlain DEF DelQuery
    <3>4. \A p \in ToSet(wq') : Plain(p.data)
      BY <1>a, <3>2, <3>3, EnqueuePlain, RemoveQueryProperties DEF MarkInv
    <3>5. SvPlain'
      BY <1>b, <2>m, <2>9, MovePlain DEF EnqDel, EnqNow
    <3> QED
      BY <1>f, <2>m, <2>9, <3>4, <3>5 DEF EnqDel, EnqNow, memVars, boundVars
  <2>10. CASE Evict(s)
    <3>1. SvPlain'
      BY <1>b, <2>m, <2>10, MovePlain DEF Evict, ServerPcs
    <3> QED
      BY <1>e, <2>m, <2>10, <3>1, BlankType DEF Evict, CacheDel, boundVars, Blank
  <2>11. CASE ListAll(s) \/ ReadAll(s) \/ ResetAll(s) \/ SetAll(s)
    <3>1. SvPlain'
      <4>1. [key \in Keys |-> AsRead(db[key])] \in [Keys -> Data]
        BY <1>a, AsReadType
      <4> QED
        BY <1>a, <1>b, <2>m, <2>11, <4>1, MovePlain, IdleTypes
        DEF ListAll, ReadAll, ResetAll, SetAll, ServerPcs
    <3> QED
      BY <1>d, <2>m, <2>11, <3>1 DEF ListAll, ReadAll, ResetAll, SetAll, memVars, boundVars
  <2> QED
    BY <1>2, <2>1, <2>2, <2>3, <2>4, <2>5, <2>6, <2>7, <2>8, <2>9, <2>10, <2>11
    DEF Handle
<1> QED
  BY <1>1, <1>2

LEMMA MarkMain ==
  ASSUME TypeInv, MarkInv, Main
  PROVE  MarkInv'
<1>a. /\ wq \in Seq(Query) /\ UniqueIds(wq) /\ mn.q \in Query
      /\ db \in [Keys -> Data] /\ mcache \in [Keys -> Data]
  BY DEF TypeInv, TypeOK, QueueIdsUnique
<1>b. Plain(IdleMain.q.data)
  BY BlankIsPlain DEF IdleMain, BootQuery
<1>c. SvPlain' /\ UNCHANGED magic
  BY DEF Main, Pop, EvictMem, Step, Commit, Resched, GiveUp, history, MarkInv,
         SvPlain, Posted
<1>1. CASE Pop
  <2>1. PICK i \in DOMAIN wq : wq' = PopAt(wq, i) /\ (mn' = IdleMain \/ mn'.q = wq[i])
    BY <1>1 DEF Pop
  <2>2. wq[i] \in ToSet(wq) /\ Plain(wq[i].data)
    BY <2>1 DEF ToSet, MarkInv
  <2>3. \A q \in ToSet(wq') : Plain(q.data)
    BY <1>a, <2>1, PopProperties DEF MarkInv
  <2>4. Plain(mn'.q.data)
    BY <1>b, <2>1, <2>2
  <2> QED
    BY <1>1, <1>c, <2>3, <2>4 DEF Pop, MarkInv, Posted, memVars, dbVars
<1>2. CASE EvictMem
  <2>1. mn'.q = mn.q
    BY <1>2 DEF EvictMem, TypeInv, TypeOK
  <2>2. mcache' = [mcache EXCEPT ![mn.q.id.key] = Blank]
    BY <1>2 DEF EvictMem, CacheDel, CacheSet
  <2> QED
    BY <1>2, <1>a, <1>c, <2>1, <2>2 DEF EvictMem, MarkInv, Posted, dbVars, Blank
<1>3. CASE Step
  <2>1. Plain(mn'.q.data)
    BY <1>3, <1>b DEF Step, MarkInv, TypeInv, TypeOK
  <2> QED
    BY <1>3, <1>c, <2>1 DEF Step, MarkInv, Posted, memVars, dbVars
<1>4. CASE Commit
  <2>1. \A k \in Keys : Plain(Written[k])
    BY <1>a, BlankIsPlain DEF Written, MarkInv
  <2> QED
    BY <1>4, <1>b, <1>c, <2>1 DEF Commit, MarkInv, Posted, memVars
<1>5. CASE Resched
  <2> DEFINE q == [mn.q EXCEPT !.ts = now + RetryDelay]
  <2>0. mn.q \in Query /\ now + RetryDelay \in Nat
    BY TimeAssumption DEF TypeInv, TypeOK
  <2>1. q \in Query /\ q.data = mn.q.data
    BY <2>0 DEF Query
  <2>2. \A p \in ToSet(wq') : Plain(p.data)
    BY <1>5, <1>a, <2>1, EnqueuePlain DEF Resched, MarkInv
  <2> QED
    BY <1>5, <1>b, <1>c, <2>2 DEF Resched, MarkInv, Posted, memVars, dbVars
<1>6. CASE GiveUp
  BY <1>6, <1>b, <1>c DEF GiveUp, MarkInv, Posted, memVars, dbVars
<1> QED
  BY <1>1, <1>2, <1>3, <1>4, <1>5, <1>6 DEF Main

LEMMA MarkCrash ==
  ASSUME TypeInv, MarkInv, Crash
  PROVE  MarkInv'
<1>1. \A q \in ToSet(BootQueue) : Plain(q.data)
  BY BlankIsPlain DEF ToSet, BootQueue, BootQuery
<1>2. SvPlain'
  BY BlankIsPlain DEF Crash, SvPlain, Posted, Plain, IdleServer
<1> QED
  BY <1>1, <1>2, BlankIsPlain DEF Crash, MarkInv, NoRows, Blank, IdleMain, BootQuery, dbVars

\* The mark for "known not to exist" never spreads (CacheMe!MagicMarksAbsence):
\* whatever the requests, ttls, threads, crashes and errors, an entry that has
\* it and a value was posted with a deadline that wrapped to 1 since the
\* process started, and no row has it.
THEOREM MagicIsAbsence == Spec => []MagicMarksAbsence
<1>1. TypeInv /\ MarkInv /\ [Next]_vars => MarkInv'
  <2> SUFFICES ASSUME TypeInv, MarkInv, [Next]_vars PROVE MarkInv'
    OBVIOUS
  <2>1. CASE Tick \/ UNCHANGED vars
    BY <2>1 DEF Tick, vars, MarkInv, SvPlain, Posted, memVars, dbVars, history
  <2> QED
    BY <2>1, MarkServer, MarkMain, MarkCrash DEF Next
<1>2. MarkInv => MagicMarksAbsence
  BY DEF MarkInv, MagicMarksAbsence, Plain, Posted
<1> QED
  BY <1>1, <1>2, TypeInit, TypeStep, MarkInit, PTL DEF Spec

-----------------------------------------------------------------------------
\* Which ways an enqueued set can leave.  run_query drops a query it cannot
\* prepare, so the table has to be there, or be on its way: its CREATE is
\* ahead of everything else, in the queue or with the main thread, until it
\* is put back or fails.

Boot == Id("init_db", NoKey)

BootFirst ==
  /\ \E q \in ToSet(wq) : q.id = Boot /\ q.ts = 0
  /\ \A id : id # Boot => Before(wq, Boot, id)

\* While init_db waits where the boot put it, it is the first.
DueInv == now # 0 /\ (table = TRUE \/ ~ BootDue \/ BootFirst)

BootInv ==
  \/ table = TRUE
  \/ InFlight(Boot) /\ ~ Queued(wq, Boot)
  \/ BootFirst

\* It never comes back from an error: no table, and nobody to make one.
NoTable == table = FALSE /\ mn.pc = "idle" /\ ~ Queued(wq, Boot)

\* The main thread puts init_db back, behind what was queued since.
PutsBackBoot == Resched /\ mn.q.id = Boot

\* A pop that runs what it takes.
Takes ==
  \E i \in DOMAIN wq :
    /\ IsTop(wq, i) /\ wq[i].ts <= now /\ wq' = PopAt(wq, i)
    /\ mn'.q = wq[i]
    /\ mn'.pc = IF wq[i].id.kind = "del" THEN "evict" ELSE "step"

\* Of two queries that are due at the same time the earlier is taken.
LEMMA EarlierIsTaken ==
  ASSUME wq \in Seq(Query), NEW i \in DOMAIN wq, IsTop(wq, i),
         NEW p \in ToSet(wq), p.ts = wq[i].ts, p.id # wq[i].id
  PROVE  ~ Before(wq, p.id, wq[i].id)
<1>1. PICK n \in DOMAIN wq : wq[n] = p
  BY DEF ToSet
<1>2. DOMAIN wq = 1 .. Len(wq) /\ Len(wq) \in Nat
  BY LenProperties
<1>3. DOMAIN wq \in SUBSET Nat
  BY <1>2
<1>4. p \in Query
  BY <1>1, ElementOfSeq, LenProperties
<1>5. wq[n].ts \in Nat
  BY <1>1, <1>4 DEF Query
<1> QED
  BY <1>1, <1>3, <1>5, FirstIsTaken

\* Removing or replacing queries with another id leaves a set queued.
LEMMA OthersStayQueued ==
  ASSUME NEW w \in Seq(Query), UniqueIds(w), NEW id, Queued(w, id)
  PROVE  /\ \A q \in Query : Queued(Enqueue(w, q), id)
         /\ \A other : other # id => Queued(RemoveQuery(w, other), id)
         /\ \A i \in DOMAIN w : w[i].id # id => Queued(PopAt(w, i), id)
<1>1. PICK p \in ToSet(w) : p.id = id
  BY QueuedIsMember
<1>2. ASSUME NEW q \in Query PROVE Queued(Enqueue(w, q), id)
  <2>1. q \in ToSet(Enqueue(w, q)) /\ (q.id # id => p \in ToSet(Enqueue(w, q)))
    BY <1>1, EnqueueProperties
  <2> QED
    BY <1>1, <2>1, QueuedIsMember
<1>3. ASSUME NEW other, other # id PROVE Queued(RemoveQuery(w, other), id)
  <2>1. p \in ToSet(RemoveQuery(w, other))
    BY <1>1, <1>3, RemoveQueryProperties
  <2> QED
    BY <1>1, <2>1, QueuedIsMember
<1>4. ASSUME NEW i \in DOMAIN w, w[i].id # id PROVE Queued(PopAt(w, i), id)
  <2>1. p \in ToSet(PopAt(w, i))
    BY <1>1, <1>4, PopProperties
  <2> QED
    BY <1>1, <2>1, QueuedIsMember
<1> QED
  BY <1>2, <1>3, <1>4

\* All a server does to the queue, and it does nothing else to the database.
LEMMA ServerQueues ==
  ASSUME TypeInv, NEW s \in Servers, Receive(s) \/ Handle(s)
  PROVE  /\ UNCHANGED <<mn, db, table>>
         /\ \/ wq' = wq
            \/ \E q \in Query : q.id.kind \in {"set", "del"} /\ wq' = Enqueue(wq, q)
            \/ wq' = RemoveQuery(wq, Id("del", sv[s].key))
<1>a. sv[s] \in Request /\ (sv[s].pc \notin Keyless => sv[s].key \in Keys)
  BY DEF TypeInv, TypeOK
<1>b. sv[s].data \in Data /\ sv[s].got \in Data
  BY <1>a DEF Request
<1>c. UNCHANGED <<mn, db, table>>
  BY DEF Receive, ReceiveGet, ReceiveGetAll, ReceivePost, ReceiveDelete, Accept,
         Handle, LookUp, Read, Reset, Schedule, Check, Fill, Put, EnqSet, EnqDel,
         Evict, EnqNow, ListAll, ReadAll, ResetAll, SetAll, dbVars
<1>d. \A k, d, at : /\ SetQuery(k, d).id.kind = "set"
                    /\ DelQuery(k, at).id.kind = "del"
  BY DEF SetQuery, DelQuery, Id
<1>1. CASE Schedule(s)
  <2>1. DelQuery(sv[s].key, ExpiresAt(sv[s].got)) \in Query
    BY <1>a, <1>b, <1>1, QueryTypes, StoredType DEF Schedule, At, Keyless
  <2> QED
    BY <1>1, <1>c, <1>d, <2>1 DEF Schedule
<1>2. CASE EnqSet(s)
  <2>1. SetQuery(sv[s].key, sv[s].data) \in Query
    BY <1>a, <1>b, <1>2, QueryTypes DEF EnqSet, At, Keyless
  <2> QED
    BY <1>2, <1>c, <1>d, <2>1 DEF EnqSet
<1>3. CASE EnqDel(s)
  <2>1. DelQuery(sv[s].key, ExpiresAt(sv[s].data)) \in Query
    BY <1>a, <1>b, <1>3, QueryTypes, StoredType DEF EnqDel, At, Keyless
  <2> QED
    BY <1>3, <1>c, <1>d, <2>1 DEF EnqDel
<1>4. CASE EnqNow(s)
  <2>1. DelQuery(sv[s].key, 0) \in Query
    BY <1>a, <1>4, QueryTypes DEF EnqNow, At, Keyless
  <2> QED
    BY <1>4, <1>c, <1>d, <2>1 DEF EnqNow
<1>5. CASE Receive(s)
  BY <1>5, <1>c DEF Receive, ReceiveGet, ReceiveGetAll, ReceivePost, ReceiveDelete, Accept
<1> QED
  BY <1>1, <1>2, <1>3, <1>4, <1>5, <1>c
  DEF Handle, LookUp, Read, Reset, Check, Fill, Put, Evict, ListAll, ReadAll,
      ResetAll, SetAll

LEMMA ServerKeepsSets ==
  ASSUME TypeInv, NEW s \in Servers, Receive(s) \/ Handle(s),
         NEW k \in Keys, SetPending(k)
  PROVE  SetPending(k)'
<1> DEFINE id == Id("set", k)
<1>a. wq \in Seq(Query) /\ UniqueIds(wq)
  BY DEF TypeInv, TypeOK, QueueIdsUnique
<1>b. Id("del", sv[s].key) # id
  BY DEF Id
<1>1. CASE Queued(wq, id)
  <2>1. Queued(wq', id)
    BY <1>1, <1>a, <1>b, ServerQueues, OthersStayQueued
  <2> QED
    BY <2>1 DEF SetPending
<1>2. CASE InFlight(id)
  BY <1>2, ServerQueues DEF SetPending, InFlight
<1> QED
  BY <1>1, <1>2 DEF SetPending

LEMMA NotQueuedStays ==
  ASSUME NEW w \in Seq(Query), UniqueIds(w), NEW id, ~ Queued(w, id)
  PROVE  /\ \A q \in Query : q.id # id => ~ Queued(Enqueue(w, q), id)
         /\ \A other : ~ Queued(RemoveQuery(w, other), id)
         /\ \A i \in DOMAIN w : ~ Queued(PopAt(w, i), id)
<1>1. \A p \in ToSet(w) : p.id # id
  BY QueuedIsMember
<1>2. ASSUME NEW q \in Query, q.id # id PROVE ~ Queued(Enqueue(w, q), id)
  <2>1. \A p \in ToSet(Enqueue(w, q)) : p = q \/ p \in ToSet(w)
    BY EnqueueProperties
  <2> QED
    BY <1>1, <1>2, <2>1, QueuedIsMember
<1>3. ASSUME NEW other PROVE ~ Queued(RemoveQuery(w, other), id)
  <2>1. ToSet(RemoveQuery(w, other)) \subseteq ToSet(w)
    BY RemoveQueryProperties
  <2> QED
    BY <1>1, <2>1, QueuedIsMember
<1>4. ASSUME NEW i \in DOMAIN w PROVE ~ Queued(PopAt(w, i), id)
  <2>1. \A p \in ToSet(PopAt(w, i)) : p \in ToSet(w)
    BY PopProperties
  <2> QED
    BY <1>1, <2>1, QueuedIsMember
<1> QED
  BY <1>2, <1>3, <1>4

LEMMA MainKeepsSets ==
  ASSUME TypeInv, Main, Pop => Takes, NEW k \in Keys, SetPending(k), ~ SetPending(k)'
  PROVE  InFlight(Id("set", k)) /\ (db'[k] = mn.q.data \/ errors' # errors)
<1> DEFINE id == Id("set", k)
<1>a. /\ wq \in Seq(Query) /\ UniqueIds(wq) /\ mn.q \in Query
      /\ db \in [Keys -> Data] /\ mn \in [pc : MainPcs, q : Query, cts : Nat]
  BY DEF TypeInv, TypeOK, QueueIdsUnique
<1>1. CASE Pop
  <2>1. PICK i \in DOMAIN wq :
          /\ wq' = PopAt(wq, i)
          /\ mn'.q = wq[i] /\ mn'.pc \in {"evict", "step"}
    BY <1>1 DEF Takes
  <2>2. Queued(wq, id)
    BY <1>1 DEF Pop, SetPending, InFlight
  <2>3. wq[i].id = id => InFlight(id)'
    BY <2>1 DEF InFlight
  <2>4. wq[i].id # id => Queued(wq', id)
    BY <1>a, <2>1, <2>2, OthersStayQueued
  <2> QED
    BY <2>3, <2>4 DEF SetPending
<1>2. CASE EvictMem \/ Step
  <2>1. wq' = wq /\ mn.pc # "idle"
    BY <1>2 DEF EvictMem, Step
  <2>2. InFlight(id) /\ ~ InFlight(id)'
    BY <2>1 DEF SetPending
  <2>3. mn.q.id.kind = "set"
    BY <2>2 DEF InFlight, Id
  <2>4. mn'.q = mn.q /\ mn'.pc # "idle"
    BY <1>2, <1>a, <2>3 DEF EvictMem, Step, Dirties
  <2> QED
    BY <2>2, <2>4 DEF InFlight
<1>3. CASE Commit
  <2>1. wq' = wq /\ db' = Written
    BY <1>3 DEF Commit
  <2>2. InFlight(id)
    BY <2>1 DEF SetPending
  <2>3. mn.q.id.kind = "set" /\ mn.q.id.key = k
    BY <2>2 DEF InFlight, Id
  <2>4. Written[k] = mn.q.data
    BY <1>a, <2>3 DEF Written
  <2> QED
    BY <2>1, <2>2, <2>4
<1>4. CASE Resched
  <2> DEFINE q == [mn.q EXCEPT !.ts = now + RetryDelay]
  <2>0. now + RetryDelay \in Nat
    BY TimeAssumption DEF TypeInv, TypeOK
  <2>1. q \in Query /\ q.id = mn.q.id
    BY <1>a, <2>0 DEF Query
  <2>2. wq' = Enqueue(wq, q)
    BY <1>4 DEF Resched
  <2> HIDE DEF q
  <2>3. Queued(wq, id) => Queued(wq', id)
    BY <1>a, <2>1, <2>2, OthersStayQueued
  <2>4. q \in ToSet(wq')
    BY <1>a, <2>1, <2>2, EnqueueProperties
  <2>5. InFlight(id) => Queued(wq', id)
    BY <2>1, <2>4, QueuedIsMember DEF InFlight
  <2> QED
    BY <2>3, <2>5 DEF SetPending
<1>5. CASE GiveUp
  <2>1. wq' = wq /\ errors' = errors + 1 /\ errors \in Nat
    BY <1>5 DEF GiveUp, TypeInv, TypeOK
  <2> QED
    BY <2>1 DEF SetPending
<1> QED
  BY <1>1, <1>2, <1>3, <1>4, <1>5 DEF Main

\* Queueing or removing other queries leaves init_db in front.
LEMMA BootStaysFirst ==
  ASSUME wq \in Seq(Query), UniqueIds(wq), BootFirst,
         \/ \E q \in Query : q.id # Boot /\ wq' = Enqueue(wq, q)
         \/ \E id : id # Boot /\ wq' = RemoveQuery(wq, id)
  PROVE  BootFirst'
<1>1. PICK p \in ToSet(wq) : p.id = Boot /\ p.ts = 0
  BY DEF BootFirst
<1>2. CASE \E q \in Query : q.id # Boot /\ wq' = Enqueue(wq, q)
  <2>1. PICK q \in Query : q.id # Boot /\ wq' = Enqueue(wq, q)
    BY <1>2
  <2>2. p \in ToSet(wq')
    BY <1>1, <2>1, EnqueueProperties
  <2>3. \A id : id # Boot => Before(wq', Boot, id)
    BY <2>1, EnqueueKeepsOrder DEF BootFirst
  <2> QED
    BY <1>1, <2>2, <2>3 DEF BootFirst
<1>3. CASE \E id : id # Boot /\ wq' = RemoveQuery(wq, id)
  <2>1. PICK other : other # Boot /\ wq' = RemoveQuery(wq, other)
    BY <1>3
  <2>2. p \in ToSet(wq')
    BY <1>1, <2>1, RemoveQueryProperties
  <2>3. \A id : id # Boot => Before(wq', Boot, id)
    BY <2>1, RemoveKeepsOrder DEF BootFirst
  <2> QED
    BY <1>1, <2>2, <2>3 DEF BootFirst
<1> QED
  BY <1>2, <1>3

LEMMA BootAtFirst ==
  /\ \E q \in ToSet(BootQueue) : q.id = Boot /\ q.ts = 0
  /\ \A id : id # Boot => Before(BootQueue, Boot, id)
<1> DEFINE w == BootQueue
<1>1. /\ DOMAIN w = {1, 2} /\ w[1].id = Boot /\ w[1].ts = 0
      /\ w[2].id # Boot
  BY DEF BootQueue, BootQuery, Boot, Id
<1> HIDE DEF w
<1>2. \E q \in ToSet(w) : q.id = Boot /\ q.ts = 0
  BY <1>1 DEF ToSet
<1>3. \A id : id # Boot => Before(w, Boot, id)
  BY <1>1 DEF Before
<1> QED
  BY <1>2, <1>3 DEF w

LEMMA PopTakes == TypeInv /\ table = TRUE /\ Pop => Takes
  BY DEF Pop, Takes

\* While it is the first, it is what the main thread takes.
LEMMA FirstTaken ==
  ASSUME TypeInv, BootFirst, Pop
  PROVE  Takes /\ InFlight(Boot)' /\ ~ Queued(wq', Boot)
<1>1. PICK i \in DOMAIN wq :
        /\ IsTop(wq, i) /\ wq[i].ts <= now /\ wq' = PopAt(wq, i)
        /\ mn' = IF wq[i].id.kind # "init_db" /\ ~ table THEN IdleMain
                 ELSE [pc |-> IF wq[i].id.kind = "del" THEN "evict" ELSE "step",
                       q |-> wq[i],
                       cts |-> IF wq[i].id.kind = "delete_expires" THEN now ELSE 0]
  BY DEF Pop
<1>2. PICK p \in ToSet(wq) : p.id = Boot /\ p.ts = 0
  BY DEF BootFirst
<1>3. wq \in Seq(Query) /\ UniqueIds(wq)
  BY DEF TypeInv, TypeOK, QueueIdsUnique
<1>4. wq[i].ts = 0
  <2>1. wq[i].ts \in Nat
    <3>1. wq[i] \in Query
      BY <1>1, <1>3, ElementOfSeq, LenProperties
    <3> QED
      BY <3>1 DEF Query
  <2>2. PICK n \in DOMAIN wq : wq[n] = p
    BY DEF ToSet
  <2>3. wq[i].ts <= wq[n].ts
    BY <1>1 DEF IsTop
  <2> QED
    BY <1>2, <2>1, <2>2, <2>3
<1>5. wq[i].id = Boot
  BY <1>1, <1>2, <1>3, <1>4, EarlierIsTaken DEF BootFirst
<1>6. mn'.q = wq[i] /\ mn'.pc = "step" /\ wq[i].id.kind = "init_db"
  BY <1>1, <1>5 DEF Boot, Id
<1>7. ~ Queued(wq', Boot)
  BY <1>1, <1>3, <1>5, PopProperties
<1> QED
  BY <1>1, <1>5, <1>6, <1>7 DEF Takes, InFlight

LEMMA BootTakes ==
  ASSUME TypeInv, BootInv, Pop
  PROVE  Takes /\ (table = TRUE \/ (InFlight(Boot)' /\ ~ Queued(wq', Boot)))
<1>1. CASE table = TRUE
  BY <1>1, PopTakes
<1>2. CASE table # TRUE
  <2>1. BootFirst
    BY <1>2 DEF BootInv, InFlight, Pop
  <2> QED
    BY <2>1, FirstTaken
<1> QED
  BY <1>1, <1>2

LEMMA DueTakes ==
  ASSUME TypeInv, DueInv, Pop, table \/ BootDue
  PROVE  Takes
<1>1. table = TRUE \/ (table = FALSE /\ BootDue)
  BY DEF TypeInv, TypeOK
<1> QED
  BY <1>1, PopTakes, FirstTaken DEF DueInv

LEMMA DueMember == BootDue <=> BootQuery("init_db") \in ToSet(wq)
  BY DEF BootDue, ToSet

LEMMA DueInit == Init => DueInv
  BY BootAtFirst, TimeAssumption DEF Init, DueInv, BootFirst

\* Nothing but a restart queues init_db for time 0.
LEMMA DueStep == TypeInv /\ DueInv /\ [Next]_vars => DueInv'
<1> SUFFICES ASSUME TypeInv, DueInv, [Next]_vars PROVE DueInv'
  OBVIOUS
<1>a. /\ wq \in Seq(Query) /\ UniqueIds(wq) /\ mn.q \in Query /\ table \in BOOLEAN
      /\ now \in Nat /\ now # 0
  BY DEF TypeInv, TypeOK, QueueIdsUnique, DueInv
<1>b. BootQuery("init_db").id = Boot /\ BootQuery("init_db").ts = 0
  BY DEF BootQuery, Boot
<1>n. now' # 0
  <2>1. ASSUME NEW s \in Servers, Receive(s) \/ Handle(s) PROVE now' = now
    BY <2>1, Receives
    DEF Accept, Handle, LookUp, Read, Reset, Schedule, Check, Fill, Put, EnqSet,
        EnqDel, Evict, EnqNow, ListAll, ReadAll, ResetAll, SetAll, boundVars
  <2>2. Main \/ Crash \/ UNCHANGED vars => now' = now
    BY DEF Main, Pop, EvictMem, Step, Commit, Resched, GiveUp, Crash, vars, boundVars
  <2>3. Tick => now' = now + 1
    BY DEF Tick
  <2> QED
    BY <1>a, <2>1, <2>2, <2>3 DEF Next
\* A step that queues another query, or none, does not touch init_db.
<1>c. ASSUME UNCHANGED table,
             \/ wq' = wq
             \/ \E q \in Query : q.id # Boot /\ wq' = Enqueue(wq, q)
             \/ \E id : id # Boot /\ wq' = RemoveQuery(wq, id)
      PROVE  DueInv'
  <2>1. BootFirst => BootFirst'
    BY <1>a, <1>c, BootStaysFirst DEF BootFirst
  <2>2. BootDue' => BootDue
    <3>1. ASSUME NEW q \in Query, q.id # Boot, wq' = Enqueue(wq, q) PROVE BootDue' => BootDue
      <4> SUFFICES ASSUME NEW j \in DOMAIN wq', wq'[j] = BootQuery("init_db")
                   PROVE  BootDue
        BY DEF BootDue
      <4>1. \A p \in ToSet(wq') : p = q \/ p \in ToSet(wq)
        BY <1>a, <3>1, EnqueueProperties
      <4>2. wq'[j] \in ToSet(wq')
        BY DEF ToSet
      <4> QED
        BY <1>b, <3>1, <4>1, <4>2, DueMember
    <3>2. ASSUME NEW id, id # Boot, wq' = RemoveQuery(wq, id) PROVE BootDue' => BootDue
      <4> SUFFICES ASSUME NEW j \in DOMAIN wq', wq'[j] = BootQuery("init_db")
                   PROVE  BootDue
        BY DEF BootDue
      <4>1. ToSet(wq') \subseteq ToSet(wq)
        BY <1>a, <3>2, RemoveQueryProperties
      <4>2. wq'[j] \in ToSet(wq')
        BY DEF ToSet
      <4> QED
        BY <4>1, <4>2, DueMember
    <3> QED BY <1>c, <3>1, <3>2 DEF BootDue
  <2> QED
    BY <1>c, <1>n, <2>1, <2>2 DEF DueInv
<1>1. CASE \E s \in Servers : Receive(s) \/ Handle(s)
  <2>1. PICK s \in Servers : Receive(s) \/ Handle(s)
    BY <1>1
  <2>2. Boot.kind = "init_db" /\ Id("del", sv[s].key) # Boot
    BY DEF Boot, Id
  <2> QED
    BY <1>c, <2>1, <2>2, ServerQueues
<1>2. CASE Pop
  <2>1. UNCHANGED table
    BY <1>2 DEF Pop, dbVars
  <2>2. PICK i \in DOMAIN wq : wq' = PopAt(wq, i)
    BY <1>2 DEF Pop
  <2>3. \A q \in ToSet(wq') : q \in ToSet(wq)
    BY <1>a, <2>2, PopProperties
  <2>4. BootDue' => BootDue /\ Queued(wq', Boot)
    <3> SUFFICES ASSUME NEW j \in DOMAIN wq', wq'[j] = BootQuery("init_db")
                 PROVE  BootDue /\ Queued(wq', Boot)
      BY DEF BootDue
    <3>1. BootQuery("init_db") \in ToSet(wq)
      BY <2>3 DEF ToSet
    <3> QED
      BY <1>b, <3>1, DueMember DEF Queued
  <2>5. table # TRUE => ~ BootDue'
    BY <1>2, <2>4, FirstTaken DEF DueInv
  <2> QED
    BY <1>n, <2>1, <2>5 DEF DueInv
<1>3. CASE EvictMem \/ Step \/ GiveUp \/ Tick \/ UNCHANGED vars
  BY <1>3, <1>c DEF EvictMem, Step, GiveUp, Tick, vars, dbVars
<1>4. CASE Commit
  BY <1>4, <1>n DEF Commit, DueInv
<1>5. CASE Resched
  <2> DEFINE q == [mn.q EXCEPT !.ts = now + RetryDelay]
  <2>1. now + RetryDelay \in Nat /\ now + RetryDelay # 0
    BY <1>a, TimeAssumption
  <2>2. q \in Query /\ q.id = mn.q.id /\ q.ts # 0
    BY <1>a, <2>1 DEF Query
  <2>3. wq' = Enqueue(wq, q) /\ table' = table
    BY <1>5 DEF Resched, dbVars
  <2> HIDE DEF q
  <2>4. CASE mn.q.id # Boot
    BY <1>c, <2>2, <2>3, <2>4
  <2>5. CASE mn.q.id = Boot
    <3>1. \A p : p \in ToSet(Enqueue(wq, q)) <=> p = q \/ (p \in ToSet(wq) /\ p.id # q.id)
      BY <1>a, <2>2, EnqueueProperties
    <3>2. ~ BootDue'
      BY <1>b, <2>2, <2>3, <2>5, <3>1 DEF BootDue, ToSet
    <3> QED
      BY <1>n, <3>2 DEF DueInv
  <2> QED
    BY <2>4, <2>5
<1>6. CASE Crash
  <2>1. wq' = BootQueue
    BY <1>6 DEF Crash
  <2> QED
    BY <1>n, <2>1, BootAtFirst DEF DueInv, BootFirst
<1> QED
  BY <1>1, <1>2, <1>3, <1>4, <1>5, <1>6 DEF Next, Main

\* A pending set leaves by being committed, by a crash, by an error, or for
\* want of a table.
LEMMA SetsLeave ==
  ASSUME TypeInv, DueInv, [Next]_vars, NEW k \in Keys,
         SetPending(k), ~ SetPending(k)'
  PROVE  \/ crashes' # crashes
         \/ InFlight(Id("set", k)) /\ db'[k] = mn.q.data
         \/ InFlight(Id("set", k)) /\ errors' # errors
         \/ ~ table /\ ~ BootDue
<1>1. CASE \E s \in Servers : Receive(s) \/ Handle(s)
  BY <1>1, ServerKeepsSets
<1>2. CASE Main
  BY <1>2, MainKeepsSets, DueTakes
<1>3. CASE Tick \/ UNCHANGED vars
  BY <1>3 DEF Tick, vars, SetPending, InFlight
<1>4. CASE Crash
  <2>1. crashes \in Nat
    BY DEF TypeInv, TypeOK
  <2> QED
    BY <1>4, <2>1 DEF Crash
<1> QED
  BY <1>1, <1>2, <1>3, <1>4 DEF Next

\* An enqueued set leaves in four ways only (CacheMe!PendingSetsSurvive), for
\* any requests, servers, ttls, crashes, errors and clock, and on any
\* database: SQLITE_BUSY, rescheduling and replacement never lose it.
THEOREM SetsSurvive == Spec => PendingSetsSurvive
<1>1. TypeInv /\ DueInv /\ [Next]_vars
        => [\A k \in Keys :
              SetPending(k) /\ ~ SetPending(k)'
                => \/ crashes' # crashes
                   \/ InFlight(Id("set", k)) /\ db'[k] = mn.q.data
                   \/ InFlight(Id("set", k)) /\ errors' # errors
                   \/ ~ table /\ ~ BootDue]_vars
  BY SetsLeave
<1> QED
  BY <1>1, TypeInit, TypeStep, DueInit, DueStep, PTL DEF Spec, PendingSetsSurvive

LEMMA BootStep ==
  TypeInv /\ BootInv /\ [Next /\ ~ PutsBackBoot]_vars => BootInv' \/ (GiveUp /\ NoTable')
<1> SUFFICES ASSUME TypeInv, BootInv, [Next /\ ~ PutsBackBoot]_vars
             PROVE  BootInv' \/ (GiveUp /\ NoTable')
  OBVIOUS
<1>a. /\ wq \in Seq(Query) /\ UniqueIds(wq) /\ mn.q \in Query
      /\ mn \in [pc : MainPcs, q : Query, cts : Nat] /\ table \in BOOLEAN
  BY DEF TypeInv, TypeOK, QueueIdsUnique
<1>1. CASE \E s \in Servers : Receive(s) \/ Handle(s)
  <2>1. PICK s \in Servers : Receive(s) \/ Handle(s)
    BY <1>1
  <2>2. Boot.kind = "init_db" /\ Id("del", sv[s].key) # Boot
    BY DEF Boot, Id
  <2>3. BootFirst => BootFirst'
    <3>1. CASE wq' = wq
      BY <3>1 DEF BootFirst
    <3>2. CASE wq' # wq
      BY <1>a, <2>1, <2>2, <3>2, ServerQueues, BootStaysFirst
    <3> QED
      BY <3>1, <3>2
  <2>4. ~ Queued(wq, Boot) => ~ Queued(wq', Boot)
    BY <1>a, <2>1, <2>2, ServerQueues, NotQueuedStays
  <2> QED
    BY <2>1, <2>3, <2>4, ServerQueues DEF BootInv, InFlight
<1>2. CASE Pop
  BY <1>2, BootTakes DEF BootInv, Pop, dbVars
<1>3. CASE EvictMem
  <2>1. mn'.q = mn.q /\ mn'.pc = "step" /\ UNCHANGED <<wq, table>>
    BY <1>3, <1>a DEF EvictMem, dbVars
  <2> QED
    BY <2>1 DEF BootInv, InFlight, BootFirst
<1>4. CASE Step
  <2>1. UNCHANGED <<wq, table>>
    BY <1>4 DEF Step, dbVars
  <2>2. CASE Dirties
    <3>1. mn'.q = mn.q /\ mn'.pc \in {"commit", "resched"}
      BY <1>4, <1>a, <2>2 DEF Step
    <3> QED
      BY <2>1, <3>1 DEF BootInv, InFlight, BootFirst
  <2>3. CASE ~ Dirties
    <3>1. InFlight(Boot) => table = TRUE
      BY <1>a, <2>3 DEF InFlight, Dirties, Boot, Id
    <3> QED
      BY <2>1, <3>1 DEF BootInv, BootFirst
  <2> QED
    BY <2>2, <2>3
<1>5. CASE Commit
  BY <1>5 DEF Commit, BootInv
<1>6. CASE Resched
  <2>1. mn.q.id # Boot
    BY <1>6, <1>a DEF PutsBackBoot, Resched, vars, IdleMain
  <2> DEFINE q == [mn.q EXCEPT !.ts = now + RetryDelay]
  <2>2. q \in Query /\ q.id = mn.q.id
    <3>1. now + RetryDelay \in Nat
      BY TimeAssumption DEF TypeInv, TypeOK
    <3> QED
      BY <1>a, <3>1 DEF Query
  <2>3. wq' = Enqueue(wq, q) /\ table' = table
    BY <1>6 DEF Resched, dbVars
  <2> HIDE DEF q
  <2>4. BootFirst => BootFirst'
    BY <1>a, <2>1, <2>2, <2>3, BootStaysFirst
  <2> QED
    BY <2>1, <2>3, <2>4 DEF BootInv, InFlight
<1>7. CASE Tick \/ UNCHANGED vars
  BY <1>7 DEF Tick, vars, dbVars, BootInv, InFlight, BootFirst
<1>8. CASE Crash
  <2>1. wq' = BootQueue
    BY <1>8 DEF Crash
  <2> QED
    BY <2>1, BootAtFirst DEF BootInv, BootFirst
<1>9. CASE GiveUp
  <2>1. UNCHANGED <<wq, table>> /\ mn.pc # "idle" /\ mn' = IdleMain
    BY <1>9 DEF GiveUp, dbVars
  <2>2. CASE table = TRUE \/ BootFirst
    BY <2>1, <2>2 DEF BootInv, BootFirst
  <2>3. CASE table # TRUE /\ ~ BootFirst
    BY <1>9, <1>a, <2>1, <2>3 DEF BootInv, NoTable, IdleMain
  <2> QED
    BY <2>2, <2>3
<1> QED
  BY <1>1, <1>2, <1>3, <1>4, <1>5, <1>6, <1>7, <1>8, <1>9 DEF Next, Main

LEMMA BootInit == Init => BootInv
  BY BootAtFirst DEF Init, BootInv, BootFirst

LEMMA WriterBoots ==
  TypeInv /\ WriterInv /\ BootInv /\ [Next /\ ~ GiveUp]_vars => BootInv'
<1> SUFFICES ASSUME TypeInv, WriterInv, BootInv, [Next /\ ~ GiveUp]_vars PROVE BootInv'
  OBVIOUS
<1>1. CASE UNCHANGED vars
  BY <1>1 DEF vars, dbVars, BootInv, InFlight, BootFirst
<1>2. CASE ~ UNCHANGED vars
  BY <1>2, BootStep DEF WriterInv, PutsBackBoot, Resched
<1> QED
  BY <1>1, <1>2

-----------------------------------------------------------------------------
\* Writers whose requests for a key do not overlap never forget an eviction.
\* The strengthening adds what memory holds while a POST is between its steps:
\* its own record, or nothing when the main thread has just evicted the key.

\* No two requests for the same key are handled at the same time; those for
\* the whole list may be.
NoOverlap ==
  \A s, t \in Servers : s # t /\ sv[s].pc # "idle" /\ sv[t].pc # "idle"
                          => sv[s].key # sv[t].key \/ sv[s].key = NoKey

LEMMA OneServerIsAlone == (\E s : Servers = {s}) => NoOverlap
  BY DEF NoOverlap

\* A step of a server leaves the others alone, and they are at other keys.
LEMMA OthersElsewhere ==
  ASSUME TypeInv, NoOverlap, NEW s \in Servers, Receive(s) \/ Handle(s)
  PROVE  \A t \in Servers : t # s =>
           /\ sv'[t] = sv[t]
           /\ sv[t].pc \notin Keyless => sv[t].key \in Keys
           /\ sv[s].pc # "idle" /\ sv[t].pc \notin Keyless => sv[t].key # sv[s].key
<1>1. \E r : sv' = [sv EXCEPT ![s] = r] \/ sv' = [sv EXCEPT ![s].pc = r]
  BY DEF Receive, ReceiveGet, ReceiveGetAll, ReceivePost, ReceiveDelete, Accept,
         Handle, LookUp, Read, Reset, Schedule, Check, Fill, Put, EnqSet, EnqDel,
         Evict, EnqNow, ListAll, ReadAll, ResetAll, SetAll, Answer, Found, FoundAll,
         Goto, Reply
<1>2. \A t \in Servers : t # s => sv'[t] = sv[t]
  BY <1>1 DEF TypeInv, TypeOK
<1>3. \A t \in Servers : sv[t].pc \notin Keyless => sv[t].key \in Keys /\ sv[t].pc # "idle"
  BY DEF TypeInv, TypeOK, Keyless
<1> QED
  BY <1>2, <1>3, KeyAssumption DEF NoOverlap

Scheduled(k) ==
  \/ \E q \in ToSet(wq) : q.id = Id("del", k) /\ q.ts <= mcache[k].expires_at
  \/ mn.pc = "evict" /\ mn.q.id = Id("del", k)
  \/ \E s \in Servers : sv[s].key = k /\ (At(s, "enq_set") \/ At(s, "enq_del"))

EvictInv ==
  /\ \A s \in Servers : At(s, "enq_set") \/ At(s, "enq_del")
                          => mcache[sv[s].key] \in {sv[s].data, Blank}
  /\ \A k \in Keys : ExpiresAt(mcache[k]) # 0 => Scheduled(k)

LEMMA NothingExpires == ExpiresAt(Blank) = 0
  BY DEF ExpiresAt, Blank

LEMMA EvictFresh ==
  ASSUME mcache = NoRows, \A s \in Servers : At(s, "idle")
  PROVE  EvictInv
  BY NothingExpires DEF EvictInv, NoRows, At

LEMMA WriterReceives ==
  ASSUME Ops \subseteq {"post", "delete"}, NEW s \in Servers, Receive(s)
  PROVE  \E op, pc, key, d : pc \in {"put", "evict"} /\ Accept(s, op, pc, key, d)
<1>1. ~ ReceiveGet(s) /\ ~ ReceiveGetAll(s)
  BY DEF ReceiveGet, ReceiveGetAll, Accept
<1>2. ReceivePost(s) => \E key, d : Accept(s, "post", "put", key, d)
  <2> SUFFICES ASSUME ReceivePost(s) PROVE \E key, d : Accept(s, "post", "put", key, d)
    OBVIOUS
  <2>1. PICK key \in Keys, v \in Values, ttl \in TTLs :
          LET d == [value |-> v, expires_at |-> Deadline(now, ttl)]
          IN  \/ Accept(s, "post", "put", key, d)
              \/ Accept(s, "get_or_set", "get", key, d)
    BY DEF ReceivePost
  <2> QED
    BY <2>1 DEF Accept
<1>3. ReceiveDelete(s) => \E key, d : Accept(s, "delete", "evict", key, d)
  BY DEF ReceiveDelete
<1> QED
  BY <1>1, <1>2, <1>3 DEF Receive

LEMMA EvictServer ==
  ASSUME TypeInv, WriterInv, NoOverlap, EvictInv, Ops \subseteq {"post", "delete"},
         NEW s \in Servers, Receive(s) \/ Handle(s)
  PROVE  EvictInv'
<1> DEFINE k == sv[s].key
<1>a. /\ sv \in [Servers -> Request] /\ sv[s] \in Request
      /\ sv[s].pc \in WriterPcs /\ (sv[s].pc \notin Keyless => k \in Keys)
      /\ wq \in Seq(Query) /\ UniqueIds(wq) /\ mcache \in [Keys -> Data]
  BY DEF TypeInv, TypeOK, QueueIdsUnique, WriterInv, NoReaders
<1>b. /\ \A t \in Servers : t # s => sv'[t] = sv[t]
      /\ \A t \in Servers : t # s /\ (At(t, "enq_set") \/ At(t, "enq_del"))
           => sv[t].key \in Keys /\ (sv[s].pc # "idle" => sv[t].key # k)
  BY OthersElsewhere DEF At, Keyless
<1>1. CASE Receive(s)
  <2>1. PICK op, pc, key, d : pc \in {"put", "evict"} /\ Accept(s, op, pc, key, d)
    BY <1>1, WriterReceives
  <2>2. sv'[s].pc = pc /\ sv[s].pc = "idle"
    BY <1>a, <2>1 DEF Accept, At, IdleServer
  <2>3. ~ (sv'[s].pc = "enq_set" \/ sv'[s].pc = "enq_del")
    BY <2>1, <2>2
  <2>4. \A j \in Keys : Scheduled(j) => Scheduled(j)'
    BY <1>b, <2>1, <2>2 DEF Accept, Scheduled, At, memVars
  <2> QED
    BY <1>b, <2>1, <2>3, <2>4 DEF Accept, EvictInv, At, memVars, dbVars
<1>2. CASE Put(s)
  <2>1. /\ sv'[s].pc = "enq_set" /\ sv'[s].key = k /\ sv'[s].data = sv[s].data
        /\ k \in Keys /\ sv[s].pc = "put"
        /\ mcache' = [mcache EXCEPT ![k] = sv[s].data]
        /\ UNCHANGED <<wq, mn>>
    BY <1>a, <1>2 DEF Put, Goto, At, CacheSet, Keyless, Request, dbVars
  <2>2. mcache'[k] = sv[s].data
    BY <1>a, <2>1
  <2>3. ASSUME NEW j \in Keys, ExpiresAt(mcache'[j]) # 0 PROVE Scheduled(j)'
    <3>1. CASE j = k
      BY <2>1, <3>1 DEF Scheduled, At
    <3>2. CASE j # k
      BY <1>a, <1>b, <2>1, <2>3, <3>2 DEF Scheduled, EvictInv, At
    <3> QED
      BY <3>1, <3>2
  <2> QED
    BY <1>b, <2>1, <2>2, <2>3 DEF EvictInv, At
<1>3. CASE EnqSet(s)
  <2>1. /\ sv'[s].pc = "enq_del" /\ sv'[s].key = k /\ sv'[s].data = sv[s].data
        /\ k \in Keys /\ sv[s].pc = "enq_set" /\ sv[s].data \in Data
        /\ wq' = Enqueue(wq, SetQuery(k, sv[s].data))
        /\ UNCHANGED <<mcache, mn>>
    BY <1>a, <1>3 DEF EnqSet, Goto, At, Keyless, Request, memVars, dbVars
  <2>2. \A p \in ToSet(wq) : p.id.kind = "del" => p \in ToSet(wq')
    <3>1. SetQuery(k, sv[s].data) \in Query /\ SetQuery(k, sv[s].data).id.kind = "set"
      BY <2>1, QueryTypes DEF SetQuery, Id
    <3> QED
      BY <1>a, <2>1, <3>1, EnqueueProperties
  <2>3. ASSUME NEW j \in Keys, Scheduled(j) PROVE Scheduled(j)'
    <3>1. \A p : p.id = Id("del", j) => p.id.kind = "del"
      BY DEF Id
    <3> QED
      BY <1>b, <2>1, <2>2, <2>3, <3>1 DEF Scheduled, At
  <2> QED
    BY <1>b, <2>1, <2>3 DEF EvictInv, At
<1>4. CASE EnqDel(s)
  <2>1. /\ sv'[s].pc = "idle" /\ k \in Keys /\ sv[s].pc = "enq_del"
        /\ sv[s].data \in Data
        /\ IF ExpiresAt(sv[s].data) = 0 THEN wq' = RemoveQuery(wq, Id("del", k))
           ELSE wq' = Enqueue(wq, DelQuery(k, ExpiresAt(sv[s].data)))
        /\ UNCHANGED <<mcache, mn>>
    BY <1>a, <1>4 DEF EnqDel, Reply, At, Keyless, Request, memVars, dbVars, IdleServer
  <2>2. mcache[k] \in {sv[s].data, Blank}
    BY <2>1 DEF EvictInv, At
  <2>3. /\ \A p \in ToSet(wq) : p.id # Id("del", k) => p \in ToSet(wq')
        /\ ExpiresAt(mcache[k]) # 0
             => \E p \in ToSet(wq') : p.id = Id("del", k) /\ p.ts <= mcache[k].expires_at
    <3>1. CASE ExpiresAt(sv[s].data) = 0
      <4>1. ExpiresAt(mcache[k]) = 0
        BY <2>2, <3>1, NothingExpires
      <4> QED
        BY <1>a, <2>1, <3>1, <4>1, RemoveQueryProperties
    <3>2. CASE ExpiresAt(sv[s].data) # 0
      <4> DEFINE q == DelQuery(k, ExpiresAt(sv[s].data))
      <4>1. ExpiresAt(sv[s].data) \in Nat /\ q \in Query
        BY <2>1, QueryTypes, StoredType
      <4>2. q.id = Id("del", k) /\ q.ts = sv[s].data.expires_at /\ q.ts \in Nat
        BY <3>2, <4>1 DEF DelQuery, ExpiresAt
      <4>3. wq' = Enqueue(wq, q)
        BY <2>1, <3>2
      <4> HIDE DEF q
      <4>4. q \in ToSet(wq') /\ \A p \in ToSet(wq) : p.id # q.id => p \in ToSet(wq')
        BY <1>a, <4>1, <4>3, EnqueueProperties
      <4>5. ExpiresAt(mcache[k]) # 0 => mcache[k] = sv[s].data
        BY <2>2, NothingExpires
      <4>6. ExpiresAt(mcache[k]) # 0 => q.ts <= mcache[k].expires_at
        BY <4>2, <4>5
      <4> QED
        BY <4>2, <4>4, <4>6
    <3> QED
      BY <3>1, <3>2
  <2>4. ASSUME NEW j \in Keys, ExpiresAt(mcache'[j]) # 0 PROVE Scheduled(j)'
    <3>1. CASE j = k
      BY <2>1, <2>3, <2>4, <3>1 DEF Scheduled
    <3>2. CASE j # k
      <4>1. Scheduled(j) /\ Id("del", j) # Id("del", k)
        BY <2>1, <2>4, <3>2 DEF EvictInv, Id
      <4> QED
        BY <1>b, <2>1, <2>3, <3>2, <4>1 DEF Scheduled, At
    <3> QED
      BY <3>1, <3>2
  <2> QED
    BY <1>b, <2>1, <2>4 DEF EvictInv, At
<1>5. CASE Evict(s)
  <2>1. /\ sv'[s].pc = "enq_now" /\ k \in Keys /\ sv[s].pc = "evict"
        /\ mcache' = [mcache EXCEPT ![k] = Blank]
        /\ UNCHANGED <<wq, mn>>
    BY <1>a, <1>5 DEF Evict, CacheDel, CacheSet, Goto, At, Keyless, Request, dbVars
  <2>2. ASSUME NEW j \in Keys, ExpiresAt(mcache'[j]) # 0 PROVE Scheduled(j)'
    <3>1. j # k /\ mcache'[j] = mcache[j]
      BY <1>a, <2>1, <2>2, NothingExpires
    <3> QED
      BY <1>b, <2>1, <2>2, <3>1 DEF EvictInv, Scheduled, At
  <2> QED
    BY <1>b, <2>1, <2>2 DEF EvictInv, At
<1>6. CASE EnqNow(s)
  <2> DEFINE q == DelQuery(k, 0)
  <2>1. /\ sv'[s].pc = "idle" /\ k \in Keys /\ sv[s].pc = "enq_now"
        /\ wq' = Enqueue(wq, q)
        /\ UNCHANGED <<mcache, mn>>
    BY <1>a, <1>6 DEF EnqNow, Reply, At, Keyless, Request, memVars, dbVars, IdleServer
  <2>2. q \in Query /\ q.id = Id("del", k) /\ q.ts = 0
    BY <2>1, QueryTypes DEF DelQuery
  <2> HIDE DEF q
  <2>3. q \in ToSet(wq') /\ \A p \in ToSet(wq) : p.id # q.id => p \in ToSet(wq')
    BY <1>a, <2>1, <2>2, EnqueueProperties
  <2>4. ASSUME NEW j \in Keys, ExpiresAt(mcache'[j]) # 0 PROVE Scheduled(j)'
    <3>1. CASE j = k
      <4>1. mcache'[k].expires_at \in Nat
        BY <1>a, <2>1, TsModAssumption DEF Data
      <4>2. q.ts <= mcache'[k].expires_at
        BY <2>2, <4>1
      <4> QED
        BY <2>2, <2>3, <3>1, <4>2 DEF Scheduled
    <3>2. CASE j # k
      <4>1. Scheduled(j) /\ Id("del", j) # q.id
        BY <2>1, <2>2, <2>4, <3>2 DEF EvictInv, Id
      <4> QED
        BY <1>b, <2>1, <2>3, <3>2, <4>1 DEF Scheduled, At
    <3> QED
      BY <3>1, <3>2
  <2> QED
    BY <1>b, <2>1, <2>4 DEF EvictInv, At
<1> QED
  BY <1>a, <1>1, <1>2, <1>3, <1>4, <1>5, <1>6
  DEF Handle, LookUp, Read, Reset, Schedule, Check, Fill, ListAll, ReadAll,
      ResetAll, SetAll, At, WriterPcs

LEMMA EvictMain ==
  ASSUME TypeInv, WriterInv, BootInv, EvictInv, Main, ~ GiveUp
  PROVE  EvictInv'
<1>a. /\ wq \in Seq(Query) /\ UniqueIds(wq) /\ mn.q \in Query
      /\ mcache \in [Keys -> Data] /\ mn \in [pc : MainPcs, q : Query, cts : Nat]
  BY DEF TypeInv, TypeOK, QueueIdsUnique
<1>b. Readers = {}
  BY DEF WriterInv, NoReaders, WriterPcs, Readers, At
<1>1. CASE Pop
  <2>1. PICK i \in DOMAIN wq :
          /\ wq' = PopAt(wq, i)
          /\ mn'.pc = IF wq[i].id.kind = "del" THEN "evict" ELSE "step"
          /\ mn'.q = wq[i]
    BY <1>1, BootTakes DEF Takes
  <2>2. mn.pc = "idle" /\ UNCHANGED <<mcache, sv>>
    BY <1>1 DEF Pop, memVars, dbVars
  <2>3. \A q : q \in ToSet(wq) /\ q # wq[i] => q \in ToSet(wq')
    BY <1>a, <2>1, PopProperties
  <2>4. ASSUME NEW k \in Keys, Scheduled(k) PROVE Scheduled(k)'
    <3>1. Id("del", k).kind = "del"
      BY DEF Id
    <3> QED
      BY <2>1, <2>2, <2>3, <2>4, <3>1 DEF Scheduled, At
  <2> QED
    BY <2>1, <2>2, <2>4 DEF EvictInv, At
<1>2. CASE EvictMem
  <2> DEFINE key == mn.q.id.key
  <2>1. /\ mn'.pc = "step" /\ mcache' = [mcache EXCEPT ![key] = Blank]
        /\ UNCHANGED <<wq, sv>>
    BY <1>2, <1>a DEF EvictMem, CacheDel, CacheSet, dbVars
  <2>2. mn.q.id = Id("del", key) /\ key \in Keys
    BY <1>2, <1>a DEF EvictMem, TypeInv, TypeOK, Query, Ids, Id
  <2>3. ASSUME NEW k \in Keys, ExpiresAt(mcache'[k]) # 0 PROVE Scheduled(k)'
    <3>1. k # key /\ mcache'[k] = mcache[k]
      BY <1>a, <2>1, <2>3, NothingExpires
    <3>2. mn.q.id # Id("del", k)
      BY <2>2, <3>1 DEF Id
    <3> QED
      BY <2>1, <2>3, <3>1, <3>2 DEF EvictInv, Scheduled, At
  <2>4. \A s \in Servers : At(s, "enq_set") \/ At(s, "enq_del")
          => mcache'[sv[s].key] \in {sv[s].data, Blank}
    BY <1>a, <2>1, <2>2 DEF EvictInv
  <2> QED
    BY <2>1, <2>3, <2>4 DEF EvictInv, At
<1>3. CASE Step \/ Commit
  <2>1. /\ mn'.pc \in {"idle", "commit"} /\ mn.pc # "evict"
        /\ UNCHANGED <<wq, mcache, sv>>
    <3>1. CASE Step
      <4>1. mn' = IdleMain \/ mn' = [mn EXCEPT !.pc = "commit"]
        BY <1>b, <3>1 DEF Step
      <4> QED
        BY <1>a, <3>1, <4>1 DEF Step, IdleMain, memVars, dbVars, EvictInv
    <3>2. CASE Commit
      BY <3>2 DEF Commit, IdleMain, memVars
    <3> QED
      BY <1>3, <3>1, <3>2
  <2> QED
    BY <2>1 DEF EvictInv, Scheduled, At
<1>4. CASE Resched
  BY <1>4 DEF Resched, WriterInv
<1> QED
  BY <1>1, <1>2, <1>3, <1>4 DEF Main

\* With clients that only write, no two requests for a key at once and no
\* query failed by SQLite, no entry with a deadline is ever without an eviction
\* that is queued for it, running, or about to be queued
\* (CacheMe!EvictionScheduled).
THEOREM EvictionIsScheduled ==
  ASSUME Ops \subseteq {"post", "delete"}
  PROVE  Spec /\ []NoOverlap /\ [][~ GiveUp]_vars => []EvictionScheduled
<1>1. Init => EvictInv
  <2> SUFFICES ASSUME Init PROVE EvictInv
    OBVIOUS
  <2> QED
    BY EvictFresh DEF Init, At, IdleServer
<1>2. TypeInv /\ WriterInv /\ BootInv /\ NoOverlap /\ EvictInv /\ [Next /\ ~ GiveUp]_vars
        => EvictInv'
  <2> SUFFICES ASSUME TypeInv, WriterInv, BootInv, NoOverlap, EvictInv,
                      [Next /\ ~ GiveUp]_vars
               PROVE  EvictInv'
    OBVIOUS
  <2>1. CASE Tick \/ UNCHANGED vars
    <3>1. UNCHANGED <<mcache, wq, sv, mn>>
      BY <2>1 DEF Tick, vars, memVars
    <3>2. \A k \in Keys : Scheduled(k) => Scheduled(k)'
      BY <3>1 DEF Scheduled, At
    <3> QED
      BY <3>1, <3>2 DEF EvictInv, At
  <2>2. CASE Crash
    <3>1. mcache' = NoRows /\ \A s \in Servers : sv'[s].pc = "idle"
      BY <2>2 DEF Crash, IdleServer
    <3> QED
      BY <3>1, NothingExpires DEF EvictInv, NoRows, At
  <2> QED
    BY <2>1, <2>2, EvictServer, EvictMain DEF Next
<1>3. TypeInv /\ EvictInv => EvictionScheduled
  <2> SUFFICES ASSUME TypeInv, EvictInv, NEW k \in Keys, Scheduled(k)
               PROVE  \/ \E i \in DOMAIN wq : /\ wq[i].id = Id("del", k)
                                              /\ wq[i].ts <= mcache[k].expires_at
                      \/ mn.pc = "evict" /\ mn.q.id = Id("del", k)
                      \/ \E s \in Servers : sv[s].key = k /\ (At(s, "enq_set") \/ At(s, "enq_del"))
    BY DEF EvictInv, EvictionScheduled
  <2> QED
    BY DEF Scheduled, ToSet
<1>4. [Next]_vars /\ [~ GiveUp]_vars => [Next /\ ~ GiveUp]_vars
  OBVIOUS
<1> QED
  BY <1>1, <1>2, <1>3, <1>4, TypeInit, TypeStep, WriterInit, WriterStep, BootInit,
     WriterBoots, PTL DEF Spec

\* In particular with one server.
COROLLARY OneServerEvicts ==
  ASSUME \E s : Servers = {s}, Ops \subseteq {"post", "delete"}
  PROVE  Spec /\ [][~ GiveUp]_vars => []EvictionScheduled
  BY OneServerIsAlone, EvictionIsScheduled, PTL

-----------------------------------------------------------------------------
\* What was acknowledged is what the database ends up with, as long as nothing
\* but the requests themselves queues writes: no read schedules the deletion
\* of a row it found, and no query is put back.  The strengthening follows the
\* order of a key's set and deletion: a row that is to live has every deletion
\* ahead of it in the queue, a row that is to go has its set ahead of the
\* deletion, until the later of the two has been executed.

Requeues == Resched \/ \E s \in Servers : Schedule(s)

LiveAt(k) ==
  \/ /\ Queued(wq, Id("set", k)) /\ Before(wq, Id("del", k), Id("set", k))
     /\ \A q \in ToSet(wq) : q.id = Id("del", k) => q.ts = 0
  \/ /\ ~ Queued(wq, Id("set", k)) /\ ~ Queued(wq, Id("del", k))
     /\ ~ InFlight(Id("del", k))
     /\ InFlight(Id("set", k)) \/ db[k] = last[k]

GoneAt(k) ==
  \/ /\ \E q \in ToSet(wq) : q.id = Id("del", k) /\ q.ts = 0
     /\ Before(wq, Id("set", k), Id("del", k))
  \/ /\ ~ Queued(wq, Id("set", k))
     /\ InFlight(Id("del", k)) \/ (db[k] = Blank /\ ~ InFlight(Id("set", k)))

DurableInv ==
  /\ \A q \in ToSet(wq) : q.id.kind = "set" => q.ts = 0
  /\ \A k \in Keys : fate[k] = "live" => last[k].expires_at = 0 /\ LiveAt(k)
  /\ \A k \in Keys : fate[k] = "gone" =>
       /\ \A s \in Servers : At(s, "enq_del") => sv[s].key # k
       /\ GoneAt(k)

\* A step that keeps a key's queries in their order keeps its fate.
SameQueries(k) ==
  /\ \A q : q.id \in {Id("set", k), Id("del", k)}
              => (q \in ToSet(wq') <=> q \in ToSet(wq))
  /\ Before(wq, Id("del", k), Id("set", k)) => Before(wq', Id("del", k), Id("set", k))
  /\ Before(wq, Id("set", k), Id("del", k)) => Before(wq', Id("set", k), Id("del", k))

SameRow(k) ==
  /\ InFlight(Id("set", k))' <=> InFlight(Id("set", k))
  /\ InFlight(Id("del", k))' <=> InFlight(Id("del", k))
  /\ db'[k] = db[k] /\ last'[k] = last[k]

LEMMA SameFate ==
  ASSUME NEW k, SameQueries(k), SameRow(k)
  PROVE  (LiveAt(k) => LiveAt(k)') /\ (GoneAt(k) => GoneAt(k)')
<1>1. \A id \in {Id("set", k), Id("del", k)} : Queued(wq', id) <=> Queued(wq, id)
  BY QueuedIsMember DEF SameQueries
<1>2. LiveAt(k) => LiveAt(k)'
  BY <1>1 DEF LiveAt, SameQueries, SameRow
<1>3. GoneAt(k) => GoneAt(k)'
  BY <1>1 DEF GoneAt, SameQueries, SameRow
<1> QED
  BY <1>2, <1>3

LEMMA SetIsNotDel == \A j, k : Id("set", j) # Id("del", k)
  BY DEF Id

\* Queueing or removing a query of another id.
LEMMA OthersKeepOrder ==
  ASSUME NEW k, wq \in Seq(Query), UniqueIds(wq), NEW id,
         id \notin {Id("set", k), Id("del", k)},
         \/ wq' = RemoveQuery(wq, id)
         \/ \E q \in Query : q.id = id /\ wq' = Enqueue(wq, q)
         \/ \E i \in DOMAIN wq : wq[i].id = id /\ wq' = PopAt(wq, i)
  PROVE  SameQueries(k)
<1>1. CASE wq' = RemoveQuery(wq, id)
  BY <1>1, RemoveKeepsOrder, RemoveQueryProperties DEF SameQueries
<1>2. ASSUME NEW q \in Query, q.id = id, wq' = Enqueue(wq, q) PROVE SameQueries(k)
  <2>1. \A p : p.id \in {Id("set", k), Id("del", k)} => (p \in ToSet(wq') <=> p \in ToSet(wq))
    BY <1>2, EnqueueProperties
  <2>2. q.id # Id("set", k) /\ q.id # Id("del", k)
    BY <1>2
  <2>3. /\ Before(wq, Id("del", k), Id("set", k)) => Before(wq', Id("del", k), Id("set", k))
        /\ Before(wq, Id("set", k), Id("del", k)) => Before(wq', Id("set", k), Id("del", k))
    BY <1>2, <2>2, EnqueueKeepsOrder
  <2> QED
    BY <2>1, <2>3 DEF SameQueries
<1>3. ASSUME NEW i \in DOMAIN wq, wq[i].id = id, wq' = PopAt(wq, i) PROVE SameQueries(k)
  <2>1. \A p : p.id \in {Id("set", k), Id("del", k)} => (p \in ToSet(wq') <=> p \in ToSet(wq))
    BY <1>3, PopProperties
  <2>2. /\ Before(wq, Id("del", k), Id("set", k)) => Before(wq', Id("del", k), Id("set", k))
        /\ Before(wq, Id("set", k), Id("del", k)) => Before(wq', Id("set", k), Id("del", k))
    BY <1>3, PopKeepsOrder
  <2> QED
    BY <2>1, <2>2 DEF SameQueries
<1> QED
  BY <1>1, <1>2, <1>3

\* Nothing is pending at boot.
LEMMA BootWrites ==
  /\ \A q \in ToSet(BootQueue) : q.id.kind \notin {"set", "del"}
  /\ \A k : ~ Queued(BootQueue, Id("set", k)) /\ ~ Queued(BootQueue, Id("del", k))
<1>1. \A q \in ToSet(BootQueue) : q.id.kind \notin {"set", "del"}
  BY DEF ToSet, BootQueue, BootQuery, Id
<1>2. \A k : Id("set", k).kind = "set" /\ Id("del", k).kind = "del"
  BY DEF Id
<1> QED
  BY <1>1, <1>2, QueuedIsMember

LEMMA OtherKeysKeepFate ==
  ASSUME TypeInv, DurableInv, NEW k \in Keys, UNCHANGED <<dbVars, mn>>,
         NEW id \in {Id("set", k), Id("del", k)},
         wq' = RemoveQuery(wq, id) \/ \E q \in Query : q.id = id /\ wq' = Enqueue(wq, q),
         NEW j \in Keys, j # k, fate'[j] = fate[j], last'[j] = last[j],
         \A t \in Servers : sv'[t].pc = "enq_del" => sv'[t].key = k \/ sv'[t] = sv[t]
  PROVE  /\ fate'[j] = "live" => last'[j].expires_at = 0 /\ LiveAt(j)'
         /\ fate'[j] = "gone" =>
              /\ \A t \in Servers : sv'[t].pc = "enq_del" => sv'[t].key # j
              /\ GoneAt(j)'
<1>1. wq \in Seq(Query) /\ UniqueIds(wq)
  BY DEF TypeInv, TypeOK, QueueIdsUnique
<1>2. id \notin {Id("set", j), Id("del", j)}
  BY DEF Id
<1>3. SameQueries(j)
  BY <1>1, <1>2, OthersKeepOrder
<1>4. SameRow(j)
  BY DEF SameRow, InFlight, dbVars
<1>5. (LiveAt(j) => LiveAt(j)') /\ (GoneAt(j) => GoneAt(j)')
  BY <1>3, <1>4, SameFate
<1> QED
  BY <1>5 DEF DurableInv, At

LEMMA DurableServer ==
  ASSUME TypeInv, DurableInv, NEW s \in Servers, Receive(s) \/ Handle(s), ~ Schedule(s)
  PROVE  DurableInv'
<1>a. /\ sv \in [Servers -> Request] /\ sv[s] \in Request /\ sv[s].data \in Data
      /\ (sv[s].pc \notin Keyless => sv[s].key \in Keys)
      /\ wq \in Seq(Query) /\ UniqueIds(wq)
      /\ last \in [Keys -> Data] /\ fate \in [Keys -> {"live", "gone", "either"}]
  BY DEF TypeInv, TypeOK, QueueIdsUnique, Request
\* Steps that leave queue and history alone, and do not go on to enq_del.
<1>b. ASSUME UNCHANGED <<wq, dbVars, mn, last, fate>>,
             \A t \in Servers : sv'[t].pc = "enq_del" => sv'[t] = sv[t]
      PROVE  DurableInv'
  <2>1. \A j : LiveAt(j)' <=> LiveAt(j)
    BY <1>b DEF LiveAt, InFlight, dbVars
  <2>2. \A j : GoneAt(j)' <=> GoneAt(j)
    BY <1>b DEF GoneAt, InFlight, dbVars
  <2>3. \A t \in Servers : sv'[t].pc = "enq_del" => sv[t].pc = "enq_del" /\ sv'[t].key = sv[t].key
    BY <1>b
  <2> QED
    BY <1>b, <2>1, <2>2, <2>3 DEF DurableInv, At, dbVars
<1>c. ASSUME UNCHANGED <<wq, dbVars, mn, last, fate>>,
             NEW r, r.pc # "enq_del", sv' = [sv EXCEPT ![s] = r]
      PROVE  DurableInv'
  <2>1. sv'[s].pc # "enq_del" /\ \A t \in Servers : t # s => sv'[t] = sv[t]
    BY <1>a, <1>c
  <2> QED
    BY <1>b, <1>c, <2>1
<1>1. CASE Receive(s)
  <2>1. PICK op, pc, key, d : pc # "enq_del" /\ Accept(s, op, pc, key, d)
    BY <1>1, Receives
  <2> DEFINE r == [IdleServer EXCEPT !.pc = pc, !.op = op, !.key = key, !.data = d]
  <2>2. r.pc = pc /\ sv' = [sv EXCEPT ![s] = r]
    BY <2>1 DEF Accept, IdleServer
  <2>3. UNCHANGED <<wq, dbVars, mn, last, fate>>
    BY <2>1 DEF Accept
  <2> HIDE DEF r
  <2> QED
    BY <1>c, <2>1, <2>2, <2>3
<1>2. CASE \/ LookUp(s) \/ Read(s) \/ Reset(s) \/ Check(s) \/ Fill(s) \/ Put(s)
           \/ Evict(s) \/ ListAll(s) \/ ReadAll(s) \/ ResetAll(s) \/ SetAll(s)
  <2>1. UNCHANGED <<wq, dbVars, mn, last, fate>>
    BY <1>2 DEF LookUp, Read, Reset, Check, Fill, Put, Evict, ListAll, ReadAll,
                ResetAll, SetAll, history
  <2>2. ASSUME NEW pc, pc # "enq_del", Goto(s, pc) PROVE DurableInv'
    BY <1>a, <1>c, <2>1, <2>2 DEF Goto, Request
  <2>3. ASSUME Reply(s) PROVE DurableInv'
    <3>1. IdleServer.pc # "enq_del" /\ sv' = [sv EXCEPT ![s] = IdleServer]
      BY <2>3 DEF Reply, IdleServer
    <3> QED
      BY <1>c, <2>1, <3>1
  <2>4. ASSUME NEW d, Answer(s, d) PROVE DurableInv'
    BY <2>2, <2>3, <2>4 DEF Answer
  <2>5. ASSUME NEW pc, pc # "enq_del", NEW d, Found(s, pc, d) PROVE DurableInv'
    <3> DEFINE r == [sv[s] EXCEPT !.pc = pc, !.got = d]
    <3>1. r.pc = pc /\ sv' = [sv EXCEPT ![s] = r]
      BY <1>a, <2>5 DEF Found, Request
    <3> QED
      BY <1>c, <2>1, <2>5, <3>1
  <2>6. ASSUME NEW pc, pc # "enq_del", NEW rows, FoundAll(s, pc, rows) PROVE DurableInv'
    <3> DEFINE r == [sv[s] EXCEPT !.pc = pc, !.rows = rows]
    <3>1. r.pc = pc /\ sv' = [sv EXCEPT ![s] = r]
      BY <1>a, <2>6 DEF FoundAll, Request
    <3> QED
      BY <1>c, <2>1, <2>6, <3>1
  <2>7. CASE LookUp(s) \/ Fill(s)
    BY <2>2, <2>4, <2>7 DEF LookUp, Fill
  <2>8. CASE Read(s) \/ Check(s)
    BY <2>5, <2>8 DEF Read, Check
  <2>9. CASE Reset(s) \/ Put(s) \/ Evict(s) \/ ResetAll(s)
    BY <2>2, <2>9 DEF Reset, Put, Evict, ResetAll
  <2>10. CASE ListAll(s) \/ SetAll(s)
    BY <2>2, <2>3, <2>10 DEF ListAll, SetAll
  <2>11. CASE ReadAll(s)
    BY <2>6, <2>11 DEF ReadAll
  <2> QED
    BY <1>2, <2>7, <2>8, <2>9, <2>10, <2>11
<1>3. CASE EnqSet(s)
  <2>1. PICK k \in Keys : k = sv[s].key
    BY <1>a, <1>3 DEF EnqSet, At, Keyless
  <2> DEFINE row == Stored(sv[s].data)
             q   == SetQuery(k, sv[s].data)
  <2>2. /\ wq' = Enqueue(wq, q) /\ last' = [last EXCEPT ![k] = row]
        /\ fate' = [fate EXCEPT ![k] = IF DelayedDel(k) THEN "either" ELSE FateOf(row)]
        /\ UNCHANGED <<dbVars, mn>>
    BY <1>3, <2>1 DEF EnqSet
  <2>3. q \in Query /\ q.id = Id("set", k) /\ q.ts = 0 /\ row \in Data
    BY <1>a, QueryTypes, StoredType DEF SetQuery
  <2>4. /\ sv'[s].pc = "enq_del" /\ sv'[s].key = k
        /\ \A t \in Servers : t # s => sv'[t] = sv[t]
    BY <1>a, <1>3, <2>1 DEF EnqSet, Goto, Request
  <2> HIDE DEF q, row
  <2>5. \A p : p \in ToSet(wq') <=> p = q \/ (p \in ToSet(wq) /\ p.id # q.id)
    BY <1>a, <2>2, <2>3, EnqueueProperties
  <2>6. \A p \in ToSet(wq') : p.id.kind = "set" => p.ts = 0
    BY <2>3, <2>5 DEF DurableInv
  <2>7. fate'[k] # "gone" /\ (fate'[k] = "live" => ~ DelayedDel(k) /\ last'[k].expires_at = 0)
    BY <1>a, <2>2 DEF FateOf
  <2>8. fate'[k] = "live" => LiveAt(k)'
    <3>1. Queued(wq', Id("set", k))
      BY <2>3, <2>5, QueuedIsMember
    <3>2. Before(wq', Id("del", k), Id("set", k))
      BY <1>a, <2>2, <2>3, SetIsNotDel, EnqueueKeepsOrder
    <3>3. ASSUME ~ DelayedDel(k), NEW p \in ToSet(wq'), p.id = Id("del", k)
          PROVE  p.ts = 0
      <4>1. p \in ToSet(wq)
        BY <2>3, <2>5, <3>3, SetIsNotDel
      <4>2. PICK i \in DOMAIN wq : wq[i] = p
        BY <4>1 DEF ToSet
      <4>3. p.ts \in Nat
        <5>1. p \in Query
          BY <1>a, <4>2, ElementOfSeq, LenProperties
        <5> QED
          BY <5>1 DEF Query
      <4> QED
        BY <3>3, <4>2, <4>3 DEF DelayedDel
    <3> QED
      BY <2>7, <3>1, <3>2, <3>3 DEF LiveAt
  <2>9. ASSUME NEW j \in Keys, j # k
        PROVE  /\ fate'[j] = "live" => last'[j].expires_at = 0 /\ LiveAt(j)'
               /\ fate'[j] = "gone" =>
                    /\ \A t \in Servers : sv'[t].pc = "enq_del" => sv'[t].key # j
                    /\ GoneAt(j)'
    <3>1. fate'[j] = fate[j] /\ last'[j] = last[j]
      BY <1>a, <2>2, <2>9
    <3>2. \A t \in Servers : sv'[t].pc = "enq_del" => sv'[t].key = k \/ sv'[t] = sv[t]
      BY <2>4
    <3> QED
      BY <2>2, <2>3, <2>9, <3>1, <3>2, OtherKeysKeepFate
  <2> QED
    BY <2>2, <2>6, <2>7, <2>8, <2>9 DEF DurableInv, At, dbVars
<1>4. CASE EnqDel(s)
  <2>1. PICK k \in Keys : k = sv[s].key
    BY <1>a, <1>4 DEF EnqDel, At, Keyless
  <2> DEFINE at == ExpiresAt(sv[s].data)
             q  == DelQuery(k, at)
  <2>2. /\ \/ wq' = RemoveQuery(wq, Id("del", k)) /\ fate' = fate
           \/ wq' = Enqueue(wq, q) /\ fate' = [fate EXCEPT ![k] = "either"]
        /\ UNCHANGED <<dbVars, mn, last>> /\ sv[s].pc = "enq_del"
    BY <1>4, <2>1 DEF EnqDel, At
  <2>3. q \in Query /\ q.id = Id("del", k)
    BY <1>a, QueryTypes, StoredType DEF DelQuery
  <2>4. \A t \in Servers : sv'[t].pc = "enq_del" => sv'[t] = sv[t]
    BY <1>a, <1>4 DEF EnqDel, Reply, IdleServer
  <2> HIDE DEF q, at
  <2>5. \A p : p.id # Id("del", k) => (p \in ToSet(wq') <=> p \in ToSet(wq))
    <3>1. CASE wq' = RemoveQuery(wq, Id("del", k))
      BY <1>a, <3>1, RemoveQueryProperties
    <3>2. CASE wq' = Enqueue(wq, q)
      BY <1>a, <2>3, <3>2, EnqueueProperties
    <3> QED
      BY <2>2, <3>1, <3>2
  <2>6. \A p \in ToSet(wq') : p.id.kind = "set" => p.ts = 0
    BY <2>5 DEF DurableInv, Id
  <2>7. fate'[k] # "gone"
    <3>1. fate[k] # "gone"
      BY <2>1, <2>2 DEF DurableInv, At
    <3> QED
      BY <1>a, <2>2, <3>1
  <2>8. fate'[k] = "live" => last'[k].expires_at = 0 /\ LiveAt(k)'
    <3>1. SUFFICES ASSUME fate'[k] = "live" PROVE last'[k].expires_at = 0 /\ LiveAt(k)'
      OBVIOUS
    <3>2. wq' = RemoveQuery(wq, Id("del", k)) /\ fate[k] = "live"
      BY <1>a, <2>2, <3>1
    <3>3. LiveAt(k) /\ last[k].expires_at = 0
      BY <3>2 DEF DurableInv
    <3>4. ~ Queued(wq', Id("del", k))
      BY <1>a, <3>2, RemoveQueryProperties
    <3>5. Queued(wq', Id("set", k)) <=> Queued(wq, Id("set", k))
      BY <2>5, SetIsNotDel, QueuedIsMember
    <3>6. Before(wq', Id("del", k), Id("set", k)) /\ \A p \in ToSet(wq') : p.id # Id("del", k)
      BY <3>4 DEF Before, Queued, ToSet
    <3> QED
      BY <2>2, <3>3, <3>4, <3>5, <3>6 DEF LiveAt, InFlight, dbVars
  <2>9. ASSUME NEW j \in Keys, j # k
        PROVE  /\ fate'[j] = "live" => last'[j].expires_at = 0 /\ LiveAt(j)'
               /\ fate'[j] = "gone" =>
                    /\ \A t \in Servers : sv'[t].pc = "enq_del" => sv'[t].key # j
                    /\ GoneAt(j)'
    <3>1. fate'[j] = fate[j] /\ last'[j] = last[j]
      BY <1>a, <2>2, <2>9
    <3> QED
      BY <2>2, <2>3, <2>4, <2>9, <3>1, OtherKeysKeepFate
  <2> QED
    BY <2>2, <2>6, <2>7, <2>8, <2>9 DEF DurableInv, At, dbVars
<1>5. CASE EnqNow(s)
  <2>1. PICK k \in Keys : k = sv[s].key
    BY <1>a, <1>5 DEF EnqNow, At, Keyless
  <2> DEFINE q == DelQuery(k, 0)
             overlapped == \E t \in Servers : At(t, "enq_del") /\ sv[t].key = k
  <2>2. /\ wq' = Enqueue(wq, q)
        /\ fate' = [fate EXCEPT ![k] = IF overlapped THEN "either" ELSE "gone"]
        /\ UNCHANGED <<dbVars, mn, last>>
    BY <1>5, <2>1 DEF EnqNow
  <2>3. q \in Query /\ q.id = Id("del", k) /\ q.ts = 0
    BY QueryTypes DEF DelQuery
  <2>4. \A t \in Servers : sv'[t].pc = "enq_del" => sv'[t] = sv[t]
    BY <1>a, <1>5 DEF EnqNow, Reply, IdleServer
  <2> HIDE DEF q
  <2>5. \A p : p \in ToSet(wq') <=> p = q \/ (p \in ToSet(wq) /\ p.id # q.id)
    BY <1>a, <2>2, <2>3, EnqueueProperties
  <2>6. \A p \in ToSet(wq') : p.id.kind = "set" => p.ts = 0
    BY <2>3, <2>5 DEF DurableInv, Id
  <2>7. fate'[k] # "live" /\ GoneAt(k)'
    <3>1. Before(wq', Id("set", k), Id("del", k))
      BY <1>a, <2>2, <2>3, SetIsNotDel, EnqueueKeepsOrder
    <3> QED
      BY <1>a, <2>2, <2>3, <2>5, <3>1 DEF GoneAt
  <2>8. fate'[k] = "gone" => \A t \in Servers : sv'[t].pc = "enq_del" => sv'[t].key # k
    BY <1>a, <2>2, <2>4 DEF At
  <2>9. ASSUME NEW j \in Keys, j # k
        PROVE  /\ fate'[j] = "live" => last'[j].expires_at = 0 /\ LiveAt(j)'
               /\ fate'[j] = "gone" =>
                    /\ \A t \in Servers : sv'[t].pc = "enq_del" => sv'[t].key # j
                    /\ GoneAt(j)'
    <3>1. fate'[j] = fate[j] /\ last'[j] = last[j]
      BY <1>a, <2>2, <2>9
    <3> QED
      BY <2>2, <2>3, <2>4, <2>9, <3>1, OtherKeysKeepFate
  <2> QED
    BY <2>2, <2>6, <2>7, <2>8, <2>9 DEF DurableInv, At, dbVars
<1> QED
  BY <1>1, <1>2, <1>3, <1>4, <1>5 DEF Handle

LEMMA DurablePop ==
  ASSUME TypeInv, BootInv, DurableInv, Pop
  PROVE  DurableInv'
<1>a. wq \in Seq(Query) /\ UniqueIds(wq)
  BY DEF TypeInv, TypeOK, QueueIdsUnique
<1>1. PICK i \in DOMAIN wq :
        /\ IsTop(wq, i) /\ wq' = PopAt(wq, i)
        /\ mn'.pc \in {"evict", "step"} /\ mn'.q = wq[i]
  BY BootTakes DEF Takes
<1>2. mn.pc = "idle" /\ UNCHANGED <<db, sv, last, fate>>
  BY DEF Pop, dbVars, history
<1>3. /\ wq[i] \in ToSet(wq) /\ ~ Queued(wq', wq[i].id)
      /\ \A q : q \in ToSet(wq') <=> q \in ToSet(wq) /\ q # wq[i]
  <2>1. wq[i] \in ToSet(wq)
    BY DEF ToSet
  <2> QED
    BY <1>a, <1>1, <2>1, PopProperties
<1>4. \A id : (InFlight(id)' <=> wq[i].id = id) /\ ~ InFlight(id)
  BY <1>1, <1>2 DEF InFlight
<1>5. \A a, b : Before(wq, a, b) => Before(wq', a, b)
  BY <1>a, <1>1, PopKeepsOrder
<1>6. \A id : id # wq[i].id => (Queued(wq', id) <=> Queued(wq, id))
  BY <1>3, QueuedIsMember
<1>7. ASSUME NEW k \in Keys PROVE (LiveAt(k) => LiveAt(k)') /\ (GoneAt(k) => GoneAt(k)')
  <2> DEFINE set == Id("set", k)
             del == Id("del", k)
  <2>0. set # del /\ set.kind = "set"
    BY DEF Id
  <2> HIDE DEF set, del
  <2>1. CASE wq[i].id = set
    <3>1. wq[i].ts = 0 /\ Queued(wq, set)
      BY <1>3, <2>0, <2>1, QueuedIsMember DEF DurableInv
    <3>2. LiveAt(k) => ~ Queued(wq, del)
      <4> SUFFICES ASSUME LiveAt(k), NEW p \in ToSet(wq), p.id = del PROVE FALSE
        BY QueuedIsMember
      <4>1. Before(wq, del, set) /\ p.ts = 0
        BY <3>1 DEF LiveAt, set, del
      <4> QED
        BY <1>a, <1>1, <2>0, <2>1, <3>1, <4>1, EarlierIsTaken
    <3>3. LiveAt(k) => LiveAt(k)'
      BY <1>3, <1>4, <1>6, <2>0, <2>1, <3>2 DEF LiveAt, set, del
    <3>4. GoneAt(k) => GoneAt(k)'
      <4> SUFFICES ASSUME GoneAt(k) PROVE GoneAt(k)'
        OBVIOUS
      <4>1. PICK q \in ToSet(wq) : q.id = del /\ q.ts = 0
        BY <3>1 DEF GoneAt, set, del
      <4>2. q \in ToSet(wq') /\ Before(wq', set, del)
        BY <1>3, <1>5, <2>0, <2>1, <3>1, <4>1 DEF GoneAt, set, del
      <4> QED
        BY <4>1, <4>2 DEF GoneAt, set, del
    <3> QED
      BY <3>3, <3>4
  <2>2. CASE wq[i].id = del
    <3>1. Queued(wq, del)
      BY <1>3, <2>2, QueuedIsMember
    <3>2. LiveAt(k) => LiveAt(k)'
      <4>1. Queued(wq, set) => Queued(wq', set)
        BY <1>6, <2>0, <2>2
      <4> QED
        BY <1>3, <1>5, <3>1, <4>1 DEF LiveAt, set, del
    <3>3. GoneAt(k) => ~ Queued(wq, set)
      <4> SUFFICES ASSUME GoneAt(k), NEW p \in ToSet(wq), p.id = set PROVE FALSE
        BY QueuedIsMember
      <4>1. Queued(wq, set) /\ p.ts = 0
        BY <2>0, QueuedIsMember DEF DurableInv
      <4>2. PICK q \in ToSet(wq) : q.id = del /\ q.ts = 0
        BY <4>1 DEF GoneAt, set, del
      <4>3. q = wq[i]
        BY <1>a, <2>2, <4>2 DEF UniqueIds, ToSet
      <4>4. Before(wq, set, del)
        BY <4>1 DEF GoneAt, set, del
      <4> QED
        BY <1>a, <1>1, <2>0, <2>2, <4>1, <4>2, <4>3, <4>4, EarlierIsTaken
    <3>4. GoneAt(k) => GoneAt(k)'
      <4>1. ~ Queued(wq, set) => ~ Queued(wq', set)
        BY <1>6, <2>0, <2>2
      <4> QED
        BY <1>4, <2>2, <3>3, <4>1 DEF GoneAt, set, del
    <3> QED
      BY <3>2, <3>4
  <2>3. CASE wq[i].id \notin {set, del}
    <3>1. SameQueries(k)
      BY <1>a, <1>1, <2>3, OthersKeepOrder DEF set, del
    <3>2. SameRow(k)
      BY <1>2, <1>4, <2>3 DEF SameRow, set, del
    <3> QED
      BY <3>1, <3>2, SameFate
  <2> QED
    BY <2>1, <2>2, <2>3
<1> QED
  BY <1>2, <1>3, <1>7 DEF DurableInv, At

LEMMA DurableMain ==
  ASSUME TypeInv, LastInv, BootInv, DurableInv, Main, ~ Resched
  PROVE  DurableInv'
<1>a. /\ wq \in Seq(Query) /\ mn.q \in Query /\ db \in [Keys -> Data]
      /\ mn \in [pc : MainPcs, q : Query, cts : Nat]
  BY DEF TypeInv, TypeOK
<1>b. last \in [Keys -> Data] /\ fate \in [Keys -> {"live", "gone", "either"}]
  BY DEF TypeInv, TypeOK
\* What it takes when queue, servers and history are left alone.
<1>c. ASSUME UNCHANGED <<wq, sv, last, fate>>,
             \A k \in Keys : fate[k] = "live" => last[k].expires_at = 0 /\ LiveAt(k)',
             \A k \in Keys : GoneAt(k) => GoneAt(k)'
      PROVE  DurableInv'
  BY <1>c DEF DurableInv, At
<1>d. ASSUME UNCHANGED <<wq, sv, last, fate, db>>,
             \A id : InFlight(id)' <=> InFlight(id)
      PROVE  DurableInv'
  <2>1. \A k : SameQueries(k) /\ SameRow(k)
    BY <1>d DEF SameQueries, SameRow
  <2> QED
    BY <1>d, <2>1, SameFate DEF DurableInv, At
<1>1. CASE EvictMem
  <2>1. mn'.q = mn.q /\ mn'.pc # "idle" /\ mn.pc # "idle"
    BY <1>1, <1>a DEF EvictMem
  <2> QED
    BY <1>1, <1>d, <2>1 DEF EvictMem, dbVars, history, InFlight
<1>2. CASE Step
  <2>0. mn.pc = "step" /\ UNCHANGED <<wq, sv, last, fate, db>>
    BY <1>2 DEF Step, dbVars, history
  <2>1. CASE Dirties
    <3>1. mn'.q = mn.q /\ mn'.pc \in {"commit", "resched"}
      BY <1>2, <1>a, <2>1 DEF Step
    <3> QED
      BY <1>d, <2>0, <3>1 DEF InFlight
  <2>2. CASE ~ Dirties
    <3>1. \A id : ~ InFlight(id)'
      BY <1>2, <2>2 DEF Step, InFlight, IdleMain
    <3>2. \A k \in Keys : ~ InFlight(Id("set", k))
      BY <2>2 DEF Dirties, InFlight, Id
    <3>3. \A k \in Keys : InFlight(Id("del", k)) => db[k] = Blank
      <4> SUFFICES ASSUME NEW k \in Keys, InFlight(Id("del", k)) PROVE db[k] = Blank
        OBVIOUS
      <4>1. mn.q.id.kind = "del" /\ mn.q.id.key = k
        BY DEF InFlight, Id
      <4>2. Written[k] = Blank
        BY <1>a, <4>1 DEF Written
      <4> QED
        BY <2>2, <4>2 DEF Dirties
    <3>4. \A k \in Keys : LiveAt(k) => LiveAt(k)'
      BY <2>0, <3>1, <3>2 DEF LiveAt
    <3>5. \A k \in Keys : GoneAt(k) => GoneAt(k)'
      BY <2>0, <3>1, <3>2, <3>3 DEF GoneAt
    <3> QED
      BY <1>c, <2>0, <3>4, <3>5 DEF DurableInv
  <2> QED
    BY <2>1, <2>2
<1>3. CASE Commit
  <2>1. /\ mn.pc = "commit" /\ mn' = IdleMain /\ db' = Written
        /\ UNCHANGED <<wq, last, fate, sv>>
    BY <1>3 DEF Commit, history
  <2>2. \A id : ~ InFlight(id)'
    BY <2>1 DEF InFlight, IdleMain
  <2>3. ASSUME NEW k \in Keys
        PROVE  /\ InFlight(Id("set", k)) => db'[k] = mn.q.data
               /\ InFlight(Id("del", k)) => db'[k] = Blank
               /\ ~ InFlight(Id("set", k)) =>
                    /\ db'[k] \in {Blank, db[k]}
                    /\ ~ InFlight(Id("del", k)) /\ db[k].expires_at = 0 => db'[k] = db[k]
    <3>1. CASE mn.q.id.kind = "set" /\ mn.q.id.key = k
      BY <1>a, <2>1, <3>1 DEF InFlight, Id, Written, Query, Ids
    <3>2. CASE mn.q.id.kind = "del" /\ mn.q.id.key = k
      BY <1>a, <2>1, <3>2 DEF InFlight, Id, Written, Query, Ids
    <3>3. CASE ~ (mn.q.id.kind \in {"set", "del"} /\ mn.q.id.key = k)
      <4>1. ~ InFlight(Id("set", k)) /\ ~ InFlight(Id("del", k))
        BY <3>3 DEF InFlight, Id
      <4>2. Written[k] = db[k] \/ (db[k].expires_at # 0 /\ Written[k] = Blank)
        BY <1>a, <3>3 DEF Written, Purged
      <4> QED
        BY <2>1, <4>1, <4>2
    <3> QED
      BY <3>1, <3>2, <3>3
  <2>4. ASSUME NEW k \in Keys, fate[k] = "live"
        PROVE  last[k].expires_at = 0 /\ LiveAt(k)'
    <3>1. LiveAt(k) /\ last[k].expires_at = 0
      BY <2>4 DEF DurableInv
    <3>2. CASE Queued(wq, Id("set", k))
      BY <2>1, <3>1, <3>2 DEF LiveAt
    <3>3. CASE ~ Queued(wq, Id("set", k))
      <4>1. InFlight(Id("set", k)) => mn.q.data = last[k]
        BY <3>3 DEF LastInv
      <4>2. db'[k] = last[k]
        BY <2>3, <3>1, <3>3, <4>1 DEF LiveAt
      <4> QED
        BY <2>1, <2>2, <3>1, <3>3, <4>2 DEF LiveAt
    <3> QED
      BY <3>2, <3>3
  <2>5. ASSUME NEW k \in Keys, GoneAt(k) PROVE GoneAt(k)'
    BY <2>1, <2>2, <2>3, <2>5 DEF GoneAt
  <2> QED
    BY <1>c, <2>1, <2>4, <2>5
\* A set or deletion that failed owes nothing any more.
<1>4. CASE GiveUp
  <2>1. /\ mn.pc # "idle" /\ UNCHANGED <<wq, sv, db>>
        /\ \A id : ~ InFlight(id)'
    BY <1>4 DEF GiveUp, dbVars, InFlight, IdleMain
  <2>2. ASSUME NEW k \in Keys, fate'[k] = "live"
        PROVE  /\ fate[k] = "live" /\ last'[k] = last[k]
               /\ InFlight(Id("set", k)) => Queued(wq, Id("set", k))
    <3>1. CASE mn.q.id.kind = "set" /\ mn.q.id.key = k /\ ~ Queued(wq, mn.q.id)
      <4>1. fate[k] = "live" => fate' = [fate EXCEPT ![k] = "either"]
        BY <1>4, <3>1 DEF GiveUp, Undone
      <4>2. fate[k] # "live" => fate' = fate
        BY <1>4, <3>1 DEF GiveUp, Undone
      <4> QED
        BY <1>b, <2>2, <4>1, <4>2
    <3>2. CASE ~ (mn.q.id.kind = "set" /\ mn.q.id.key = k /\ ~ Queued(wq, mn.q.id))
      <4>1. last'[k] = last[k]
        BY <1>b, <1>4, <3>2 DEF GiveUp, Undone
      <4>2. fate'[k] \in {fate[k], "either"}
        BY <1>b, <1>4, <3>2 DEF GiveUp, Undone
      <4>3. InFlight(Id("set", k)) => Queued(wq, Id("set", k))
        BY <3>2 DEF InFlight, Id
      <4> QED
        BY <2>2, <4>1, <4>2, <4>3
    <3> QED
      BY <3>1, <3>2
  <2>3. ASSUME NEW k \in Keys, fate'[k] = "gone"
        PROVE  fate[k] = "gone" /\ ~ InFlight(Id("del", k))
    <3>1. fate'[k] \in {fate[k], "either"}
      BY <1>b, <1>4 DEF GiveUp, Undone
    <3>2. mn.q.id.kind = "del" /\ mn.q.id.key = k /\ fate[k] = "gone"
            => fate' = [fate EXCEPT ![k] = "either"]
      BY <1>4 DEF GiveUp, Undone
    <3>3. fate[k] = "gone"
      BY <2>3, <3>1
    <3>4. ~ (mn.q.id.kind = "del" /\ mn.q.id.key = k)
      BY <1>b, <2>3, <3>2, <3>3
    <3> QED
      BY <3>3, <3>4 DEF InFlight, Id
  <2>4. ASSUME NEW k \in Keys, fate'[k] = "live"
        PROVE  last'[k].expires_at = 0 /\ LiveAt(k)'
    <3>1. LiveAt(k) /\ last[k].expires_at = 0
      BY <2>2, <2>4 DEF DurableInv
    <3> QED
      BY <2>1, <2>2, <2>4, <3>1 DEF LiveAt
  <2>5. ASSUME NEW k \in Keys, fate'[k] = "gone" PROVE GoneAt(k)'
    <3>1. GoneAt(k)
      BY <2>3, <2>5 DEF DurableInv
    <3> QED
      BY <2>1, <2>3, <2>5, <3>1 DEF GoneAt
  <2> QED
    BY <2>1, <2>3, <2>4, <2>5 DEF DurableInv, At
<1> QED
  BY <1>1, <1>2, <1>3, <1>4, DurablePop DEF Main

LEMMA DurableInit == Init => DurableInv
<1> SUFFICES ASSUME Init PROVE DurableInv
  OBVIOUS
<1>1. \A k \in Keys : LiveAt(k)
  BY BootWrites DEF Init, LiveAt, InFlight, IdleMain
<1> QED
  BY <1>1, BootWrites DEF Init, DurableInv, FateOf

LEMMA DurableCrash ==
  ASSUME Crash PROVE DurableInv'
<1>1. /\ wq' = BootQueue /\ mn' = IdleMain /\ last' = db'
      /\ fate' = [k \in Keys |-> FateOf(db'[k])]
      /\ \A s \in Servers : sv'[s].pc = "idle"
  BY DEF Crash, dbVars, IdleServer
<1>2. \A k \in Keys : LiveAt(k)'
  BY <1>1, BootWrites DEF LiveAt, InFlight, IdleMain
<1> QED
  BY <1>1, <1>2, BootWrites DEF DurableInv, FateOf

LEMMA DurableStep ==
  TypeInv /\ LastInv /\ BootInv /\ DurableInv /\ [Next /\ ~ Requeues]_vars => DurableInv'
<1> SUFFICES ASSUME TypeInv, LastInv, BootInv, DurableInv, [Next /\ ~ Requeues]_vars
             PROVE  DurableInv'
  OBVIOUS
<1>1. CASE Tick \/ UNCHANGED vars
  <2>1. UNCHANGED <<wq, db, sv, mn, last, fate>>
    BY <1>1 DEF Tick, vars, dbVars, history
  <2>2. \A k : SameQueries(k) /\ SameRow(k)
    BY <2>1 DEF SameQueries, SameRow, InFlight
  <2> QED
    BY <2>1, <2>2, SameFate DEF DurableInv, At
<1>2. CASE ~ UNCHANGED vars /\ ~ Tick
  BY <1>2, DurableServer, DurableMain, DurableCrash DEF Next, Requeues
<1> QED
  BY <1>1, <1>2

\* When init_db has failed there is no table and nothing to keep, until the
\* process is started again.
StoreInv == NoTable \/ (BootInv /\ DurableInv)

LEMMA NoTableStays ==
  TypeInv /\ NoTable /\ [Next]_vars => NoTable' \/ Crash
<1> SUFFICES ASSUME TypeInv, NoTable, [Next]_vars, ~ Crash PROVE NoTable'
  OBVIOUS
<1>a. wq \in Seq(Query) /\ UniqueIds(wq) /\ mn.q \in Query
  BY DEF TypeInv, TypeOK, QueueIdsUnique
<1>1. CASE \E s \in Servers : Receive(s) \/ Handle(s)
  <2>1. PICK s \in Servers : Receive(s) \/ Handle(s)
    BY <1>1
  <2>2. Boot.kind = "init_db"
    BY DEF Boot, Id
  <2>3. ~ Queued(wq', Boot)
    BY <1>a, <2>1, <2>2, ServerQueues, NotQueuedStays DEF NoTable
  <2> QED
    BY <2>1, <2>3, ServerQueues DEF NoTable
<1>2. CASE Pop
  <2>1. PICK i \in DOMAIN wq :
          /\ wq' = PopAt(wq, i) /\ UNCHANGED table
          /\ wq[i].id.kind # "init_db" => mn' = IdleMain
    BY <1>2 DEF Pop, NoTable, dbVars
  <2>2. wq[i] \in Query /\ wq[i] \in ToSet(wq)
    BY <1>a, <2>1, ElementOfSeq, LenProperties DEF ToSet
  <2>3. wq[i].id # Boot
    BY <2>2, QueuedIsMember DEF NoTable
  <2>4. wq[i].id.kind # "init_db"
    BY <2>2, <2>3 DEF Query, Ids, Boot, Id
  <2>5. ~ Queued(wq', Boot)
    BY <1>a, <2>1, NotQueuedStays DEF NoTable
  <2> QED
    BY <2>1, <2>4, <2>5 DEF NoTable, IdleMain
<1>3. CASE Tick \/ UNCHANGED vars
  BY <1>3 DEF Tick, vars, dbVars, NoTable
<1>4. CASE EvictMem \/ Step \/ Commit \/ Resched \/ GiveUp
  BY <1>4 DEF EvictMem, Step, Commit, Resched, GiveUp, NoTable
<1> QED
  BY <1>1, <1>2, <1>3, <1>4 DEF Next, Main

LEMMA StoreStep ==
  TypeInv /\ LastInv /\ StoreInv /\ [Next /\ ~ Requeues]_vars => StoreInv'
<1> SUFFICES ASSUME TypeInv, LastInv, StoreInv, [Next /\ ~ Requeues]_vars PROVE StoreInv'
  OBVIOUS
<1>1. CASE NoTable
  <2>1. Crash => BootInv'
    BY BootAtFirst DEF Crash, BootInv, BootFirst
  <2> QED
    BY <1>1, <2>1, NoTableStays, DurableCrash DEF StoreInv
<1>2. CASE BootInv /\ DurableInv
  BY <1>2, BootStep, DurableStep DEF StoreInv, Requeues, PutsBackBoot
<1> QED
  BY <1>1, <1>2 DEF StoreInv

LEMMA AtRestIsDurable == TypeInv /\ StoreInv => AcknowledgedIsDurable
<1> SUFFICES ASSUME TypeInv, DurableInv, AtRest, NEW k \in Keys
             PROVE  /\ fate[k] = "live" => db[k] = last[k]
                    /\ fate[k] = "gone" => db[k] = Blank
  BY DEF AcknowledgedIsDurable, StoreInv, NoTable
<1>1. \A id : ~ InFlight(id)
  BY DEF AtRest, InFlight
<1>2. \A q \in ToSet(wq) : q.id.kind = "del" /\ q.ts > now
  BY DEF AtRest, ToSet
<1>3. ~ Queued(wq, Id("set", k))
  BY <1>2, QueuedIsMember DEF Id
<1>4. \A q \in ToSet(wq) : q.ts # 0
  BY <1>2 DEF TypeInv, TypeOK
<1> QED
  BY <1>1, <1>3, <1>4 DEF DurableInv, LiveAt, GoneAt

\* Clients get what they were told (CacheMe!AcknowledgedIsDurable): at rest the
\* row of a POST is there and that of a DELETE is not, for any requests,
\* servers, keys, ttls, crashes and errors and on any database, as long as no
\* read schedules a deletion and no query is put back.
THEOREM AcknowledgedStays == Spec /\ [][~ Requeues]_vars => []AcknowledgedIsDurable
<1>1. [Next]_vars /\ [~ Requeues]_vars => [Next /\ ~ Requeues]_vars
  OBVIOUS
<1>2. [Next /\ ~ Requeues]_vars => [Next /\ ~ PutsBackOld]_vars
  BY DEF Requeues, PutsBackOld
<1>3. Init => StoreInv
  BY BootInit, DurableInit DEF StoreInv
<1> QED
  BY <1>1, <1>2, <1>3, TypeInit, TypeStep, LastInit, LastStep, StoreStep,
     AtRestIsDurable, PTL DEF Spec

LEMMA NothingRequeued == WriterInv => ~ Requeues
  BY DEF Requeues, Resched, Schedule, At, WriterInv, NoReaders, WriterPcs

LEMMA WriterDurable ==
  TypeInv /\ NewestInv /\ BootInv /\ DurableInv /\ [Next]_vars => DurableInv'
  BY NothingRequeued, DurableStep DEF NewestInv

LEMMA WriterStores ==
  TypeInv /\ NewestInv /\ StoreInv /\ [Next]_vars => StoreInv'
  BY NothingRequeued, StoreStep DEF NewestInv

\* Clients that only write queue nothing else: what they were told holds.
THEOREM WritersGetWhatTheyWereTold ==
  ASSUME Ops \subseteq {"post", "delete"}
  PROVE  Spec => []AcknowledgedIsDurable
<1>1. TypeInv /\ NewestInv /\ [Next]_vars => NewestInv'
  BY NewestStep
<1>2. Init => StoreInv
  BY BootInit, DurableInit DEF StoreInv
<1> QED
  BY <1>1, <1>2, TypeInit, TypeStep, NewestInit, WriterStores, AtRestIsDurable,
     PTL DEF Spec

-----------------------------------------------------------------------------
\* Clients that only write, no two at the same key: what is in memory is what
\* was enqueued last, and nothing that could still take its row away is left.
\* The strengthening says which of the queue, the main thread and the database
\* has the row, and that the purge of boot cannot come after it.

Purge == Id("delete_expires", NoKey)

RowAt(k) ==
  \/ Queued(wq, Id("set", k))
  \/ InFlight(Id("set", k)) /\ ~ Queued(wq, Purge)
  \/ /\ db[k] = last[k] /\ ~ Queued(wq, Purge) /\ ~ InFlight(Purge)
     /\ InFlight(Id("del", k)) => mn.pc = "evict"

Stacking(s, k) == At(s, "enq_set") /\ sv[s].key = k

InMemory(k) ==
  mcache[k] # Blank =>
    \/ \E s \in Servers : Stacking(s, k)
    \/ last[k] = Stored(mcache[k]) /\ RowAt(k)

CoherentInv ==
  /\ \A s \in Servers : At(s, "enq_set") => mcache[sv[s].key] \in {sv[s].data, Blank}
  /\ \A q \in ToSet(wq) : q.id = Purge => q.ts = 0
  /\ \A k \in Keys : Before(wq, Purge, Id("set", k)) /\ InMemory(k)

LEMMA IdsDiffer ==
  \A k : /\ Purge # Id("set", k) /\ Purge # Id("del", k) /\ Id("set", k) # Id("del", k)
         /\ Purge.kind = "delete_expires" /\ Id("set", k).kind = "set"
         /\ Id("del", k).kind = "del" /\ Id("set", k).key = k /\ Id("del", k).key = k
  BY DEF Purge, Id

LEMMA SameRowAt ==
  ASSUME NEW k, db'[k] = db[k], last'[k] = last[k], UNCHANGED mn,
         Queued(wq', Id("set", k)) <=> Queued(wq, Id("set", k)),
         Queued(wq', Purge) <=> Queued(wq, Purge)
  PROVE  RowAt(k)' <=> RowAt(k)
<1>1. \A id : InFlight(id)' <=> InFlight(id)
  BY DEF InFlight
<1> QED
  BY <1>1 DEF RowAt

LEMMA CoherentServer ==
  ASSUME TypeInv, NewestInv, NoOverlap, CoherentInv, Ops \subseteq {"post", "delete"},
         NEW s \in Servers, Receive(s) \/ Handle(s)
  PROVE  CoherentInv'
<1>a. /\ sv \in [Servers -> Request] /\ sv[s] \in Request /\ sv[s].data \in Data
      /\ sv[s].pc \in WriterPcs /\ (sv[s].pc \notin Keyless => sv[s].key \in Keys)
      /\ wq \in Seq(Query) /\ UniqueIds(wq)
      /\ mcache \in [Keys -> Data] /\ last \in [Keys -> Data]
  BY DEF TypeInv, TypeOK, QueueIdsUnique, NewestInv, WriterInv, NoReaders, Request
<1>b. /\ \A t \in Servers : t # s => sv'[t] = sv[t]
      /\ \A t \in Servers : t # s /\ At(t, "enq_set")
           => sv[t].key \in Keys /\ (sv[s].pc # "idle" => sv[t].key # sv[s].key)
  BY OthersElsewhere DEF At, Keyless
\* Steps that only move the server.
<1>1. CASE Receive(s)
  <2>1. PICK op, pc, key, d : pc \in {"put", "evict"} /\ Accept(s, op, pc, key, d)
    BY <1>1, WriterReceives
  <2>2. sv'[s].pc = pc /\ sv[s].pc = "idle"
    BY <1>a, <2>1 DEF Accept, IdleServer, At
  <2>3. UNCHANGED <<mcache, wq, db, mn, last>>
    BY <2>1 DEF Accept, memVars, dbVars, history
  <2>4. \A k : RowAt(k)' <=> RowAt(k)
    BY <2>3, SameRowAt
  <2>5. \A k \in Keys : InMemory(k)'
    BY <1>b, <2>2, <2>3, <2>4 DEF CoherentInv, InMemory, Stacking, At
  <2> QED
    BY <1>b, <2>1, <2>2, <2>3, <2>5 DEF CoherentInv, At
<1>2. CASE Put(s) \/ Evict(s)
  <2>1. PICK k \in Keys : k = sv[s].key
    BY <1>a, <1>2 DEF Put, Evict, At, Keyless
  <2>2. /\ UNCHANGED <<wq, db, mn, last>> /\ sv[s].pc \in {"put", "evict"}
        /\ sv'[s].key = k /\ sv'[s].data = sv[s].data
        /\ \A j \in Keys : j # k => mcache'[j] = mcache[j]
        /\ \/ sv'[s].pc = "enq_set" /\ mcache'[k] = sv[s].data
           \/ sv'[s].pc = "enq_now" /\ mcache'[k] = Blank
    BY <1>a, <1>2, <2>1 DEF Put, Evict, CacheSet, CacheDel, Goto, dbVars, history, At, Request
  <2>3. \A j : RowAt(j)' <=> RowAt(j)
    BY <2>2, SameRowAt
  <2>4. ASSUME NEW j \in Keys PROVE InMemory(j)'
    <3>1. CASE j = k
      BY <2>2, <3>1, <1>a DEF InMemory, Stacking, At
    <3>2. CASE j # k
      BY <1>b, <2>2, <2>3, <3>2 DEF CoherentInv, InMemory, Stacking, At
    <3> QED
      BY <3>1, <3>2
  <2> QED
    BY <1>b, <2>1, <2>2, <2>4 DEF CoherentInv, At
<1>3. CASE EnqSet(s)
  <2>1. PICK k \in Keys : k = sv[s].key
    BY <1>a, <1>3 DEF EnqSet, At, Keyless
  <2> DEFINE row == Stored(sv[s].data)
             q   == SetQuery(k, sv[s].data)
  <2>2. /\ wq' = Enqueue(wq, q) /\ last' = [last EXCEPT ![k] = row]
        /\ UNCHANGED <<mcache, db, mn>> /\ sv[s].pc = "enq_set" /\ sv'[s].pc = "enq_del"
    BY <1>a, <1>3, <2>1 DEF EnqSet, Goto, At, memVars, dbVars, Request
  <2>3. q \in Query /\ q.id = Id("set", k) /\ q.ts = 0 /\ row \in Data
    BY <1>a, QueryTypes, StoredType DEF SetQuery
  <2> HIDE DEF q
  <2>4. \A p : p \in ToSet(wq') <=> p = q \/ (p \in ToSet(wq) /\ p.id # q.id)
    BY <1>a, <2>2, <2>3, EnqueueProperties
  <2>5. \A id : id # q.id => (Queued(wq', id) <=> Queued(wq, id))
    BY <2>4, QueuedIsMember
  <2>6. Queued(wq', Id("set", k))
    BY <2>3, <2>4, QueuedIsMember
  <2>7. ASSUME NEW j \in Keys
        PROVE  Before(wq', Purge, Id("set", j)) /\ InMemory(j)'
    <3>1. Before(wq, Purge, Id("set", j)) /\ InMemory(j)
      BY DEF CoherentInv
    <3>2. Before(wq', Purge, Id("set", j))
      BY <1>a, <2>2, <2>3, <3>1, IdsDiffer, EnqueueKeepsOrder
    <3>3. CASE j = k
      <4>1. mcache[k] # Blank => last'[k] = Stored(mcache[k])
        BY <1>a, <2>1, <2>2 DEF CoherentInv, At
      <4> QED
        BY <2>2, <2>6, <3>2, <3>3, <4>1 DEF InMemory, RowAt
    <3>4. CASE j # k
      <4>1. Id("set", j) # q.id /\ Purge # q.id
        BY <2>3, <3>4, IdsDiffer
      <4>2. db'[j] = db[j] /\ last'[j] = last[j]
        BY <1>a, <2>2, <3>4
      <4>3. RowAt(j)' <=> RowAt(j)
        BY <2>2, <2>5, <4>1, <4>2, SameRowAt
      <4>4. /\ mcache'[j] = mcache[j]
            /\ \A t \in Servers : Stacking(t, j) => Stacking(t, j)'
        BY <1>b, <2>1, <2>2, <3>4 DEF Stacking, At
      <4> QED
        BY <3>1, <3>2, <4>2, <4>3, <4>4 DEF InMemory
    <3> QED
      BY <3>3, <3>4
  <2>8. \A p \in ToSet(wq') : p.id = Purge => p.ts = 0
    BY <2>3, <2>4 DEF CoherentInv
  <2> QED
    BY <1>b, <2>2, <2>7, <2>8 DEF CoherentInv, At
\* Deletions do not touch what the invariant is about.
<1>4. CASE EnqDel(s) \/ EnqNow(s)
  <2>1. PICK k \in Keys : k = sv[s].key
    BY <1>a, <1>4 DEF EnqDel, EnqNow, At, Keyless
  <2>2. \E at \in Nat : \/ wq' = RemoveQuery(wq, Id("del", k))
                       \/ wq' = Enqueue(wq, DelQuery(k, at))
    BY <1>4, <1>a, <2>1, StoredType DEF EnqDel, EnqNow
  <2>3. /\ UNCHANGED <<mcache, db, mn, last>>
        /\ sv[s].pc \in {"enq_del", "enq_now"} /\ sv'[s].pc = "idle"
    BY <1>a, <1>4 DEF EnqDel, EnqNow, Reply, IdleServer, At, memVars, dbVars
  <2>4. /\ \A p : p.id # Id("del", k) => (p \in ToSet(wq') <=> p \in ToSet(wq))
        /\ \A j : Before(wq, Purge, Id("set", j)) => Before(wq', Purge, Id("set", j))
    <3>1. CASE wq' = RemoveQuery(wq, Id("del", k))
      BY <1>a, <3>1, RemoveQueryProperties, RemoveKeepsOrder
    <3>2. ASSUME NEW at \in Nat, wq' = Enqueue(wq, DelQuery(k, at))
          PROVE  /\ \A p : p.id # Id("del", k) => (p \in ToSet(wq') <=> p \in ToSet(wq))
                 /\ \A j : Before(wq, Purge, Id("set", j))
                           => Before(wq', Purge, Id("set", j))
      <4>1. DelQuery(k, at) \in Query /\ DelQuery(k, at).id = Id("del", k)
        BY QueryTypes DEF DelQuery
      <4> QED
        BY <1>a, <3>2, <4>1, EnqueueProperties, EnqueueKeepsOrder, IdsDiffer
    <3> QED
      BY <2>2, <3>1, <3>2
  <2>5. \A id : id # Id("del", k) => (Queued(wq', id) <=> Queued(wq, id))
    BY <2>4, QueuedIsMember
  <2>6. \A j : RowAt(j)' <=> RowAt(j)
    BY <2>3, <2>5, IdsDiffer, SameRowAt
  <2>7. \A j \in Keys : InMemory(j)'
    BY <1>b, <2>3, <2>6 DEF CoherentInv, InMemory, Stacking, At
  <2>8. \A p \in ToSet(wq') : p.id = Purge => p.ts = 0
    BY <2>4, IdsDiffer DEF CoherentInv
  <2> QED
    BY <1>b, <2>3, <2>4, <2>7, <2>8 DEF CoherentInv, At
<1> QED
  BY <1>a, <1>1, <1>2, <1>3, <1>4
  DEF Handle, LookUp, Read, Reset, Schedule, Check, Fill, ListAll, ReadAll,
      ResetAll, SetAll, At, WriterPcs

\* The steps of the main thread that leave queue, servers and memory alone.
LEMMA CoherentKept ==
  ASSUME CoherentInv, UNCHANGED <<mcache, wq, sv, last>>,
         \A k \in Keys : RowAt(k) => RowAt(k)'
  PROVE  CoherentInv'
  BY DEF CoherentInv, InMemory, Stacking, At

LEMMA CoherentPop ==
  ASSUME TypeInv, BootInv, DurableInv, CoherentInv, Pop
  PROVE  CoherentInv'
<1>a. wq \in Seq(Query) /\ UniqueIds(wq)
  BY DEF TypeInv, TypeOK, QueueIdsUnique
<1>1. PICK i \in DOMAIN wq :
        /\ IsTop(wq, i) /\ wq' = PopAt(wq, i) /\ mn'.q = wq[i]
        /\ mn'.pc = IF wq[i].id.kind = "del" THEN "evict" ELSE "step"
  BY BootTakes DEF Takes
<1>2. mn.pc = "idle" /\ UNCHANGED <<mcache, db, sv, last>>
  BY DEF Pop, memVars, dbVars, history
<1>3. /\ wq[i] \in ToSet(wq) /\ ~ Queued(wq', wq[i].id)
      /\ \A q : q \in ToSet(wq') <=> q \in ToSet(wq) /\ q # wq[i]
  <2>1. wq[i] \in ToSet(wq)
    BY DEF ToSet
  <2> QED
    BY <1>a, <1>1, <2>1, PopProperties
<1>4. \A id : (InFlight(id)' <=> wq[i].id = id) /\ ~ InFlight(id)
  BY <1>1, <1>2 DEF InFlight
<1>5. \A id : id # wq[i].id => (Queued(wq', id) <=> Queued(wq, id))
  BY <1>3, QueuedIsMember
<1>6. \A k : Before(wq, Purge, Id("set", k)) => Before(wq', Purge, Id("set", k))
  BY <1>a, <1>1, PopKeepsOrder
<1>7. ASSUME NEW k \in Keys, RowAt(k) PROVE RowAt(k)'
  <2>1. CASE wq[i].id = Id("set", k)
    <3>1. Queued(wq, Purge) => FALSE
      <4> SUFFICES ASSUME NEW p \in ToSet(wq), p.id = Purge PROVE FALSE
        BY QueuedIsMember
      <4>1. wq[i].ts = 0 /\ p.ts = 0 /\ Before(wq, Purge, Id("set", k))
        BY <1>3, <2>1, IdsDiffer DEF DurableInv, CoherentInv
      <4> QED
        BY <1>a, <1>1, <2>1, <4>1, IdsDiffer, EarlierIsTaken
    <3>2. ~ Queued(wq', Purge)
      BY <1>5, <2>1, <3>1, IdsDiffer
    <3> QED
      BY <1>4, <2>1, <3>2 DEF RowAt
  <2>2. CASE wq[i].id # Id("set", k) /\ Queued(wq, Id("set", k))
    BY <1>5, <2>2 DEF RowAt
  <2>3. CASE wq[i].id # Id("set", k) /\ ~ Queued(wq, Id("set", k))
    <3>1. db[k] = last[k] /\ ~ Queued(wq, Purge)
      BY <1>4, <2>3, <1>7 DEF RowAt
    <3>2. wq[i].id # Purge
      BY <1>3, <3>1, QueuedIsMember
    <3>3. ~ Queued(wq', Purge) /\ ~ InFlight(Purge)'
      BY <1>4, <1>5, <3>1, <3>2
    <3>4. InFlight(Id("del", k))' => mn'.pc = "evict"
      BY <1>1, <1>4, IdsDiffer
    <3> QED
      BY <1>2, <3>1, <3>3, <3>4 DEF RowAt
  <2> QED
    BY <2>1, <2>2, <2>3
<1> QED
  BY <1>2, <1>3, <1>6, <1>7 DEF CoherentInv, InMemory, Stacking, At

LEMMA CoherentMain ==
  ASSUME TypeInv, NewestInv, BootInv, DurableInv, CoherentInv, Main, ~ GiveUp
  PROVE  CoherentInv'
<1>a. /\ wq \in Seq(Query) /\ mn.q \in Query /\ db \in [Keys -> Data]
      /\ mn \in [pc : MainPcs, q : Query, cts : Nat] /\ mcache \in [Keys -> Data]
      /\ mn.pc = "evict" => mn.q.id.kind = "del"
  BY DEF TypeInv, TypeOK
<1>b. Readers = {}
  BY DEF NewestInv, WriterInv, NoReaders, WriterPcs, Readers, At
<1>1. CASE EvictMem
  <2>1. PICK k \in Keys : mn.q.id = Id("del", k)
    BY <1>1, <1>a DEF EvictMem, Query, Ids, Id
  <2>2. /\ UNCHANGED <<wq, db, sv, last>> /\ mn'.q = mn.q
        /\ mn'.pc = "step" /\ mn.pc = "evict"
        /\ mcache' = [mcache EXCEPT ![k] = Blank]
    BY <1>1, <1>a, <2>1, IdsDiffer DEF EvictMem, CacheDel, CacheSet, dbVars, history
  <2>3. \A id : InFlight(id)' <=> InFlight(id)
    BY <2>2 DEF InFlight
  <2>4. ASSUME NEW j \in Keys PROVE InMemory(j)'
    <3>1. CASE j = k
      BY <1>a, <2>2, <3>1 DEF InMemory
    <3>2. CASE j # k
      <4>1. ~ InFlight(Id("del", j))
        BY <2>1, <3>2, IdsDiffer DEF InFlight
      <4>2. RowAt(j) => RowAt(j)'
        BY <2>2, <2>3, <4>1 DEF RowAt
      <4>3. mcache'[j] = mcache[j]
        BY <1>a, <2>2, <3>2
      <4> QED
        BY <2>2, <4>2, <4>3 DEF CoherentInv, InMemory, Stacking, At
    <3> QED
      BY <3>1, <3>2
  <2>5. \A s \in Servers : At(s, "enq_set") => sv[s].key \in Keys
    BY DEF TypeInv, TypeOK, At, Keyless
  <2>6. \A s \in Servers : At(s, "enq_set") => mcache'[sv[s].key] \in {sv[s].data, Blank}
    BY <1>a, <2>2, <2>5 DEF CoherentInv
  <2> QED
    BY <2>2, <2>4, <2>6 DEF CoherentInv, At
<1>2. CASE Step
  <2>0. mn.pc = "step" /\ UNCHANGED <<mcache, wq, sv, last, db>>
    BY <1>2 DEF Step, memVars, dbVars, history
  <2>1. CASE Dirties
    <3>1. mn'.q = mn.q /\ mn'.pc = "commit"
      BY <1>2, <1>a, <1>b, <2>1 DEF Step
    <3>2. \A id : InFlight(id)' <=> InFlight(id)
      BY <2>0, <3>1 DEF InFlight
    <3>3. \A k \in Keys : RowAt(k) => RowAt(k)'
      BY <2>0, <3>2 DEF RowAt
    <3> QED
      BY <2>0, <3>3, CoherentKept
  <2>2. CASE ~ Dirties
    <3>1. \A id : ~ InFlight(id)'
      BY <1>2, <2>2 DEF Step, InFlight, IdleMain
    <3>2. \A k \in Keys : ~ InFlight(Id("set", k))
      BY <2>2, IdsDiffer DEF Dirties, InFlight
    <3>3. \A k \in Keys : RowAt(k) => RowAt(k)'
      BY <2>0, <3>1, <3>2 DEF RowAt
    <3> QED
      BY <2>0, <3>3, CoherentKept
  <2> QED
    BY <2>1, <2>2
<1>3. CASE Commit
  <2>1. /\ mn.pc = "commit" /\ mn' = IdleMain /\ db' = Written
        /\ UNCHANGED <<mcache, wq, last, sv>>
    BY <1>3 DEF Commit, memVars, history
  <2>2. \A id : ~ InFlight(id)'
    BY <2>1 DEF InFlight, IdleMain
  <2>3. ASSUME NEW k \in Keys, RowAt(k) PROVE RowAt(k)'
    <3>1. CASE Queued(wq, Id("set", k))
      BY <2>1, <3>1 DEF RowAt
    <3>2. CASE ~ Queued(wq, Id("set", k)) /\ InFlight(Id("set", k))
      <4>1. mn.q.data = last[k]
        BY <3>2 DEF NewestInv, LastInv
      <4>2. Written[k] = mn.q.data
        BY <1>a, <3>2, IdsDiffer DEF InFlight, Written
      <4>3. ~ Queued(wq, Purge)
        BY <2>3, <3>2, IdsDiffer DEF RowAt, InFlight
      <4> QED
        BY <2>1, <2>2, <4>1, <4>2, <4>3 DEF RowAt
    <3>3. CASE ~ Queued(wq, Id("set", k)) /\ ~ InFlight(Id("set", k))
      <4>1. db[k] = last[k] /\ ~ Queued(wq, Purge) /\ ~ InFlight(Purge)
        BY <2>3, <3>3 DEF RowAt
      <4>2. ~ InFlight(Id("del", k))
        BY <2>1, <2>3, <3>3 DEF RowAt
      <4>3. Written[k] = db[k]
        <5>1. mn.q.id # Purge /\ mn.q.id # Id("del", k) /\ mn.q.id # Id("set", k)
          BY <2>1, <3>3, <4>1, <4>2 DEF InFlight
        <5> QED
          BY <1>a, <5>1 DEF Written, Query, Ids, Id, Purge
      <4> QED
        BY <2>1, <2>2, <4>1, <4>3 DEF RowAt
    <3> QED
      BY <3>1, <3>2, <3>3
  <2> QED
    BY <2>1, <2>3, CoherentKept
<1>4. ~ Resched
  BY DEF Resched, NewestInv, WriterInv
<1> QED
  BY <1>1, <1>2, <1>3, <1>4, CoherentPop DEF Main

\* At boot the purge waits, and no set.
LEMMA BootPurges ==
  /\ \A q \in ToSet(BootQueue) : q.ts = 0
  /\ \A k : Before(BootQueue, Purge, Id("set", k))
<1>1. \A q \in ToSet(BootQueue) : q.ts = 0
  BY DEF ToSet, BootQueue, BootQuery
<1>2. \A k : Before(BootQueue, Purge, Id("set", k))
  BY BootWrites DEF Before, Queued
<1> QED
  BY <1>1, <1>2

\* At rest memory and database agree (CacheMe!CoherentAtRest): clients only
\* write, no two requests for a key overlap and SQLite fails no query, for any
\* servers, keys, values and ttls, any number of crashes and any database.
THEOREM MemoryIsCoherent ==
  ASSUME Ops \subseteq {"post", "delete"}
  PROVE  Spec /\ []NoOverlap /\ [][~ GiveUp]_vars => []CoherentAtRest
<1>1. TypeInv /\ NewestInv /\ BootInv /\ [Next /\ ~ GiveUp]_vars => BootInv'
  BY WriterBoots DEF NewestInv
<1>2. Init => CoherentInv
  <2> SUFFICES ASSUME Init PROVE CoherentInv
    OBVIOUS
  <2> QED
    BY BootPurges DEF Init, IdleServer, NoRows, CoherentInv, InMemory, At
<1>3. TypeInv /\ NewestInv /\ [Next]_vars => NewestInv'
  BY NewestStep
<1>4. TypeInv /\ NewestInv /\ BootInv /\ DurableInv /\ NoOverlap /\ CoherentInv
        /\ [Next /\ ~ GiveUp]_vars => CoherentInv'
  <2> SUFFICES ASSUME TypeInv, NewestInv, BootInv, DurableInv, NoOverlap, CoherentInv,
                      [Next /\ ~ GiveUp]_vars
               PROVE  CoherentInv'
    OBVIOUS
  <2>1. CASE Tick \/ UNCHANGED vars
    <3>1. UNCHANGED <<mcache, wq, db, sv, mn, last>>
      BY <2>1 DEF Tick, vars, memVars, dbVars, history
    <3>2. \A k : RowAt(k)' <=> RowAt(k)
      BY <3>1, SameRowAt
    <3> QED
      BY <3>1, <3>2, CoherentKept
  <2>2. CASE Crash
    <3>1. mcache' = NoRows /\ wq' = BootQueue /\ \A s \in Servers : sv'[s].pc = "idle"
      BY <2>2 DEF Crash, IdleServer
    <3> QED
      BY <3>1, BootPurges DEF NoRows, CoherentInv, InMemory, At
  <2> QED
    BY <2>1, <2>2, CoherentServer, CoherentMain DEF Next
<1>5. TypeInv /\ CoherentInv => CoherentAtRest
  <2> SUFFICES ASSUME TypeInv, CoherentInv, AtRest, NEW k \in Keys, mcache[k] # Blank
               PROVE  Stored(mcache[k]) = db[k]
    BY DEF CoherentAtRest
  <2>1. \A id : ~ InFlight(id)
    BY DEF AtRest, InFlight
  <2>2. ~ Queued(wq, Id("set", k))
    BY IdsDiffer DEF AtRest, Queued
  <2>3. \A s \in Servers : ~ Stacking(s, k)
    BY DEF AtRest, Stacking, At
  <2> QED
    BY <2>1, <2>2, <2>3 DEF CoherentInv, InMemory, RowAt
<1>6. [Next]_vars /\ [~ GiveUp]_vars => [Next /\ ~ GiveUp]_vars
  OBVIOUS
<1> QED
  BY <1>1, <1>2, <1>3, <1>4, <1>5, <1>6, TypeInit, TypeStep, NewestInit, BootInit,
     DurableInit, WriterDurable, PTL DEF Spec

\* In particular with one server.
COROLLARY OneServerIsCoherent ==
  ASSUME \E s : Servers = {s}, Ops \subseteq {"post", "delete"}
  PROVE  Spec /\ [][~ GiveUp]_vars => []CoherentAtRest
  BY OneServerIsAlone, MemoryIsCoherent, PTL

-----------------------------------------------------------------------------
\* The program implements the write-behind store (WriteBehind): the database
\* changes by the jobs that were owed to it and by nothing else.

\* Only init_db is run while there is no table.
TableInv == table = TRUE \/ mn.pc = "idle" \/ mn.q.id.kind = "init_db"

LEMMA TableStep == TypeInv /\ TableInv /\ [Next]_vars => TableInv'
<1> SUFFICES ASSUME TypeInv, TableInv, [Next]_vars PROVE TableInv'
  OBVIOUS
<1>a. mn \in [pc : MainPcs, q : Query, cts : Nat] /\ table \in BOOLEAN
  BY DEF TypeInv, TypeOK
<1>1. CASE \E s \in Servers : Receive(s) \/ Handle(s)
  BY <1>1, ServerQueues DEF TableInv
<1>2. CASE Pop
  BY <1>2, <1>a DEF Pop, TableInv, IdleMain, dbVars
<1>3. CASE EvictMem \/ Step
  <2>1. UNCHANGED table /\ mn.pc # "idle" /\ (mn'.pc = "idle" \/ mn'.q = mn.q)
    BY <1>3, <1>a DEF EvictMem, Step, IdleMain, dbVars
  <2> QED
    BY <2>1 DEF TableInv
<1>4. CASE Commit \/ Resched \/ GiveUp \/ Crash
  BY <1>4 DEF Commit, Resched, GiveUp, Crash, TableInv, IdleMain
<1>5. CASE Tick \/ UNCHANGED vars
  BY <1>5 DEF Tick, vars, dbVars, TableInv
<1> QED
  BY <1>1, <1>2, <1>3, <1>4, <1>5 DEF Next, Main

\* What a queue owes, in terms of its elements.
OwesSet(w, k, d) == \E q \in ToSet(w) : q.id = Id("set", k) /\ q.data = d
OwesDel(w, k)    == \E q \in ToSet(w) : q.id = Id("del", k)

LEMMA OwedByMembers ==
  \A w : /\ SetsIn(w) = [k \in Keys |-> SetsIn(w)[k]]
         /\ \A k \in Keys : \A d :
              d \in SetsIn(w)[k] <=> d \in Data /\ OwesSet(w, k, d)
         /\ \A k : k \in DelsIn(w) <=> k \in Keys /\ OwesDel(w, k)
  BY DEF SetsIn, DelsIn, Queued, ToSet, OwesSet, OwesDel

LEMMA SameSetsOwed ==
  ASSUME NEW v, NEW w,
         \A q : q.id.kind = "set" => (q \in ToSet(v) <=> q \in ToSet(w))
  PROVE  SetsIn(v) = SetsIn(w)
<1>1. \A k : Id("set", k).kind = "set"
  BY DEF Id
<1>2. ASSUME NEW k \in Keys PROVE SetsIn(v)[k] = SetsIn(w)[k]
  <2>1. \A d : OwesSet(v, k, d) <=> OwesSet(w, k, d)
    BY <1>1 DEF OwesSet
  <2>2. \A d : d \in SetsIn(v)[k] <=> d \in SetsIn(w)[k]
    BY <2>1, OwedByMembers
  <2> QED
    BY <2>2
<1>3. /\ SetsIn(v) = [k \in Keys |-> SetsIn(v)[k]]
      /\ SetsIn(w) = [k \in Keys |-> SetsIn(w)[k]]
  BY OwedByMembers
<1> QED
  BY <1>2, <1>3

LEMMA SameDelsOwed ==
  ASSUME NEW v, NEW w,
         \A q : q.id.kind = "del" => (q \in ToSet(v) <=> q \in ToSet(w))
  PROVE  DelsIn(v) = DelsIn(w)
<1>1. \A k : Id("del", k).kind = "del"
  BY DEF Id
<1>2. \A k : OwesDel(v, k) <=> OwesDel(w, k)
  BY <1>1 DEF OwesDel
<1>3. \A k : k \in DelsIn(v) <=> k \in DelsIn(w)
  BY <1>2, OwedByMembers
<1> QED
  BY <1>3

LEMMA OwedByEnqueue ==
  ASSUME NEW w \in Seq(Query), UniqueIds(w), NEW q \in Query
  PROVE  /\ SetsIn(Enqueue(w, q)) = IF q.id.kind = "set"
              THEN [SetsIn(w) EXCEPT ![q.id.key] = {q.data}] ELSE SetsIn(w)
         /\ DelsIn(Enqueue(w, q)) = IF q.id.kind = "del"
              THEN DelsIn(w) \cup {q.id.key} ELSE DelsIn(w)
<1> DEFINE v == Enqueue(w, q)
<1>1. \A p : p \in ToSet(v) <=> p = q \/ (p \in ToSet(w) /\ p.id # q.id)
  BY EnqueueProperties
<1> HIDE DEF v
<1>2. q.id.kind # "set" => SetsIn(v) = SetsIn(w)
  BY <1>1, SameSetsOwed
<1>3. q.id.kind # "del" => DelsIn(v) = DelsIn(w)
  BY <1>1, SameDelsOwed
<1>4. ASSUME NEW k \in Keys, q.id = Id("set", k)
      PROVE  SetsIn(v) = [SetsIn(w) EXCEPT ![k] = {q.data}]
  <2>1. q.data \in Data
    BY DEF Query
  <2>2. SetsIn(v)[k] = {q.data}
    <3>1. \A d : OwesSet(v, k, d) <=> d = q.data
      BY <1>1, <1>4 DEF OwesSet
    <3>2. \A d : d \in SetsIn(v)[k] <=> d = q.data
      BY <2>1, <3>1, OwedByMembers
    <3> QED
      BY <3>2
  <2>3. ASSUME NEW j \in Keys, j # k PROVE SetsIn(v)[j] = SetsIn(w)[j]
    <3>1. Id("set", j) # q.id
      BY <1>4, <2>3 DEF Id
    <3>2. \A d : OwesSet(v, j, d) <=> OwesSet(w, j, d)
      BY <1>1, <3>1 DEF OwesSet
    <3>3. \A d : d \in SetsIn(v)[j] <=> d \in SetsIn(w)[j]
      BY <3>2, OwedByMembers
    <3> QED
      BY <3>3
  <2>4. /\ SetsIn(v) = [j \in Keys |-> SetsIn(v)[j]]
        /\ SetsIn(w) = [j \in Keys |-> SetsIn(w)[j]]
    BY OwedByMembers
  <2> QED
    BY <2>2, <2>3, <2>4
<1>5. ASSUME NEW k \in Keys, q.id = Id("del", k)
      PROVE  DelsIn(v) = DelsIn(w) \cup {k}
  <2>1. \A j : Id("del", j) = Id("del", k) <=> j = k
    BY DEF Id
  <2>2. \A j : OwesDel(v, j) <=> j = k \/ OwesDel(w, j)
    BY <1>1, <1>5, <2>1 DEF OwesDel
  <2>3. \A j : j \in DelsIn(v) <=> j = k \/ j \in DelsIn(w)
    BY <2>2, OwedByMembers
  <2> QED
    BY <2>3
<1>6. /\ q.id.kind = "set" => q.id.key \in Keys /\ q.id = Id("set", q.id.key)
      /\ q.id.kind = "del" => q.id.key \in Keys /\ q.id = Id("del", q.id.key)
  BY DEF Query, Ids, Id
<1> QED
  BY <1>2, <1>3, <1>4, <1>5, <1>6 DEF v

LEMMA OwedByRemoval ==
  ASSUME NEW w \in Seq(Query), UniqueIds(w), NEW k \in Keys
  PROVE  /\ SetsIn(RemoveQuery(w, Id("del", k))) = SetsIn(w)
         /\ DelsIn(RemoveQuery(w, Id("del", k))) = DelsIn(w) \ {k}
<1> DEFINE v == RemoveQuery(w, Id("del", k))
<1>1. \A p : p \in ToSet(v) <=> p \in ToSet(w) /\ p.id # Id("del", k)
  BY RemoveQueryProperties
<1> HIDE DEF v
<1>2. Id("del", k).kind = "del"
  BY DEF Id
<1>3. SetsIn(v) = SetsIn(w)
  BY <1>1, <1>2, SameSetsOwed
<1>4. \A j : Id("del", j) = Id("del", k) <=> j = k
  BY DEF Id
<1>5. \A j : OwesDel(v, j) <=> j # k /\ OwesDel(w, j)
  BY <1>1, <1>4 DEF OwesDel
<1>6. \A j : j \in DelsIn(v) <=> j # k /\ j \in DelsIn(w)
  BY <1>5, OwedByMembers
<1>7. DelsIn(v) = DelsIn(w) \ {k}
  BY <1>6
<1> QED
  BY <1>3, <1>7 DEF v

LEMMA OwedByPop ==
  ASSUME NEW w \in Seq(Query), UniqueIds(w), NEW i \in DOMAIN w
  PROVE  /\ SetsIn(PopAt(w, i)) = IF w[i].id.kind = "set"
              THEN [SetsIn(w) EXCEPT ![w[i].id.key] = {}] ELSE SetsIn(w)
         /\ DelsIn(PopAt(w, i)) = IF w[i].id.kind = "del"
              THEN DelsIn(w) \ {w[i].id.key} ELSE DelsIn(w)
         /\ w[i].id.kind = "set" => w[i].data \in SetsIn(w)[w[i].id.key]
         /\ w[i].id.kind = "del" => w[i].id.key \in DelsIn(w)
<1> DEFINE v == PopAt(w, i)
           q == w[i]
<1>1. /\ \A p : p \in ToSet(v) <=> p \in ToSet(w) /\ p # q
      /\ ~ Queued(v, q.id)
  BY PopProperties
<1>2. q \in Query /\ q \in ToSet(w)
  BY ElementOfSeq, LenProperties DEF ToSet
<1> HIDE DEF v, q
<1>3. q.id.kind # "set" => SetsIn(v) = SetsIn(w)
  BY <1>1, SameSetsOwed
<1>4. q.id.kind # "del" => DelsIn(v) = DelsIn(w)
  BY <1>1, SameDelsOwed
<1>5. ASSUME NEW k \in Keys, q.id = Id("set", k)
      PROVE  /\ SetsIn(v) = [SetsIn(w) EXCEPT ![k] = {}]
             /\ q.data \in SetsIn(w)[k]
  <2>1. q.data \in Data
    BY <1>2 DEF Query
  <2>2. SetsIn(v)[k] = {}
    <3>1. \A d : ~ OwesSet(v, k, d)
      BY <1>1, <1>5, QueuedIsMember DEF OwesSet
    <3>2. \A d : d \notin SetsIn(v)[k]
      BY <3>1, OwedByMembers
    <3> QED
      BY <3>2
  <2>3. ASSUME NEW j \in Keys, j # k PROVE SetsIn(v)[j] = SetsIn(w)[j]
    <3>1. Id("set", j) # q.id
      BY <1>5, <2>3 DEF Id
    <3>2. \A d : OwesSet(v, j, d) <=> OwesSet(w, j, d)
      BY <1>1, <3>1 DEF OwesSet
    <3>3. \A d : d \in SetsIn(v)[j] <=> d \in SetsIn(w)[j]
      BY <3>2, OwedByMembers
    <3> QED
      BY <3>3
  <2>4. /\ SetsIn(v) = [j \in Keys |-> SetsIn(v)[j]]
        /\ SetsIn(w) = [j \in Keys |-> SetsIn(w)[j]]
    BY OwedByMembers
  <2>5. q.data \in SetsIn(w)[k]
    <3>1. OwesSet(w, k, q.data)
      BY <1>2, <1>5 DEF OwesSet
    <3> QED
      BY <2>1, <3>1, OwedByMembers
  <2> QED
    BY <2>2, <2>3, <2>4, <2>5
<1>6. ASSUME NEW k \in Keys, q.id = Id("del", k)
      PROVE  DelsIn(v) = DelsIn(w) \ {k} /\ k \in DelsIn(w)
  <2>1. \A j : Id("del", j) = Id("del", k) <=> j = k
    BY DEF Id
  <2>2. ~ OwesDel(v, k)
    BY <1>1, <1>6, QueuedIsMember DEF OwesDel
  <2>3. \A j : OwesDel(v, j) <=> j # k /\ OwesDel(w, j)
    BY <1>1, <1>6, <2>1, <2>2 DEF OwesDel
  <2>4. OwesDel(w, k)
    BY <1>2, <1>6 DEF OwesDel
  <2>5. \A j : j \in DelsIn(v) <=> j # k /\ j \in DelsIn(w)
    BY <2>3, OwedByMembers
  <2>6. k \in DelsIn(w)
    BY <2>4, OwedByMembers
  <2> QED
    BY <2>5, <2>6
<1>7. /\ q.id.kind = "set" => q.id.key \in Keys /\ q.id = Id("set", q.id.key)
      /\ q.id.kind = "del" => q.id.key \in Keys /\ q.id = Id("del", q.id.key)
  BY <1>2 DEF Query, Ids, Id
<1> QED
  BY <1>3, <1>4, <1>5, <1>6, <1>7 DEF v, q

LEMMA BootOwesNothing ==
  SetsIn(BootQueue) = [k \in Keys |-> {}] /\ DelsIn(BootQueue) = {}
<1> DEFINE w == BootQueue
<1>1. \A k, d : ~ OwesSet(w, k, d) /\ ~ OwesDel(w, k)
  BY BootWrites DEF OwesSet, OwesDel, Id
<1> HIDE DEF w
<1>2. \A k \in Keys : \A d : d \notin SetsIn(w)[k]
  BY <1>1, OwedByMembers
<1>3. \A k : k \notin DelsIn(w)
  BY <1>1, OwedByMembers
<1>4. SetsIn(w) = [k \in Keys |-> SetsIn(w)[k]]
  BY OwedByMembers
<1>5. \A k \in Keys : SetsIn(w)[k] = {}
  BY <1>2
<1> QED
  BY <1>3, <1>4, <1>5 DEF w

LEMMA JobOfMain ==
  \A m : /\ m.pc = "idle" => Job(m) = Behind!NoJob
         /\ m.pc # "idle" /\ m.q.id.kind = "set"
              => Job(m) = Behind!Set(m.q.id.key, m.q.data)
         /\ m.pc # "idle" /\ m.q.id.kind = "del" => Job(m) = Behind!Del(m.q.id.key)
         /\ m.pc # "idle" /\ m.q.id.kind \notin {"set", "del"} => Job(m) = Behind!NoJob
  BY DEF Job, Behind!NoJob, Behind!Set, Behind!Del

LEMMA BehindInit == Init => Behind!Init
<1> SUFFICES ASSUME Init PROVE Behind!Init
  OBVIOUS
<1>1. table \in BOOLEAN /\ db \in [Keys -> IF table THEN Data ELSE {Blank}]
  <2>1. table \in BOOLEAN
    BY OldDbAssumption DEF Init
  <2>2. CASE table = TRUE
    <3>1. db \in [Keys -> OldRows]
      BY <2>2 DEF Init
    <3> QED
      BY <2>2, <3>1, OldDbAssumption
  <2>3. CASE table = FALSE
    BY <2>3 DEF Init
  <2> QED
    BY <2>1, <2>2, <2>3
<1>3. SetsIn(wq) = [k \in Keys |-> {}] /\ DelsIn(wq) = {}
  BY BootOwesNothing DEF Init
<1>4. Job(mn) = Behind!NoJob
  BY JobOfMain DEF Init, IdleMain
<1>5. crashes + errors = 0
  BY DEF Init
<1> QED
  BY <1>1, <1>3, <1>4, <1>5 DEF Behind!Init, Behind!NothingOwed

\* A server owes a row, dooms a key, or spares it.
LEMMA BehindServer ==
  ASSUME TypeInv, NEW s \in Servers, Receive(s) \/ Handle(s)
  PROVE  [Behind!Next]_(Behind!vars)
<1>a. /\ wq \in Seq(Query) /\ UniqueIds(wq)
      /\ sv[s] \in Request /\ (sv[s].pc \notin Keyless => sv[s].key \in Keys)
  BY DEF TypeInv, TypeOK, QueueIdsUnique
<1>b. UNCHANGED <<db, table, mn>>
  BY ServerQueues
<1>c. UNCHANGED <<crashes, errors>>
  BY Receives DEF Accept, Handle, LookUp, Read, Reset, Schedule, Check, Fill, Put,
     EnqSet, EnqDel, Evict, EnqNow, ListAll, ReadAll, ResetAll, SetAll, boundVars
<1>d. UNCHANGED <<db, table, Job(mn), crashes + errors>>
  BY <1>b, <1>c
<1>1. CASE wq' = wq
  BY <1>1, <1>d DEF Behind!vars, Behind!owed
<1>2. ASSUME NEW q \in Query, q.id.kind \in {"set", "del"}, wq' = Enqueue(wq, q)
      PROVE  Behind!Next
  <2>1. q.id.key \in Keys /\ q.data \in Data
    BY <1>2 DEF Query, Ids
  <2>2. CASE q.id.kind = "set"
    <3>1. Behind!Owe(q.id.key, q.data)
      BY <1>a, <1>2, <1>d, <2>2, OwedByEnqueue DEF Behind!Owe
    <3> QED
      BY <2>1, <3>1 DEF Behind!Next
  <2>3. CASE q.id.kind = "del"
    <3>1. Behind!Doom(q.id.key)
      BY <1>a, <1>2, <1>d, <2>3, OwedByEnqueue DEF Behind!Doom
    <3> QED
      BY <2>1, <3>1 DEF Behind!Next
  <2> QED
    BY <1>2, <2>2, <2>3
<1>3. CASE wq' = RemoveQuery(wq, Id("del", sv[s].key)) /\ wq' # wq
  <2>1. sv[s].key \in Keys
    <3>1. ~ At(s, "idle")
      BY <1>3, Receives DEF Accept, Handle, LookUp, Read, Reset, Schedule, Check,
         Fill, Put, EnqSet, EnqDel, Evict, EnqNow, ListAll, ReadAll, ResetAll,
         SetAll, At
    <3>2. ~ (ListAll(s) \/ ReadAll(s) \/ ResetAll(s) \/ SetAll(s))
      BY <1>3 DEF ListAll, ReadAll, ResetAll, SetAll
    <3>3. sv[s].pc \notin Keyless
      BY <1>3, <3>1, <3>2, Receives DEF Accept, Handle, LookUp, Read, Reset, Schedule,
         Check, Fill, Put, EnqSet, EnqDel, Evict, EnqNow, At, Keyless
    <3> QED
      BY <1>a, <3>3
  <2>2. Behind!Spare(sv[s].key)
    BY <1>a, <1>d, <1>3, <2>1, OwedByRemoval DEF Behind!Spare
  <2> QED
    BY <2>1, <2>2 DEF Behind!Next
<1> QED
  BY <1>1, <1>2, <1>3, ServerQueues

LEMMA BehindMain ==
  ASSUME TypeInv, TableInv, Main
  PROVE  [Behind!Next]_(Behind!vars)
<1> DEFINE k == mn.q.id.key
           kind == mn.q.id.kind
<1>a. /\ wq \in Seq(Query) /\ UniqueIds(wq) /\ mn.q \in Query
      /\ mn \in [pc : MainPcs, q : Query, cts : Nat]
      /\ db \in [Keys -> Data] /\ table \in BOOLEAN
      /\ crashes \in Nat /\ errors \in Nat
      /\ mn.pc = "evict" => mn.q.id.kind = "del"
  BY DEF TypeInv, TypeOK, QueueIdsUnique
<1>b. /\ kind \in {"set", "del"} => k \in Keys
      /\ kind \in {"set", "del", "init_db", "delete_expires"}
      /\ mn.q.data \in Data
  BY <1>a DEF Query, Ids
<1>1. CASE Pop
  <2>1. PICK i \in DOMAIN wq :
          /\ wq' = PopAt(wq, i)
          /\ mn' = IF wq[i].id.kind # "init_db" /\ ~ table THEN IdleMain
                   ELSE [pc |-> IF wq[i].id.kind = "del" THEN "evict" ELSE "step",
                         q |-> wq[i],
                         cts |-> IF wq[i].id.kind = "delete_expires" THEN now ELSE 0]
    BY <1>1 DEF Pop
  <2>2. UNCHANGED <<db, table, crashes + errors>> /\ Job(mn) = Behind!NoJob
    BY <1>1, JobOfMain DEF Pop, dbVars, boundVars
  <2>3. wq[i] \in Query
    BY <1>a, <2>1, ElementOfSeq, LenProperties
  <2> DEFINE q == wq[i]
  <2>4. q.id.kind \in {"set", "del"} => q.id.key \in Keys
    BY <2>3 DEF Query, Ids
  <2>5. CASE q.id.kind = "set"
    <3>1. Job(mn') = IF table THEN Behind!Set(q.id.key, q.data) ELSE Behind!NoJob
      BY <2>1, <2>5, JobOfMain DEF IdleMain
    <3>2. /\ SetsIn(wq') = [SetsIn(wq) EXCEPT ![q.id.key] = {}]
          /\ DelsIn(wq') = DelsIn(wq) /\ q.data \in SetsIn(wq)[q.id.key]
      BY <1>a, <2>1, <2>5, OwedByPop
    <3>3. Behind!TakeSet(q.id.key)
      BY <2>2, <3>1, <3>2 DEF Behind!TakeSet
    <3> QED
      BY <2>4, <2>5, <3>3 DEF Behind!Next
  <2>6. CASE q.id.kind = "del"
    <3>1. Job(mn') = IF table THEN Behind!Del(q.id.key) ELSE Behind!NoJob
      BY <2>1, <2>6, JobOfMain DEF IdleMain
    <3>2. /\ DelsIn(wq') = DelsIn(wq) \ {q.id.key} /\ q.id.key \in DelsIn(wq)
          /\ SetsIn(wq') = SetsIn(wq)
      BY <1>a, <2>1, <2>6, OwedByPop
    <3>3. Behind!TakeDel(q.id.key)
      BY <2>2, <3>1, <3>2 DEF Behind!TakeDel
    <3> QED
      BY <2>4, <2>6, <3>3 DEF Behind!Next
  <2>7. CASE q.id.kind \notin {"set", "del"}
    <3>1. Job(mn') = Behind!NoJob
      BY <2>1, <2>7, JobOfMain DEF IdleMain
    <3>2. SetsIn(wq') = SetsIn(wq) /\ DelsIn(wq') = DelsIn(wq)
      BY <1>a, <2>1, <2>7, OwedByPop
    <3> QED
      BY <2>2, <3>1, <3>2 DEF Behind!vars, Behind!owed
  <2> QED
    BY <2>5, <2>6, <2>7
<1>2. CASE EvictMem
  <2>1. mn'.q = mn.q /\ mn'.pc = "step" /\ mn.pc = "evict"
    BY <1>2, <1>a DEF EvictMem
  <2>2. Job(mn') = Job(mn)
    BY <1>a, <2>1, JobOfMain
  <2> QED
    BY <1>2, <2>2 DEF EvictMem, Behind!vars, Behind!owed, dbVars, boundVars
<1>3. CASE Step
  <2>1. mn.pc = "step" /\ UNCHANGED <<db, table, wq, crashes, errors>>
    BY <1>3 DEF Step, dbVars, boundVars
  <2>2. CASE Dirties
    <3>1. mn'.q = mn.q /\ mn'.pc \in {"commit", "resched"}
      BY <1>3, <1>a, <2>2 DEF Step
    <3>2. Job(mn') = Job(mn)
      BY <2>1, <3>1 DEF Job
    <3> QED
      BY <2>1, <3>2 DEF Behind!vars, Behind!owed
  <2>3. CASE ~ Dirties
    <3>1. Job(mn') = Behind!NoJob
      BY <1>3, <2>3, JobOfMain DEF Step, IdleMain
    <3>2. CASE kind = "del"
      <4>1. db = [db EXCEPT ![k] = Blank]
        BY <2>3, <3>2 DEF Dirties, Written
      <4>2. Behind!Erase(k)
        BY <2>1, <3>1, <3>2, <4>1, JobOfMain DEF Behind!Erase, Behind!owed
      <4> QED
        BY <1>b, <3>2, <4>2 DEF Behind!Next
    <3>3. CASE kind # "del"
      <4>1. kind \notin {"set", "del"}
        BY <2>3, <3>3 DEF Dirties
      <4>2. Job(mn) = Behind!NoJob
        BY <2>1, <4>1, JobOfMain
      <4> QED
        BY <2>1, <3>1, <4>2 DEF Behind!vars, Behind!owed
    <3> QED
      BY <3>2, <3>3
  <2> QED
    BY <2>2, <2>3
<1>4. CASE Commit
  <2>1. /\ mn.pc = "commit" /\ db' = Written /\ table' = TRUE
        /\ UNCHANGED <<wq, crashes, errors>>
    BY <1>4 DEF Commit, boundVars
  <2>2. Job(mn') = Behind!NoJob
    BY <1>4, JobOfMain DEF Commit, IdleMain
  <2>3. kind # "init_db" => table' = table
    BY <2>1 DEF TableInv
  <2>4. CASE kind = "set"
    <3>1. Behind!Write(k, mn.q.data)
      BY <2>1, <2>2, <2>3, <2>4, JobOfMain DEF Written, Behind!Write, Behind!owed
    <3> QED
      BY <1>b, <2>4, <3>1 DEF Behind!Next
  <2>5. CASE kind = "del"
    <3>1. Behind!Erase(k)
      BY <2>1, <2>2, <2>3, <2>5, JobOfMain DEF Written, Behind!Erase, Behind!owed
    <3> QED
      BY <1>b, <2>5, <3>1 DEF Behind!Next
  <2>6. CASE kind = "init_db"
    <3>1. Job(mn) = Behind!NoJob /\ db' = db
      BY <2>1, <2>6, JobOfMain DEF Written
    <3>2. Behind!Create
      BY <2>1, <2>2, <3>1 DEF Behind!Create, Behind!owed
    <3> QED
      BY <3>2 DEF Behind!Next
  <2>7. CASE kind = "delete_expires"
    <3>1. Job(mn) = Behind!NoJob /\ table = TRUE
      BY <2>1, <2>7, JobOfMain DEF TableInv
    <3>2. db' = [j \in Keys |-> IF Purged(db[j]) THEN Blank ELSE db[j]]
      BY <2>1, <2>7 DEF Written
    <3>3. /\ db' \in [Keys -> Data]
          /\ \A j \in Keys : db'[j] # db[j] => db[j].expires_at # 0 /\ db'[j] = Blank
      BY <1>a, <3>2, BlankType DEF Purged
    <3>4. Behind!Purge
      BY <2>1, <2>2, <2>3, <2>7, <3>1, <3>3 DEF Behind!Purge, Behind!owed
    <3> QED
      BY <3>4 DEF Behind!Next
  <2> QED
    BY <1>b, <2>4, <2>5, <2>6, <2>7
<1>5. CASE Resched
  <2> DEFINE q == [mn.q EXCEPT !.ts = now + RetryDelay]
  <2>0. now + RetryDelay \in Nat
    BY TimeAssumption DEF TypeInv, TypeOK
  <2>1. q \in Query /\ q.id = mn.q.id /\ q.data = mn.q.data
    BY <1>a, <2>0 DEF Query
  <2>2. /\ wq' = Enqueue(wq, q) /\ mn.pc = "resched"
        /\ UNCHANGED <<db, table, crashes, errors>>
    BY <1>5 DEF Resched, dbVars, boundVars
  <2> HIDE DEF q
  <2>3. Job(mn') = Behind!NoJob
    BY <1>5, JobOfMain DEF Resched, IdleMain
  <2>4. CASE kind = "set"
    <3>1. Behind!PutBackSet(k, mn.q.data)
      BY <1>a, <2>1, <2>2, <2>3, <2>4, JobOfMain, OwedByEnqueue DEF Behind!PutBackSet
    <3> QED
      BY <1>b, <2>4, <3>1 DEF Behind!Next
  <2>5. CASE kind = "del"
    <3>1. Behind!PutBackDel(k)
      BY <1>a, <2>1, <2>2, <2>3, <2>5, JobOfMain, OwedByEnqueue DEF Behind!PutBackDel
    <3> QED
      BY <1>b, <2>5, <3>1 DEF Behind!Next
  <2>6. CASE kind \notin {"set", "del"}
    <3>1. Job(mn) = Behind!NoJob
      BY <2>2, <2>6, JobOfMain
    <3>2. SetsIn(wq') = SetsIn(wq) /\ DelsIn(wq') = DelsIn(wq)
      BY <1>a, <2>1, <2>2, <2>6, OwedByEnqueue
    <3> QED
      BY <2>2, <2>3, <3>1, <3>2 DEF Behind!vars, Behind!owed
  <2> QED
    BY <2>4, <2>5, <2>6
<1>6. CASE GiveUp
  <2>1. /\ crashes' + errors' = crashes + errors + 1
        /\ UNCHANGED <<wq, db, table>>
    BY <1>6, <1>a DEF GiveUp, dbVars
  <2>2. Job(mn') = Behind!NoJob
    BY <1>6, JobOfMain DEF GiveUp, IdleMain
  <2>3. Behind!Fail
    BY <2>1, <2>2 DEF Behind!Fail, Behind!owed
  <2> QED
    BY <2>3 DEF Behind!Next
<1> QED
  BY <1>1, <1>2, <1>3, <1>4, <1>5, <1>6 DEF Main

LEMMA BehindCrash ==
  ASSUME TypeInv, Crash PROVE Behind!Next
<1>1. /\ crashes' + errors' = crashes + errors + 1
      /\ UNCHANGED <<db, table>> /\ wq' = BootQueue /\ mn' = IdleMain
  BY DEF Crash, dbVars, TypeInv, TypeOK
<1>3. SetsIn(wq') = [k \in Keys |-> {}] /\ DelsIn(wq') = {}
  BY <1>1, BootOwesNothing
<1>4. Job(mn') = Behind!NoJob
  BY <1>1, JobOfMain DEF IdleMain
<1>5. Behind!Crash
  BY <1>1, <1>3, <1>4 DEF Behind!Crash
<1> QED
  BY <1>5 DEF Behind!Next

\* The program is a write-behind store (CacheMe!WritesBehind), for any requests,
\* servers, keys, ttls, crashes, errors and clock and on any database: the table
\* changes by one job at a time, with the row that job was owed with, and a job
\* in hand ends by its row, by being owed again, by an error or by a crash.
THEOREM ImplementsWriteBehind == Spec => WritesBehind
<1>1. Init => TableInv
  BY DEF Init, TableInv, IdleMain
<1>2. TypeInv /\ TableInv /\ [Next]_vars => [Behind!Next]_(Behind!vars)
  <2> SUFFICES ASSUME TypeInv, TableInv, [Next]_vars PROVE [Behind!Next]_(Behind!vars)
    OBVIOUS
  <2>1. CASE Tick \/ UNCHANGED vars
    BY <2>1 DEF Tick, vars, dbVars, boundVars, Behind!vars, Behind!owed
  <2> QED
    BY <2>1, BehindServer, BehindMain, BehindCrash DEF Next
<1> QED
  BY <1>1, <1>2, TypeInit, TypeStep, TableStep, BehindInit, PTL
  DEF Spec, WritesBehind, Behind!Spec

=============================================================================
