----------------------------- MODULE HttpProofs -----------------------------
(***************************************************************************)
(* Proofs about Http for any connections, keys, origins, hosts and any     *)
(* number of requests and chunks.                                          *)
(***************************************************************************)
EXTENDS Http, TLAPS

Reply == [status : Statuses, cors : BOOLEAN]

\* What is known of the request on connection c until it is answered: it has
\* no reply, a handler that waits for a body has admitted it, and a chunk of
\* that body is still to come.
OpenInv(c) ==
  /\ req[c].st \in {"arrived", "body"} => reply[c] = NoReply
  /\ req[c].st \in {"arrived", "body"} /\ req[c].body = "good" => req[c].key \in Keys
  /\ req[c].st = "arrived" => got[c] = 0
  /\ req[c].st = "body" =>
       req[c].route \in WithBody /\ ~ Missing(req[c]) /\ Allowed(req[c]) /\ got[c] < req[c].chunks

\* EnabledCanRead of one connection.
ReadableInv(c) ==
  req[c].st = "done" /\ req[c].origin \in Enabled =>
    /\ reply[c].status # 403
    /\ reply[c].cors = TRUE \/ (req[c].route = "get_or_set" /\ reply[c].status = 201)

HttpInv == TypeOK /\ \A c \in Conns : OpenInv(c) /\ ReadableInv(c)

LEMMA RequestFields ==
  ASSUME NEW r \in Request
  PROVE  /\ r.st \in {"none", "arrived", "body", "done", "aborted"} /\ r.route \in Routes
         /\ r.key \in Keys \cup {NoKey} /\ r.body \in Bodies /\ r.chunks \in 1 .. MaxChunks
  BY DEF Request

LEMMA RequestWith ==
  ASSUME NEW r \in Request, NEW st \in {"none", "arrived", "body", "done", "aborted"}
  PROVE  LET n == [r EXCEPT !.st = st]
         IN  n \in Request /\ n.st = st /\ n.route = r.route /\ n.key = r.key /\ n.body = r.body
             /\ n.chunks = r.chunks /\ n.origin = r.origin /\ n.host = r.host
  BY DEF Request

LEMMA NoRequestType == NoRequest \in Request /\ NoRequest.st = "none"
  BY BoundAssumption DEF NoRequest, Request, Routes, Bodies, BadBodies

LEMMA HttpInit == Init => HttpInv
<1> SUFFICES ASSUME Init PROVE HttpInv
  OBVIOUS
<1>1. TypeOK
  BY NoRequestType, BoundAssumption DEF Init, TypeOK
<1>2. \A c \in Conns : req[c].st = "none"
  BY NoRequestType DEF Init
<1> QED
  BY <1>1, <1>2 DEF HttpInv, OpenInv, ReadableInv

\* A status that fits the request on c and what becomes of the cache.
Readable(c, status, cors) ==
  req[c].origin \in Enabled =>
    status # 403 /\ (cors = TRUE \/ (req[c].route = "get_or_set" /\ status = 201))
StoredOnSuccess(c, status) ==
  status \in {200, 201} /\ req[c].route \in WithBody /\ req[c].body # "null" =>
    req[c].key \in store' \cap Keys
Stores(c, status) ==
  \/ UNCHANGED store
  \/ store' = store \cup {req[c].key} /\ req[c].key \in Keys /\ status = 201
     /\ req[c].body = "good" /\ got'[c] = req[c].chunks
  \/ store' = store \ {req[c].key} /\ (req[c].key \in Keys => status = 204)

\* A handler's step that answers the request, and one that waits for more.
Answers(c) ==
  /\ req' = [req EXCEPT ![c].st = "done"]
  /\ got' = got \/ (got' = [got EXCEPT ![c] = @ + 1] /\ got[c] + 1 <= MaxChunks)
  /\ \E status \in Statuses, cors \in BOOLEAN :
       /\ reply' = [reply EXCEPT ![c] = [status |-> status, cors |-> cors]]
       /\ Readable(c, status, cors) /\ StoredOnSuccess(c, status) /\ Stores(c, status)
Waits(c) ==
  /\ UNCHANGED <<store, reply>>
  /\ \/ Post(c)
     \/ UNCHANGED req /\ req[c].st = "body" /\ got' = [got EXCEPT ![c] = @ + 1]
        /\ got[c] + 1 < req[c].chunks

\* The replies with the Access-Control headers, and those without.
EndCors(c, status) == End(c, status, TRUE)
EndBare(c, status) == End(c, status, FALSE)

LEMMA Effect ==
  ASSUME HttpInv, NEW c \in Conns, Serve(c) \/ Chunk(c)
  PROVE  UNCHANGED reqs /\ req[c].st \in {"arrived", "body"} /\ (Answers(c) \/ Waits(c))
<1>t. /\ store \subseteq Keys /\ req \in [Conns -> Request] /\ got \in [Conns -> 0 .. MaxChunks]
      /\ OpenInv(c) /\ req[c] \in Request
  BY DEF HttpInv, TypeOK
<1>f. /\ req[c].route \in Routes /\ req[c].key \in Keys \cup {NoKey} /\ req[c].body \in Bodies
      /\ req[c].chunks \in 1 .. MaxChunks
  BY <1>t, RequestFields
<1>n. NoKey \notin Keys /\ MaxChunks \in Nat
  BY KeyAssumption, BoundAssumption
<1> DEFINE Counts == got' = got \/ (got' = [got EXCEPT ![c] = @ + 1] /\ got[c] + 1 <= MaxChunks)
<1>e. ASSUME NEW status \in Statuses, EndCors(c, status), Counts,
             status # 403, StoredOnSuccess(c, status), Stores(c, status)
      PROVE  Answers(c)
  <2>1. Readable(c, status, TRUE)
    BY <1>e, Zenon DEF Readable
  <2> QED
    BY <1>e, <2>1, Zenon DEF EndCors, End, Answers
<1>b. ASSUME NEW status \in Statuses, EndBare(c, status), Counts,
             req[c].origin \notin Enabled \/ (req[c].route = "get_or_set" /\ status = 201),
             status # 403 \/ req[c].origin \notin Enabled,
             StoredOnSuccess(c, status), Stores(c, status)
      PROVE  Answers(c)
  <2>1. Readable(c, status, FALSE)
    BY <1>b, Zenon DEF Readable
  <2> QED
    BY <1>b, <2>1, Zenon DEF EndBare, End, Answers
<1>h. got' = got => Counts
  BY Zenon
<1> HIDE DEF Counts
<1>s. /\ 200 \in Statuses /\ 201 \in Statuses /\ 204 \in Statuses /\ 400 \in Statuses
      /\ 403 \in Statuses /\ 404 \in Statuses
  BY DEF Statuses
<1>1. CASE Refuse(c)
  <2>1. req[c].st = "arrived" /\ UNCHANGED <<store, got, reqs>>
    BY <1>1 DEF Refuse
  <2>2. EndBare(c, 400) \/ EndBare(c, 403)
    BY <1>1, Zenon DEF Refuse, EndBare
  <2>3. req[c].origin \notin Enabled
    BY <1>1, OriginAssumption DEF Refuse, Missing, Allowed
  <2>4. /\ StoredOnSuccess(c, 400) /\ StoredOnSuccess(c, 403)
        /\ Stores(c, 400) /\ Stores(c, 403)
    <3>1. 400 \notin {200, 201} /\ 403 \notin {200, 201}
      OBVIOUS
    <3> QED
      BY <2>1, <3>1, Zenon DEF StoredOnSuccess, Stores
  <2>5. Answers(c)
    BY <2>1, <2>2, <2>3, <2>4, <1>s, <1>h, <1>b
  <2> QED
    BY <2>1, <2>5
<1>2. CASE NotFound(c) \/ Preflight(c) \/ Get(c) \/ GetAll(c)
  <2>1. /\ req[c].st = "arrived" /\ UNCHANGED <<store, got, reqs>>
        /\ req[c].route \in {"any", "options", "head", "get", "get_all"}
    BY <1>2 DEF NotFound, Preflight, Get, GetAll, Routed
  <2>2. PICK status \in {200, 204, 400, 404} : EndCors(c, status)
    <3>1. CASE NotFound(c)
      <4>1. EndCors(c, 404)
        BY <3>1, Zenon DEF NotFound, EndCors
      <4> QED
        BY <4>1
    <3>2. CASE Preflight(c)
      <4>1. EndCors(c, 204)
        BY <3>2, Zenon DEF Preflight, EndCors
      <4> QED
        BY <4>1
    <3>3. CASE GetAll(c)
      <4>1. EndCors(c, 200)
        BY <3>3, Zenon DEF GetAll, EndCors
      <4> QED
        BY <4>1
    <3>4. CASE Get(c)
      <4> DEFINE st == IF req[c].key = NoKey THEN 400 ELSE IF req[c].key \in store THEN 200 ELSE 404
      <4>1. st \in {200, 204, 400, 404}
        OBVIOUS
      <4>2. EndCors(c, st)
        BY <3>4, Zenon DEF Get, EndCors
      <4> HIDE DEF st
      <4> QED
        BY <4>1, <4>2
    <3> QED
      BY <1>2, <3>1, <3>2, <3>3, <3>4
  <2>3. StoredOnSuccess(c, status) /\ Stores(c, status)
    BY <2>1 DEF StoredOnSuccess, Stores, WithBody
  <2>4. Answers(c)
    BY <2>1, <2>2, <2>3, <1>s, <1>h, <1>e
  <2> QED
    BY <2>1, <2>4
<1>3. CASE Delete(c)
  <2>1. /\ req[c].st = "arrived" /\ UNCHANGED <<got, reqs>> /\ req[c].route = "delete"
        /\ store' = store \ {req[c].key}
    BY <1>3 DEF Delete, Routed
  <2>2. PICK status \in {204, 400} : EndCors(c, status) /\ (req[c].key # NoKey => status = 204)
    <3> DEFINE st == IF req[c].key = NoKey THEN 400 ELSE 204
    <3>1. st \in {204, 400} /\ (req[c].key # NoKey => st = 204)
      OBVIOUS
    <3>2. EndCors(c, st)
      BY <1>3, Zenon DEF Delete, EndCors
    <3> HIDE DEF st
    <3> QED
      BY <3>1, <3>2
  <2>3. StoredOnSuccess(c, status) /\ Stores(c, status)
    BY <2>1, <2>2, <1>n DEF StoredOnSuccess, Stores, WithBody
  <2>4. Answers(c)
    BY <2>1, <2>2, <2>3, <1>s, <1>h, <1>e
  <2> QED
    BY <2>1, <2>4
<1>4. CASE Post(c)
  BY <1>4 DEF Post, Waits
<1>5. CASE Chunk(c)
  <2>1. /\ req[c].st = "body" /\ got' = [got EXCEPT ![c] = @ + 1] /\ got'[c] = got[c] + 1
        /\ got[c] \in Nat /\ got[c] < req[c].chunks /\ UNCHANGED reqs
        /\ req[c].route \in WithBody
    BY <1>5, <1>t DEF Chunk, OpenInv
  <2>2. CASE got'[c] < req[c].chunks
    BY <1>5, <2>1, <2>2 DEF Chunk, Waits
  <2>3. ASSUME ~ (got'[c] < req[c].chunks) PROVE Answers(c)
    <3>0. HandleBody(c)
      BY <1>5, <2>3 DEF Chunk
    <3>1. got'[c] = req[c].chunks /\ got[c] + 1 <= MaxChunks
      BY <2>1, <2>3, <1>f, <1>n
    <3>c. Counts
      BY <2>1, <3>1, Zenon DEF Counts
    <3>2. CASE Rejected(req[c].body)
      <4>1. req[c].body # "good" /\ req[c].body # "null"
        BY <3>2 DEF Rejected, BadBodies
      <4>2. EndCors(c, 400) /\ UNCHANGED store
        BY <3>0, <3>2, <4>1, Zenon DEF HandleBody, EndCors
      <4>3. StoredOnSuccess(c, 400) /\ Stores(c, 400)
        BY <4>2 DEF StoredOnSuccess, Stores
      <4> QED
        BY <3>c, <4>2, <4>3, <1>s, <1>e
    <3>3. CASE req[c].body = "null"
      <4>1. EndCors(c, 200) /\ UNCHANGED store
        <5>1. ~ Rejected(req[c].body)
          BY <3>3 DEF Rejected
        <5> QED
          BY <3>0, <3>3, <5>1, Zenon DEF HandleBody, EndCors
      <4>2. StoredOnSuccess(c, 200) /\ Stores(c, 200)
        BY <4>1, <3>3 DEF StoredOnSuccess, Stores
      <4> QED
        BY <3>c, <4>1, <4>2, <1>s, <1>e
    <3>4. ASSUME ~ Rejected(req[c].body), req[c].body # "null" PROVE Answers(c)
      <4>1. req[c].body = "good" /\ req[c].key \in Keys
        BY <3>4, <2>1, <1>f, <1>t DEF Rejected, Bodies, OpenInv
      <4>2. CASE Found(c)
        <5>1. EndCors(c, 200) /\ UNCHANGED store /\ req[c].key \in store
          BY <3>0, <3>4, <4>2, Zenon DEF HandleBody, Found, EndCors
        <5>2. StoredOnSuccess(c, 200) /\ Stores(c, 200)
          BY <5>1, <4>1 DEF StoredOnSuccess, Stores
        <5> QED
          BY <3>c, <5>1, <5>2, <1>s, <1>e
      <4>3. ASSUME ~ Found(c) PROVE Answers(c)
        <5>1. End(c, 201, req[c].route = "post") /\ store' = store \cup {req[c].key}
          BY <3>0, <3>4, <4>3 DEF HandleBody
        <5>2. req[c].route = "post" \/ req[c].route = "get_or_set"
          BY <2>1 DEF WithBody
        <5>3. StoredOnSuccess(c, 201) /\ Stores(c, 201)
          BY <5>1, <4>1, <3>1 DEF StoredOnSuccess, Stores
        <5>4. CASE req[c].route = "post"
          <6>1. (req[c].route = "post") = TRUE
            BY <5>4
          <6>2. EndCors(c, 201)
            BY <5>1, <6>1, Zenon DEF EndCors
          <6> QED
            BY <6>2, <3>c, <5>3, <1>s, <1>e
        <5>5. CASE req[c].route = "get_or_set"
          <6>1. (req[c].route = "post") = FALSE
            BY <5>5
          <6>2. EndBare(c, 201)
            BY <5>1, <6>1, Zenon DEF EndBare
          <6> QED
            BY <6>2, <5>5, <3>c, <5>3, <1>s, <1>b
        <5> QED
          BY <5>2, <5>4, <5>5
      <4> QED
        BY <4>2, <4>3
    <3> QED
      BY <3>2, <3>3, <3>4
  <2> QED
    BY <2>1, <2>2, <2>3
<1> QED
  BY <1>1, <1>2, <1>3, <1>4, <1>5 DEF Serve

LEMMA HttpStep == HttpInv /\ [Next]_vars => HttpInv'
<1> SUFFICES ASSUME HttpInv, [Next]_vars PROVE HttpInv'
  OBVIOUS
<1>t. /\ store \subseteq Keys /\ req \in [Conns -> Request] /\ got \in [Conns -> 0 .. MaxChunks]
      /\ reply \in [Conns -> {NoReply} \cup [status : Statuses, cors : BOOLEAN]] /\ reqs \in Nat
      /\ \A c \in Conns : OpenInv(c) /\ ReadableInv(c)
  BY DEF HttpInv, TypeOK
<1>n. MaxChunks \in Nat \ {0}
  BY BoundAssumption
<1>o. ASSUME NEW c \in Conns, NEW r \in Request, NEW g \in 0 .. MaxChunks,
             NEW p \in {NoReply} \cup [status : Statuses, cors : BOOLEAN],
             req' = [req EXCEPT ![c] = r], got' = [got EXCEPT ![c] = g],
             reply' = [reply EXCEPT ![c] = p], store' \subseteq Keys, reqs' \in Nat,
             OpenInv(c)', ReadableInv(c)'
      PROVE  HttpInv'
  <2>1. TypeOK'
    BY <1>o, <1>t DEF TypeOK
  <2>2. \A d \in Conns : d # c => req'[d] = req[d] /\ got'[d] = got[d] /\ reply'[d] = reply[d]
    BY <1>o, <1>t
  <2>3. \A d \in Conns : d # c => OpenInv(d)' /\ ReadableInv(d)'
    BY <2>2, <1>t DEF OpenInv, ReadableInv, Missing, Allowed
  <2> QED
    BY <1>o, <2>1, <2>3 DEF HttpInv
<1>1. ASSUME NEW c \in Conns, Arrive(c) PROVE HttpInv'
  <2>1. PICK r \in Request :
          /\ r.st = "arrived" /\ req' = [req EXCEPT ![c] = r]
          /\ r.body = "good" => r.key # NoKey
    BY <1>1 DEF Arrive
  <2>2. /\ got' = [got EXCEPT ![c] = 0] /\ reply' = [reply EXCEPT ![c] = NoReply]
        /\ UNCHANGED store /\ reqs' \in Nat
    BY <1>1, <1>t DEF Arrive
  <2>3. req'[c] = r /\ got'[c] = 0 /\ reply'[c] = NoReply
    BY <2>1, <2>2, <1>t
  <2>4. OpenInv(c)' /\ ReadableInv(c)'
    BY <2>1, <2>3, RequestFields DEF OpenInv, ReadableInv
  <2>5. 0 \in 0 .. MaxChunks /\ NoReply \in {NoReply} \cup [status : Statuses, cors : BOOLEAN]
        /\ store' \subseteq Keys
    BY <2>2, <1>n, <1>t
  <2> QED
    BY <2>1, <2>2, <2>4, <2>5, <1>o
<1>2. ASSUME NEW c \in Conns, Serve(c) \/ Chunk(c) PROVE HttpInv'
  <2>c. req[c] \in Request /\ got[c] \in 0 .. MaxChunks /\ OpenInv(c)
        /\ reply[c] \in {NoReply} \cup [status : Statuses, cors : BOOLEAN]
    BY <1>t
  <2>s. /\ UNCHANGED reqs /\ req[c].st \in {"arrived", "body"}
    BY <1>2, Effect
  <2>1. CASE Post(c)
    <3> DEFINE r == [req[c] EXCEPT !.st = "body"]
    <3>1. /\ req' = [req EXCEPT ![c] = r] /\ UNCHANGED <<got, reply, store>>
          /\ req[c].st = "arrived" /\ req[c].route \in WithBody /\ ~ Missing(req[c]) /\ Allowed(req[c])
      BY <2>1, <1>t DEF Post, Admitted
    <3>2. r \in Request /\ r.st = "body" /\ r.route = req[c].route /\ r.key = req[c].key
          /\ r.body = req[c].body /\ r.chunks = req[c].chunks /\ r.origin = req[c].origin
          /\ r.host = req[c].host /\ req[c].chunks \in 1 .. MaxChunks
      BY <2>c, RequestFields, RequestWith
    <3> HIDE DEF r
    <3>3. req'[c] = r /\ got'[c] = got[c] /\ reply'[c] = reply[c]
      BY <3>1, <1>t
    <3>4. OpenInv(c)'
      <4>1. ~ Missing(r) /\ Allowed(r)
        BY <3>1, <3>2 DEF Missing, Allowed
      <4>2. /\ reply[c] = NoReply /\ got[c] = 0
            /\ req[c].body = "good" => req[c].key \in Keys
        BY <3>1, <2>c DEF OpenInv
      <4>3. 0 < req[c].chunks
        BY <3>2, <1>n
      <4> QED
        BY <3>1, <3>2, <3>3, <4>1, <4>2, <4>3 DEF OpenInv
    <3>5. ReadableInv(c)'
      BY <3>2, <3>3 DEF ReadableInv
    <3>6. got' = [got EXCEPT ![c] = got[c]] /\ reply' = [reply EXCEPT ![c] = reply[c]]
      BY <3>1, <1>t
    <3>7. store' \subseteq Keys /\ reqs' \in Nat
      BY <3>1, <2>s, <1>t
    <3>8. got[c] \in 0 .. MaxChunks /\ r \in Request
          /\ reply[c] \in {NoReply} \cup [status : Statuses, cors : BOOLEAN]
      BY <3>2, <2>c
    <3>9. req' = [req EXCEPT ![c] = r]
      BY <3>1
    <3> QED
      BY <3>4, <3>5, <3>6, <3>7, <3>8, <3>9, <1>o
  <2>2. CASE /\ UNCHANGED <<req, store, reply>> /\ req[c].st = "body"
             /\ got' = [got EXCEPT ![c] = @ + 1] /\ got[c] + 1 < req[c].chunks
    <3>0. req[c].chunks \in 1 .. MaxChunks
      BY <2>c, RequestFields
    <3>1. got[c] + 1 \in 0 .. MaxChunks
      BY <2>2, <2>c, <3>0, <1>n
    <3>2. /\ req' = [req EXCEPT ![c] = req[c]] /\ reply' = [reply EXCEPT ![c] = reply[c]]
          /\ got'[c] = got[c] + 1 /\ got' = [got EXCEPT ![c] = got[c] + 1]
      BY <2>2, <1>t
    <3>3. OpenInv(c)' /\ ReadableInv(c)'
      BY <2>2, <3>2, <2>c DEF OpenInv, ReadableInv, Missing, Allowed
    <3> QED
      BY <2>2, <3>1, <3>2, <3>3, <2>c, <2>s, <1>t, <1>o
  <2>3. CASE Answers(c)
    <3> DEFINE r == [req[c] EXCEPT !.st = "done"]
    <3>1. req' = [req EXCEPT ![c] = r]
      BY <2>3, <1>t DEF Answers
    <3>2. r \in Request /\ r.st = "done" /\ r.route = req[c].route /\ r.origin = req[c].origin
      BY <2>c, RequestWith
    <3> HIDE DEF r
    <3>3. PICK status \in Statuses, cors \in BOOLEAN :
            /\ reply' = [reply EXCEPT ![c] = [status |-> status, cors |-> cors]]
            /\ Readable(c, status, cors) /\ Stores(c, status)
      BY <2>3 DEF Answers
    <3> DEFINE p == [status |-> status, cors |-> cors]
    <3>4. p \in [status : Statuses, cors : BOOLEAN] /\ p.status = status /\ p.cors = cors
      OBVIOUS
    <3>p. reply' = [reply EXCEPT ![c] = p]
      BY <3>3
    <3> HIDE DEF p
    <3>5. PICK g \in 0 .. MaxChunks : got' = [got EXCEPT ![c] = g]
      <4>1. CASE got' = got
        BY <4>1, <1>t, <2>c
      <4>2. CASE got' = [got EXCEPT ![c] = @ + 1] /\ got[c] + 1 <= MaxChunks
        <5>1. got[c] + 1 \in 0 .. MaxChunks
          BY <4>2, <2>c, <1>n
        <5> QED
          BY <4>2, <5>1, <1>t
      <4> QED
        BY <2>3, <4>1, <4>2 DEF Answers
    <3>6. req'[c] = r /\ reply'[c] = p
      BY <3>1, <3>p, <1>t
    <3>7. OpenInv(c)'
      BY <3>2, <3>6 DEF OpenInv
    <3>8. ReadableInv(c)'
      BY <3>2, <3>3, <3>4, <3>6 DEF ReadableInv, Readable
    <3>9. reqs' \in Nat /\ store' \subseteq Keys
      BY <2>s, <3>3, <1>t DEF Stores
    <3> QED
      BY <3>1, <3>2, <3>p, <3>4, <3>5, <3>7, <3>8, <3>9, <1>o
  <2> QED
    BY <1>2, <2>1, <2>2, <2>3, Effect DEF Waits
<1>3. ASSUME NEW c \in Conns, Abort(c) \/ Reconnect(c) PROVE HttpInv'
  <2>c. req[c] \in Request /\ got[c] \in 0 .. MaxChunks
        /\ reply[c] \in {NoReply} \cup [status : Statuses, cors : BOOLEAN]
    BY <1>t
  <2>1. PICK r \in Request : req' = [req EXCEPT ![c] = r] /\ r.st \in {"aborted", "none"}
    <3>1. CASE Abort(c)
      <4> DEFINE n == [req[c] EXCEPT !.st = "aborted"]
      <4>1. n \in Request /\ n.st = "aborted"
        BY <2>c, RequestWith
      <4>2. req' = [req EXCEPT ![c] = n]
        BY <3>1, <1>t DEF Abort
      <4> HIDE DEF n
      <4> QED
        BY <4>1, <4>2
    <3>2. CASE Reconnect(c)
      BY <3>2, NoRequestType DEF Reconnect
    <3> QED
      BY <1>3, <3>1, <3>2
  <2>2. /\ UNCHANGED <<store, got, reply, reqs>> /\ got' = [got EXCEPT ![c] = got[c]]
        /\ reply' = [reply EXCEPT ![c] = reply[c]]
    BY <1>3, <1>t DEF Abort, Reconnect
  <2>3. req'[c] = r
    BY <2>1, <1>t
  <2>4. OpenInv(c)' /\ ReadableInv(c)'
    BY <2>1, <2>3 DEF OpenInv, ReadableInv
  <2> QED
    BY <2>1, <2>2, <2>4, <2>c, <1>t, <1>o
<1>4. CASE UNCHANGED vars
  BY <1>4 DEF vars, HttpInv, TypeOK, OpenInv, ReadableInv, Missing, Allowed
<1> QED
  BY <1>1, <1>2, <1>3, <1>4 DEF Next

LEMMA HttpInvariant == Spec => []HttpInv
<1>1. Init => HttpInv
  BY HttpInit
<1>2. HttpInv /\ [Next]_vars => HttpInv'
  BY HttpStep
<1> QED
  BY <1>1, <1>2, PTL DEF Spec

\* Requests, bodies and replies stay well typed; no body has more chunks than
\* it was sent in.
THEOREM HttpTypeCorrect == Spec => []TypeOK
<1>1. HttpInv => TypeOK
  BY DEF HttpInv
<1> QED
  BY <1>1, HttpInvariant, PTL

\* Whatever the list of origins, the Host headers and the build, an origin of
\* the list is served, and can read what it is served.
THEOREM EnabledOriginsCanRead == Spec => []EnabledCanRead
<1>1. HttpInv => EnabledCanRead
  BY DEF HttpInv, ReadableInv, EnabledCanRead
<1> QED
  BY <1>1, HttpInvariant, PTL

\* A step that is no handler's answer replies to nobody and stores nothing.
LEMMA QuietSteps ==
  ASSUME HttpInv, [Next]_vars, ~ \E c \in Conns : (Serve(c) \/ Chunk(c)) /\ Answers(c)
  PROVE  UNCHANGED store /\ \A c \in Conns : reply'[c] = reply[c] \/ reply'[c] = NoReply
<1>t. reply \in [Conns -> {NoReply} \cup [status : Statuses, cors : BOOLEAN]]
  BY DEF HttpInv, TypeOK
<1>1. ASSUME NEW c \in Conns, Serve(c) \/ Chunk(c) PROVE UNCHANGED <<store, reply>>
  BY <1>1, Effect DEF Waits
<1>2. ASSUME NEW c \in Conns, Arrive(c) \/ Abort(c) \/ Reconnect(c)
      PROVE  UNCHANGED store /\ \A d \in Conns : reply'[d] = reply[d] \/ reply'[d] = NoReply
  BY <1>2, <1>t DEF Arrive, Abort, Reconnect
<1>3. CASE UNCHANGED vars
  BY <1>3 DEF vars
<1> QED
  BY <1>1, <1>2, <1>3 DEF Next

\* An answer of connection c: what it is, and what everybody else's is.
LEMMA AnswerProperties ==
  ASSUME HttpInv, NEW c \in Conns, Serve(c) \/ Chunk(c), Answers(c)
  PROVE  /\ \A d \in Conns : d # c => reply'[d] = reply[d]
         /\ reply'[c] # reply[c]
         /\ StoredOnSuccess(c, reply'[c].status) /\ Stores(c, reply'[c].status)
<1>1. PICK status \in Statuses, cors \in BOOLEAN :
        /\ reply' = [reply EXCEPT ![c] = [status |-> status, cors |-> cors]]
        /\ StoredOnSuccess(c, status) /\ Stores(c, status)
  BY DEF Answers
<1>2. reply \in [Conns -> {NoReply} \cup [status : Statuses, cors : BOOLEAN]] /\ reply[c] = NoReply
  BY Effect DEF HttpInv, TypeOK, OpenInv
<1>3. /\ reply'[c] = [status |-> status, cors |-> cors]
      /\ \A d \in Conns : d # c => reply'[d] = reply[d]
  BY <1>1, <1>2
<1>4. reply'[c].status = status
  BY <1>3
<1>5. NoReply.status = 0 /\ status # 0
  BY DEF NoReply, Statuses
<1> QED
  BY <1>1, <1>2, <1>3, <1>4, <1>5

\* A key comes and goes only with a reply that says so, however the requests,
\* the chunks of their bodies and the clients that leave are interleaved.
THEOREM ChangesHaveReplies == Spec => ChangesAreReplied
<1> DEFINE Told == \A k \in Keys : (k \in store) # (k \in store') =>
                     \E c \in Conns :
                       /\ reply'[c] # reply[c] /\ req[c].key = k
                       /\ IF k \in store' THEN /\ reply'[c].status = 201 /\ req[c].body = "good"
                                               /\ got'[c] = req[c].chunks
                                          ELSE reply'[c].status = 204
<1>1. HttpInv /\ [Next]_vars => Told
  <2> SUFFICES ASSUME HttpInv, [Next]_vars, NEW k \in Keys, (k \in store) # (k \in store')
               PROVE  \E c \in Conns :
                        /\ reply'[c] # reply[c] /\ req[c].key = k
                        /\ IF k \in store' THEN /\ reply'[c].status = 201 /\ req[c].body = "good"
                                                /\ got'[c] = req[c].chunks
                                           ELSE reply'[c].status = 204
    OBVIOUS
  <2>1. store' # store
    OBVIOUS
  <2>2. PICK c \in Conns : (Serve(c) \/ Chunk(c)) /\ Answers(c)
    BY <2>1, QuietSteps
  <2>3. reply'[c] # reply[c] /\ Stores(c, reply'[c].status)
    BY <2>2, AnswerProperties
  <2>4. CASE k \in store'
    BY <2>1, <2>3, <2>4 DEF Stores
  <2>5. CASE k \notin store'
    BY <2>1, <2>3, <2>5 DEF Stores
  <2> QED
    BY <2>4, <2>5
<1>2. HttpInv /\ [Next]_vars => [Told]_vars
  BY <1>1
<1> HIDE DEF Told
<1>3. Spec => [][Told]_vars
  BY <1>2, HttpInvariant, PTL DEF Spec
<1> QED
  BY <1>3 DEF ChangesAreReplied, Told

\* A POST that is told 2xx is stored, unless its body was the text null.
THEOREM SuccessIsStored == Spec => SuccessMeansStored
<1> DEFINE Kept == \A c \in Conns :
                     LET success == /\ reply'[c] # reply[c] /\ reply'[c].status \in {200, 201}
                                    /\ req[c].route \in WithBody
                     IN  success /\ req[c].body # "null" => req[c].key \in store' \cap Keys
<1>1. HttpInv /\ [Next]_vars => Kept
  <2> SUFFICES ASSUME HttpInv, [Next]_vars, NEW c \in Conns, reply'[c] # reply[c],
                      reply'[c].status \in {200, 201}, req[c].route \in WithBody,
                      req[c].body # "null"
               PROVE  req[c].key \in store' \cap Keys
    OBVIOUS
  <2>1. reply'[c] # NoReply
    BY DEF NoReply
  <2>2. PICK d \in Conns : (Serve(d) \/ Chunk(d)) /\ Answers(d)
    BY <2>1, QuietSteps
  <2>3. d = c
    BY <2>2, AnswerProperties
  <2> QED
    BY <2>2, <2>3, AnswerProperties DEF StoredOnSuccess
<1>2. HttpInv /\ [Next]_vars => [Kept]_vars
  BY <1>1
<1> HIDE DEF Kept
<1>3. Spec => [][Kept]_vars
  BY <1>2, HttpInvariant, PTL DEF Spec
<1> QED
  BY <1>3 DEF SuccessMeansStored, Kept

=============================================================================
