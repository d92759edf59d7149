-------------------------------- MODULE Http --------------------------------
(***************************************************************************)
(* What server.h does around the cache: routes, the origin check, request  *)
(* bodies that arrive in chunks, their validation, and the reply.  A       *)
(* server serves many connections from one loop; a callback runs to its    *)
(* end before the next starts, and a client may be gone before its body is *)
(* complete.  The cache is reduced to which keys hold a value; its own     *)
(* steps are those of module CacheMe.                                      *)
(***************************************************************************)
EXTENDS Integers, FiniteSets

CONSTANTS
  Conns, Keys, NoKey,     \* connections; keys, and the empty string
  Origins, Star, Enabled, \* Origin headers, "*", and conf.cors_enabled_origins
  Hosts,                  \* Host headers
  StartsWith,             \* the pairs <<h, o>> where host h begins with origin o
  None,                   \* a header that was not sent
  RequireOrigin,          \* REQUIRE_ORIGIN_HEADER was defined at build time
  MaxChunks, MaxReqs      \* bounds

ASSUME KeyAssumption    == NoKey \notin Keys
ASSUME OriginAssumption == /\ Star \in Origins /\ Enabled \subseteq Origins
                           /\ StartsWith \subseteq Hosts \X Origins
                           /\ None \notin Origins \cup Hosts
ASSUME BuildAssumption  == RequireOrigin \in BOOLEAN
ASSUME BoundAssumption  == MaxChunks \in Nat \ {0} /\ MaxReqs \in Nat

VARIABLES
  store,  \* keys with a value
  req,    \* the request on each connection
  got,    \* how many chunks of its body have arrived
  reply,  \* the reply on each connection
  reqs

vars == <<store, req, got, reply, reqs>>

-----------------------------------------------------------------------------
\* "any" is every request that matches no route.
Routes   == {"get", "get_all", "post", "get_or_set", "delete", "options",
             "head", "any"}
WithBody == {"post", "get_or_set"}
\* The method a client uses for a route; "any" stands for a PUT.
MethodOf(route) ==
  CASE route \in {"get", "get_all"}       -> "GET"
    [] route \in {"post", "get_or_set"}   -> "POST"
    [] route = "delete"                   -> "DELETE"
    [] route = "options"                  -> "OPTIONS"
    [] route = "head"                     -> "HEAD"
    [] route = "any"                      -> "PUT"

\* What a body may be: a good one is an object with a key and a value, and
\* perhaps a ttl; one of them is missing, empty or ill-typed in "bad_field".
BadBodies == {"empty", "garbage", "null", "no_object", "bad_field"}
Bodies    == BadBodies \cup {"good"}

NoRequest == [st |-> "none", route |-> "any", key |-> NoKey, origin |-> None,
              host |-> None, body |-> "empty", chunks |-> 1]
Request   == [st : {"none", "arrived", "body", "done", "aborted"}, route : Routes,
              key : Keys \cup {NoKey}, origin : Origins \cup {None},
              host : Hosts \cup {None}, body : Bodies, chunks : 1 .. MaxChunks]

Statuses == {200, 201, 204, 400, 403, 404}
\* cors: the reply carries the Access-Control headers.
NoReply  == [status |-> 0, cors |-> FALSE]

Init ==
  /\ store = {}
  /\ req = [c \in Conns |-> NoRequest]
  /\ got = [c \in Conns |-> 0]
  /\ reply = [c \in Conns |-> NoReply]
  /\ reqs = 0

\* A client that has sent its request waits for the reply.
Arrive(c) ==
  /\ req[c].st \in {"none", "done"} /\ reqs < MaxReqs
  /\ \E r \in Request :
       /\ r.st = "arrived"
       /\ r.route \notin WithBody => r.body = "empty" /\ r.chunks = 1
       /\ r.route \in WithBody /\ r.body # "good" => r.key = NoKey
       /\ r.body = "good" => r.key # NoKey
       /\ r.body = "empty" => r.chunks = 1
       /\ r.route \in {"get_all", "options", "head", "any"} => r.key = NoKey
       /\ req' = [req EXCEPT ![c] = r]
  /\ got' = [got EXCEPT ![c] = 0]
  /\ reply' = [reply EXCEPT ![c] = NoReply]
  /\ reqs' = reqs + 1
  /\ UNCHANGED store

-----------------------------------------------------------------------------
\* The reply is sent when the handler's http_response_t is destroyed.
End(c, status, cors) ==
  /\ req' = [req EXCEPT ![c].st = "done"]
  /\ reply' = [reply EXCEPT ![c] = [status |-> status, cors |-> cors]]

Routed(c, route) == req[c].st = "arrived" /\ req[c].route = route

\* Faulty form of the next definition: a list of origins is not looked at.
AllowedHost(r) ==
  CASE r.origin = None -> TRUE
    [] r.origin # None /\ r.host # None -> <<r.host, r.origin>> \in StartsWith
    [] OTHER -> r.origin = Star

\* cors(): no origin, an origin the host begins with, or one of the list.
Allowed(r) ==
  \/ r.origin = None
  \/ r.host # None /\ <<r.host, r.origin>> \in StartsWith
  \/ r.host = None /\ r.origin = Star
  \/ r.origin \in Enabled

Missing(r) == RequireOrigin /\ r.origin = None /\ MethodOf(r.route) \notin {"GET", "HEAD"}

\* Faulty form of the next definition: the handler returns without a reply
\* when it has to have an origin.
RefuseOthers(c) ==
  /\ req[c].st = "arrived"
  /\ ~ Missing(req[c]) /\ ~ Allowed(req[c]) /\ End(c, 403, FALSE)
  /\ UNCHANGED <<store, got, reqs>>

\* cors() has replied itself; the handler returns.
Refuse(c) ==
  /\ req[c].st = "arrived"
  /\ \/ Missing(req[c]) /\ End(c, 400, FALSE)
     \/ ~ Missing(req[c]) /\ ~ Allowed(req[c]) /\ End(c, 403, FALSE)
  /\ UNCHANGED <<store, got, reqs>>

Admitted(c) == ~ Missing(req[c]) /\ Allowed(req[c])

\* any_any and options_cors.
NotFound(c) ==
  /\ Routed(c, "any") /\ Admitted(c) /\ End(c, 404, TRUE)
  /\ UNCHANGED <<store, got, reqs>>
Preflight(c) ==
  /\ Routed(c, "options") \/ Routed(c, "head")
  /\ Admitted(c) /\ End(c, 204, TRUE)
  /\ UNCHANGED <<store, got, reqs>>

Get(c) ==
  /\ Routed(c, "get") /\ Admitted(c)
  /\ End(c, IF req[c].key = NoKey THEN 400
            ELSE IF req[c].key \in store THEN 200 ELSE 404, TRUE)
  /\ UNCHANGED <<store, got, reqs>>

GetAll(c) ==
  /\ Routed(c, "get_all") /\ Admitted(c) /\ End(c, 200, TRUE)
  /\ UNCHANGED <<store, got, reqs>>

Delete(c) ==
  /\ Routed(c, "delete") /\ Admitted(c)
  /\ End(c, IF req[c].key = NoKey THEN 400 ELSE 204, TRUE)
  /\ store' = store \ {req[c].key}
  /\ UNCHANGED <<got, reqs>>

\* res_handle_body: nothing happens until the body has arrived.
Post(c) ==
  /\ req[c].st = "arrived" /\ req[c].route \in WithBody /\ Admitted(c)
  /\ req' = [req EXCEPT ![c].st = "body"]
  /\ UNCHANGED <<store, got, reply, reqs>>

\* Faulty form of the next definition: a body that is none of these passes.
RejectedParsed(body) == body \in {"empty", "garbage", "no_object"}

\* parse_json_body and parse_to_cache_data answer 400, except that the JSON
\* text null is taken for an error that was already answered.
Rejected(body) == body \in BadBodies \ {"null"}

\* Faulty form of the next definition: a marker in memory counts as found.
FoundAlways(c) == req[c].route = "get_or_set"

\* get_post_cache's custom handler: the value is there, and the reply.
Found(c) == req[c].route = "get_or_set" /\ req[c].key \in store

\* handle_body.  Creating through get-or-set has cleared the headers of the
\* reply that get_cache had begun, and with them those of cors().
HandleBody(c) ==
  LET r == req[c]
  IN  \/ Rejected(r.body) /\ End(c, 400, TRUE) /\ UNCHANGED store
      \/ r.body = "null" /\ End(c, 200, TRUE) /\ UNCHANGED store
      \/ ~ Rejected(r.body) /\ r.body # "null" /\
         IF Found(c) THEN End(c, 200, TRUE) /\ UNCHANGED store
         ELSE End(c, 201, r.route = "post") /\ store' = store \cup {r.key}

\* Faulty form of the next definition: is_last is not looked at.
ChunkAny(c) ==
  /\ req[c].st = "body"
  /\ got' = [got EXCEPT ![c] = @ + 1]
  /\ HandleBody(c)
  /\ UNCHANGED reqs

\* onData: the handler runs with the last chunk.
Chunk(c) ==
  /\ req[c].st = "body"
  /\ got' = [got EXCEPT ![c] = @ + 1]
  /\ IF got'[c] < req[c].chunks THEN UNCHANGED <<store, req, reply>> ELSE HandleBody(c)
  /\ UNCHANGED reqs

\* The client goes away; onAborted does nothing, and onData is called no more.
Abort(c) ==
  /\ req[c].st = "body"
  /\ req' = [req EXCEPT ![c].st = "aborted"]
  /\ UNCHANGED <<store, got, reply, reqs>>

\* The next client gets the connection's place.
Reconnect(c) ==
  /\ req[c].st = "aborted"
  /\ req' = [req EXCEPT ![c] = NoRequest]
  /\ UNCHANGED <<store, got, reply, reqs>>

Serve(c) ==
  \/ Refuse(c) \/ NotFound(c) \/ Preflight(c) \/ Get(c) \/ GetAll(c)
  \/ Delete(c) \/ Post(c)

Next ==
  \E c \in Conns :
    Arrive(c) \/ Serve(c) \/ Chunk(c) \/ Abort(c) \/ Reconnect(c)

\* The loop serves what has arrived, and a client sends its body or goes.
Spec ==
  /\ Init /\ [][Next]_vars
  /\ \A c \in Conns : WF_vars(Serve(c)) /\ WF_vars(Chunk(c) \/ Abort(c))

-----------------------------------------------------------------------------
\* Properties.

\* The state is well typed.
TypeOK ==
  /\ store \subseteq Keys
  /\ req \in [Conns -> Request]
  /\ got \in [Conns -> 0 .. MaxChunks]
  /\ reply \in [Conns -> {NoReply} \cup [status : Statuses, cors : BOOLEAN]]
  /\ reqs \in Nat

\* A key comes and goes only with a reply that says so: 201 after every chunk
\* of a good body has arrived, or 204 to a DELETE.  A request that is
\* refused, rejected or aborted leaves no trace.
ChangesAreReplied ==
  [][\A k \in Keys : (k \in store) # (k \in store') =>
       \E c \in Conns :
         /\ reply'[c] # reply[c] /\ req[c].key = k
         /\ IF k \in store' THEN /\ reply'[c].status = 201 /\ req[c].body = "good"
                                 /\ got'[c] = req[c].chunks
                            ELSE reply'[c].status = 204]_vars

\* A POST that is answered 2xx has left its key in the cache: key and value
\* "must not be empty" (server.h 709), and anything but an object is
\* "Malformed data" (server.h 716) - except the JSON text null.
SuccessMeansStored ==
  [][\A c \in Conns :
       LET success == /\ reply'[c] # reply[c] /\ reply'[c].status \in {200, 201}
                      /\ req[c].route \in WithBody
       IN  success /\ req[c].body # "null" => req[c].key \in store' \cap Keys]_vars

\* An origin of the list "enabled for CORS" (config.cpp 113) is never refused
\* for being what it is, and what it is served carries the headers that let
\* it read the reply - except a get-or-set that created its key.
EnabledCanRead ==
  \A c \in Conns : req[c].st = "done" /\ req[c].origin \in Enabled =>
    /\ reply[c].status # 403
    /\ \/ reply[c].cors
       \/ req[c].route = "get_or_set" /\ reply[c].status = 201

\* Every request is answered, unless its client went away.
EveryRequestEnds ==
  \A c \in Conns :
    req[c].st \in {"arrived", "body"} ~> req[c].st \in {"none", "done", "aborted"}

=============================================================================
