------------------------------- MODULE Service -------------------------------
(***************************************************************************)
(* The life of a daemon process around its handlers: the startup that runs *)
(* schema.sql statement by statement, the requests that share one bounded  *)
(* pool of threads, graceful shutdown, crashes, and a second `khiipd       *)
(* serve` started beside the first one over the same database.             *)
(*                                                                         *)
(* FastAPI runs a `def` dependency such as verify_bearer, a `def` endpoint *)
(* and then the validation of its response on threads of anyio's pool,     *)
(* first come first served: a request to /api/v1 that succeeds waits for a *)
(* thread three times, /health twice.  What the handlers do with storage   *)
(* is CapturePipeline, Recall and Listing.                                 *)
(***************************************************************************)
EXTENDS Naturals, Sequences, FiniteSets

CONSTANTS
  Daemons,   \* processes that run `khiipd serve`, again and again
  Requests,
  Workers,   \* threads in the pool of each process
  Probes,    \* sources that /health probes over the network
  MaxCalls   \* most calls to upstreams that one handler makes

ASSUME WorkersAssumption == Workers \in Nat \ {0}
ASSUME CallsAssumption == MaxCalls \in Nat /\ Probes \in 0..MaxCalls

VARIABLES
  schema,     \* what the database file holds of schema.sql
  pc,         \* where each process is
  statement,  \* the statement of schema.sql each process is at
  server,     \* the process that took each request in flight
  kind,       \* its endpoint
  stage,      \* whether it waits for a thread or has one
  task,       \* what for
  calls,      \* upstream calls its handler still makes
  upstream,   \* how the call it is making will go
  queue       \* requests of each process that wait for a thread

serverVars == <<schema, pc, statement>>
requestVars == <<server, kind, stage, task, calls, upstream, queue>>
vars == <<serverVars, requestVars>>

\* The statements of schema.sql, each named for what it creates.
Script == <<
  "schema_version",
  "captures",
  "idx_captures_url_hash", "idx_captures_source",
  "idx_captures_recorded_at", "idx_captures_valid_from",
  "embeddings", "idx_embeddings_model",
  "graph_edges",
  "idx_graph_edges_src_type_vt", "idx_graph_edges_dst_type_vt",
  "idx_graph_edges_conf_vf", "idx_graph_edges_overrides",
  "idx_graph_edges_canonical_primary",
  "api_keys", "idx_api_keys_active",
  "version row" >>
Elements(s) == {s[i] : i \in DOMAIN s}
Objects == Elements(Script)

Ready == {"embedder", "bind", "serving", "stopping"}
Phases == Ready \cup {"off", "auth", "schema"}
Kinds == {"health", "api"}
Tasks == {"verify", "handle", "serialize"}
Outcomes == {"none", "answers", "hangs", "stuck"}
Serving == {d \in Daemons : pc[d] = "serving"}
Pending == {r \in Requests : stage[r] # "idle"}
Running == {r \in Requests : stage[r] = "running"}
RequestsOf(d) == {r \in Pending : server[r] = d}
RunningOf(d) == {r \in Running : server[r] = d}

TypeOK ==
  /\ schema \subseteq Objects
  /\ pc \in [Daemons -> Phases]
  /\ statement \in [Daemons -> 1..(Len(Script) + 1)]
  /\ kind \in [Requests -> Kinds \cup {"none"}]
  /\ stage \in [Requests -> {"idle", "queued", "running"}]
  /\ task \in [Requests -> Tasks]
  /\ calls \in [Requests -> 0..MaxCalls]
  /\ upstream \in [Requests -> Outcomes]
  /\ \A d \in Daemons :
       /\ Elements(queue[d]) = {r \in RequestsOf(d) : stage[r] = "queued"}
       /\ Len(queue[d]) = Cardinality(Elements(queue[d]))
       /\ Cardinality(RunningOf(d)) <= Workers
  /\ Cardinality(Serving) <= 1
  /\ \A r \in Pending : server[r] \in Daemons /\ pc[server[r]] \in {"serving", "stopping"}

Init ==
  /\ schema = {}
  /\ pc = [d \in Daemons |-> "off"]
  /\ statement = [d \in Daemons |-> 1]
  /\ server = [r \in Requests |-> "none"]
  /\ kind = [r \in Requests |-> "none"]
  /\ stage = [r \in Requests |-> "idle"]
  /\ task = [r \in Requests |-> "handle"]
  /\ calls = [r \in Requests |-> 0]
  /\ upstream = [r \in Requests |-> "none"]
  /\ queue = [d \in Daemons |-> <<>>]

-----------------------------------------------------------------------------
\* Startup.  uvicorn runs the lifespan before it binds the port.

GoTo(d, phase) == pc' = [pc EXCEPT ![d] = phase]

Leave(d) ==
  /\ GoTo(d, "off")
  /\ statement' = [statement EXCEPT ![d] = 1]

Start(d) ==
  /\ pc[d] = "off"
  /\ GoTo(d, "auth")
  /\ UNCHANGED <<schema, statement, requestVars>>

\* load_config, ensure_auth and connect.
Connect(d) ==
  /\ pc[d] = "auth"
  /\ GoTo(d, "schema")
  /\ UNCHANGED <<schema, statement, requestVars>>

\* Mutant: a database that has the version table is taken to be initialized.
InitSchemaOnce(d) ==
  /\ pc[d] = "schema"
  /\ IF statement[d] <= Len(Script) /\ (statement[d] = 1 => "schema_version" \notin schema)
     THEN /\ schema' = schema \cup {Script[statement[d]]}
          /\ statement' = [statement EXCEPT ![d] = @ + 1]
          /\ UNCHANGED pc
     ELSE GoTo(d, "embedder") /\ UNCHANGED <<schema, statement>>
  /\ UNCHANGED requestVars

\* executescript on an autocommit connection: every statement is a transaction
\* of its own, and does nothing when what it creates is there.
InitSchema(d) ==
  /\ pc[d] = "schema"
  /\ IF statement[d] <= Len(Script)
     THEN /\ schema' = schema \cup {Script[statement[d]]}
          /\ statement' = [statement EXCEPT ![d] = @ + 1]
          /\ UNCHANGED pc
     ELSE GoTo(d, "embedder") /\ UNCHANGED <<schema, statement>>
  /\ UNCHANGED requestVars

\* The vault directory, the registry, a warmup whose failure is only logged, and
\* the load of the embeddings.
LoadRecords(d) ==
  /\ pc[d] = "embedder"
  /\ GoTo(d, "bind")
  /\ UNCHANGED <<schema, statement, requestVars>>

\* Mutant: the port is shared.
BindShared(d) ==
  /\ pc[d] = "bind"
  /\ GoTo(d, "serving")
  /\ UNCHANGED <<schema, statement, requestVars>>

\* A process that finds the port taken shuts down.  One that is stopping has given
\* it up.
Bind(d) ==
  /\ pc[d] = "bind"
  /\ IF Serving = {} THEN GoTo(d, "serving") /\ UNCHANGED statement ELSE Leave(d)
  /\ UNCHANGED <<schema, requestVars>>

\* SIGTERM: uvicorn closes its listening sockets, and takes no more requests.
Stop(d) ==
  /\ pc[d] = "serving"
  /\ GoTo(d, "stopping")
  /\ UNCHANGED <<schema, statement, requestVars>>

\* Once those in flight are answered, the lifespan's `finally` closes the connection.
Close(d) ==
  /\ pc[d] = "stopping"
  /\ RequestsOf(d) = {}
  /\ Leave(d)
  /\ UNCHANGED <<schema, requestVars>>

\* The requests of a process die with it.
DropRequests(d) ==
  LET reset(f, idle) == [r \in Requests |-> IF r \in RequestsOf(d) THEN idle ELSE f[r]]
  IN  /\ server' = reset(server, "none")
      /\ kind' = reset(kind, "none")
      /\ stage' = reset(stage, "idle")
      /\ task' = reset(task, "handle")
      /\ calls' = reset(calls, 0)
      /\ upstream' = reset(upstream, "none")
      /\ queue' = [queue EXCEPT ![d] = <<>>]

\* A crash; or, during startup, a step that raises, which ends the process too.
Crash(d) ==
  /\ pc[d] # "off"
  /\ Leave(d)
  /\ DropRequests(d)
  /\ UNCHANGED schema

-----------------------------------------------------------------------------
\* Requests.

\* A client sends a request, or another one once this one has ended.
Arrive(d, r, k) ==
  /\ pc[d] = "serving"
  /\ r \notin Pending
  /\ server' = [server EXCEPT ![r] = d]
  /\ kind' = [kind EXCEPT ![r] = k]
  /\ stage' = [stage EXCEPT ![r] = "queued"]
  /\ task' = [task EXCEPT ![r] = IF k = "health" THEN "handle" ELSE "verify"]
  /\ queue' = [queue EXCEPT ![d] = Append(@, r)]
  /\ UNCHANGED <<serverVars, calls, upstream>>

\* Upstream calls of a handler: /health probes its sources; below /api/v1 only a
\* capture that is neither a duplicate nor refused makes any.
CallsOf(r) ==
  IF task[r] # "handle" THEN {0}
  ELSE IF kind[r] = "health" THEN {Probes} ELSE 0..MaxCalls

\* The next call, if there is one, will be answered or will hang.  A capture's may
\* get stuck: youtube-transcript-api fetches over a session without a timeout.
Calling(r, left) ==
  /\ calls' = [calls EXCEPT ![r] = left]
  /\ \E how \in Outcomes :
       /\ how = "none" <=> left = 0
       /\ how = "stuck" => kind[r] = "api"
       /\ upstream' = [upstream EXCEPT ![r] = how]

\* A thread that is free takes the request that has waited longest.
Assign(r) ==
  /\ r \in Pending
  /\ LET d == server[r]
     IN  /\ queue[d] # <<>> /\ r = Head(queue[d])
         /\ Cardinality(RunningOf(d)) < Workers
         /\ queue' = [queue EXCEPT ![d] = Tail(@)]
  /\ stage' = [stage EXCEPT ![r] = "running"]
  /\ \E n \in CallsOf(r) : Calling(r, n)
  /\ UNCHANGED <<serverVars, server, kind, task>>

\* The upstream answers.
Answered(r) ==
  /\ r \in Running /\ upstream[r] = "answers"
  /\ Calling(r, calls[r] - 1)
  /\ UNCHANGED <<serverVars, server, kind, stage, task, queue>>

\* Mutant: only the probes of /health have a timeout.
TimeOutProbes(r) ==
  /\ r \in Running /\ upstream[r] = "hangs" /\ kind[r] = "health"
  /\ Calling(r, calls[r] - 1)
  /\ UNCHANGED <<serverVars, server, kind, stage, task, queue>>

\* It does not, and the client of the extractor gives up.
TimeOut(r) ==
  /\ r \in Running /\ upstream[r] = "hangs"
  /\ Calling(r, calls[r] - 1)
  /\ UNCHANGED <<serverVars, server, kind, stage, task, queue>>

\* The request is answered, or needs a thread once more; this one is free.
End(r) ==
  /\ server' = [server EXCEPT ![r] = "none"]
  /\ kind' = [kind EXCEPT ![r] = "none"]
  /\ stage' = [stage EXCEPT ![r] = "idle"]
  /\ task' = [task EXCEPT ![r] = "handle"]
  /\ UNCHANGED queue

Requeue(r, next) ==
  /\ stage' = [stage EXCEPT ![r] = "queued"]
  /\ task' = [task EXCEPT ![r] = next]
  /\ queue' = [queue EXCEPT ![server[r]] = Append(@, r)]
  /\ UNCHANGED <<server, kind>>

\* verify_bearer answers 401, or lets the handler have a thread of its own.
Verify(r) ==
  /\ r \in Running /\ task[r] = "verify"
  /\ End(r) \/ Requeue(r, "handle")
  /\ UNCHANGED <<serverVars, calls, upstream>>

\* The handler raises, which is answered at once, or returns a response to validate.
Handle(r) ==
  /\ r \in Running /\ task[r] = "handle" /\ upstream[r] = "none"
  /\ (kind[r] # "health" /\ End(r)) \/ Requeue(r, "serialize")
  /\ UNCHANGED <<serverVars, calls, upstream>>

Serialize(r) ==
  /\ r \in Running /\ task[r] = "serialize"
  /\ End(r)
  /\ UNCHANGED <<serverVars, calls, upstream>>

Serve(r) ==
  Assign(r) \/ Answered(r) \/ TimeOut(r) \/ Verify(r) \/ Handle(r) \/ Serialize(r)

Next ==
  \/ \E d \in Daemons :
       \/ Start(d) \/ Connect(d) \/ InitSchema(d) \/ LoadRecords(d)
       \/ Bind(d) \/ Stop(d) \/ Close(d) \/ Crash(d)
  \/ \E d \in Daemons, r \in Requests, k \in Kinds : Arrive(d, r, k)
  \/ \E r \in Requests : Serve(r)

\* Threads run, and every call to an upstream ends but one that is stuck: httpx and
\* yt-dlp have timeouts.  Nothing says that clients send requests or that processes
\* start.
Fairness == \A r \in Requests : WF_vars(Serve(r))

Spec == Init /\ [][Next]_vars /\ Fairness

-----------------------------------------------------------------------------
\* The version row says what /health and /api/v1/meta take it to say: that the
\* whole schema is there.  So does a daemon that is done with init_schema, whose
\* load of the embeddings and whose handlers count on it.  The script may be cut
\* short by a crash after any of its statements, be resumed over what it left, and
\* be run by two processes at once.
SchemaIsWhole ==
  "version row" \in schema \/ (\E d \in Daemons : pc[d] \in Ready) => schema = Objects

\* All the threads of its process wait for upstreams that will never answer.
Exhausted(r) ==
  Cardinality({q \in RequestsOf(server[r]) : upstream[q] = "stuck"}) = Workers

\* However many captures wait for upstreams that hang, and however often clients
\* send more, a request that was taken is answered, or dies with its process, even
\* when that is stopping: /health waits behind them for a thread, and not for ever.
\* Only a call without a timeout keeps its own request, and enough of them to take
\* every thread keep the others.
EveryRequestEnds ==
  \A r \in Requests :
    r \in Pending ~> r \notin Pending \/ upstream[r] = "stuck" \/ Exhausted(r)
=============================================================================
