-------------------------- MODULE ServiceProcess ---------------------------
(***************************************************************************)
(* The native service process from launch to exit                          *)
(* (apps/service/src/main.rs; crates/shipflow-service-runtime:             *)
(* run_service_with_options of http_api.rs, internal_ipc.rs,               *)
(* runtime_options.rs), the requests it answers over HTTP and over its     *)
(* internal socket (crates/shipflow-ipc, crates/shipflow-service-client),  *)
(* and the persistent store it opens, feeds and flushes.                   *)
(*                                                                         *)
(* Each request is made once.  What a lookup fetches is any answer.  The   *)
(* memory cache is reduced to the keys it holds and to one rule of         *)
(* LookupCache: one request at a time fetches a key.                       *)
(***************************************************************************)
EXTENDS PersistentStore

CONSTANTS
    IpcRequests, HttpRequests,
    Method, Key, Trusted,    \* what each asks for; those with the right token
    MaxConnections,          \* MAX_ACTIVE_INTERNAL_IPC_CONNECTIONS
    Scenarios                \* bound: how the process is launched, and asked what

Requests == IpcRequests \cup HttpRequests
Final == "final"             \* the flush at the end, of no request

VARIABLES
    stage,      \* where run_service_with_options is
    config,     \* what the process is launched with
    exit,       \* "none", "success" (0), "failure" (1) or "usage" (2)
    result,     \* of the servers
    path,       \* the socket's path: "absent", "socket", "bound", "blocked"
    signal,     \* ShutdownSignal: "none", or what set it, "os" or "ipc"
    http, ipc,  \* the two servers
    client,     \* each request as its client sees it
    server,     \* and as the service does
    reading,    \* the blocking read of a lookup, which outlives the request
    ready,      \* keys in the memory cache
    verified,   \* service-client: the endpoint was verified of late
    coming, relaunches   \* the requests; the launches that are left

processVars == <<stage, config, exit, result, path, signal, http, ipc, relaunches>>
requestVars == <<client, server, reading, ready, verified>>
vars == <<storeVars, processVars, requestVars, coming>>

Errors == {"bad_request", "not_found", "rate_limited", "service_unavailable", "upstream"}

-----------------------------------------------------------------------------
(* Configuration                                                           *)

\* RuntimeOptions::validate
OptionsValid(o) ==
    /\ o.httpConcurrency \in 1..512 /\ o.httpQueue \in 1..4096
    /\ o.lookupConcurrency \in 1..100 /\ o.lookupQueue \in 1..2000
    /\ o.publicConcurrency \in 1..100 /\ o.contactConcurrency \in 1..50
    /\ o.cacheEntries \in 1..100000 /\ o.cacheMiB \in 1..1024
    /\ o.persistentEntries \in 1..100000
    /\ o.publicConcurrency <= o.lookupConcurrency
    /\ o.publicConcurrency <= o.httpConcurrency
    /\ \A ttl \in o.ttls : ttl \in 1..86400
    /\ o.requirePersistence => o.absoluteDirectory

\* validate_tracking_source_config; the addresses its host resolves to
SourceValid(s) ==
    s.external => (s.url = "https" \/ (s.url = "http" /\ s.insecure)) /\ s.token
SourceResolves(s) ==
    s.external => /\ s.addresses # {} /\ "reserved" \notin s.addresses
                  /\ "private" \in s.addresses => s.insecure

\* validate_service_runtime_config
ServiceValid(c) ==
    /\ c.authToken
    /\ c.endpoint => c.internalToken
    /\ SourceValid(c.source)
    /\ c.port # 0

ASSUME ProcessAssumption ==
    /\ MaxConnections \in Nat \ {0}
    /\ IpcRequests \cap HttpRequests = {} /\ Requests \subseteq Writers
    /\ Final \in Flushers \ Requests /\ Key \in [Requests -> Keys]
    /\ \A r \in HttpRequests : Method[r] = "readiness" => r \in Flushers
    /\ \A s \in Scenarios : /\ s.path \in {"absent", "socket", "blocked"}
                            /\ s.requests \subseteq Requests /\ s.relaunches \in Nat
                            /\ s.table \in [Keys -> Row \cup {NoRow}]

-----------------------------------------------------------------------------
(* From launch to serving                                                  *)

Exits(code) == stage' = "exited" /\ exit' = code

(* A configuration file is validated before anything else; the command     *)
(* line only by the service.  The client must be built, the port free.     *)
Launch ==
    /\ stage = "launched"
    /\ \/ /\ ~(OptionsValid(config.options) /\ ServiceValid(config))
          /\ Exits(IF config.file THEN "usage" ELSE "failure")
       \/ /\ OptionsValid(config.options) /\ ServiceValid(config)
          /\ \/ SourceResolves(config.source) /\ stage' = "opening" /\ UNCHANGED exit
             \/ Exits("failure")
    /\ UNCHANGED <<config, result, path, signal, http, ipc, relaunches, storeVars, requestVars>>

(* The strict store, or none of the service; by default the primary path,  *)
(* the fallback in the temporary directory, or no store.                   *)
OpenStores ==
    /\ stage = "opening"
    /\ \/ /\ IF config.options.requirePersistence
             THEN OpenStore({[k \in Keys |-> NoRow]}) ELSE OpenStore(BootLegacy)
          /\ stage' = "listening" /\ UNCHANGED exit
       \/ /\ ~config.options.requirePersistence
          /\ OpenFallback \/ UNCHANGED storeVars
          /\ stage' = "listening" /\ UNCHANGED exit
       \/ /\ config.options.requirePersistence
          /\ Exits("failure") /\ UNCHANGED storeVars
    /\ UNCHANGED <<config, result, path, signal, http, ipc, relaunches, requestVars>>

(* LocalIpcListener::bind replaces a socket that was left, and nothing     *)
(* else.  The HTTP server is served only together with it.                 *)
Listen ==
    /\ stage = "listening"
    /\ IF config.endpoint /\ path = "blocked"
       THEN /\ stage' = "stopping" /\ result' = "error"
            /\ UNCHANGED <<path, http, ipc>>
       ELSE /\ stage' = "serving" /\ http' = "serving" /\ UNCHANGED result
            /\ ipc' = IF config.endpoint THEN "serving" ELSE "ended"
            /\ path' = IF config.endpoint THEN "bound" ELSE path
    /\ UNCHANGED <<config, exit, signal, relaunches, storeVars, requestVars>>

-----------------------------------------------------------------------------
(* Clients.  `asks` is the method of the request under way: the service    *)
(* client verifies an endpoint before its first lookup.                    *)

ClientEnds(r, answer) == client' = [client EXCEPT ![r] = answer]

IpcConnects(r) ==
    /\ r \in IpcRequests \cap coming /\ client[r] \in {"idle", "verified"}
    /\ IF path # "bound"
       THEN /\ ClientEnds(r, "unreachable") /\ UNCHANGED server
       ELSE /\ ClientEnds(r, "waiting")
            /\ \E asks \in IF Method[r] = "lookup" /\ client[r] = "idle"
                           THEN {"status"} \cup IF verified /\ r \in Trusted THEN {"lookup"} ELSE {}
                           ELSE {Method[r]} :
                  server' = [server EXCEPT ![r] = [pc |-> "backlog", asks |-> asks,
                                                   reply |-> "none"]]
    /\ UNCHANGED <<reading, ready, verified>>

HttpConnects(r) ==
    /\ r \in HttpRequests \cap coming /\ client[r] = "idle"
    /\ IF http # "serving"
       THEN ClientEnds(r, "unreachable") /\ UNCHANGED server
       ELSE /\ ClientEnds(r, "waiting")
            /\ server' = [server EXCEPT ![r] = [pc |-> "backlog", asks |-> Method[r],
                                                reply |-> "none"]]
    /\ UNCHANGED <<reading, ready, verified>>

(* It hangs up, or waits no longer; the service notices while it handles   *)
(* the request, and drops the handler.                                     *)
ClientLeaves(r) ==
    /\ client[r] = "waiting"
    /\ ClientEnds(r, "gone")
    /\ server' = [server EXCEPT ![r].pc = IF @ = "respond" THEN @ ELSE "closed"]
    /\ UNCHANGED <<reading, ready, verified>>

(* tracking_error_from_ipc_error; rpc_error_from_tracking_error keeps the  *)
(* five classes apart, and any other code is an upstream error.            *)
SeenByClient(reply) ==
    IF reply = "ok" \/ reply \in Errors THEN reply ELSE "upstream"

-----------------------------------------------------------------------------
(* The service's side of a request                                         *)

ServerAt(r, pc) == server[r].pc = pc
ServerGoes(r, pc) == server' = [server EXCEPT ![r].pc = pc]
Replies(r, reply) == server' = [server EXCEPT ![r].pc = "respond", ![r].reply = reply]
InHandler == {"reading", "load", "loading", "fetching", "probing", "respond", "cancelling"}
Active(S) == {r \in S : server[r].pc \in InHandler}

(* The accept loop looks at the signal first; a connection above the limit *)
(* is dropped.                                                             *)
IpcAcceptsOrForgets(r) ==                                       \* mutant
    /\ r \in IpcRequests /\ ServerAt(r, "backlog") /\ ipc = "serving" /\ signal = "none"
    /\ ServerGoes(r, IF Cardinality(Active(IpcRequests)) < MaxConnections
                     THEN "reading" ELSE "closed")
    /\ UNCHANGED <<client, reading, ready, verified, storeVars, processVars>>
IpcAccepts(r) ==
    /\ r \in IpcRequests /\ ServerAt(r, "backlog") /\ ipc = "serving" /\ signal = "none"
    /\ IF Cardinality(Active(IpcRequests)) < MaxConnections
       THEN ServerGoes(r, "reading") /\ UNCHANGED client
       ELSE ServerGoes(r, "closed") /\ ClientEnds(r, "unreachable")
    /\ UNCHANGED <<reading, ready, verified, storeVars, processVars>>

(* handle_request: the frame, the token, the method, its parameters.  A    *)
(* frame that does not come in time closes the connection.                 *)
IpcHandles(r) ==
    /\ r \in IpcRequests /\ ServerAt(r, "reading")
    /\ \/ /\ IF r \notin Trusted THEN Replies(r, "unauthorized")
             ELSE IF server[r].asks = "lookup"
                  THEN ServerGoes(r, "load") \/ Replies(r, "bad_request")
                  ELSE Replies(r, "ok")
          /\ UNCHANGED client
       \/ ServerGoes(r, "closed") /\ ClientEnds(r, "unreachable")
    /\ UNCHANGED <<reading, ready, verified, storeVars, processVars>>

(* http_ingress_guard refuses; a handler looks at the token, and answers,  *)
(* begins the lookup, or flushes the store on a blocking thread.           *)
HttpRefuses(r) ==
    \E refusal \in {"rate_limited", "service_unavailable"} :
        Replies(r, refusal) /\ UNCHANGED flushing
HttpUnauthorized(r) == r \notin Trusted /\ Replies(r, "unauthorized") /\ UNCHANGED flushing
HttpDispatches(r) ==
    /\ r \in Trusted
    /\ \/ Method[r] = "lookup" /\ ServerGoes(r, "load") /\ UNCHANGED flushing
       \/ Method[r] = "readiness" /\ ServerGoes(r, "probing") /\ FlushBegins(r)
HttpHandles(r) ==
    /\ r \in HttpRequests /\ ServerAt(r, "backlog") /\ http = "serving"
    /\ HttpRefuses(r) \/ HttpUnauthorized(r) \/ HttpDispatches(r)
    /\ UNCHANGED <<client, reading, ready, verified, processVars,
                   table, queue, writer, batch, failed, unwritten, faults>>

(* The handler's deadline of 150 seconds, and the lookup's of 120.         *)
HandlerExpires(r) ==
    /\ server[r].pc \in {"load", "loading", "fetching", "probing"}
    /\ Replies(r, IF server[r].asks = "lookup" THEN "service_unavailable" ELSE "upstream")
    /\ UNCHANGED <<client, reading, ready, verified, storeVars, processVars>>

(* Readiness: the flush, then a probe that writes; a failure is an error   *)
(* only if persistence is required.                                        *)
ReadinessAnswered(r) ==
    /\ ServerAt(r, "probing")
    /\ flushing[r].pc \in {"ok", "error"} \/ writer = "absent"
    /\ \/ flushing[r].pc = "ok" /\ Replies(r, "ok")
       \/ Replies(r, IF config.options.requirePersistence
                     THEN "service_unavailable" ELSE "unhealthy")
    /\ UNCHANGED <<client, reading, ready, verified, storeVars, processVars>>

(* A lookup: from memory; or, when no other request fetches its key, from  *)
(* the persistent store and then from the web.                             *)
FetchesKey(r) == server[r].pc \in {"loading", "fetching"}
LookupBegins(r) ==
    /\ ServerAt(r, "load")
    /\ \A o \in Requests : FetchesKey(o) => Key[o] # Key[r]
    /\ \/ Key[r] \in ready /\ Replies(r, "ok") /\ UNCHANGED reading
       \/ /\ writer # "absent" /\ reading[r] = "none"
          /\ ServerGoes(r, "loading")
          /\ reading' = [reading EXCEPT ![r] = "reading"]
       \/ writer = "absent" /\ ServerGoes(r, "fetching") /\ UNCHANGED reading
    /\ UNCHANGED <<client, ready, verified, storeVars, processVars>>

(* load_success_fresh on a blocking thread: a row to serve is published    *)
(* and answered, a stale one is removed in a step of its own.              *)
RowRead(r) ==
    /\ reading[r] = "reading"
    /\ reading' = [reading EXCEPT ![r] = IF Loaded(Key[r]) = "stale" THEN "removing" ELSE "none"]
    /\ IF ServerAt(r, "loading") /\ Loaded(Key[r]) # "stale"
       THEN IF Loaded(Key[r]) = "fresh"
            THEN Replies(r, "ok") /\ ready' = ready \cup {Key[r]}
            ELSE ServerGoes(r, "fetching") /\ UNCHANGED ready
       ELSE UNCHANGED <<server, ready>>
    /\ UNCHANGED <<client, verified, storeVars, processVars>>

StaleRowRemoved(r) ==
    /\ reading[r] = "removing"
    /\ reading' = [reading EXCEPT ![r] = "none"]
    /\ EnqueueRemove(Key[r], r)
    /\ IF ServerAt(r, "loading") THEN ServerGoes(r, "fetching") ELSE UNCHANGED server
    /\ UNCHANGED <<client, ready, verified, processVars,
                   table, writer, batch, failed, flushing, unwritten, faults>>

(* store_persistent_success: a success is queued for the store, unless its *)
(* payload is too large or holds an image: then the old row is removed.    *)
Fetched(r) ==
    /\ ServerAt(r, "fetching")
    /\ \/ \E error \in Errors : Replies(r, error) /\ UNCHANGED <<ready, queue, unwritten>>
       \/ /\ Replies(r, "ok") /\ ready' = ready \cup {Key[r]}
          /\ EnqueueStore(Key[r], r)
       \/ /\ Replies(r, "ok") /\ ready' = ready \cup {Key[r]}
          /\ EnqueueRemove(Key[r], r) /\ UNCHANGED unwritten
    /\ UNCHANGED <<client, reading, verified, processVars,
                   table, writer, batch, failed, flushing, faults>>

(* The response is written, and only then is a shutdown signalled; a       *)
(* response that cannot be written ends the connection.                    *)
StopsService(r) == r \in IpcRequests /\ server[r].asks = "shutdown" /\ server[r].reply = "ok"

Responds(r) ==
    /\ ServerAt(r, "respond")
    /\ \/ /\ client[r] = "waiting"
          /\ ServerGoes(r, IF StopsService(r) THEN "cancelling" ELSE "closed")
          /\ IF server[r].asks = Method[r]
             THEN /\ ClientEnds(r, SeenByClient(server[r].reply))
                  /\ UNCHANGED verified
             ELSE IF server[r].reply = "ok"
             THEN ClientEnds(r, "verified") /\ verified' = TRUE
             ELSE ClientEnds(r, "upstream") /\ UNCHANGED verified
       \/ ServerGoes(r, "closed") /\ UNCHANGED verified
          /\ ClientEnds(r, IF client[r] = "waiting" THEN "unreachable" ELSE client[r])
    /\ UNCHANGED <<reading, ready, storeVars, processVars>>

CancelsFirst(r) ==                                              \* mutant
    /\ ServerAt(r, "respond") /\ StopsService(r) /\ signal = "none"
    /\ signal' = "ipc"
    /\ UNCHANGED <<client, server, reading, ready, verified, storeVars,
                   stage, config, exit, result, path, http, ipc, relaunches>>
Cancels(r) ==
    /\ ServerAt(r, "cancelling") /\ ServerGoes(r, "closed")
    /\ signal' = IF signal = "none" THEN "ipc" ELSE signal
    /\ UNCHANGED <<client, reading, ready, verified, storeVars,
                   stage, config, exit, result, path, http, ipc, relaunches>>

-----------------------------------------------------------------------------
(* Stopping                                                                *)

OsSignal ==
    /\ stage = "serving" /\ signal = "none" /\ signal' = "os"
    /\ UNCHANGED <<stage, config, exit, result, path, http, ipc, relaunches,
                   storeVars, requestVars>>

Backlog(S) == {r \in S : ServerAt(r, "backlog")}
CutOff(S) ==
    /\ server' = [r \in Requests |-> IF r \in S THEN [server[r] EXCEPT !.pc = "closed"]
                                     ELSE server[r]]
    /\ client' = [r \in Requests |-> IF r \in S /\ client[r] = "waiting"
                                     THEN "unreachable" ELSE client[r]]

(* The accept loop ends on the signal, or because the listener fails: the  *)
(* socket is removed and what waits in its backlog is cut off.             *)
IpcCloses ==
    /\ ipc = "serving" /\ ipc' = "draining" /\ path' = "absent"
    /\ CutOff(Backlog(IpcRequests))
    /\ UNCHANGED <<reading, ready, verified, stage, config, exit, http, relaunches,
                   table, queue, writer, batch, failed, flushing, unwritten>>
IpcStops == signal # "none" /\ IpcCloses /\ UNCHANGED <<result, signal, faults>>
IpcFails ==
    /\ signal = "none" /\ faults < MaxFaults /\ faults' = faults + 1
    /\ IpcCloses /\ result' = "error" /\ UNCHANGED signal

(* Connections are joined for five seconds, then aborted.                  *)
IpcDrained ==
    /\ ipc = "draining" /\ ipc' = "ended"
    /\ CutOff(Active(IpcRequests))
    /\ UNCHANGED <<reading, ready, verified, storeVars,
                   stage, config, exit, result, path, signal, http, relaunches>>

HttpCloses ==
    /\ http = "serving" /\ signal # "none" /\ http' = "closing"
    /\ CutOff(Backlog(HttpRequests))
    /\ UNCHANGED <<reading, ready, verified, storeVars,
                   stage, config, exit, result, path, signal, ipc, relaunches>>

HttpEndsAtOnce ==                                               \* mutant
    /\ http = "closing" /\ http' = "ended"
    /\ UNCHANGED <<stage, config, exit, result, path, signal, ipc, relaunches,
                   storeVars, requestVars>>
HttpEnds ==
    /\ http = "closing" /\ Active(HttpRequests) = {} /\ http' = "ended"
    /\ UNCHANGED <<stage, config, exit, result, path, signal, ipc, relaunches,
                   storeVars, requestVars>>

(* try_join: both servers have ended, or the socket's has failed and the   *)
(* HTTP server is dropped, its connections going on in tasks of their own. *)
ServersEnd ==
    /\ stage = "serving" /\ ipc = "ended"
    /\ http = "ended" \/ result = "error"
    /\ stage' = "stopping" /\ http' = "ended"
    /\ CutOff(Backlog(HttpRequests))
    /\ UNCHANGED <<reading, ready, verified, config, exit, result, path, signal, ipc,
                   relaunches, storeVars>>

FinalFlush ==
    /\ stage = "stopping" /\ flushing[Final].pc = "idle"
    /\ IF writer = "absent"
       THEN /\ flushing' = [flushing EXCEPT ![Final].pc = "ok"]
       ELSE FlushBegins(Final)
    /\ UNCHANGED <<processVars, requestVars,
                   table, queue, writer, batch, failed, unwritten, faults>>

(* A failed flush is the result, whatever the servers' was.                *)
Returns ==
    /\ stage = "stopping" /\ flushing[Final].pc \in {"ok", "error"}
    /\ stage' = "returned"
    /\ result' = IF flushing[Final].pc = "error" THEN "error" ELSE result
    /\ UNCHANGED <<config, exit, path, signal, http, ipc, relaunches, storeVars, requestVars>>

(* The store is dropped with the last task that holds it.  main waits for  *)
(* the blocking ones when all went well; a failure exits at once.          *)
Held == Active(Requests) # {} \/ \E r \in Requests : reading[r] # "none"
Drops ==
    /\ stage = "returned" /\ ~Held /\ DropStore
    /\ UNCHANGED <<processVars, requestVars>>
(* What a process held in memory is gone, and its connections end.         *)
Ended ==
    /\ StoreLost
    /\ http' = "off" /\ ipc' = "off" /\ signal' = "none" /\ result' = "ok"
    /\ path' = IF path = "bound" THEN "socket" ELSE path
    /\ CutOff(Requests)
    /\ reading' = [r \in Requests |-> "none"] /\ ready' = {}
    /\ UNCHANGED <<config, verified>>

Exit ==
    /\ stage = "returned"
    /\ (~Held /\ Joined) \/ (Held /\ result = "error")
    /\ Exits(IF result = "ok" THEN "success" ELSE "failure")
    /\ Ended /\ UNCHANGED <<relaunches, unwritten>>

Crash ==
    /\ stage \notin {"exited", "crashed"} /\ relaunches > 0
    /\ stage' = "crashed" /\ exit' = "none"
    /\ Ended /\ unwritten' = {} /\ UNCHANGED relaunches

(* The supervisor starts the service again.                                *)
Relaunch ==
    /\ stage \in {"exited", "crashed"} /\ relaunches > 0
    /\ relaunches' = relaunches - 1
    /\ stage' = "launched" /\ exit' = "none"
    /\ unwritten' = {}
    /\ UNCHANGED <<config, result, path, signal, http, ipc, requestVars,
                   table, queue, writer, batch, failed, flushing, faults>>

-----------------------------------------------------------------------------
Init ==
    /\ StoreInit
    /\ \E s \in Scenarios : /\ config = s.config /\ path = s.path
                            /\ table = s.table /\ coming = s.requests
                            /\ relaunches = s.relaunches
    /\ stage = "launched" /\ exit = "none" /\ result = "ok" /\ signal = "none"
    /\ http = "off" /\ ipc = "off"
    /\ client = [r \in Requests |-> "idle"]
    /\ server = [r \in Requests |-> [pc |-> "closed", asks |-> "status", reply |-> "none"]]
    /\ reading = [r \in Requests |-> "none"] /\ ready = {} /\ verified = FALSE

ClientSteps(r) ==
    /\ IpcConnects(r) \/ HttpConnects(r) \/ ClientLeaves(r)
    /\ UNCHANGED <<storeVars, processVars>>
ServerSteps(r) ==
    \/ IpcAccepts(r) \/ IpcHandles(r) \/ HttpHandles(r) \/ HandlerExpires(r)
    \/ ReadinessAnswered(r) \/ LookupBegins(r) \/ RowRead(r) \/ StaleRowRemoved(r)
    \/ Fetched(r) \/ Responds(r) \/ Cancels(r)
FlushSteps(f) ==
    /\ FlushSends(f) \/ FlushTimesOut(f) \/ FlushReturns(f)
    /\ UNCHANGED <<processVars, requestVars>>
Writing == WriterStep /\ UNCHANGED <<processVars, requestVars>>
Lifecycle ==
    \/ Launch \/ OpenStores \/ Listen \/ IpcStops \/ IpcDrained \/ HttpCloses
    \/ HttpEnds \/ ServersEnd \/ FinalFlush \/ Returns \/ Drops \/ Exit

Service ==
    \/ \E r \in Requests : ServerSteps(r)
    \/ \E f \in Flushers : FlushSteps(f)
    \/ Writing \/ Lifecycle

Next ==
    /\ \/ \E r \in Requests : ClientSteps(r)
       \/ Service \/ OsSignal \/ IpcFails \/ Crash \/ Relaunch
    /\ UNCHANGED coming

(* Tasks that can go on are polled, threads run, SQLite has a busy timeout *)
(* and every fetch a deadline; nobody is made to ask, to leave or to stop. *)
Fairness == WF_vars(Service /\ UNCHANGED coming)

Spec == Init /\ [][Next]_vars /\ Fairness
-----------------------------------------------------------------------------
(* Properties                                                              *)

(* A flush that reports success, the readiness probe's as well as the one  *)
(* at the end, follows the commit of every store accepted before it began, *)
(* whichever batches they went through (PersistentLookupStore::flush).     *)
FlushDurable ==
    \A f \in Flushers : flushing[f].pc = "ok" => flushing[f].before \cap unwritten = {}

(* A process that exits with success has lost no store its requests had    *)
(* queued: nothing feeds the store once the last flush has begun           *)
(* (run_service_with_options; main).                                       *)
GracefulDurable == stage = "exited" /\ exit = "success" => unwritten = {}

(* What was queued is stored: a success reported for it, whether of a      *)
(* flush or of the process, is true.                                       *)
StoresDurable == FlushDurable /\ GracefulDurable

(* The internal socket stops the service only for a client that holds the  *)
(* token and has its answer (internal_ipc.rs, handle_connection).          *)
ShutdownAnswered ==
    signal = "ipc" => \E r \in IpcRequests \cap Trusted :
                          Method[r] = "shutdown" /\ client[r] = "ok"

(* A service told to stop does: no request, read, flush or writer keeps    *)
(* the process (HTTP's graceful shutdown, try_join, Drop of the store).    *)
StopEnds == signal # "none" ~> stage \in {"exited", "crashed"}

(* Nobody who has connected waits for ever, when the service stops with    *)
(* the request in a backlog, in a handler or behind another's fetch too.   *)
RequestsEnd == []<>(\A r \in Requests : client[r] # "waiting")

(* The service and its clients come to an end together.                    *)
ServiceSettles == StopEnds /\ RequestsEnd
=============================================================================
