------------------------ MODULE ServiceProcessProofs ------------------------
(***************************************************************************)
(* Theorems about ServiceProcess, for every set of requests, keys and      *)
(* flushes, every bound of the queue and of a batch, any number of faults  *)
(* and launches, and every configuration.                                  *)
(***************************************************************************)
EXTENDS ServiceProcess, SequenceTheorems, TLAPS

-----------------------------------------------------------------------------
(* Types                                                                   *)

Command ==
    {Shutdown} \cup {FlushCommand(f) : f \in Flushers}
    \cup {StoreCommand(k, r) : k \in Keys, r \in Writers}
    \cup {RemoveCommand(k, r) : k \in Keys, r \in Writers}

FlushStates == {"idle", "sending", "waiting", "committed", "ok", "error"}
FlushRecord == [pc : FlushStates, before : SUBSET Requests]

StoreTyped ==
    /\ queue \in Seq(Command) /\ batch \in Seq(Command)
    /\ writer \in {"absent", "opening", "running", "rejecting", "ended"}
    /\ failed \in BOOLEAN
    /\ flushing \in [Flushers -> FlushRecord]
    /\ unwritten \subseteq Requests

Handled == {"backlog", "reading", "load", "loading", "fetching", "probing"}
Asking == {"load", "loading", "fetching"}

Points == Handled \cup {"respond", "cancelling", "closed"}
Replied == {"none", "ok", "unauthorized", "unhealthy"} \cup Errors
ServerRecord ==
    [pc : Points, asks : {"status"} \cup {Method[r] : r \in Requests}, reply : Replied]
ClientStates == {"idle", "waiting", "verified", "gone", "unreachable", "ok"} \cup Errors

RequestsTyped ==
    /\ server \in [Requests -> ServerRecord]
    /\ client \in [Requests -> ClientStates]

-----------------------------------------------------------------------------
(* The invariant of the requests                                           *)

(* What the service is at, and what its client knows.                      *)
InStep(r) ==
    /\ server[r].pc \in Handled => client[r] = "waiting"
    /\ server[r].pc = "respond" => client[r] \in {"waiting", "gone"}
    /\ server[r].pc = "cancelling" => client[r] = "ok"

(* A request is asked for what it is made for, or whether the endpoint is  *)
(* the service's; only a client with the token is told that all went well. *)
Asked(r) ==
    /\ server[r].asks \in {"status", Method[r]}
    /\ r \in HttpRequests /\ server[r].pc # "closed" => server[r].asks = Method[r]
    /\ server[r].pc \in Asking => server[r].asks = Method[r] /\ r \in Trusted
    /\ server[r].pc = "probing" => r \in HttpRequests
    /\ r \in IpcRequests /\ server[r].pc = "respond" /\ server[r].reply = "ok" => r \in Trusted
    /\ server[r].pc = "cancelling" =>
          r \in IpcRequests \cap Trusted /\ Method[r] = "shutdown"

Sound(r) == InStep(r) /\ Asked(r)

RequestsInv == RequestsTyped /\ (\A r \in Requests : Sound(r)) /\ ShutdownAnswered

-----------------------------------------------------------------------------
(* The invariant of the store                                              *)

Pending == batch \o queue
Stores(c, r) == \E k \in Keys : c = StoreCommand(k, r)

(* A store that works has every accepted store before it, and before every *)
(* flush that waits those that were accepted when it began.                *)
Works == ~failed /\ writer \in {"opening", "running"}

Queued == Works => \A r \in unwritten : \E i \in DOMAIN Pending : Stores(Pending[i], r)

FlushFollows ==
    Works => \A f \in Flushers : flushing[f].pc = "waiting" =>
        \A i \in DOMAIN Pending : Pending[i] = FlushCommand(f) =>
            \A r \in flushing[f].before \cap unwritten :
                \E j \in DOMAIN Pending : j < i /\ Stores(Pending[j], r)

NotSent ==
    \A f \in Flushers : flushing[f].pc \in {"idle", "sending"} =>
        \A i \in DOMAIN Pending : Pending[i] # FlushCommand(f)

(* What a flush counts on stays written.                                   *)
Committed ==
    \A f \in Flushers :
        flushing[f].pc = "ok" \/ (flushing[f].pc = "committed" /\ ~failed)
            => flushing[f].before \cap unwritten = {}

WriterHas == /\ batch # <<>> => writer = "running"
             /\ writer = "absent" => queue = <<>> /\ batch = <<>>

StoreInv == StoreTyped /\ Queued /\ FlushFollows /\ NotSent /\ Committed /\ WriterHas

-----------------------------------------------------------------------------
(* The invariant of the process                                            *)

(* A request is stored at most once.                                       *)
Kept(r) == r \in unwritten \/ \E f \in Flushers : r \in flushing[f].before
Past(r) ==
    /\ client[r] \notin {"idle", "verified"}
    /\ server[r].pc \in {"respond", "cancelling", "closed"}
    /\ server[r].pc = "respond" => server[r].asks = Method[r]
Once == \A r \in Requests : Kept(r) => Past(r)

(* A readiness probe flushes once, and the process once at its end.        *)
FlushedOnce ==
    /\ \A r \in HttpRequests \cap Flushers :
          client[r] = "idle" \/ server[r].pc = "backlog" => flushing[r].pc = "idle"
    /\ flushing[Final].pc # "idle" => stage \in {"stopping", "returned"}

(* A server that has ended leaves nothing behind.                          *)
Closed(S) == \A r \in S : server[r].pc = "closed"
Servers ==
    /\ http \in {"off", "serving", "closing", "ended"}
    /\ ipc \in {"off", "serving", "draining", "ended"}
    /\ path = "bound" => ipc = "serving"
    /\ http = "off" \/ (http = "ended" /\ result = "ok") => Closed(HttpRequests)
    /\ http = "closing" => Backlog(HttpRequests) = {}
    /\ ipc \in {"off", "ended"} => Closed(IpcRequests)
    /\ ipc = "draining" => Backlog(IpcRequests) = {}

Stages ==
    /\ stage \in {"launched", "opening", "listening", "serving", "stopping", "returned",
                  "exited", "crashed"}
    /\ stage \in {"launched", "opening", "listening", "exited", "crashed"} =>
          http = "off" /\ ipc = "off"
    /\ stage \in {"stopping", "returned"} /\ result = "ok" => http = "ended" /\ ipc = "ended"
    /\ stage \in {"launched", "opening", "exited", "crashed"} => writer = "absent"
    /\ writer = "absent" /\ stage # "exited" => unwritten = {}

(* The last flush begins when nothing is to come.                          *)
Ending ==
    /\ stage = "stopping" /\ result = "ok" /\ flushing[Final].pc # "idle" =>
          unwritten \subseteq flushing[Final].before
    /\ stage = "returned" /\ result = "ok" => unwritten = {}
    /\ GracefulDurable

ProcessInv == Once /\ FlushedOnce /\ Servers /\ Stages /\ Ending

Inv == RequestsInv /\ StoreInv /\ ProcessInv
-----------------------------------------------------------------------------
(* The requests                                                            *)

\* What a step does to the record of the request it is about.
LEMMA ServerMoves ==
    ASSUME RequestsTyped, NEW r \in Requests, NEW pc \in Points, ServerGoes(r, pc)
    PROVE  /\ server' \in [Requests -> ServerRecord]
           /\ server'[r].pc = pc /\ server'[r].asks = server[r].asks
           /\ server'[r].reply = server[r].reply
           /\ \A o \in Requests : o # r => server'[o] = server[o]
<1> DEFINE new == [server[r] EXCEPT !.pc = pc]
<1>1. server' = [server EXCEPT ![r] = new]
  BY DEF ServerGoes
<1>2. /\ new \in ServerRecord /\ new.pc = pc
      /\ new.asks = server[r].asks /\ new.reply = server[r].reply
  BY DEF RequestsTyped, ServerRecord
<1> HIDE DEF new
<1> QED
  BY <1>1, <1>2 DEF RequestsTyped

LEMMA ServerReplies ==
    ASSUME RequestsTyped, NEW r \in Requests, NEW reply \in Replied, Replies(r, reply)
    PROVE  /\ server' \in [Requests -> ServerRecord]
           /\ server'[r].pc = "respond" /\ server'[r].asks = server[r].asks
           /\ server'[r].reply = reply
           /\ \A o \in Requests : o # r => server'[o] = server[o]
<1> DEFINE respond == [server[r] EXCEPT !.pc = "respond"]
           moved == [server EXCEPT ![r] = respond]
           new == [respond EXCEPT !.reply = reply]
<1>1. moved \in [Requests -> ServerRecord] /\ moved[r] = respond
      /\ \A o \in Requests : o # r => moved[o] = server[o]
  BY DEF RequestsTyped, ServerRecord, Points
<1>2. /\ new \in ServerRecord /\ new.pc = "respond"
      /\ new.asks = server[r].asks /\ new.reply = reply
  BY DEF RequestsTyped, ServerRecord, Points
<1>3. server' = [moved EXCEPT ![r] = new]
  BY <1>1 DEF Replies
<1> HIDE DEF new, moved
<1> QED
  BY <1>1, <1>2, <1>3

LEMMA ClientMoves ==
    ASSUME RequestsTyped, NEW r \in Requests, NEW answer \in ClientStates, ClientEnds(r, answer)
    PROVE  /\ client' \in [Requests -> ClientStates] /\ client'[r] = answer
           /\ \A o \in Requests : o # r => client'[o] = client[o]
BY DEF ClientEnds, RequestsTyped

LEMMA CutOffMoves ==
    ASSUME RequestsTyped, NEW S, CutOff(S)
    PROVE  /\ server' \in [Requests -> ServerRecord] /\ client' \in [Requests -> ClientStates]
           /\ \A r \in Requests :
                 /\ server'[r].asks = server[r].asks /\ server'[r].reply = server[r].reply
                 /\ server'[r].pc = IF r \in S THEN "closed" ELSE server[r].pc
                 /\ client'[r] = IF r \in S /\ client[r] = "waiting" THEN "unreachable"
                                 ELSE client[r]
<1>1. ASSUME NEW r \in Requests
      PROVE  /\ server'[r] \in ServerRecord
             /\ server'[r].asks = server[r].asks /\ server'[r].reply = server[r].reply
             /\ server'[r].pc = IF r \in S THEN "closed" ELSE server[r].pc
  <2>1. server[r] \in ServerRecord
    BY DEF RequestsTyped
  <2>2. CASE r \in S
    <3>1. server'[r] = [server[r] EXCEPT !.pc = "closed"]
      BY <2>2 DEF CutOff
    <3> QED
      BY <2>1, <2>2, <3>1 DEF ServerRecord, Points
  <2>3. CASE r \notin S
    <3>1. server'[r] = server[r]
      BY <2>3 DEF CutOff
    <3> QED
      BY <2>1, <2>3, <3>1
  <2> QED
    BY <2>2, <2>3
<1>2. server' \in [Requests -> ServerRecord]
  <2>1. server' = [r \in Requests |-> server'[r]]
    BY DEF CutOff
  <2> QED
    BY <1>1, <2>1
<1>3. client' \in [Requests -> ClientStates]
  BY DEF CutOff, RequestsTyped, ClientStates
<1>4. \A r \in Requests :
          client'[r] = IF r \in S /\ client[r] = "waiting" THEN "unreachable" ELSE client[r]
  BY DEF CutOff
<1> QED
  BY <1>1, <1>2, <1>3, <1>4

\* A step about one request leaves the others, and nobody forgets an answer.
LEMMA OneMoves ==
    ASSUME RequestsInv, NEW r \in Requests,
           server' \in [Requests -> ServerRecord], client' \in [Requests -> ClientStates],
           \A o \in Requests : o # r => server'[o] = server[o] /\ client'[o] = client[o],
           Sound(r)', client[r] = "ok" => client'[r] = "ok", UNCHANGED signal
    PROVE  RequestsInv'
<1>1. \A o \in Requests : Sound(o)'
  BY DEF RequestsInv, Sound, InStep, Asked
<1>2. ShutdownAnswered'
  BY DEF RequestsInv, ShutdownAnswered, Requests
<1> QED
  BY <1>1, <1>2 DEF RequestsInv, RequestsTyped

LEMMA CutOffSound ==
    ASSUME RequestsInv, NEW S, CutOff(S), signal' \in {signal, "none"}
    PROVE  RequestsInv'
<1>1. RequestsTyped'
  BY CutOffMoves DEF RequestsInv, RequestsTyped
<1>2. ASSUME NEW r \in Requests PROVE Sound(r)'
  <2>1. /\ Sound(r)
        /\ server'[r].asks = server[r].asks /\ server'[r].reply = server[r].reply
        /\ server'[r].pc = IF r \in S THEN "closed" ELSE server[r].pc
        /\ client'[r] = IF r \in S /\ client[r] = "waiting" THEN "unreachable" ELSE client[r]
    BY CutOffMoves DEF RequestsInv
  <2> QED
    BY <2>1 DEF Sound, InStep, Asked, Handled, Asking
<1>3. ShutdownAnswered'
  <2>1. \A r \in Requests : client[r] = "ok" => client'[r] = "ok"
    BY CutOffMoves DEF RequestsInv
  <2> QED
    BY <2>1 DEF RequestsInv, ShutdownAnswered, Requests
<1> QED
  BY <1>1, <1>2, <1>3 DEF RequestsInv

LEMMA ClientsSound ==
    ASSUME RequestsInv, NEW r \in Requests, ClientSteps(r)
    PROVE  RequestsInv'
<1> USE DEF RequestsInv
<1>1. RequestsTyped /\ Sound(r) /\ UNCHANGED signal
  BY DEF ClientSteps, processVars
<1>2. ASSUME ClientEnds(r, "unreachable"), UNCHANGED server, client[r] \in {"idle", "verified"}
      PROVE  RequestsInv'
  <2>1. Sound(r)'
    BY <1>1, <1>2, ClientMoves DEF ClientStates, Sound, InStep, Asked, Handled
  <2> QED
    BY <1>1, <1>2, <2>1, ClientMoves, OneMoves DEF RequestsTyped, ClientStates
<1>3. ASSUME NEW asks \in {"status", Method[r]}, r \in HttpRequests => asks = Method[r],
             client[r] \in {"idle", "verified"}, ClientEnds(r, "waiting"),
             server' = [server EXCEPT ![r] = [pc |-> "backlog", asks |-> asks, reply |-> "none"]]
      PROVE  RequestsInv'
  <2> DEFINE new == [pc |-> "backlog", asks |-> asks, reply |-> "none"]
  <2>1. new \in ServerRecord
    BY DEF ServerRecord, Points, Handled, Replied
  <2>2. new.pc = "backlog" /\ new.asks = asks /\ server' = [server EXCEPT ![r] = new]
    BY <1>3
  <2> HIDE DEF new
  <2>3. /\ server' \in [Requests -> ServerRecord] /\ server'[r] = new
        /\ \A o \in Requests : o # r => server'[o] = server[o]
    BY <1>1, <2>1, <2>2 DEF RequestsTyped
  <2>4. Sound(r)'
    BY <1>1, <1>3, <2>2, <2>3, ClientMoves
       DEF ClientStates, Sound, InStep, Asked, Handled, Asking
  <2> QED
    BY <1>1, <1>3, <2>3, <2>4, ClientMoves, OneMoves DEF ClientStates
<1>4. CASE IpcConnects(r)
  <2>1. /\ r \in IpcRequests /\ r \notin HttpRequests /\ client[r] \in {"idle", "verified"}
    BY <1>4, ProcessAssumption DEF IpcConnects
  <2>2. \/ ClientEnds(r, "unreachable") /\ UNCHANGED server
        \/ /\ ClientEnds(r, "waiting")
           /\ \E asks \in {"status", Method[r]} :
                 server' = [server EXCEPT ![r] = [pc |-> "backlog", asks |-> asks,
                                                  reply |-> "none"]]
    BY <1>4 DEF IpcConnects
  <2> QED
    BY <1>2, <1>3, <2>1, <2>2
<1>5. CASE HttpConnects(r)
  <2>1. \/ ClientEnds(r, "unreachable") /\ UNCHANGED server
        \/ /\ ClientEnds(r, "waiting")
           /\ server' = [server EXCEPT ![r] = [pc |-> "backlog", asks |-> Method[r],
                                               reply |-> "none"]]
    BY <1>5 DEF HttpConnects
  <2> QED
    BY <1>2, <1>3, <1>5, <2>1 DEF HttpConnects
<1>6. CASE ClientLeaves(r)
  <2> DEFINE pc == IF server[r].pc = "respond" THEN "respond" ELSE "closed"
  <2>1. pc \in Points /\ ServerGoes(r, pc) /\ ClientEnds(r, "gone") /\ client[r] = "waiting"
    BY <1>6 DEF ClientLeaves, ServerGoes, Points
  <2>2. Sound(r)'
    BY <1>1, <2>1, ServerMoves, ClientMoves DEF ClientStates, Sound, InStep, Asked, Handled, Asking
  <2> QED
    BY <1>1, <2>1, <2>2, ServerMoves, ClientMoves, OneMoves DEF ClientStates
<1> QED
  BY <1>4, <1>5, <1>6 DEF ClientSteps

(* A handler goes on, or answers; "ok" only to who holds the token.        *)
LEMMA HandlerSound ==
    ASSUME RequestsInv, NEW r \in Requests, UNCHANGED <<client, signal>>,
           server[r].pc \in Handled,
           \/ \E pc \in Asking : ServerGoes(r, pc) /\ server[r].asks = Method[r] /\ r \in Trusted
           \/ ServerGoes(r, "reading")
           \/ ServerGoes(r, "probing") /\ r \in HttpRequests
           \/ \E reply \in Replied : /\ Replies(r, reply)
                                     /\ reply = "ok" /\ r \in IpcRequests => r \in Trusted
    PROVE  RequestsInv'
<1>1. RequestsTyped /\ Sound(r) /\ UNCHANGED signal /\ "reading" \in Points /\ "probing" \in Points
      /\ Asking \subseteq Points
  BY DEF RequestsInv, Points, Handled, Asking
<1>2. CASE \E pc \in Asking : ServerGoes(r, pc) /\ server[r].asks = Method[r] /\ r \in Trusted
  <2>1. PICK pc \in Asking : ServerGoes(r, pc) /\ server[r].asks = Method[r] /\ r \in Trusted
    BY <1>2
  <2>2. Sound(r)'
    BY <1>1, <2>1, ServerMoves DEF Sound, InStep, Asked, Handled, Asking
  <2> QED
    BY <1>1, <2>1, <2>2, ServerMoves, OneMoves DEF RequestsTyped
<1>3. CASE ServerGoes(r, "reading") \/ (ServerGoes(r, "probing") /\ r \in HttpRequests)
  <2>1. PICK pc \in {"reading", "probing"} :
          ServerGoes(r, pc) /\ (pc = "probing" => r \in HttpRequests)
    BY <1>3
  <2>2. Sound(r)'
    BY <1>1, <2>1, ServerMoves DEF Sound, InStep, Asked, Handled, Asking
  <2> QED
    BY <1>1, <2>1, <2>2, ServerMoves, OneMoves DEF RequestsTyped
<1>4. CASE \E reply \in Replied : /\ Replies(r, reply)
                                  /\ reply = "ok" /\ r \in IpcRequests => r \in Trusted
  <2>1. PICK reply \in Replied : /\ Replies(r, reply)
                                 /\ reply = "ok" /\ r \in IpcRequests => r \in Trusted
    BY <1>4
  <2>2. Sound(r)'
    BY <1>1, <2>1, ServerReplies DEF Sound, InStep, Asked, Handled, Asking
  <2> QED
    BY <1>1, <2>1, <2>2, ServerReplies, OneMoves DEF RequestsTyped
<1> QED
  BY <1>2, <1>3, <1>4

LEMMA Dropped ==
    ASSUME RequestsInv, NEW r \in Requests, UNCHANGED signal, server[r].pc \in Handled,
           ServerGoes(r, "closed"), ClientEnds(r, "unreachable")
    PROVE  RequestsInv'
<1>1. RequestsTyped /\ Sound(r) /\ "closed" \in Points /\ "unreachable" \in ClientStates
  BY DEF RequestsInv, Points, ClientStates
<1>2. Sound(r)'
  BY <1>1, ServerMoves, ClientMoves DEF Sound, InStep, Asked, Handled, Asking
<1>3. client[r] # "ok"
  BY <1>1 DEF Sound, InStep
<1> QED
  BY <1>1, <1>2, <1>3, ServerMoves, ClientMoves, OneMoves

LEMMA ServerSound ==
    ASSUME RequestsInv, NEW r \in Requests, ServerSteps(r)
    PROVE  RequestsInv'
<1> USE DEF Handled
<1>1. RequestsTyped /\ Sound(r)
  BY DEF RequestsInv
<1>2. Errors \subseteq Replied /\ "ok" \notin Errors /\ {"ok", "unauthorized", "unhealthy"} \subseteq Replied
      /\ {"bad_request", "service_unavailable", "upstream", "rate_limited"} \subseteq Errors
      /\ Points = {"backlog", "reading", "load", "loading", "fetching", "probing",
                   "respond", "cancelling", "closed"}
      /\ ClientStates = {"idle", "waiting", "verified", "gone", "unreachable", "ok"} \cup Errors
  BY DEF Errors, Replied, Points, ClientStates
<1>3. CASE IpcAccepts(r)
  <2>1. /\ UNCHANGED signal /\ server[r].pc \in Handled
        /\ \/ ServerGoes(r, "reading") /\ UNCHANGED client
           \/ ServerGoes(r, "closed") /\ ClientEnds(r, "unreachable")
    BY <1>3 DEF IpcAccepts, processVars, ServerAt
  <2> QED
    BY <2>1, HandlerSound, Dropped
<1>4. CASE IpcHandles(r)
  <2>1. /\ UNCHANGED signal /\ server[r].pc \in Handled /\ r \in IpcRequests
        /\ \/ Replies(r, "unauthorized") /\ UNCHANGED client
           \/ /\ server[r].asks = "lookup" /\ r \in Trusted /\ UNCHANGED client
              /\ ServerGoes(r, "load") \/ Replies(r, "bad_request")
           \/ r \in Trusted /\ Replies(r, "ok") /\ UNCHANGED client
           \/ ServerGoes(r, "closed") /\ ClientEnds(r, "unreachable")
    BY <1>4 DEF IpcHandles, processVars, ServerAt
  <2>2. server[r].asks = "lookup" => server[r].asks = Method[r]
    BY <1>1 DEF Sound, Asked
  <2> QED
    BY <1>2, <2>1, <2>2, HandlerSound, Dropped DEF Asking
<1>5. CASE HttpHandles(r)
  <2>1. /\ UNCHANGED <<client, signal>> /\ ServerAt(r, "backlog") /\ r \in HttpRequests
        /\ r \notin IpcRequests
        /\ \/ \E refusal \in {"rate_limited", "service_unavailable"} : Replies(r, refusal)
           \/ Replies(r, "unauthorized")
           \/ ServerGoes(r, "load") /\ r \in Trusted
           \/ ServerGoes(r, "probing")
    BY <1>5, ProcessAssumption
       DEF HttpHandles, HttpRefuses, HttpUnauthorized, HttpDispatches, processVars
  <2>2. server[r].asks = Method[r] /\ server[r].pc \in Handled
    BY <1>1, <2>1 DEF Sound, Asked, ServerAt
  <2> QED
    BY <1>2, <2>1, <2>2, HandlerSound DEF Asking
<1>6. CASE HandlerExpires(r)
  <2>1. /\ UNCHANGED <<client, signal>> /\ server[r].pc \in Handled
        /\ Replies(r, "service_unavailable") \/ Replies(r, "upstream")
    BY <1>6 DEF HandlerExpires, processVars
  <2> QED
    BY <1>2, <2>1, HandlerSound
<1>7. CASE ReadinessAnswered(r)
  <2>1. /\ UNCHANGED <<client, signal>> /\ server[r].pc = "probing"
        /\ Replies(r, "ok") \/ Replies(r, "service_unavailable") \/ Replies(r, "unhealthy")
    BY <1>7 DEF ReadinessAnswered, processVars, ServerAt
  <2>2. server[r].pc \in Handled /\ r \notin IpcRequests
    BY <1>1, <2>1, ProcessAssumption DEF Sound, Asked
  <2> QED
    BY <1>2, <2>1, <2>2, HandlerSound
<1>8. CASE LookupBegins(r) \/ Fetched(r)
  <2>1. /\ UNCHANGED <<client, signal>> /\ server[r].pc \in Asking
        /\ \/ \E reply \in Errors \cup {"ok"} : Replies(r, reply)
           \/ \E pc \in Asking : ServerGoes(r, pc)
    BY <1>8 DEF LookupBegins, Fetched, processVars, ServerAt, Asking
  <2>2. server[r].pc \in Handled /\ server[r].asks = Method[r] /\ r \in Trusted
    BY <1>1, <2>1 DEF Sound, Asked, Asking
  <2> QED
    BY <1>2, <2>1, <2>2, HandlerSound
<1>9. CASE RowRead(r) \/ StaleRowRemoved(r)
  <2>1. /\ UNCHANGED <<client, signal>>
        /\ \/ UNCHANGED server
           \/ /\ server[r].pc \in Asking
              /\ Replies(r, "ok") \/ ServerGoes(r, "fetching")
    BY <1>9 DEF RowRead, StaleRowRemoved, processVars, ServerAt, Asking
  <2>2. CASE UNCHANGED server
    BY <1>1, <2>1, <2>2, OneMoves DEF RequestsTyped, Sound, InStep, Asked
  <2>3. CASE /\ server[r].pc \in Asking
             /\ Replies(r, "ok") \/ ServerGoes(r, "fetching")
    <3>1. server[r].pc \in Handled /\ server[r].asks = Method[r] /\ r \in Trusted
      BY <1>1, <2>3 DEF Sound, Asked, Asking
    <3> QED
      BY <1>2, <2>1, <2>3, <3>1, HandlerSound DEF Asking
  <2> QED
    BY <2>1, <2>2, <2>3
<1>10. CASE Responds(r)
  <2>1. UNCHANGED signal /\ server[r].pc = "respond" /\ client[r] \in {"waiting", "gone"}
    BY <1>1, <1>10 DEF Responds, processVars, ServerAt, Sound, InStep
  <2>2. CASE /\ client[r] = "waiting"
             /\ ServerGoes(r, IF StopsService(r) THEN "cancelling" ELSE "closed")
             /\ IF server[r].asks = Method[r]
                THEN ClientEnds(r, SeenByClient(server[r].reply))
                ELSE ClientEnds(r, IF server[r].reply = "ok" THEN "verified" ELSE "upstream")
    <3> DEFINE answer == IF server[r].asks = Method[r] THEN SeenByClient(server[r].reply)
                         ELSE IF server[r].reply = "ok" THEN "verified" ELSE "upstream"
    <3>1. answer \in ClientStates /\ ClientEnds(r, answer)
      BY <1>2, <2>2 DEF SeenByClient
    <3>2. CASE StopsService(r)
      <4>1. /\ r \in IpcRequests \cap Trusted /\ Method[r] = "shutdown" /\ answer = "ok"
        BY <1>1, <2>1, <3>2 DEF StopsService, Sound, Asked, SeenByClient
      <4>2. ServerGoes(r, "cancelling")
        BY <2>2, <3>2
      <4>3. Sound(r)'
        BY <1>1, <1>2, <3>1, <4>1, <4>2, ServerMoves, ClientMoves, ProcessAssumption
           DEF Sound, InStep, Asked, Asking
      <4> QED
        BY <1>1, <1>2, <2>1, <3>1, <4>2, <4>3, ServerMoves, ClientMoves, OneMoves
    <3>3. CASE ~StopsService(r)
      <4>1. ServerGoes(r, "closed")
        BY <2>2, <3>3
      <4>2. Sound(r)'
        BY <1>1, <1>2, <3>1, <4>1, ServerMoves, ClientMoves DEF Sound, InStep, Asked, Asking
      <4> QED
        BY <1>1, <1>2, <2>1, <3>1, <4>1, <4>2, ServerMoves, ClientMoves, OneMoves
    <3> QED
      BY <3>2, <3>3
  <2>3. CASE /\ ServerGoes(r, "closed")
             /\ ClientEnds(r, IF client[r] = "waiting" THEN "unreachable" ELSE client[r])
    <3>1. PICK answer \in {"unreachable", "gone"} : ClientEnds(r, answer)
      BY <2>1, <2>3
    <3>2. Sound(r)'
      BY <1>1, <1>2, <2>3, <3>1, ServerMoves, ClientMoves DEF Sound, InStep, Asked, Asking
    <3> QED
      BY <1>1, <1>2, <2>1, <2>3, <3>1, <3>2, ServerMoves, ClientMoves, OneMoves
  <2> QED
    BY <1>10, <2>2, <2>3 DEF Responds
<1>11. CASE Cancels(r)
  <2>1. /\ ServerGoes(r, "closed") /\ UNCHANGED client
        /\ r \in IpcRequests \cap Trusted /\ Method[r] = "shutdown" /\ client[r] = "ok"
    BY <1>1, <1>11 DEF Cancels, ServerAt, Sound, InStep, Asked
  <2>2. \A o \in Requests : Sound(o)'
    BY <1>1, <1>2, <2>1, ServerMoves DEF RequestsInv, Sound, InStep, Asked, Asking
  <2>3. ShutdownAnswered'
    BY <2>1 DEF ShutdownAnswered
  <2> QED
    BY <1>1, <1>2, <2>1, <2>2, <2>3, ServerMoves DEF RequestsInv, RequestsTyped
<1> QED
  BY <1>3, <1>4, <1>5, <1>6, <1>7, <1>8, <1>9, <1>10, <1>11 DEF ServerSteps

LEMMA RequestsStart == Init => RequestsInv
<1> SUFFICES ASSUME Init PROVE RequestsInv
  OBVIOUS
<1> DEFINE new == [pc |-> "closed", asks |-> "status", reply |-> "none"]
<1>1. /\ new \in ServerRecord /\ new.pc = "closed" /\ new.asks = "status"
  BY DEF ServerRecord, Points, Replied
<1>2. server = [r \in Requests |-> new] /\ client = [r \in Requests |-> "idle"] /\ signal = "none"
  BY DEF Init
<1> HIDE DEF new
<1>3. RequestsTyped
  BY <1>1, <1>2 DEF RequestsTyped, ClientStates
<1>4. \A r \in Requests : Sound(r)
  BY <1>1, <1>2 DEF Sound, InStep, Asked, Handled, Asking
<1> QED
  BY <1>2, <1>3, <1>4 DEF RequestsInv, ShutdownAnswered

LEMMA RequestsStay ==
    ASSUME RequestsInv, UNCHANGED <<client, server>>, signal' \in {signal, "none", "os"}
    PROVE  RequestsInv'
BY DEF RequestsInv, RequestsTyped, Sound, InStep, Asked, ShutdownAnswered

LEMMA RequestsKept == RequestsInv /\ [Next]_vars => RequestsInv'
<1> SUFFICES ASSUME RequestsInv, [Next]_vars PROVE RequestsInv'
  OBVIOUS
<1>1. CASE \E r \in Requests : ClientSteps(r)
  BY <1>1, ClientsSound
<1>2. CASE \E r \in Requests : ServerSteps(r)
  BY <1>2, ServerSound
<1>3. CASE Writing \/ \E f \in Flushers : FlushSteps(f)
  BY <1>3, RequestsStay DEF Writing, FlushSteps, processVars, requestVars
<1>4. CASE Launch \/ OpenStores \/ Listen \/ HttpEnds \/ FinalFlush \/ Returns \/ Drops
           \/ OsSignal \/ Relaunch
  BY <1>4, RequestsStay
     DEF Launch, OpenStores, Listen, HttpEnds, FinalFlush, Returns, Drops, OsSignal, Relaunch,
         processVars, requestVars
<1>5. CASE IpcStops \/ IpcFails \/ IpcDrained \/ HttpCloses \/ ServersEnd
  <2>1. /\ UNCHANGED signal
        /\ \/ CutOff(Backlog(IpcRequests)) \/ CutOff(Active(IpcRequests))
           \/ CutOff(Backlog(HttpRequests))
    BY <1>5 DEF IpcStops, IpcFails, IpcCloses, IpcDrained, HttpCloses, ServersEnd
  <2> QED
    BY <2>1, CutOffSound
<1>6. CASE Exit \/ Crash
  BY <1>6, CutOffSound DEF Exit, Crash, Ended
<1>7. CASE UNCHANGED vars
  BY <1>7, RequestsStay DEF vars, requestVars, processVars
<1> QED
  BY <1>1, <1>2, <1>3, <1>4, <1>5, <1>6, <1>7 DEF Next, Service, Lifecycle

(* Whoever stops the service over its socket holds the token and has been  *)
(* answered: handle_connection cancels after the response is written.      *)
THEOREM AnsweredShutdown == Spec => []ShutdownAnswered
<1>1. RequestsInv => ShutdownAnswered
  BY DEF RequestsInv
<1> QED
  BY <1>1, RequestsStart, RequestsKept, PTL DEF Spec

-----------------------------------------------------------------------------
(* The store                                                               *)

\* Commands are told apart by what they do, and for whom.
LEMMA CommandFacts ==
    /\ \A f : FlushCommand(f) # Shutdown /\ \A k, r : FlushCommand(f) # RemoveCommand(k, r)
    /\ \A f, g : FlushCommand(f) = FlushCommand(g) => f = g
    /\ \A f, r : ~Stores(FlushCommand(f), r)
<1>1. \A f, k, r : /\ FlushCommand(f).op = "flush" /\ FlushCommand(f).by = f
                   /\ Shutdown.op = "shutdown" /\ RemoveCommand(k, r).op = "remove"
                  /\ StoreCommand(k, r).op = "store"
  BY DEF FlushCommand, Shutdown, RemoveCommand, StoreCommand
<1>2. \A f : FlushCommand(f) # Shutdown /\ \A k, r : FlushCommand(f) # RemoveCommand(k, r)
  BY <1>1
<1>3. \A f, g : FlushCommand(f) = FlushCommand(g) => f = g
  BY <1>1
<1>4. \A f, k, r : FlushCommand(f) # StoreCommand(k, r)
  BY <1>1
<1> QED
  BY <1>2, <1>3, <1>4 DEF Stores

LEMMA PendingTyped ==
    ASSUME StoreTyped
    PROVE  /\ Pending \in Seq(Command) /\ Len(Pending) \in Nat
           /\ Len(Pending) = Len(batch) + Len(queue) /\ DOMAIN Pending = 1 .. Len(Pending)
           /\ Len(batch) \in Nat /\ Len(queue) \in Nat
           /\ \A i \in DOMAIN Pending :
                 Pending[i] = IF i <= Len(batch) THEN batch[i] ELSE queue[i - Len(batch)]
<1>1. /\ batch \in Seq(Command) /\ queue \in Seq(Command)
      /\ Len(batch) \in Nat /\ Len(queue) \in Nat
  BY DEF StoreTyped
<1>2. /\ Pending \in Seq(Command) /\ Len(Pending) = Len(batch) + Len(queue)
      /\ \A i \in 1 .. Len(batch) + Len(queue) :
            Pending[i] = IF i <= Len(batch) THEN batch[i] ELSE queue[i - Len(batch)]
  BY <1>1, ConcatProperties DEF Pending
<1> QED
  BY <1>1, <1>2

\* What is enqueued comes after what is pending.
LEMMA Appended ==
    ASSUME StoreTyped, NEW c \in Command, queue' = Append(queue, c), UNCHANGED batch
    PROVE  /\ queue' \in Seq(Command) /\ queue' # <<>>
           /\ Pending' = Append(Pending, c)
           /\ DOMAIN Pending' = DOMAIN Pending \cup {Len(Pending) + 1}
           /\ \A i \in DOMAIN Pending : i < Len(Pending) + 1 /\ Pending'[i] = Pending[i]
           /\ Pending'[Len(Pending) + 1] = c
<1>1. /\ batch \in Seq(Command) /\ queue \in Seq(Command) /\ queue' \in Seq(Command)
      /\ queue' # <<>>
  BY DEF StoreTyped
<1>2. Pending' = Append(Pending, c)
  BY <1>1 DEF Pending
<1> HIDE DEF Command
<1>3. Pending \in Seq(Command) /\ Len(Pending) \in Nat /\ DOMAIN Pending = 1 .. Len(Pending)
  BY PendingTyped
<1> QED
  BY <1>1, <1>2, <1>3

LEMMA StoreEnqueued ==
    ASSUME StoreInv, NEW k \in Keys, NEW r \in Requests, EnqueueStore(k, r),
           \A f \in Flushers : r \notin flushing[f].before,
           UNCHANGED <<batch, writer, failed, flushing>>
    PROVE  StoreInv'
<1>1. CASE UNCHANGED <<queue, unwritten>>
  BY <1>1 DEF StoreInv, StoreTyped, Queued, Works, FlushFollows, NotSent, Committed, WriterHas, Pending
<1>2. CASE Accepts /\ queue' = Append(queue, StoreCommand(k, r)) /\ unwritten' = unwritten \cup {r}
  <2> DEFINE c == StoreCommand(k, r)
  <2>0. StoreTyped /\ c \in Command /\ queue' = Append(queue, c)
    BY <1>2, ProcessAssumption DEF StoreInv, Command
  <2>1. Stores(c, r) /\ \A f \in Flushers : c # FlushCommand(f)
    BY CommandFacts DEF Stores
  <2> HIDE DEF c
  <2>2. /\ queue' \in Seq(Command) /\ queue' # <<>>
        /\ DOMAIN Pending' = DOMAIN Pending \cup {Len(Pending) + 1}
        /\ \A i \in DOMAIN Pending : i < Len(Pending) + 1 /\ Pending'[i] = Pending[i]
        /\ Pending'[Len(Pending) + 1] = c
    BY <2>0, Appended
  <2>3. StoreTyped'
    BY <1>2, <2>2 DEF StoreInv, StoreTyped
  <2>4. Queued'
    BY <1>2, <2>1, <2>2 DEF StoreInv, Queued, Works
  <2>5. FlushFollows'
    <3> SUFFICES ASSUME Works, NEW f \in Flushers, flushing[f].pc = "waiting",
                        NEW i \in DOMAIN Pending', Pending'[i] = FlushCommand(f),
                        NEW o \in flushing[f].before \cap unwritten'
                 PROVE  \E j \in DOMAIN Pending' : j < i /\ Stores(Pending'[j], o)
      BY DEF FlushFollows, Works
    <3>1. i \in DOMAIN Pending /\ Pending[i] = FlushCommand(f) /\ o \in unwritten
      BY <1>2, <2>1, <2>2
    <3> QED
      BY <2>2, <3>1 DEF StoreInv, FlushFollows
  <2>6. NotSent'
    BY <2>1, <2>2 DEF StoreInv, NotSent
  <2>7. Committed' /\ WriterHas'
    BY <1>2 DEF StoreInv, Committed, WriterHas, Accepts
  <2> QED
    BY <2>3, <2>4, <2>5, <2>6, <2>7 DEF StoreInv
<1> QED
  BY <1>1, <1>2 DEF EnqueueStore

\* Other commands change nothing of what has to be written.
LEMMA OtherEnqueued ==
    ASSUME StoreInv, NEW c \in Command, Accepts, queue' = Append(queue, c),
           \A f \in Flushers : c # FlushCommand(f),
           UNCHANGED <<batch, writer, failed, flushing, unwritten>>
    PROVE  StoreInv'
<1>1. StoreTyped
  BY DEF StoreInv
<1>2. /\ queue' \in Seq(Command) /\ queue' # <<>>
      /\ DOMAIN Pending' = DOMAIN Pending \cup {Len(Pending) + 1}
      /\ \A i \in DOMAIN Pending : i < Len(Pending) + 1 /\ Pending'[i] = Pending[i]
      /\ Pending'[Len(Pending) + 1] = c
  BY <1>1, Appended
<1>3. StoreTyped'
  BY <1>2 DEF StoreInv, StoreTyped
<1>4. Queued'
  BY <1>2 DEF StoreInv, Queued, Works
<1>5. FlushFollows'
  <2> SUFFICES ASSUME Works, NEW f \in Flushers, flushing[f].pc = "waiting",
                      NEW i \in DOMAIN Pending', Pending'[i] = FlushCommand(f),
                      NEW o \in flushing[f].before \cap unwritten
               PROVE  \E j \in DOMAIN Pending' : j < i /\ Stores(Pending'[j], o)
    BY DEF FlushFollows, Works
  <2>1. i \in DOMAIN Pending /\ Pending[i] = FlushCommand(f)
    BY <1>2
  <2> QED
    BY <1>2, <2>1 DEF StoreInv, FlushFollows
<1>6. NotSent'
  BY <1>2 DEF StoreInv, NotSent
<1>7. Committed' /\ WriterHas'
  BY DEF StoreInv, Committed, WriterHas, Accepts
<1> QED
  BY <1>3, <1>4, <1>5, <1>6, <1>7 DEF StoreInv

LEMMA RemovalEnqueued ==
    ASSUME StoreInv, NEW k \in Keys, NEW r \in Requests, EnqueueRemove(k, r),
           UNCHANGED <<batch, writer, failed, flushing, unwritten>>
    PROVE  StoreInv'
<1>1. CASE UNCHANGED queue
  BY <1>1 DEF StoreInv, StoreTyped, Queued, Works, FlushFollows, NotSent, Committed, WriterHas, Pending
<1>2. CASE Accepts /\ queue' = Append(queue, RemoveCommand(k, r))
  <2>1. RemoveCommand(k, r) \in Command /\ \A f \in Flushers : RemoveCommand(k, r) # FlushCommand(f)
    BY CommandFacts, ProcessAssumption DEF Command
  <2> QED
    BY <1>2, <2>1, OtherEnqueued
<1> QED
  BY <1>1, <1>2 DEF EnqueueRemove

\* A flush goes on without being sent.
LEMMA OneFlushes ==
    ASSUME StoreInv, NEW f \in Flushers, NEW new \in FlushRecord,
           flushing' = [flushing EXCEPT ![f] = new],
           new.pc # "waiting",
           new.pc \in {"idle", "sending"} => flushing[f].pc \in {"idle", "sending"},
           new.pc = "ok" \/ (new.pc = "committed" /\ ~failed) => new.before \cap unwritten = {},
           UNCHANGED <<queue, batch, writer, failed, unwritten>>
    PROVE  StoreInv'
<1>1. /\ flushing' \in [Flushers -> FlushRecord] /\ flushing'[f] = new
      /\ \A g \in Flushers : g # f => flushing'[g] = flushing[g]
  BY DEF StoreInv, StoreTyped
<1>2. StoreTyped'
  BY <1>1 DEF StoreInv, StoreTyped
<1>3. UNCHANGED Pending
  BY DEF Pending
<1>4. Queued' /\ WriterHas'
  BY <1>3 DEF StoreInv, Queued, Works, WriterHas
<1>5. FlushFollows'
  <2> SUFFICES ASSUME Works, NEW g \in Flushers, flushing'[g].pc = "waiting"
               PROVE  g # f /\ flushing'[g] = flushing[g]
    BY <1>3 DEF StoreInv, FlushFollows, Works
  <2> QED
    BY <1>1
<1>6. NotSent'
  BY <1>1, <1>3 DEF StoreInv, NotSent
<1>7. Committed'
  BY <1>1 DEF StoreInv, Committed
<1> QED
  BY <1>2, <1>4, <1>5, <1>6, <1>7 DEF StoreInv

\* The record of a flush that moves.
LEMMA FlushMoves ==
    ASSUME StoreTyped, NEW f \in Flushers,
           NEW pc \in FlushStates,
           flushing' = [flushing EXCEPT ![f].pc = pc]
    PROVE  \E new \in FlushRecord : /\ new.pc = pc /\ new.before = flushing[f].before
                                    /\ flushing' = [flushing EXCEPT ![f] = new]
<1> DEFINE new == [flushing[f] EXCEPT !.pc = pc]
<1>1. new \in FlushRecord /\ new.pc = pc /\ new.before = flushing[f].before
  BY DEF StoreTyped, FlushRecord
<1>2. flushing' = [flushing EXCEPT ![f] = new]
  OBVIOUS
<1> HIDE DEF new
<1> QED
  BY <1>1, <1>2

LEMMA FlushBegan ==
    ASSUME StoreInv, NEW f, f \in Flushers => flushing[f].pc = "idle", FlushBegins(f),
           UNCHANGED <<queue, batch, writer, failed, unwritten>>
    PROVE  StoreInv'
<1> DEFINE new == [pc |-> "sending", before |-> unwritten]
<1>1. flushing' = [flushing EXCEPT ![f] = new]
  BY DEF FlushBegins
<1>2. new \in FlushRecord /\ new.pc = "sending"
  BY DEF StoreInv, StoreTyped, FlushRecord, FlushStates
<1> HIDE DEF new
<1>3. CASE f \in Flushers
  BY <1>1, <1>2, <1>3, OneFlushes
<1>4. CASE f \notin Flushers
  <2>1. UNCHANGED flushing
    BY <1>1, <1>4 DEF StoreInv, StoreTyped
  <2> QED
    BY <2>1 DEF StoreInv, StoreTyped, Queued, Works, FlushFollows, NotSent, Committed, WriterHas,
                Pending
<1> QED
  BY <1>3, <1>4

LEMMA FlushSent ==
    ASSUME StoreInv, NEW f \in Flushers, flushing[f].pc = "sending", Accepts,
           queue' = Append(queue, FlushCommand(f)),
           flushing' = [flushing EXCEPT ![f].pc = "waiting"],
           UNCHANGED <<batch, writer, failed, unwritten>>
    PROVE  StoreInv'
<1> DEFINE c == FlushCommand(f)
<1>1. StoreTyped /\ c \in Command /\ queue' = Append(queue, c) /\ "waiting" \in FlushStates
  BY DEF StoreInv, Command, FlushStates
<1>2. \A g \in Flushers : FlushCommand(g) = c => g = f
  BY CommandFacts
<1>a. \A r : ~Stores(c, r)
  BY CommandFacts
<1>3. \A i \in DOMAIN Pending : Pending[i] # c
  BY DEF StoreInv, NotSent
<1> HIDE DEF c
<1>4. /\ queue' \in Seq(Command) /\ queue' # <<>>
      /\ DOMAIN Pending' = DOMAIN Pending \cup {Len(Pending) + 1}
      /\ \A i \in DOMAIN Pending : i < Len(Pending) + 1 /\ Pending'[i] = Pending[i]
      /\ Pending'[Len(Pending) + 1] = c
  BY <1>1, Appended
<1>5. PICK new \in FlushRecord : /\ new.pc = "waiting" /\ new.before = flushing[f].before
                                 /\ flushing' = [flushing EXCEPT ![f] = new]
  BY <1>1, FlushMoves
<1>6. /\ flushing' \in [Flushers -> FlushRecord] /\ flushing'[f] = new
      /\ \A g \in Flushers : g # f => flushing'[g] = flushing[g]
  BY <1>1, <1>5 DEF StoreTyped
<1>7. StoreTyped'
  BY <1>4, <1>6 DEF StoreInv, StoreTyped
<1>8. Queued'
  BY <1>4 DEF StoreInv, Queued, Works
<1>9. FlushFollows'
  <2> SUFFICES ASSUME Works, NEW g \in Flushers, flushing'[g].pc = "waiting",
                      NEW i \in DOMAIN Pending', Pending'[i] = FlushCommand(g),
                      NEW r \in flushing'[g].before \cap unwritten
               PROVE  \E j \in DOMAIN Pending' : j < i /\ Stores(Pending'[j], r)
    BY DEF FlushFollows, Works
  <2>1. CASE i \in DOMAIN Pending
    <3>1. Pending[i] = FlushCommand(g) /\ g # f
      BY <1>3, <1>4, <2>1 DEF c
    <3> QED
      BY <1>4, <1>6, <2>1, <3>1 DEF StoreInv, FlushFollows
  <2>2. CASE i = Len(Pending) + 1
    <3>1. PICK j \in DOMAIN Pending : Stores(Pending[j], r)
      BY DEF StoreInv, Queued
    <3> QED
      BY <1>4, <2>2, <3>1
  <2> QED
    BY <1>4, <2>1, <2>2
<1>10. NotSent'
  <2> SUFFICES ASSUME NEW g \in Flushers, flushing'[g].pc \in {"idle", "sending"},
                      NEW i \in DOMAIN Pending'
               PROVE  Pending'[i] # FlushCommand(g)
    BY DEF NotSent
  <2>1. g # f
    BY <1>5, <1>6
  <2> QED
    BY <1>2, <1>4, <1>6, <2>1 DEF StoreInv, NotSent
<1>11. Committed' /\ WriterHas'
  BY <1>4, <1>5, <1>6 DEF StoreInv, Committed, WriterHas, Accepts
<1> QED
  BY <1>7, <1>8, <1>9, <1>10, <1>11 DEF StoreInv

LEMMA FlushesKept ==
    ASSUME StoreInv, NEW f \in Flushers, FlushSends(f) \/ FlushTimesOut(f) \/ FlushReturns(f)
    PROVE  StoreInv'
<1>1. StoreTyped /\ "error" \in FlushStates
  BY DEF StoreInv, FlushStates
<1>2. CASE FlushSends(f) /\ Accepts
  BY <1>2, FlushSent DEF FlushSends
<1>3. ASSUME flushing' = [flushing EXCEPT ![f].pc = "error"],
             UNCHANGED <<queue, batch, writer, failed, unwritten>>
      PROVE  StoreInv'
  <2>1. PICK new \in FlushRecord : /\ new.pc = "error" /\ new.before = flushing[f].before
                                   /\ flushing' = [flushing EXCEPT ![f] = new]
    BY <1>1, <1>3, FlushMoves
  <2> QED
    BY <1>3, <2>1, OneFlushes
<1>4. CASE (FlushSends(f) /\ ~Accepts) \/ FlushTimesOut(f)
  BY <1>3, <1>4 DEF FlushSends, FlushTimesOut
<1>5. CASE FlushReturns(f)
  <2>1. PICK pc \in FlushStates : pc \in {"ok", "error"} /\ pc = FlushResult
    BY DEF FlushResult, FlushStates
  <2>2. /\ flushing[f].pc = "committed" /\ flushing' = [flushing EXCEPT ![f].pc = pc]
        /\ UNCHANGED <<queue, batch, writer, failed, unwritten>>
    BY <1>5, <2>1 DEF FlushReturns
  <2>3. PICK new \in FlushRecord : /\ new.pc = pc /\ new.before = flushing[f].before
                                   /\ flushing' = [flushing EXCEPT ![f] = new]
    BY <1>1, <2>2, FlushMoves
  <2>4. new.pc = "ok" => new.before \cap unwritten = {}
    BY <2>1, <2>2, <2>3 DEF FlushResult, StoreInv, Committed
  <2>5. new.pc \in {"ok", "error"}
    BY <2>1, <2>3
  <2> QED
    BY <2>2, <2>3, <2>4, <2>5, OneFlushes
<1> QED
  BY <1>2, <1>4, <1>5

\* The flushes of a batch are answered.
LEMMA FlushesAnswered ==
    ASSUME StoreTyped, NEW outcome \in {"committed", "error"}, flushing' = Answered(outcome)
    PROVE  /\ flushing' \in [Flushers -> FlushRecord]
           /\ \A f \in Flushers :
                 /\ flushing'[f].before = flushing[f].before
                 /\ flushing'[f].pc = IF /\ flushing[f].pc = "waiting"
                                         /\ FlushCommand(f) \in ToSet(batch)
                                      THEN outcome ELSE flushing[f].pc
<1>1. ASSUME NEW f \in Flushers
      PROVE  /\ flushing'[f] \in FlushRecord /\ flushing'[f].before = flushing[f].before
             /\ flushing'[f].pc = IF /\ flushing[f].pc = "waiting"
                                     /\ FlushCommand(f) \in ToSet(batch)
                                  THEN outcome ELSE flushing[f].pc
  <2>1. flushing[f] \in FlushRecord
    BY DEF StoreTyped
  <2>2. CASE flushing[f].pc = "waiting" /\ FlushCommand(f) \in ToSet(batch)
    <3>1. flushing'[f] = [flushing[f] EXCEPT !.pc = outcome]
      BY <2>2 DEF Answered
    <3> QED
      BY <2>1, <2>2, <3>1 DEF FlushRecord, FlushStates
  <2>3. CASE ~(flushing[f].pc = "waiting" /\ FlushCommand(f) \in ToSet(batch))
    <3>1. flushing'[f] = flushing[f]
      BY <2>3 DEF Answered
    <3> QED
      BY <2>1, <2>3, <3>1
  <2> QED
    BY <2>2, <2>3
<1>2. flushing' = [f \in Flushers |-> flushing'[f]]
  BY DEF Answered
<1>3. flushing' \in [Flushers -> FlushRecord]
  BY <1>1, <1>2
<1> QED
  BY <1>1, <1>3

LEMMA BatchTaken ==
    ASSUME StoreInv, TakeBatch
    PROVE  StoreInv'
<1>1. PICK n \in 1 .. BatchLimit : /\ n <= Len(queue)
                                   /\ batch' = SubSeq(queue, 1, n)
                                   /\ queue' = SubSeq(queue, n + 1, Len(queue))
  BY DEF TakeBatch
<1>2. /\ queue \in Seq(Command) /\ Len(queue) \in Nat /\ n \in Nat /\ batch = <<>>
      /\ \A i \in 1 .. Len(queue) : queue[i] \in Command
  BY StoreAssumption DEF StoreInv, StoreTyped, TakeBatch
<1> HIDE DEF Command
<1>3. batch' \in Seq(Command) /\ queue' \in Seq(Command)
  BY <1>1, <1>2, SubSeqProperties
<1>4. Pending' = Pending
  <2>1. SubSeq(queue, 1, n) \o SubSeq(queue, n + 1, Len(queue)) = SubSeq(queue, 1, Len(queue))
    BY <1>1, <1>2, ConcatAdjacentSubSeq
  <2>2. SubSeq(queue, 1, Len(queue)) = queue /\ <<>> \o queue = queue
    BY <1>2, SubSeqFull, ConcatEmptySeq
  <2>3. Pending' = batch' \o queue' /\ Pending = <<>> \o queue
    BY <1>2 DEF Pending
  <2>4. batch' \o queue' = queue
    BY <1>1, <2>1, <2>2, Zenon
  <2> QED
    BY <2>2, <2>3, <2>4, Zenon
<1>5. UNCHANGED <<writer, failed, flushing, unwritten>> /\ writer = "running"
  BY DEF TakeBatch
<1> QED
  BY <1>3, <1>4, <1>5
     DEF StoreInv, StoreTyped, Queued, Works, FlushFollows, NotSent, Committed, WriterHas

LEMMA BatchWritten ==
    ASSUME StoreInv, WriteBatch
    PROVE  StoreInv'
<1>1. /\ StoreTyped /\ batch # <<>> /\ batch' = <<>> /\ UNCHANGED <<queue, writer>>
      /\ writer = "running"
  BY DEF WriteBatch, StoreInv, WriterHas
<1>2. /\ queue \in Seq(Command) /\ Len(queue) \in Nat /\ Len(batch) \in Nat
      /\ DOMAIN queue = 1 .. Len(queue) /\ DOMAIN batch = 1 .. Len(batch)
      /\ \A i \in DOMAIN batch : batch[i] \in Command
      /\ DOMAIN Pending = 1 .. Len(batch) + Len(queue)
      /\ \A i \in DOMAIN Pending :
            Pending[i] = IF i <= Len(batch) THEN batch[i] ELSE queue[i - Len(batch)]
  BY <1>1, PendingTyped DEF StoreTyped
<1> HIDE DEF Command
<1>3. Pending' = queue
  BY <1>1, <1>2, ConcatEmptySeq DEF Pending
<1>4. \A i \in DOMAIN queue : /\ i \in Nat /\ i + Len(batch) \in DOMAIN Pending
                              /\ Pending[i + Len(batch)] = queue[i]
  <2> SUFFICES ASSUME NEW i \in DOMAIN queue
               PROVE  /\ i \in Nat /\ i + Len(batch) \in DOMAIN Pending
                      /\ Pending[i + Len(batch)] = queue[i]
    OBVIOUS
  <2>1. /\ i + Len(batch) \in DOMAIN Pending /\ ~(i + Len(batch) <= Len(batch))
        /\ (i + Len(batch)) - Len(batch) = i /\ i \in Nat
    BY <1>2
  <2> QED
    BY <1>2, <2>1
<1>5. \A i \in DOMAIN Pending :
         \/ i \in DOMAIN batch /\ Pending[i] = batch[i] /\ Pending[i] \in ToSet(batch)
         \/ i - Len(batch) \in DOMAIN queue /\ Pending[i] = queue[i - Len(batch)]
  <2> SUFFICES ASSUME NEW i \in DOMAIN Pending
               PROVE  \/ i \in DOMAIN batch /\ Pending[i] = batch[i] /\ Pending[i] \in ToSet(batch)
                      \/ i - Len(batch) \in DOMAIN queue /\ Pending[i] = queue[i - Len(batch)]
    OBVIOUS
  <2>1. CASE i <= Len(batch)
    BY <1>2, <2>1 DEF ToSet
  <2>2. CASE ~(i <= Len(batch))
    BY <1>2, <2>2
  <2> QED
    BY <2>1, <2>2
<1>6. \A f : FlushCommand(f) \in ToSet(batch) =>
         \E i \in DOMAIN Pending : i <= Len(batch) /\ Pending[i] = FlushCommand(f)
  <2> SUFFICES ASSUME NEW f, FlushCommand(f) \in ToSet(batch)
               PROVE  \E i \in DOMAIN Pending : i <= Len(batch) /\ Pending[i] = FlushCommand(f)
    OBVIOUS
  <2>1. PICK i \in DOMAIN batch : FlushCommand(f) = batch[i]
    BY DEF ToSet
  <2>2. i \in DOMAIN Pending /\ i <= Len(batch)
    BY <1>2
  <2> QED
    BY <1>2, <2>1, <2>2
<1>7. PICK outcome \in {"committed", "error"} : flushing' = Answered(outcome)
  BY DEF WriteBatch, BatchCommits, BatchRollsBack
<1>8. /\ flushing' \in [Flushers -> FlushRecord]
      /\ \A f \in Flushers :
            /\ flushing'[f].before = flushing[f].before
            /\ flushing'[f].pc = IF flushing[f].pc = "waiting" /\ FlushCommand(f) \in ToSet(batch)
                                 THEN outcome ELSE flushing[f].pc
  BY <1>1, <1>7, FlushesAnswered
<1>9. StoreTyped' /\ WriterHas'
  <2>1. unwritten' \subseteq Requests /\ failed' \in BOOLEAN
    BY DEF WriteBatch, BatchCommits, BatchRollsBack, StoreInv, StoreTyped
  <2> QED
    BY <1>1, <1>2, <1>8, <2>1 DEF StoreTyped, WriterHas
<1>10. NotSent'
  <2> SUFFICES ASSUME NEW f \in Flushers, flushing'[f].pc \in {"idle", "sending"},
                      NEW i \in DOMAIN queue, queue[i] = FlushCommand(f)
               PROVE  FALSE
    BY <1>3 DEF NotSent
  <2>1. flushing[f].pc \in {"idle", "sending"}
    BY <1>8
  <2> QED
    BY <1>4, <2>1 DEF StoreInv, NotSent
<1>11. CASE BatchRollsBack
  <2>1. failed' = TRUE /\ unwritten' = unwritten
    BY <1>11 DEF BatchRollsBack
  <2>2. Queued' /\ FlushFollows'
    BY <2>1 DEF Queued, FlushFollows, Works
  <2>3. Committed'
    BY <1>8, <2>1 DEF StoreInv, Committed
  <2> QED
    BY <1>9, <1>10, <2>2, <2>3 DEF StoreInv
<1>12. CASE BatchCommits
  <2>1. /\ UNCHANGED failed
        /\ unwritten' = unwritten \ {r \in Writers :
                              \E k \in Keys : StoreCommand(k, r) \in ToSet(batch)}
    BY <1>12 DEF BatchCommits
  <2>2. /\ unwritten' \subseteq unwritten
        /\ \A r \in unwritten', c \in ToSet(batch) : ~Stores(c, r)
    BY <2>1, ProcessAssumption DEF Stores, StoreInv, StoreTyped
  <2>3. Queued'
    <3> SUFFICES ASSUME Works, NEW r \in unwritten'
                 PROVE  \E i \in DOMAIN queue : Stores(queue[i], r)
      BY <1>1, <1>3, <2>1 DEF Queued, Works
    <3>1. PICK i \in DOMAIN Pending : Stores(Pending[i], r)
      BY <2>2 DEF StoreInv, Queued
    <3> QED
      BY <1>5, <2>2, <3>1
  <2>4. FlushFollows'
    <3> SUFFICES ASSUME Works, NEW f \in Flushers, flushing'[f].pc = "waiting",
                        NEW i \in DOMAIN queue, queue[i] = FlushCommand(f),
                        NEW r \in flushing'[f].before \cap unwritten'
                 PROVE  \E j \in DOMAIN queue : j < i /\ Stores(queue[j], r)
      BY <1>1, <1>3, <2>1 DEF FlushFollows, Works
    <3>1. /\ flushing[f].pc = "waiting" /\ r \in flushing[f].before \cap unwritten
          /\ i + Len(batch) \in DOMAIN Pending /\ Pending[i + Len(batch)] = FlushCommand(f)
      BY <1>4, <1>8, <2>2
    <3>2. PICK j \in DOMAIN Pending : j < i + Len(batch) /\ Stores(Pending[j], r)
      BY <3>1 DEF StoreInv, FlushFollows
    <3>3. j - Len(batch) \in DOMAIN queue /\ Pending[j] = queue[j - Len(batch)]
      BY <1>5, <2>2, <3>2
    <3>4. j - Len(batch) < i
      BY <1>2, <1>4, <3>2
    <3> QED
      BY <3>2, <3>3, <3>4
  <2>5. Committed'
    <3> SUFFICES ASSUME NEW f \in Flushers,
                        flushing'[f].pc = "ok" \/ (flushing'[f].pc = "committed" /\ ~failed),
                        NEW r \in flushing'[f].before \cap unwritten'
                 PROVE  FALSE
      BY <2>1 DEF Committed
    <3>1. r \in flushing[f].before \cap unwritten
      BY <1>8, <2>2
    <3>2. /\ flushing[f].pc = "waiting" /\ FlushCommand(f) \in ToSet(batch) /\ ~failed
      BY <1>8, <3>1 DEF StoreInv, Committed
    <3>3. PICK i \in DOMAIN Pending : i <= Len(batch) /\ Pending[i] = FlushCommand(f)
      BY <1>6, <3>2
    <3>4. PICK j \in DOMAIN Pending : j < i /\ Stores(Pending[j], r)
      BY <1>1, <3>1, <3>2, <3>3 DEF StoreInv, FlushFollows, Works
    <3>5. j \in DOMAIN batch /\ batch[j] = Pending[j]
      BY <1>2, <3>3, <3>4
    <3> QED
      BY <2>2, <3>4, <3>5 DEF ToSet
  <2> QED
    BY <1>9, <1>10, <2>3, <2>4, <2>5 DEF StoreInv
<1> QED
  BY <1>11, <1>12 DEF WriteBatch

LEMMA CommandRejected ==
    ASSUME StoreInv, RejectCommand
    PROVE  StoreInv'
<1>1. /\ writer = "rejecting" /\ queue # <<>> /\ queue' = Tail(queue) /\ batch = <<>>
      /\ UNCHANGED <<writer, batch, failed, unwritten>>
  BY DEF RejectCommand, StoreInv, WriterHas
<1>2. queue \in Seq(Command) /\ Len(queue) \in Nat /\ DOMAIN queue = 1 .. Len(queue)
  BY DEF StoreInv, StoreTyped
<1> HIDE DEF Command
<1>3. /\ Tail(queue) \in Seq(Command)
      /\ \A i \in DOMAIN Tail(queue) : i + 1 \in DOMAIN queue /\ Tail(queue)[i] = queue[i + 1]
  BY <1>1, <1>2
<1>4. Pending = queue /\ Pending' = queue'
  BY <1>1, <1>2, <1>3, ConcatEmptySeq DEF Pending
<1>5. ASSUME NEW f \in Flushers
      PROVE  /\ flushing'[f] \in FlushRecord /\ flushing'[f].before = flushing[f].before
             /\ flushing'[f].pc \in {flushing[f].pc, "error"}
  <2>1. flushing[f] \in FlushRecord
    BY DEF StoreInv, StoreTyped
  <2>2. CASE flushing[f].pc = "waiting" /\ Head(queue) = FlushCommand(f)
    <3>1. flushing'[f] = [flushing[f] EXCEPT !.pc = "error"]
      BY <2>2 DEF RejectCommand
    <3> QED
      BY <2>1, <3>1 DEF FlushRecord, FlushStates
  <2>3. CASE ~(flushing[f].pc = "waiting" /\ Head(queue) = FlushCommand(f))
    <3>1. flushing'[f] = flushing[f]
      BY <2>3 DEF RejectCommand
    <3> QED
      BY <2>1, <3>1
  <2> QED
    BY <2>2, <2>3
<1>6. flushing' \in [Flushers -> FlushRecord]
  <2>1. flushing' = [f \in Flushers |-> flushing'[f]]
    BY DEF RejectCommand
  <2> QED
    BY <1>5, <2>1
<1>7. StoreTyped' /\ WriterHas'
  BY <1>1, <1>3, <1>6 DEF StoreInv, StoreTyped, WriterHas
<1>8. Queued' /\ FlushFollows'
  BY <1>1 DEF Queued, FlushFollows, Works
<1>9. NotSent'
  <2> SUFFICES ASSUME NEW f \in Flushers, flushing'[f].pc \in {"idle", "sending"},
                      NEW i \in DOMAIN Tail(queue), Tail(queue)[i] = FlushCommand(f)
               PROVE  FALSE
    BY <1>1, <1>4 DEF NotSent
  <2>1. flushing[f].pc \in {"idle", "sending"}
    BY <1>5
  <2> QED
    BY <1>3, <1>4, <2>1 DEF StoreInv, NotSent
<1>10. Committed'
  BY <1>1, <1>5 DEF StoreInv, Committed
<1> QED
  BY <1>7, <1>8, <1>9, <1>10 DEF StoreInv

LEMMA WriterKept ==
    ASSUME StoreInv, WriterStep
    PROVE  StoreInv'
<1>1. CASE WriterOpens
  BY <1>1 DEF WriterOpens, StoreInv, StoreTyped, Queued, Works, FlushFollows, NotSent, Committed,
              WriterHas, Pending
<1>2. CASE WriterEnds
  <2>1. /\ batch' = <<>> /\ queue' = <<>> /\ writer' = "ended"
        /\ UNCHANGED <<failed, flushing, unwritten>>
    BY <1>2 DEF WriterEnds
  <2>2. <<>> \in Seq(Command) /\ Pending' = <<>>
    BY <2>1 DEF Pending
  <2> QED
    BY <2>1, <2>2
       DEF StoreInv, StoreTyped, Queued, Works, FlushFollows, NotSent, Committed, WriterHas
<1> QED
  BY <1>1, <1>2, BatchTaken, BatchWritten, CommandRejected DEF WriterStep

LEMMA StoreOpened ==
    ASSUME StoreInv, writer = "absent", writer' = "opening", unwritten = {},
           UNCHANGED <<queue, batch, failed, flushing, unwritten>>
    PROVE  StoreInv'
BY DEF StoreInv, StoreTyped, Queued, FlushFollows, NotSent, Committed, WriterHas, Pending

LEMMA StoreStays ==
    ASSUME StoreInv, unwritten' \subseteq unwritten,
           UNCHANGED <<queue, batch, writer, failed, flushing>>
    PROVE  StoreInv'
BY DEF StoreInv, StoreTyped, Queued, Works, FlushFollows, NotSent, Committed, WriterHas, Pending

Emptied ==
    /\ queue = <<>> /\ batch = <<>> /\ writer = "absent" /\ failed = FALSE
    /\ flushing = [f \in Flushers |-> NotFlushing] /\ unwritten \subseteq Requests

LEMMA StoreEmpty == Emptied => StoreInv
<1> SUFFICES ASSUME Emptied PROVE StoreInv
  OBVIOUS
<1>1. NotFlushing \in FlushRecord /\ NotFlushing.pc = "idle"
  BY DEF NotFlushing, FlushRecord, FlushStates
<1>2. <<>> \in Seq(Command) /\ Pending = <<>> /\ DOMAIN <<>> = {}
  BY DEF Pending, Emptied
<1> HIDE DEF NotFlushing, Command
<1>3. StoreTyped
  BY <1>1, <1>2 DEF StoreTyped, Emptied
<1>4. \A f \in Flushers : flushing[f].pc = "idle"
  BY <1>1 DEF Emptied
<1> QED
  BY <1>2, <1>3, <1>4
     DEF StoreInv, Queued, Works, FlushFollows, NotSent, Committed, WriterHas, Emptied

LEMMA StoreEmptied == Emptied' => StoreInv'
BY StoreEmpty, PTL

LEMMA StoreDropped ==
    ASSUME StoreInv, StoreLost, unwritten' \subseteq Requests
    PROVE  StoreInv'
BY StoreEmptied DEF StoreLost, Emptied

-----------------------------------------------------------------------------
(* The course of a request: it connects to a server that serves, and once  *)
(* it has its answer, it does not ask again.                               *)

Connects(r) == \/ r \in HttpRequests /\ http = "serving" /\ client[r] = "idle"
               \/ r \in IpcRequests /\ path = "bound"

Course ==
    \A r \in Requests :
        /\ server[r].pc = "closed" => server'[r].pc = "closed" \/ Connects(r)
        /\ server'[r].pc = "backlog" => server[r].pc = "backlog" \/ Connects(r)
        /\ client'[r] = "idle" => client[r] = "idle"
        /\ Past(r) => Past(r)'

LEMMA CourseKept == UNCHANGED <<client, server>> => Course
BY DEF Course, Past

LEMMA CourseCut == ASSUME RequestsInv, NEW S, CutOff(S) PROVE Course
<1>1. ASSUME NEW r \in Requests
      PROVE  /\ server[r].pc = "closed" => server'[r].pc = "closed"
             /\ server'[r].pc = "backlog" => server[r].pc = "backlog"
             /\ client'[r] = "idle" => client[r] = "idle"
             /\ Past(r) => Past(r)'
  <2>1. /\ server'[r].asks = server[r].asks
        /\ server'[r].pc = IF r \in S THEN "closed" ELSE server[r].pc
        /\ client'[r] = IF r \in S /\ client[r] = "waiting" THEN "unreachable" ELSE client[r]
    BY CutOffMoves DEF RequestsInv
  <2> QED
    BY <2>1 DEF Past
<1> QED
  BY <1>1 DEF Course

\* It is enough to look at the request a step is about.
LEMMA CourseOne ==
    ASSUME NEW r \in Requests,
           \A o \in Requests : o # r => server'[o] = server[o] /\ client'[o] = client[o],
           server[r].pc = "closed" => server'[r].pc = "closed" \/ Connects(r),
           server'[r].pc = "backlog" => server[r].pc = "backlog" \/ Connects(r),
           client'[r] = "idle" => client[r] = "idle",
           Past(r) => Past(r)'
    PROVE  Course
BY DEF Course, Past

LEMMA CourseClients ==
    ASSUME RequestsInv, NEW r \in Requests, ClientSteps(r)
    PROVE  Course
<1>1. RequestsTyped /\ Sound(r)
  BY DEF RequestsInv
<1>2. CASE IpcConnects(r) \/ HttpConnects(r)
  <2>1. /\ client[r] \in {"idle", "verified"} /\ ~Past(r)
        /\ client[r] = "idle" \/ r \in IpcRequests
    BY <1>2 DEF IpcConnects, HttpConnects, Past
  <2>2. CASE ClientEnds(r, "unreachable") /\ UNCHANGED server
    BY <1>1, <2>1, <2>2, ClientMoves, CourseOne DEF ClientStates
  <2>3. CASE /\ ClientEnds(r, "waiting")
             /\ \E new : server' = [server EXCEPT ![r] = new]
             /\ Connects(r)
    <3>1. \A o \in Requests : o # r => server'[o] = server[o]
      BY <1>1, <2>3 DEF RequestsTyped
    <3> QED
      BY <1>1, <2>1, <2>3, <3>1, ClientMoves, CourseOne DEF ClientStates
  <2>4. \/ ClientEnds(r, "unreachable") /\ UNCHANGED server
        \/ /\ ClientEnds(r, "waiting")
           /\ \E new : server' = [server EXCEPT ![r] = new]
           /\ Connects(r)
    <3>1. CASE IpcConnects(r)
      BY <3>1 DEF IpcConnects, Connects
    <3>2. CASE HttpConnects(r)
      BY <3>2 DEF HttpConnects, Connects
    <3> QED
      BY <1>2, <3>1, <3>2
  <2> QED
    BY <2>2, <2>3, <2>4
<1>3. CASE ClientLeaves(r)
  <2> DEFINE pc == IF server[r].pc = "respond" THEN "respond" ELSE "closed"
  <2>1. pc \in Points /\ ServerGoes(r, pc) /\ ClientEnds(r, "gone")
    BY <1>3 DEF ClientLeaves, ServerGoes, Points
  <2>2. /\ server'[r].pc = pc /\ server'[r].asks = server[r].asks /\ client'[r] = "gone"
        /\ \A o \in Requests : o # r => server'[o] = server[o] /\ client'[o] = client[o]
    BY <1>1, <2>1, ServerMoves, ClientMoves DEF ClientStates
  <2> QED
    BY <2>2, CourseOne DEF Past
<1> QED
  BY <1>2, <1>3 DEF ClientSteps

LEMMA CourseServer ==
    ASSUME RequestsInv, NEW r \in Requests, ServerSteps(r)
    PROVE  Course
<1>1. RequestsTyped /\ Sound(r)
  BY DEF RequestsInv
<1>2. ASSUME server[r].pc \in Handled,
             \/ \E pc \in Points \ {"backlog"} : ServerGoes(r, pc)
             \/ \E reply \in Replied : Replies(r, reply),
             UNCHANGED client \/ ClientEnds(r, "unreachable")
      PROVE  Course
  <2>1. ~Past(r) /\ server[r].pc # "closed"
    BY <1>2 DEF Past, Handled
  <2>2. /\ server'[r].pc # "backlog"
        /\ \A o \in Requests : o # r => server'[o] = server[o]
    BY <1>1, <1>2, ServerMoves, ServerReplies
  <2>3. /\ client'[r] = "idle" => client[r] = "idle"
        /\ \A o \in Requests : o # r => client'[o] = client[o]
    BY <1>1, <1>2, ClientMoves DEF ClientStates
  <2> QED
    BY <2>1, <2>2, <2>3, CourseOne
<1>3. /\ {"reading", "closed", "load", "loading", "fetching", "probing"} \subseteq Points \ {"backlog"}
      /\ {"bad_request", "rate_limited", "service_unavailable", "upstream",
          "unauthorized", "unhealthy", "ok"} \subseteq Replied
      /\ Errors \subseteq Replied
      /\ Handled = {"backlog", "reading", "load", "loading", "fetching", "probing"}
  BY DEF Points, Handled, Replied, Errors
<1>4. CASE IpcAccepts(r)
  <2>1. /\ server[r].pc \in Handled
        /\ ServerGoes(r, "reading") \/ ServerGoes(r, "closed")
        /\ UNCHANGED client \/ ClientEnds(r, "unreachable")
    BY <1>3, <1>4 DEF IpcAccepts, ServerAt
  <2> QED
    BY <1>2, <1>3, <2>1
<1>5. CASE IpcHandles(r)
  <2>1. /\ server[r].pc \in Handled
        /\ \/ ServerGoes(r, "load") \/ ServerGoes(r, "closed")
           \/ Replies(r, "unauthorized") \/ Replies(r, "bad_request") \/ Replies(r, "ok")
        /\ UNCHANGED client \/ ClientEnds(r, "unreachable")
    BY <1>3, <1>5 DEF IpcHandles, ServerAt
  <2> QED
    BY <1>2, <1>3, <2>1
<1>6. CASE HttpHandles(r)
  <2>1. /\ server[r].pc \in Handled /\ UNCHANGED client
        /\ \/ ServerGoes(r, "load") \/ ServerGoes(r, "probing")
           \/ \E reply \in {"rate_limited", "service_unavailable", "unauthorized"} : Replies(r, reply)
    BY <1>3, <1>6 DEF HttpHandles, HttpRefuses, HttpUnauthorized, HttpDispatches, ServerAt
  <2> QED
    BY <1>2, <1>3, <2>1
<1>7. CASE HandlerExpires(r) \/ ReadinessAnswered(r)
  <2>1. /\ server[r].pc \in Handled /\ UNCHANGED client
        /\ \E reply \in {"ok", "unhealthy", "service_unavailable", "upstream"} : Replies(r, reply)
    BY <1>3, <1>7 DEF HandlerExpires, ReadinessAnswered, ServerAt
  <2> QED
    BY <1>2, <1>3, <2>1
<1>8. CASE LookupBegins(r) \/ Fetched(r)
  <2>1. /\ server[r].pc \in Handled /\ UNCHANGED client
        /\ \/ ServerGoes(r, "loading") \/ ServerGoes(r, "fetching") \/ Replies(r, "ok")
           \/ \E reply \in Errors : Replies(r, reply)
    BY <1>3, <1>8 DEF LookupBegins, Fetched, ServerAt
  <2> QED
    BY <1>2, <1>3, <2>1
<1>9. CASE RowRead(r) \/ StaleRowRemoved(r)
  <2>1. /\ UNCHANGED client
        /\ \/ UNCHANGED server
           \/ server[r].pc \in Handled /\ (Replies(r, "ok") \/ ServerGoes(r, "fetching"))
    BY <1>3, <1>9 DEF RowRead, StaleRowRemoved, ServerAt
  <2> QED
    BY <1>2, <1>3, <2>1, CourseKept
<1>10. CASE Responds(r)
  <2>1. server[r].pc = "respond" /\ client[r] \in {"waiting", "gone"}
    BY <1>1, <1>10 DEF Responds, ServerAt, Sound, InStep
  <2>2. PICK pc \in {"cancelling", "closed"} : ServerGoes(r, pc)
    BY <1>10 DEF Responds
  <2>3. PICK answer \in ClientStates \ {"idle"} :
           ClientEnds(r, answer) /\ (server[r].asks = Method[r] => answer # "verified")
    BY <1>10, <2>1 DEF Responds, SeenByClient, ClientStates, Errors
  <2>4. /\ server'[r].pc = pc /\ server'[r].asks = server[r].asks
        /\ \A o \in Requests : o # r => server'[o] = server[o]
    BY <1>1, <2>2, ServerMoves DEF Points
  <2>5. client'[r] = answer /\ \A o \in Requests : o # r => client'[o] = client[o]
    BY <1>1, <2>3, ClientMoves
  <2> QED
    BY <2>1, <2>3, <2>4, <2>5, CourseOne DEF Past
<1>11. CASE Cancels(r)
  <2>1. server[r].pc = "cancelling" /\ ServerGoes(r, "closed") /\ UNCHANGED client
    BY <1>11 DEF Cancels, ServerAt
  <2> QED
    BY <1>1, <1>3, <2>1, ServerMoves, CourseOne DEF Past
<1> QED
  BY <1>4, <1>5, <1>6, <1>7, <1>8, <1>9, <1>10, <1>11 DEF ServerSteps

LEMMA CourseHeld == RequestsInv /\ [Next]_vars => Course
<1> SUFFICES ASSUME RequestsInv, [Next]_vars PROVE Course
  OBVIOUS
<1>1. CASE Writing \/ \E f \in Flushers : FlushSteps(f)
  BY <1>1, CourseKept DEF Writing, FlushSteps, requestVars
<1>2. CASE Launch \/ OpenStores \/ Listen \/ HttpEnds \/ FinalFlush \/ Returns \/ Drops
           \/ OsSignal \/ Relaunch
  BY <1>2, CourseKept
     DEF Launch, OpenStores, Listen, HttpEnds, FinalFlush, Returns, Drops, OsSignal, Relaunch,
         requestVars
<1>3. CASE IpcStops \/ IpcFails \/ IpcDrained \/ HttpCloses \/ ServersEnd \/ Exit \/ Crash
  BY <1>3, CourseCut
     DEF IpcStops, IpcFails, IpcCloses, IpcDrained, HttpCloses, ServersEnd, Exit, Crash, Ended
<1>4. CASE UNCHANGED vars
  BY <1>4, CourseKept DEF vars, requestVars
<1> QED
  BY <1>1, <1>2, <1>3, <1>4, CourseClients, CourseServer DEF Next, Service, Lifecycle

-----------------------------------------------------------------------------
(* The store within the process                                            *)

LEMMA StoreServes ==
    ASSUME Inv, NEW r \in Requests, ServerSteps(r)
    PROVE  StoreInv'
<1>1. StoreInv /\ Key[r] \in Keys
  BY ProcessAssumption DEF Inv
<1>2. CASE HttpHandles(r)
  <2>1. /\ UNCHANGED <<queue, batch, writer, failed, unwritten>>
        /\ r \in HttpRequests /\ server[r].pc = "backlog"
        /\ UNCHANGED flushing \/ FlushBegins(r)
    BY <1>2 DEF HttpHandles, HttpRefuses, HttpUnauthorized, HttpDispatches, ServerAt
  <2>2. r \in Flushers => flushing[r].pc = "idle"
    BY <2>1 DEF Inv, ProcessInv, FlushedOnce
  <2> QED
    BY <1>1, <2>1, <2>2, FlushBegan, StoreStays
<1>3. CASE StaleRowRemoved(r)
  BY <1>1, <1>3, RemovalEnqueued DEF StaleRowRemoved
<1>4. CASE Fetched(r)
  <2>1. ~Past(r)
    BY <1>4 DEF Fetched, ServerAt, Past
  <2>2. \A f \in Flushers : r \notin flushing[f].before
    BY <2>1 DEF Inv, ProcessInv, Once, Kept
  <2>3. /\ UNCHANGED <<batch, writer, failed, flushing>>
        /\ \/ UNCHANGED <<queue, unwritten>>
           \/ EnqueueStore(Key[r], r)
           \/ EnqueueRemove(Key[r], r) /\ UNCHANGED unwritten
    BY <1>4 DEF Fetched
  <2> QED
    BY <1>1, <2>2, <2>3, StoreStays, StoreEnqueued, RemovalEnqueued
<1>5. CASE UNCHANGED storeVars
  BY <1>1, <1>5, StoreStays DEF storeVars
<1> QED
  BY <1>2, <1>3, <1>4, <1>5
     DEF ServerSteps, IpcAccepts, IpcHandles, HandlerExpires, ReadinessAnswered, LookupBegins,
         RowRead, Responds, Cancels

LEMMA StoreKept == Inv /\ [Next]_vars => StoreInv'
<1> SUFFICES ASSUME Inv, [Next]_vars PROVE StoreInv'
  OBVIOUS
<1>1. StoreInv
  BY DEF Inv
<1>2. CASE UNCHANGED storeVars
  BY <1>1, <1>2, StoreStays DEF storeVars
<1>3. CASE \E r \in Requests : ClientSteps(r)
  BY <1>2, <1>3 DEF ClientSteps
<1>4. CASE \E r \in Requests : ServerSteps(r)
  BY <1>4, StoreServes
<1>5. CASE Writing \/ \E f \in Flushers : FlushSteps(f)
  BY <1>1, <1>5, WriterKept, FlushesKept DEF Writing, FlushSteps
<1>6. CASE OpenStores
  <2>1. writer = "absent" /\ unwritten = {}
    BY <1>6 DEF OpenStores, Inv, ProcessInv, Stages
  <2> QED
    BY <1>1, <1>2, <1>6, <2>1, StoreOpened DEF OpenStores, OpenStore, OpenFallback
<1>7. CASE FinalFlush
  <2>1. /\ stage = "stopping" /\ flushing[Final].pc = "idle" /\ Final \in Flushers
        /\ UNCHANGED <<queue, batch, writer, failed, unwritten>>
    BY <1>7, ProcessAssumption DEF FinalFlush
  <2>2. CASE writer # "absent"
    BY <1>1, <1>7, <2>1, <2>2, FlushBegan DEF FinalFlush
  <2>3. CASE writer = "absent"
    <3>1. /\ StoreTyped /\ unwritten = {} /\ "ok" \in FlushStates
          /\ flushing' = [flushing EXCEPT ![Final].pc = "ok"]
      BY <1>1, <1>7, <2>1, <2>3 DEF StoreInv, FinalFlush, Inv, ProcessInv, Stages, FlushStates
    <3>2. PICK new \in FlushRecord : /\ new.pc = "ok" /\ new.before = flushing[Final].before
                                     /\ flushing' = [flushing EXCEPT ![Final] = new]
      BY <2>1, <3>1, FlushMoves
    <3> QED
      BY <1>1, <2>1, <3>1, <3>2, OneFlushes
  <2> QED
    BY <2>2, <2>3
<1>8. CASE Drops
  <2>1. /\ Accepts /\ queue' = Append(queue, Shutdown)
        /\ UNCHANGED <<batch, writer, failed, flushing, unwritten>>
    BY <1>8 DEF Drops, DropStore
  <2>2. Shutdown \in Command /\ \A f \in Flushers : Shutdown # FlushCommand(f)
    BY CommandFacts DEF Command
  <2> QED
    BY <1>1, <2>1, <2>2, OtherEnqueued
<1>9. CASE Exit \/ Crash
  <2>1. StoreLost /\ unwritten' \subseteq Requests
    BY <1>1, <1>9 DEF Exit, Crash, Ended, StoreInv, StoreTyped
  <2> QED
    BY <1>1, <2>1, StoreDropped
<1>10. CASE Relaunch
  BY <1>1, <1>10, StoreStays DEF Relaunch
<1>11. CASE IpcStops \/ IpcFails
  BY <1>1, <1>11, StoreStays DEF IpcStops, IpcFails, IpcCloses
<1>12. CASE Launch \/ Listen \/ IpcDrained \/ HttpCloses \/ HttpEnds \/ ServersEnd \/ Returns
            \/ OsSignal
  BY <1>2, <1>12
     DEF Launch, Listen, IpcDrained, HttpCloses, HttpEnds, ServersEnd, Returns, OsSignal
<1>13. CASE UNCHANGED vars
  BY <1>2, <1>13 DEF vars
<1> QED
  BY <1>3, <1>4, <1>5, <1>6, <1>7, <1>8, <1>9, <1>10, <1>11, <1>12, <1>13
     DEF Next, Service, Lifecycle

-----------------------------------------------------------------------------
(* What is stored, and who flushes, once                                   *)

History ==
    /\ \A r \in Requests : Kept(r)' => Kept(r) \/ Past(r)'
    /\ \A f \in Flushers :
          \/ flushing'[f].pc = "idle"
          \/ flushing[f].pc # "idle" /\ flushing'[f].before = flushing[f].before
          \/ f \in Requests /\ client'[f] # "idle" /\ server'[f].pc # "backlog"
          \/ /\ f = Final /\ flushing[f].pc = "idle" /\ stage = "stopping" /\ UNCHANGED stage
             /\ unwritten' \subseteq flushing'[f].before

LEMMA HistoryKept == unwritten' \subseteq unwritten /\ UNCHANGED flushing => History
BY DEF History, Kept

\* Flushes that go on or are answered count on what they counted on.
LEMMA HistoryFlushes ==
    ASSUME unwritten' \subseteq unwritten,
           \A f \in Flushers : /\ flushing'[f].before = flushing[f].before
                               /\ flushing[f].pc = "idle" => flushing'[f].pc = "idle"
    PROVE  History
<1>1. ASSUME NEW r \in Requests, Kept(r)' PROVE Kept(r)
  <2>1. r \in unwritten' \/ \E f \in Flushers : r \in flushing'[f].before
    BY <1>1 DEF Kept
  <2> QED
    BY <2>1 DEF Kept
<1> QED
  BY <1>1 DEF History

LEMMA HistoryBegins ==
    ASSUME StoreTyped, NEW f, FlushBegins(f), UNCHANGED unwritten,
           f \in Flushers =>
             \/ f \in Requests /\ client'[f] # "idle" /\ server'[f].pc # "backlog"
             \/ f = Final /\ flushing[f].pc = "idle" /\ stage = "stopping" /\ UNCHANGED stage
    PROVE  History
<1> DEFINE new == [pc |-> "sending", before |-> unwritten]
<1>1. flushing' = [flushing EXCEPT ![f] = new] /\ new.before = unwritten
  BY DEF FlushBegins
<1> HIDE DEF new
<1>2. \A g \in Flushers : IF g = f THEN flushing'[g].before = unwritten
                         ELSE flushing'[g] = flushing[g]
  BY <1>1 DEF StoreTyped
<1>3. \A r \in Requests : Kept(r)' => Kept(r)
  BY <1>2 DEF Kept
<1> QED
  BY <1>2, <1>3 DEF History

LEMMA HistoryWriter ==
    ASSUME StoreInv, WriterStep
    PROVE  History
<1>1. StoreTyped
  BY DEF StoreInv
<1>2. CASE WriterOpens \/ TakeBatch \/ WriterEnds
  BY <1>2, HistoryKept DEF WriterOpens, TakeBatch, WriterEnds
<1>3. CASE WriteBatch
  <2>1. PICK outcome \in {"committed", "error"} : flushing' = Answered(outcome)
    BY <1>3 DEF WriteBatch, BatchCommits, BatchRollsBack
  <2>2. unwritten' \subseteq unwritten
    BY <1>3 DEF WriteBatch, BatchCommits, BatchRollsBack
  <2> QED
    BY <1>1, <2>1, <2>2, FlushesAnswered, HistoryFlushes
<1>4. CASE RejectCommand
  <2>1. ASSUME NEW f \in Flushers
        PROVE  /\ flushing'[f].before = flushing[f].before
               /\ flushing[f].pc = "idle" => flushing'[f].pc = "idle"
    <3>1. flushing[f] \in FlushRecord
      BY <1>1 DEF StoreTyped
    <3>2. CASE flushing[f].pc = "waiting" /\ Head(queue) = FlushCommand(f)
      <4>1. flushing'[f] = [flushing[f] EXCEPT !.pc = "error"]
        BY <1>4, <3>2 DEF RejectCommand
      <4> QED
        BY <3>1, <3>2, <4>1 DEF FlushRecord, FlushStates
    <3>3. CASE ~(flushing[f].pc = "waiting" /\ Head(queue) = FlushCommand(f))
      BY <1>4, <3>3 DEF RejectCommand
    <3> QED
      BY <3>2, <3>3
  <2>2. unwritten' \subseteq unwritten
    BY <1>4 DEF RejectCommand
  <2> QED
    BY <2>1, <2>2, HistoryFlushes
<1> QED
  BY <1>2, <1>3, <1>4 DEF WriterStep

LEMMA HistoryFlush ==
    ASSUME StoreInv, NEW f \in Flushers, FlushSends(f) \/ FlushTimesOut(f) \/ FlushReturns(f)
    PROVE  History
<1>1. flushing[f].pc # "idle" /\ UNCHANGED unwritten
  BY DEF FlushSends, FlushTimesOut, FlushReturns
<1>b. StoreTyped
  BY DEF StoreInv
<1>a. PICK pc \in FlushStates : flushing' = [flushing EXCEPT ![f].pc = pc]
  <2>1. FlushResult \in FlushStates /\ "waiting" \in FlushStates /\ "error" \in FlushStates
    BY DEF FlushResult, FlushStates
  <2> QED
    BY <2>1 DEF FlushSends, FlushTimesOut, FlushReturns
<1>2. PICK new \in FlushRecord : /\ new.pc = pc /\ new.before = flushing[f].before
                                 /\ flushing' = [flushing EXCEPT ![f] = new]
  BY <1>a, <1>b, FlushMoves
<1>3. \A g \in Flushers : /\ flushing'[g].before = flushing[g].before
                          /\ flushing[g].pc = "idle" => flushing'[g].pc = "idle"
  BY <1>1, <1>2 DEF StoreInv, StoreTyped
<1> QED
  BY <1>1, <1>3, HistoryFlushes

LEMMA HistoryServer ==
    ASSUME Inv, NEW r \in Requests, ServerSteps(r)
    PROVE  History
<1>1. RequestsTyped /\ Sound(r) /\ StoreTyped
  BY DEF Inv, RequestsInv, StoreInv
<1>2. CASE HttpHandles(r)
  <2>1. /\ UNCHANGED <<unwritten, client>> /\ server[r].pc = "backlog"
        /\ UNCHANGED flushing \/ (FlushBegins(r) /\ ServerGoes(r, "probing"))
    BY <1>2 DEF HttpHandles, HttpRefuses, HttpUnauthorized, HttpDispatches, ServerAt
  <2>2. CASE FlushBegins(r) /\ ServerGoes(r, "probing")
    <3>1. client'[r] # "idle" /\ server'[r].pc # "backlog"
      BY <1>1, <2>1, <2>2, ServerMoves DEF Sound, InStep, Handled, Points
    <3> QED
      BY <1>1, <2>1, <2>2, <3>1, HistoryBegins
  <2> QED
    BY <2>1, <2>2, HistoryKept
<1>3. CASE Fetched(r)
  <2>1. /\ UNCHANGED <<flushing, client>> /\ server[r].pc = "fetching"
        /\ \/ UNCHANGED unwritten
           \/ Replies(r, "ok") /\ unwritten' = unwritten \cup {r}
    BY <1>3 DEF Fetched, EnqueueStore, ServerAt
  <2>2. CASE Replies(r, "ok") /\ unwritten' = unwritten \cup {r}
    <3>1. /\ server'[r].pc = "respond" /\ server'[r].asks = server[r].asks
          /\ client[r] = "waiting" /\ server[r].asks = Method[r]
      BY <1>1, <2>1, <2>2, ServerReplies DEF Sound, InStep, Asked, Handled, Asking, Replied
    <3>2. Past(r)'
      BY <2>1, <3>1 DEF Past
    <3> QED
      BY <2>1, <2>2, <3>2 DEF History, Kept
  <2> QED
    BY <2>1, <2>2, HistoryKept
<1>4. CASE UNCHANGED <<flushing, unwritten>>
  BY <1>4, HistoryKept
<1> QED
  BY <1>2, <1>3, <1>4
     DEF ServerSteps, IpcAccepts, IpcHandles, HandlerExpires, ReadinessAnswered, LookupBegins,
         RowRead, StaleRowRemoved, Responds, Cancels, storeVars

LEMMA HistoryHeld == Inv /\ [Next]_vars => History
<1> SUFFICES ASSUME Inv, [Next]_vars PROVE History
  OBVIOUS
<1>1. StoreInv /\ StoreTyped
  BY DEF Inv, StoreInv
<1>2. CASE UNCHANGED <<flushing, unwritten>>
  BY <1>2, HistoryKept
<1>3. CASE Writing \/ \E f \in Flushers : FlushSteps(f)
  BY <1>1, <1>3, HistoryWriter, HistoryFlush DEF Writing, FlushSteps
<1>4. CASE FinalFlush
  <2>1. /\ stage = "stopping" /\ UNCHANGED <<stage, unwritten>> /\ flushing[Final].pc = "idle"
    BY <1>4 DEF FinalFlush, processVars
  <2>2. CASE writer # "absent"
    BY <1>1, <1>4, <2>1, <2>2, HistoryBegins DEF FinalFlush
  <2>3. CASE writer = "absent"
    <3>1. /\ Final \in Flushers /\ "ok" \in FlushStates
          /\ flushing' = [flushing EXCEPT ![Final].pc = "ok"]
      BY <1>4, <2>3, ProcessAssumption DEF FinalFlush, FlushStates
    <3>2. PICK new \in FlushRecord : /\ new.pc = "ok" /\ new.before = flushing[Final].before
                                     /\ flushing' = [flushing EXCEPT ![Final] = new]
      BY <1>1, <3>1, FlushMoves
    <3> QED
      BY <1>1, <2>1, <2>3, <3>1, <3>2 DEF History, Kept, StoreTyped, Inv, ProcessInv, Stages
  <2> QED
    BY <2>2, <2>3
<1>5. CASE Exit \/ Crash
  <2>1. /\ flushing' = [f \in Flushers |-> NotFlushing] /\ unwritten' \subseteq unwritten
    BY <1>5 DEF Exit, Crash, Ended, StoreLost
  <2>2. NotFlushing.pc = "idle" /\ NotFlushing.before = {}
    BY DEF NotFlushing
  <2> HIDE DEF NotFlushing
  <2>3. \A f \in Flushers : flushing'[f].pc = "idle" /\ flushing'[f].before = {}
    BY <2>1, <2>2
  <2> QED
    BY <2>1, <2>3 DEF History, Kept
<1>6. CASE Relaunch
  BY <1>6, HistoryKept DEF Relaunch
<1>7. CASE \E r \in Requests : ClientSteps(r)
  BY <1>2, <1>7 DEF ClientSteps, storeVars
<1>8. CASE Launch \/ OpenStores \/ Listen \/ IpcStops \/ IpcFails \/ IpcDrained \/ HttpCloses
           \/ HttpEnds \/ ServersEnd \/ Returns \/ Drops \/ OsSignal
  BY <1>2, <1>8
     DEF Launch, OpenStores, OpenStore, OpenFallback, Listen, IpcStops, IpcFails, IpcCloses,
         IpcDrained, HttpCloses, HttpEnds, ServersEnd, Returns, Drops, DropStore, OsSignal, storeVars
<1>9. CASE UNCHANGED vars
  BY <1>2, <1>9 DEF vars, storeVars
<1> QED
  BY <1>3, <1>4, <1>5, <1>6, <1>7, <1>8, <1>9, HistoryServer DEF Next, Service, Lifecycle

LEMMA OnceKept == Inv /\ [Next]_vars => Once' /\ FlushedOnce'
<1> SUFFICES ASSUME Inv, [Next]_vars PROVE Once' /\ FlushedOnce'
  OBVIOUS
<1>1. Course /\ History
  BY CourseHeld, HistoryHeld DEF Inv
<1>2. Once'
  BY <1>1 DEF Course, History, Inv, ProcessInv, Once
<1>3. ASSUME NEW r \in HttpRequests \cap Flushers, client'[r] = "idle" \/ server'[r].pc = "backlog"
      PROVE  flushing'[r].pc = "idle"
  <2>1. r \in Requests /\ r \notin IpcRequests /\ r # Final
    BY ProcessAssumption DEF Requests
  <2>2. client[r] = "idle" \/ server[r].pc = "backlog"
    BY <1>1, <1>3, <2>1 DEF Course, Connects
  <2>3. flushing[r].pc = "idle"
    BY <2>2 DEF Inv, ProcessInv, FlushedOnce
  <2> QED
    BY <1>1, <1>3, <2>1, <2>3 DEF History
<1>4. ASSUME flushing'[Final].pc # "idle" PROVE stage' \in {"stopping", "returned"}
  <2>1. Final \in Flushers /\ Final \notin Requests
    BY ProcessAssumption
  <2>2. stage \in {"stopping", "returned"}
    BY <1>1, <1>4, <2>1 DEF History, Inv, ProcessInv, FlushedOnce
  <2>3. CASE UNCHANGED stage
    BY <2>2, <2>3
  <2>4. CASE Returns
    BY <2>4 DEF Returns
  <2>5. CASE Exit \/ Crash
    <3>1. flushing'[Final] = NotFlushing
      BY <2>1, <2>5 DEF Exit, Crash, Ended, StoreLost
    <3> QED
      BY <1>4, <3>1 DEF NotFlushing
  <2>6. CASE Writing \/ (\E f \in Flushers : FlushSteps(f)) \/ (\E r \in Requests : ClientSteps(r))
    BY <2>3, <2>6 DEF Writing, FlushSteps, ClientSteps, processVars
  <2>7. CASE \E r \in Requests : ServerSteps(r)
    BY <2>3, <2>7
       DEF ServerSteps, IpcAccepts, IpcHandles, HttpHandles, HandlerExpires, ReadinessAnswered,
           LookupBegins, RowRead, StaleRowRemoved, Fetched, Responds, Cancels, processVars
  <2> QED
    BY <2>2, <2>3, <2>4, <2>5, <2>6, <2>7
       DEF Next, Service, Lifecycle, Launch, OpenStores, Listen, IpcStops, IpcFails, IpcCloses,
           IpcDrained, HttpCloses, HttpEnds, ServersEnd, FinalFlush, Drops, OsSignal, Relaunch,
           processVars, vars
<1> QED
  BY <1>2, <1>3, <1>4 DEF FlushedOnce

-----------------------------------------------------------------------------
(* The process                                                             *)

\* Requests and the store leave the process as it is.
Within ==
    \/ \E r \in Requests : ClientSteps(r) \/ ServerSteps(r)
    \/ \E f \in Flushers : FlushSteps(f)
    \/ Writing \/ FinalFlush \/ Drops \/ OsSignal \/ UNCHANGED vars

LEMMA ProcessStays ==
    ASSUME Within
    PROVE  UNCHANGED <<stage, config, exit, result, path, http, ipc, relaunches>>
<1>1. CASE \E r \in Requests : ClientSteps(r) \/ ServerSteps(r)
  BY <1>1
     DEF ClientSteps, ServerSteps, IpcAccepts, IpcHandles, HttpHandles, HandlerExpires,
         ReadinessAnswered, LookupBegins, RowRead, StaleRowRemoved, Fetched, Responds, Cancels,
         processVars
<1>2. CASE \/ \E f \in Flushers : FlushSteps(f)
           \/ Writing \/ FinalFlush \/ Drops \/ OsSignal \/ UNCHANGED vars
  BY <1>2 DEF FlushSteps, Writing, FinalFlush, Drops, OsSignal, processVars, vars
<1> QED
  BY <1>1, <1>2 DEF Within

LEMMA ServersStay ==
    ASSUME Servers, Course, UNCHANGED <<http, ipc, path>>, result' \in {result, "error"}
    PROVE  Servers'
<1>1. ASSUME NEW r \in HttpRequests, http # "serving"
      PROVE  /\ server[r].pc = "closed" => server'[r].pc = "closed"
             /\ server'[r].pc = "backlog" => server[r].pc = "backlog"
  BY <1>1, ProcessAssumption DEF Course, Connects, Requests
<1>2. ASSUME NEW r \in IpcRequests, ipc # "serving"
      PROVE  /\ server[r].pc = "closed" => server'[r].pc = "closed"
             /\ server'[r].pc = "backlog" => server[r].pc = "backlog"
  BY <1>2, ProcessAssumption DEF Course, Connects, Requests, Servers
<1> QED
  BY <1>1, <1>2 DEF Servers, Closed, Backlog, ServerAt

LEMMA AllCut ==
    ASSUME RequestsTyped, NEW S, CutOff(S)
    PROVE  \A r \in Requests : server'[r].pc = IF r \in S THEN "closed" ELSE server[r].pc
BY CutOffMoves

LEMMA ServersKept == Inv /\ [Next]_vars => Servers'
<1> SUFFICES ASSUME Inv, [Next]_vars PROVE Servers'
  OBVIOUS
<1>1. Servers /\ Course /\ RequestsTyped /\ Stages
  BY CourseHeld DEF Inv, ProcessInv, RequestsInv
<1>2. HttpRequests \subseteq Requests /\ IpcRequests \subseteq Requests
      /\ IpcRequests \cap HttpRequests = {}
      /\ \A r \in Requests : server[r].pc \in InHandler \cup {"backlog", "closed"}
  BY <1>1, ProcessAssumption
     DEF Requests, RequestsTyped, ServerRecord, Points, Handled, InHandler
<1>3. CASE UNCHANGED <<http, ipc, path>> /\ result' \in {result, "error"}
  BY <1>1, <1>3, ServersStay
<1>4. CASE Launch \/ OpenStores \/ Returns \/ Relaunch
  BY <1>3, <1>4 DEF Launch, OpenStores, Returns, Relaunch
<1>5. CASE Listen
  <2>1. http = "off" /\ ipc = "off" /\ UNCHANGED server /\ Closed(IpcRequests)
    BY <1>1, <1>5 DEF Listen, requestVars, Stages, Servers
  <2>2. CASE UNCHANGED <<http, ipc, path>> /\ result' = "error"
    BY <1>3, <2>2
  <2>3. CASE /\ http' = "serving"
             /\ \/ ipc' = "serving" /\ path' = "bound"
                \/ ipc' = "ended" /\ UNCHANGED path
    BY <1>1, <2>1, <2>3 DEF Servers, Closed
  <2> QED
    BY <1>5, <2>2, <2>3 DEF Listen
<1>6. CASE IpcStops \/ IpcFails
  <2>1. /\ ipc' = "draining" /\ path' = "absent" /\ UNCHANGED http
        /\ CutOff(Backlog(IpcRequests)) /\ result' \in {result, "error"}
    BY <1>6 DEF IpcStops, IpcFails, IpcCloses
  <2>2. \A r \in Requests :
           server'[r].pc = IF r \in Backlog(IpcRequests) THEN "closed" ELSE server[r].pc
    BY <1>1, <2>1, AllCut
  <2>3. Backlog(IpcRequests)' = {}
    BY <1>2, <2>2 DEF Backlog, ServerAt
  <2>4. \A r \in HttpRequests : server'[r].pc = server[r].pc
    BY <1>2, <2>2 DEF Backlog
  <2> QED
    BY <1>1, <2>1, <2>3, <2>4 DEF Servers, Closed, Backlog, ServerAt
<1>7. CASE IpcDrained
  <2>1. /\ ipc = "draining" /\ ipc' = "ended" /\ UNCHANGED <<http, path, result>>
        /\ CutOff(Active(IpcRequests))
    BY <1>7 DEF IpcDrained
  <2>2. \A r \in Requests :
           server'[r].pc = IF r \in Active(IpcRequests) THEN "closed" ELSE server[r].pc
    BY <1>1, <2>1, AllCut
  <2>3. Closed(IpcRequests)'
    BY <1>1, <1>2, <2>1, <2>2 DEF Closed, Active, Backlog, ServerAt, Servers
  <2>4. \A r \in HttpRequests : server'[r].pc = server[r].pc
    BY <1>2, <2>2 DEF Active
  <2> QED
    BY <1>1, <2>1, <2>3, <2>4 DEF Servers, Closed, Backlog, ServerAt
<1>8. CASE HttpCloses
  <2>1. /\ http' = "closing" /\ UNCHANGED <<ipc, path, result>> /\ CutOff(Backlog(HttpRequests))
    BY <1>8 DEF HttpCloses
  <2>2. \A r \in Requests :
           server'[r].pc = IF r \in Backlog(HttpRequests) THEN "closed" ELSE server[r].pc
    BY <1>1, <2>1, AllCut
  <2>3. Backlog(HttpRequests)' = {}
    BY <1>2, <2>2 DEF Backlog, ServerAt
  <2>4. \A r \in IpcRequests : server'[r].pc = server[r].pc
    BY <1>2, <2>2 DEF Backlog
  <2> QED
    BY <1>1, <2>1, <2>3, <2>4 DEF Servers, Closed, Backlog, ServerAt
<1>9. CASE HttpEnds
  <2>1. /\ http = "closing" /\ http' = "ended" /\ Active(HttpRequests) = {}
        /\ UNCHANGED <<ipc, path, result, server>>
    BY <1>9 DEF HttpEnds, requestVars
  <2>2. Closed(HttpRequests)
    BY <1>1, <1>2, <2>1 DEF Closed, Active, Backlog, ServerAt, Servers
  <2> QED
    BY <1>1, <2>1, <2>2 DEF Servers, Closed, Backlog, ServerAt
<1>10. CASE ServersEnd
  <2>1. /\ http' = "ended" /\ UNCHANGED <<ipc, path, result>> /\ CutOff(Backlog(HttpRequests))
        /\ http = "ended" \/ result = "error"
    BY <1>10 DEF ServersEnd
  <2>2. \A r \in Requests :
           server'[r].pc = IF r \in Backlog(HttpRequests) THEN "closed" ELSE server[r].pc
    BY <1>1, <2>1, AllCut
  <2>3. \A r \in IpcRequests : server'[r].pc = server[r].pc
    BY <1>2, <2>2 DEF Backlog
  <2>4. \A r \in HttpRequests : server[r].pc = "closed" => server'[r].pc = "closed"
    BY <1>2, <2>2
  <2> QED
    BY <1>1, <2>1, <2>3, <2>4 DEF Servers, Closed, Backlog, ServerAt
<1>11. CASE Exit \/ Crash
  <2>1. /\ http' = "off" /\ ipc' = "off" /\ CutOff(Requests)
        /\ path' = IF path = "bound" THEN "socket" ELSE path
    BY <1>11 DEF Exit, Crash, Ended
  <2>2. \A r \in Requests : server'[r].pc = "closed"
    BY <1>1, <2>1, AllCut
  <2> QED
    BY <1>2, <2>1, <2>2 DEF Servers, Closed
<1>12. CASE Within
  BY <1>3, <1>12, ProcessStays
<1> QED
  BY <1>4, <1>5, <1>6, <1>7, <1>8, <1>9, <1>10, <1>11, <1>12 DEF Next, Service, Lifecycle, Within

\* Only a lookup that has been fetched is stored, by a store that is there.
LEMMA StoreWithin ==
    ASSUME Inv, Within
    PROVE  /\ writer' = "absent" <=> writer = "absent"
           /\ \/ unwritten' \subseteq unwritten
              \/ writer # "absent" /\ \E r \in Requests : server[r].pc = "fetching"
<1>1. CASE \E r \in Requests : ServerSteps(r)
  BY <1>1
     DEF ServerSteps, IpcAccepts, IpcHandles, HttpHandles, HandlerExpires, ReadinessAnswered,
         LookupBegins, RowRead, StaleRowRemoved, Fetched, Responds, Cancels, storeVars,
         EnqueueStore, Accepts, ServerAt
<1>2. CASE Writing
  <2>1. writer # "absent"
    BY <1>2 DEF Writing, WriterStep, WriterOpens, TakeBatch, WriteBatch, RejectCommand, WriterEnds,
                Inv, StoreInv, WriterHas
  <2>2. writer' # "absent" /\ unwritten' \subseteq unwritten
    BY <1>2, <2>1
       DEF Writing, WriterStep, WriterOpens, TakeBatch, WriteBatch, BatchCommits, BatchRollsBack,
           RejectCommand, WriterEnds
  <2> QED
    BY <2>1, <2>2
<1>3. CASE UNCHANGED <<writer, unwritten>>
  BY <1>3
<1> QED
  BY <1>1, <1>2, <1>3
     DEF Within, ClientSteps, FlushSteps, FlushSends, FlushTimesOut, FlushReturns, FinalFlush,
         FlushBegins, Drops, DropStore, OsSignal, storeVars, vars

LEMMA StagesKept == Inv /\ [Next]_vars => Stages'
<1> SUFFICES ASSUME Inv, [Next]_vars PROVE Stages'
  OBVIOUS
<1>1. Stages /\ Servers
  BY DEF Inv, ProcessInv
<1>2. CASE Within
  <2>1. UNCHANGED <<stage, result, http, ipc>>
    BY <1>2, ProcessStays
  <2>2. /\ writer' = "absent" <=> writer = "absent"
        /\ writer' = "absent" => unwritten' \subseteq unwritten
    BY <1>2, StoreWithin
  <2> QED
    BY <1>1, <2>1, <2>2 DEF Stages
<1>3. CASE Launch \/ Listen \/ Returns
  BY <1>1, <1>3 DEF Launch, Listen, Returns, Stages, Exits, storeVars
<1>4. CASE OpenStores
  BY <1>1, <1>4 DEF OpenStores, OpenStore, OpenFallback, Stages, Exits, storeVars
<1>5. CASE IpcStops \/ IpcFails \/ IpcDrained
  BY <1>1, <1>5 DEF IpcStops, IpcFails, IpcCloses, IpcDrained, Stages, storeVars
<1>6. CASE HttpCloses \/ HttpEnds \/ ServersEnd
  BY <1>1, <1>6 DEF HttpCloses, HttpEnds, ServersEnd, Stages, storeVars
<1>7. CASE Exit \/ Crash
  BY <1>1, <1>7 DEF Exit, Crash, Exits, Ended, StoreLost, Stages
<1>8. CASE Relaunch
  BY <1>1, <1>8 DEF Relaunch, Stages
<1> QED
  BY <1>2, <1>3, <1>4, <1>5, <1>6, <1>7, <1>8 DEF Next, Service, Lifecycle, Within

LEMMA EndingKept == Inv /\ [Next]_vars => Ending'
<1> SUFFICES ASSUME Inv, [Next]_vars PROVE Ending'
  OBVIOUS
<1>1. /\ Ending /\ Stages /\ Servers /\ History /\ Final \in Flushers \ Requests
      /\ Committed
  BY HistoryHeld, ProcessAssumption DEF Inv, ProcessInv, StoreInv
<1>2. CASE Within
  <2>1. UNCHANGED <<stage, exit, result>>
    BY <1>2, ProcessStays
  <2>2. stage \in {"stopping", "returned", "exited"} /\ (result = "ok" \/ stage = "exited")
           => unwritten' \subseteq unwritten
    <3> SUFFICES ASSUME stage \in {"stopping", "returned", "exited"},
                        result = "ok" \/ stage = "exited"
                 PROVE  unwritten' \subseteq unwritten
      OBVIOUS
    <3>1. CASE stage = "exited"
      BY <1>1, <1>2, <3>1, StoreWithin DEF Stages
    <3>2. CASE stage \in {"stopping", "returned"} /\ result = "ok"
      <4>1. \A r \in Requests : server[r].pc # "fetching"
        BY <1>1, <3>2 DEF Stages, Servers, Closed, Requests
      <4> QED
        BY <1>2, <4>1, StoreWithin
    <3> QED
      BY <3>1, <3>2
  <2>3. stage = "stopping" /\ result = "ok" /\ flushing'[Final].pc # "idle"
           => unwritten' \subseteq flushing'[Final].before
    BY <1>1, <2>2 DEF Ending, History
  <2> QED
    BY <1>1, <2>1, <2>2, <2>3 DEF Ending, GracefulDurable
<1>3. CASE Launch \/ OpenStores
  BY <1>3 DEF Launch, OpenStores, Exits, Ending, GracefulDurable
<1>4. CASE Listen
  BY <1>4 DEF Listen, Ending, GracefulDurable
<1>5. CASE IpcStops \/ IpcFails \/ IpcDrained
  <2>1. UNCHANGED <<stage, exit, flushing, unwritten>> /\ result' \in {result, "error"}
    BY <1>5 DEF IpcStops, IpcFails, IpcCloses, IpcDrained, storeVars
  <2> QED
    BY <1>1, <2>1 DEF Ending, GracefulDurable
<1>6. CASE HttpCloses \/ HttpEnds
  <2>1. UNCHANGED <<stage, exit, result, flushing, unwritten>>
    BY <1>6 DEF HttpCloses, HttpEnds, storeVars
  <2> QED
    BY <1>1, <2>1 DEF Ending, GracefulDurable
<1>7. CASE ServersEnd
  <2>1. stage = "serving" /\ stage' = "stopping" /\ UNCHANGED flushing
    BY <1>7 DEF ServersEnd, storeVars
  <2>2. flushing[Final].pc = "idle"
    BY <2>1 DEF Inv, ProcessInv, FlushedOnce
  <2> QED
    BY <2>1, <2>2 DEF Ending, GracefulDurable
<1>8. CASE Returns
  <2>1. /\ stage = "stopping" /\ stage' = "returned" /\ UNCHANGED unwritten
        /\ result' = "ok" => flushing[Final].pc = "ok" /\ result = "ok"
    BY <1>8 DEF Returns, storeVars
  <2>2. ASSUME result' = "ok" PROVE unwritten = {}
    <3>1. flushing[Final].pc = "ok" /\ result = "ok"
      BY <2>1, <2>2
    <3>2. unwritten \subseteq flushing[Final].before
      BY <1>1, <2>1, <3>1 DEF Ending
    <3>3. flushing[Final].before \cap unwritten = {}
      BY <1>1, <3>1 DEF Committed
    <3> QED
      BY <3>2, <3>3
  <2> QED
    BY <2>1, <2>2 DEF Ending, GracefulDurable
<1>9. CASE Exit
  <2>1. /\ stage = "returned" /\ stage' = "exited" /\ UNCHANGED unwritten
        /\ exit' = "success" => result = "ok"
    BY <1>9 DEF Exit, Exits
  <2> QED
    BY <1>1, <2>1 DEF Ending, GracefulDurable
<1>10. CASE Crash \/ Relaunch
  BY <1>10 DEF Crash, Relaunch, Ending, GracefulDurable
<1> QED
  BY <1>2, <1>3, <1>4, <1>5, <1>6, <1>7, <1>8, <1>9, <1>10 DEF Next, Service, Lifecycle, Within

LEMMA ProcessStart == Init => Inv
<1> SUFFICES ASSUME Init PROVE Inv
  OBVIOUS
<1>1. RequestsInv
  BY RequestsStart
<1>2. StoreInv
  BY StoreEmpty DEF Init, StoreInit, Emptied
<1>3. NotFlushing.pc = "idle" /\ NotFlushing.before = {}
  BY DEF NotFlushing
<1> HIDE DEF NotFlushing
<1>4. \A f \in Flushers : flushing[f].pc = "idle" /\ flushing[f].before = {}
  BY <1>3 DEF Init, StoreInit
<1>5. /\ stage = "launched" /\ http = "off" /\ ipc = "off" /\ writer = "absent" /\ unwritten = {}
      /\ path \in {"absent", "socket", "blocked"}
  BY ProcessAssumption DEF Init, StoreInit
<1>6. \A r \in Requests : server[r].pc = "closed"
  BY DEF Init
<1>7. Once /\ FlushedOnce
  BY <1>4, <1>5, ProcessAssumption DEF Once, Kept, FlushedOnce
<1>8. Servers
  BY <1>5, <1>6 DEF Servers, Closed, Requests
<1>9. Stages /\ Ending
  BY <1>5 DEF Stages, Ending, GracefulDurable
<1> QED
  BY <1>1, <1>2, <1>7, <1>8, <1>9 DEF Inv, ProcessInv

LEMMA ProcessKept == Inv /\ [Next]_vars => Inv'
<1> SUFFICES ASSUME Inv, [Next]_vars PROVE Inv'
  OBVIOUS
<1>1. RequestsInv'
  BY RequestsKept DEF Inv
<1>2. StoreInv'
  BY StoreKept
<1>3. ProcessInv'
  BY OnceKept, ServersKept, StagesKept, EndingKept DEF ProcessInv
<1> QED
  BY <1>1, <1>2, <1>3 DEF Inv

(* A flush reported as a success follows the commit of every store that    *)
(* was accepted before it began, and a process that exits with success has *)
(* lost none: flush, run_batch and the end of run_service_with_options.    *)
THEOREM DurableStores == Spec => []StoresDurable
<1>1. Inv => StoresDurable
  <2> SUFFICES ASSUME Inv PROVE FlushDurable /\ GracefulDurable
    BY DEF StoresDurable
  <2>1. FlushDurable
    BY DEF Inv, StoreInv, Committed, FlushDurable
  <2> QED
    BY <2>1 DEF Inv, ProcessInv, Ending
<1> QED
  BY <1>1, ProcessStart, ProcessKept, PTL DEF Spec

-----------------------------------------------------------------------------
(* Who is waited for                                                       *)

(* A client that waits is in a server's backlog that is still accepted     *)
(* from, in the hands of a handler that has what it needs to go on (a read *)
(* under way, a flush begun), or about to be answered.                     *)
Attended(r) ==
    /\ server[r].pc \in Handled \cup {"respond"}
    /\ r \in IpcRequests => /\ ipc \in {"serving", "draining"}
                            /\ server[r].pc = "backlog" => ipc = "serving"
    /\ r \in HttpRequests => /\ http # "off"
                             /\ server[r].pc = "backlog" => http = "serving"
    /\ server[r].pc = "loading" => reading[r] # "none"
    /\ server[r].pc \in {"load", "fetching"} => reading[r] = "none"
    /\ server[r].pc = "probing" =>
          r \in Flushers /\ (writer = "absent" \/ flushing[r].pc # "idle")

(* One request at a time fetches a key: who waits for it to be fetched     *)
(* waits for a request that is attended to as well.                        *)
OneFetcher ==
    \A r, o \in Requests : FetchesKey(r) /\ FetchesKey(o) /\ Key[r] = Key[o] => r = o

ClientsServed ==
    /\ \A r \in Requests : client[r] = "waiting" => Attended(r)
    /\ \A r \in Requests : FetchesKey(r) => client[r] = "waiting"
    /\ OneFetcher

\* A read is its request's own, and may outlive it.
Reads(r) ==
    /\ reading[r] \in {"none", "reading", "removing"}
    /\ reading[r] # "none" => server[r].pc = "loading" \/ Past(r)

ServedInv ==
    /\ reading \in [Requests -> {"none", "reading", "removing"}]
    /\ \A r \in Requests : Reads(r) /\ (client[r] = "waiting" => Attended(r))
    /\ OneFetcher

\* A flush that has begun, and a store that is not there, stay so.
Probed ==
    /\ writer = "absent" => writer' = "absent"
    /\ \A f \in Flushers : flushing[f].pc # "idle" => flushing'[f].pc # "idle"

LEMMA ProbedKept == UNCHANGED <<writer, flushing>> => Probed
BY DEF Probed

LEMMA ProbedBegins ==
    ASSUME StoreTyped, NEW f, FlushBegins(f), UNCHANGED writer
    PROVE  Probed /\ (f \in Flushers => flushing'[f].pc # "idle")
<1> DEFINE new == [pc |-> "sending", before |-> unwritten]
<1>1. flushing' = [flushing EXCEPT ![f] = new] /\ new.pc = "sending"
  BY DEF FlushBegins
<1> HIDE DEF new
<1> QED
  BY <1>1 DEF StoreTyped, Probed

LEMMA ProbedFlush ==
    ASSUME StoreTyped, NEW f \in Flushers, FlushSteps(f)
    PROVE  Probed
<1>1. PICK pc \in FlushStates \ {"idle"} : flushing' = [flushing EXCEPT ![f].pc = pc]
  BY DEF FlushSteps, FlushSends, FlushTimesOut, FlushReturns, FlushResult, FlushStates
<1>2. PICK new \in FlushRecord : /\ new.pc = pc /\ new.before = flushing[f].before
                                 /\ flushing' = [flushing EXCEPT ![f] = new]
  BY <1>1, FlushMoves
<1>3. UNCHANGED writer
  BY DEF FlushSteps, FlushSends, FlushTimesOut, FlushReturns
<1> QED
  BY <1>1, <1>2, <1>3 DEF StoreTyped, Probed

LEMMA ProbedWriter ==
    ASSUME StoreInv, WriterStep
    PROVE  Probed
<1>1. StoreTyped /\ writer # "absent"
  BY DEF StoreInv, WriterHas, WriterStep, WriterOpens, TakeBatch, WriteBatch, RejectCommand,
         WriterEnds
<1>2. CASE UNCHANGED flushing
  BY <1>1, <1>2 DEF Probed
<1>3. ASSUME NEW pc \in FlushStates \ {"idle"}, NEW f \in Flushers,
             \/ flushing'[f] = [flushing[f] EXCEPT !.pc = pc]
             \/ flushing'[f] = flushing[f]
      PROVE  flushing[f].pc # "idle" => flushing'[f].pc # "idle"
  <2>1. flushing[f] \in FlushRecord
    BY <1>1 DEF StoreTyped
  <2> QED
    BY <1>3, <2>1 DEF FlushRecord
<1>4. "committed" \in FlushStates \ {"idle"} /\ "error" \in FlushStates \ {"idle"}
  BY DEF FlushStates
<1>5. CASE WriteBatch
  <2>1. PICK outcome \in {"committed", "error"} : flushing' = Answered(outcome)
    BY <1>5 DEF WriteBatch, BatchCommits, BatchRollsBack
  <2>2. \A f \in Flushers : \/ flushing'[f] = [flushing[f] EXCEPT !.pc = outcome]
                            \/ flushing'[f] = flushing[f]
    BY <2>1 DEF Answered
  <2> QED
    BY <1>1, <1>3, <1>4, <2>2 DEF Probed
<1>6. CASE RejectCommand
  <2>1. \A f \in Flushers : \/ flushing'[f] = [flushing[f] EXCEPT !.pc = "error"]
                            \/ flushing'[f] = flushing[f]
    BY <1>6 DEF RejectCommand
  <2> QED
    BY <1>1, <1>3, <1>4, <2>1 DEF Probed
<1> QED
  BY <1>2, <1>5, <1>6 DEF WriterStep, WriterOpens, TakeBatch, WriterEnds

\* It is enough to look at the request a step is about.
LEMMA ServedOne ==
    ASSUME ServedInv, NEW r \in Requests, UNCHANGED <<http, ipc>>, Probed,
           reading' \in [Requests -> {"none", "reading", "removing"}],
           \A o \in Requests : o # r => /\ server'[o] = server[o] /\ client'[o] = client[o]
                                        /\ reading'[o] = reading[o],
           Reads(r)', client'[r] = "waiting" => Attended(r)',
           FetchesKey(r)' =>
              FetchesKey(r) \/ \A o \in Requests : FetchesKey(o) => Key[o] # Key[r]
    PROVE  ServedInv'
<1>1. ASSUME NEW o \in Requests, o # r
      PROVE  Reads(o)' /\ (client'[o] = "waiting" => Attended(o)')
  <2>1. /\ server'[o] = server[o] /\ client'[o] = client[o] /\ reading'[o] = reading[o]
        /\ Reads(o) /\ (client[o] = "waiting" => Attended(o))
    BY <1>1 DEF ServedInv
  <2>2. Reads(o)'
    BY <2>1 DEF Reads, Past
  <2>3. client'[o] = "waiting" => Attended(o)'
    BY <2>1 DEF Attended, Probed
  <2> QED
    BY <2>2, <2>3
<1>2. OneFetcher'
  <2> SUFFICES ASSUME NEW o \in Requests, NEW q \in Requests,
                      FetchesKey(o)', FetchesKey(q)', Key[o] = Key[q], o # q
               PROVE  FALSE
    BY DEF OneFetcher
  <2>1. \A p \in Requests : p # r => (FetchesKey(p)' <=> FetchesKey(p))
    BY DEF FetchesKey
  <2> QED
    BY <2>1 DEF ServedInv, OneFetcher
<1> QED
  BY <1>1, <1>2 DEF ServedInv

LEMMA ServedClients ==
    ASSUME Inv, ServedInv, NEW r \in Requests, ClientSteps(r)
    PROVE  ServedInv'
<1>1. /\ RequestsTyped /\ Sound(r) /\ Reads(r) /\ (client[r] = "waiting" => Attended(r))
      /\ Servers /\ (IpcRequests \cap HttpRequests = {})
  BY ProcessAssumption DEF Inv, RequestsInv, ProcessInv, ServedInv
<1>2. UNCHANGED <<http, ipc, reading>> /\ Probed
  BY ProbedKept
     DEF ClientSteps, IpcConnects, HttpConnects, ClientLeaves, processVars, storeVars
<1>3. reading' \in [Requests -> {"none", "reading", "removing"}]
  BY <1>2 DEF ServedInv
<1>4. CASE IpcConnects(r) \/ HttpConnects(r)
  <2>1. client[r] \in {"idle", "verified"}
    BY <1>4 DEF IpcConnects, HttpConnects
  <2>2. reading[r] = "none" /\ ~FetchesKey(r)
    BY <1>1, <2>1 DEF Reads, Past, Sound, InStep, Handled, FetchesKey
  <2>3. CASE ClientEnds(r, "unreachable") /\ UNCHANGED server
    <3>1. client'[r] = "unreachable" /\ \A o \in Requests : o # r => client'[o] = client[o]
      BY <1>1, <2>3, ClientMoves DEF ClientStates
    <3>2. Reads(r)'
      BY <1>2, <2>2 DEF Reads
    <3> QED
      BY <1>2, <1>3, <2>2, <2>3, <3>1, <3>2, ServedOne DEF FetchesKey
  <2>4. CASE /\ ClientEnds(r, "waiting")
             /\ \E asks : server' = [server EXCEPT ![r] = [pc |-> "backlog", asks |-> asks,
                                                           reply |-> "none"]]
             /\ r \in IpcRequests => ipc = "serving"
             /\ r \in HttpRequests => http = "serving"
    <3>1. PICK asks : server' = [server EXCEPT ![r] = [pc |-> "backlog", asks |-> asks,
                                                       reply |-> "none"]]
      BY <2>4
    <3> DEFINE new == [pc |-> "backlog", asks |-> asks, reply |-> "none"]
    <3>2. server' = [server EXCEPT ![r] = new] /\ new.pc = "backlog"
      BY <3>1
    <3> HIDE DEF new
    <3>3. server'[r].pc = "backlog" /\ \A o \in Requests : o # r => server'[o] = server[o]
      BY <1>1, <3>2 DEF RequestsTyped
    <3>4. \A o \in Requests : o # r => client'[o] = client[o]
      BY <1>1, <2>4, ClientMoves DEF ClientStates
    <3>5. Reads(r)' /\ Attended(r)' /\ ~FetchesKey(r)'
      BY <1>2, <2>2, <2>4, <3>3 DEF Reads, Attended, FetchesKey, Handled
    <3> QED
      BY <1>2, <1>3, <3>3, <3>4, <3>5, ServedOne
  <2>5. CASE IpcConnects(r)
    <3>1. /\ r \in IpcRequests /\ r \notin HttpRequests
          /\ path = "bound" => ipc = "serving"
      BY <1>1, <2>5 DEF IpcConnects, Servers
    <3> QED
      BY <2>3, <2>4, <2>5, <3>1 DEF IpcConnects
  <2>6. CASE HttpConnects(r)
    <3>1. r \in HttpRequests /\ r \notin IpcRequests
      BY <1>1, <2>6 DEF HttpConnects
    <3> QED
      BY <2>3, <2>4, <2>6, <3>1 DEF HttpConnects
  <2> QED
    BY <1>4, <2>5, <2>6
<1>5. CASE ClientLeaves(r)
  <2> DEFINE pc == IF server[r].pc = "respond" THEN "respond" ELSE "closed"
  <2>1. pc \in Points /\ ServerGoes(r, pc) /\ ClientEnds(r, "gone") /\ client[r] = "waiting"
    BY <1>5 DEF ClientLeaves, ServerGoes, Points
  <2>2. /\ server'[r].pc = pc /\ server'[r].asks = server[r].asks /\ client'[r] = "gone"
        /\ \A o \in Requests : o # r => server'[o] = server[o] /\ client'[o] = client[o]
    BY <1>1, <2>1, ServerMoves, ClientMoves DEF ClientStates
  <2>3. Reads(r)' /\ ~FetchesKey(r)'
    BY <1>1, <1>2, <2>2 DEF Reads, Past, FetchesKey
  <2> QED
    BY <1>2, <1>3, <2>2, <2>3, ServedOne
<1> QED
  BY <1>4, <1>5 DEF ClientSteps

\* A handler answers, or goes on with what it needs.
LEMMA ServedHandler ==
    ASSUME Inv, ServedInv, NEW r \in Requests, server[r].pc \in Handled,
           UNCHANGED <<client, http, ipc>>, Probed,
           reading' \in [Requests -> {"none", "reading", "removing"}],
           \A o \in Requests : o # r => reading'[o] = reading[o],
           \/ (\E reply \in Replied : Replies(r, reply)) /\ reading'[r] \in {"none", reading[r]}
           \/ \E pc \in {"reading", "load"} : ServerGoes(r, pc) /\ UNCHANGED reading
                                              /\ server[r].pc \in {"backlog", "reading"}
           \/ /\ ServerGoes(r, "loading") /\ reading'[r] = "reading"
              /\ \A o \in Requests : FetchesKey(o) => Key[o] # Key[r]
           \/ /\ ServerGoes(r, "fetching") /\ reading'[r] = "none"
              /\ FetchesKey(r) \/ \A o \in Requests : FetchesKey(o) => Key[o] # Key[r]
           \/ /\ ServerGoes(r, "probing") /\ UNCHANGED reading /\ server[r].pc = "backlog"
              /\ r \in Flushers /\ flushing'[r].pc # "idle"
    PROVE  ServedInv'
<1>1. /\ RequestsTyped /\ Sound(r) /\ Reads(r) /\ client[r] = "waiting" /\ Attended(r)
  BY DEF Inv, RequestsInv, ServedInv, Sound, InStep
<1>2. /\ r \in IpcRequests => ipc \in {"serving", "draining"}
      /\ r \in HttpRequests => http # "off"
  BY <1>1 DEF Attended
<1>3. /\ {"reading", "load", "loading", "fetching", "probing"} \subseteq Points
      /\ Handled = {"backlog", "reading", "load", "loading", "fetching", "probing"}
  BY DEF Points, Handled
<1>4. reading[r] # "none" => server[r].pc = "loading" /\ server[r].asks = Method[r]
  BY <1>1 DEF Reads, Past, Handled, Sound, Asked, Asking
<1>5. reading'[r] \in {"none", "reading", "removing"}
  OBVIOUS
<1>6. CASE (\E reply \in Replied : Replies(r, reply)) /\ reading'[r] \in {"none", reading[r]}
  <2>1. /\ server'[r].pc = "respond" /\ server'[r].asks = server[r].asks
        /\ \A o \in Requests : o # r => server'[o] = server[o]
    BY <1>1, <1>6, ServerReplies
  <2>2. Reads(r)' /\ Attended(r)' /\ ~FetchesKey(r)'
    BY <1>1, <1>2, <1>4, <1>5, <1>6, <2>1 DEF Reads, Past, Attended, FetchesKey
  <2> QED
    BY <2>1, <2>2, ServedOne
<1>7. CASE \E pc \in {"reading", "load"} : ServerGoes(r, pc) /\ UNCHANGED reading
                                           /\ server[r].pc \in {"backlog", "reading"}
  <2>1. PICK pc \in {"reading", "load"} : ServerGoes(r, pc) /\ UNCHANGED reading
                                          /\ server[r].pc \in {"backlog", "reading"}
    BY <1>7
  <2>2. /\ server'[r].pc = pc
        /\ \A o \in Requests : o # r => server'[o] = server[o]
    BY <1>1, <1>3, <2>1, ServerMoves
  <2>3. reading'[r] = "none"
    BY <1>4, <1>5, <2>1
  <2>4. Reads(r)' /\ Attended(r)' /\ ~FetchesKey(r)'
    BY <1>2, <1>3, <2>1, <2>2, <2>3 DEF Reads, Attended, FetchesKey
  <2> QED
    BY <2>2, <2>4, ServedOne
<1>8. CASE /\ ServerGoes(r, "loading") /\ reading'[r] = "reading"
           /\ \A o \in Requests : FetchesKey(o) => Key[o] # Key[r]
  <2>1. /\ server'[r].pc = "loading"
        /\ \A o \in Requests : o # r => server'[o] = server[o]
    BY <1>1, <1>3, <1>8, ServerMoves
  <2>2. Reads(r)' /\ Attended(r)'
    BY <1>2, <1>3, <1>8, <2>1 DEF Reads, Attended
  <2> QED
    BY <1>8, <2>1, <2>2, ServedOne
<1>9. CASE /\ ServerGoes(r, "fetching") /\ reading'[r] = "none"
           /\ FetchesKey(r) \/ \A o \in Requests : FetchesKey(o) => Key[o] # Key[r]
  <2>1. /\ server'[r].pc = "fetching"
        /\ \A o \in Requests : o # r => server'[o] = server[o]
    BY <1>1, <1>3, <1>9, ServerMoves
  <2>2. Reads(r)' /\ Attended(r)'
    BY <1>2, <1>3, <1>9, <2>1 DEF Reads, Attended
  <2> QED
    BY <1>9, <2>1, <2>2, ServedOne
<1>10. CASE /\ ServerGoes(r, "probing") /\ UNCHANGED reading /\ server[r].pc = "backlog"
            /\ r \in Flushers /\ flushing'[r].pc # "idle"
  <2>1. /\ server'[r].pc = "probing"
        /\ \A o \in Requests : o # r => server'[o] = server[o]
    BY <1>1, <1>3, <1>10, ServerMoves
  <2>2. reading'[r] = "none"
    BY <1>4, <1>5, <1>10
  <2>3. Reads(r)' /\ Attended(r)' /\ ~FetchesKey(r)'
    BY <1>2, <1>3, <1>10, <2>1, <2>2 DEF Reads, Attended, FetchesKey
  <2> QED
    BY <2>1, <2>3, ServedOne
<1> QED
  BY <1>6, <1>7, <1>8, <1>9, <1>10

\* The request's connection ends, and with it the wait.
LEMMA ServedClosed ==
    ASSUME Inv, ServedInv, NEW r \in Requests, NEW pc \in {"closed", "cancelling"},
           ServerGoes(r, pc), UNCHANGED <<http, ipc, reading>>, Probed,
           client' \in [Requests -> ClientStates],
           \A o \in Requests : o # r => client'[o] = client[o],
           client'[r] # "waiting",
           server[r].pc = "loading" \/ Past(r) => client'[r] \notin {"idle", "verified"}
    PROVE  ServedInv'
<1>1. RequestsTyped /\ Sound(r) /\ Reads(r)
  BY DEF Inv, RequestsInv, ServedInv
<1>2. /\ server'[r].pc = pc /\ server'[r].asks = server[r].asks
      /\ \A o \in Requests : o # r => server'[o] = server[o]
  BY <1>1, ServerMoves DEF Points
<1>3. Reads(r)'
  BY <1>1, <1>2 DEF Reads, Past, Sound, Asked, Asking
<1>4. reading' \in [Requests -> {"none", "reading", "removing"}]
  BY DEF ServedInv
<1> QED
  BY <1>2, <1>3, <1>4, ServedOne DEF FetchesKey

LEMMA ServedServer ==
    ASSUME Inv, ServedInv, NEW r \in Requests, ServerSteps(r)
    PROVE  ServedInv'
<1>1. /\ RequestsTyped /\ Sound(r) /\ Reads(r) /\ (client[r] = "waiting" => Attended(r))
      /\ StoreTyped /\ reading \in [Requests -> {"none", "reading", "removing"}]
  BY DEF Inv, RequestsInv, StoreInv, ServedInv
<1>2. UNCHANGED <<http, ipc>>
  BY DEF ServerSteps, IpcAccepts, IpcHandles, HttpHandles, HandlerExpires, ReadinessAnswered,
         LookupBegins, RowRead, StaleRowRemoved, Fetched, Responds, Cancels, processVars
<1>3. ~HttpHandles(r) => Probed
  BY ProbedKept
     DEF ServerSteps, IpcAccepts, IpcHandles, HandlerExpires, ReadinessAnswered,
         LookupBegins, RowRead, StaleRowRemoved, Fetched, Responds, Cancels, storeVars
<1>4. /\ {"bad_request", "rate_limited", "service_unavailable", "upstream",
          "unauthorized", "unhealthy", "ok"} \subseteq Replied
      /\ Errors \subseteq Replied
      /\ Handled = {"backlog", "reading", "load", "loading", "fetching", "probing"}
      /\ "unreachable" \in ClientStates \ {"waiting", "idle", "verified"}
  BY DEF Handled, Replied, Errors, ClientStates
<1>5. ASSUME server[r].pc \in Handled, UNCHANGED <<client, reading>>, Probed,
             \E reply \in Replied : Replies(r, reply)
      PROVE  ServedInv'
  BY <1>1, <1>2, <1>5, ServedHandler
<1>6. ASSUME ServerGoes(r, "closed"), ClientEnds(r, "unreachable"), UNCHANGED reading, Probed
      PROVE  ServedInv'
  <2>1. /\ client' \in [Requests -> ClientStates] /\ client'[r] = "unreachable"
        /\ \A o \in Requests : o # r => client'[o] = client[o]
    BY <1>1, <1>4, <1>6, ClientMoves
  <2> QED
    BY <1>2, <1>6, <2>1, ServedClosed
<1>7. CASE IpcAccepts(r)
  <2>1. /\ server[r].pc = "backlog" /\ UNCHANGED reading
        /\ \/ ServerGoes(r, "reading") /\ UNCHANGED client
           \/ ServerGoes(r, "closed") /\ ClientEnds(r, "unreachable")
    BY <1>7 DEF IpcAccepts, ServerAt
  <2>2. Probed
    BY <1>7, ProbedKept DEF IpcAccepts, storeVars
  <2> QED
    BY <1>1, <1>2, <1>4, <1>6, <2>1, <2>2, ServedHandler
<1>8. CASE IpcHandles(r)
  <2>1. /\ server[r].pc = "reading" /\ UNCHANGED reading
        /\ \/ UNCHANGED client /\ ServerGoes(r, "load")
           \/ UNCHANGED client /\ \E reply \in Replied : Replies(r, reply)
           \/ ServerGoes(r, "closed") /\ ClientEnds(r, "unreachable")
    BY <1>4, <1>8 DEF IpcHandles, ServerAt
  <2>2. Probed
    BY <1>8, ProbedKept DEF IpcHandles, storeVars
  <2>3. CASE UNCHANGED client /\ ServerGoes(r, "load")
    BY <1>1, <1>2, <1>4, <2>1, <2>2, <2>3, ServedHandler
  <2> QED
    BY <1>4, <1>5, <1>6, <2>1, <2>2, <2>3
<1>9. CASE HttpHandles(r)
  <2>1. /\ server[r].pc = "backlog" /\ UNCHANGED <<client, reading, writer>> /\ r \in HttpRequests
        /\ \/ UNCHANGED flushing /\ \E reply \in Replied : Replies(r, reply)
           \/ UNCHANGED flushing /\ ServerGoes(r, "load")
           \/ Method[r] = "readiness" /\ ServerGoes(r, "probing") /\ FlushBegins(r)
    BY <1>4, <1>9 DEF HttpHandles, HttpRefuses, HttpUnauthorized, HttpDispatches, ServerAt
  <2>2. CASE UNCHANGED flushing /\ \E reply \in Replied : Replies(r, reply)
    BY <1>4, <1>5, <2>1, <2>2, ProbedKept
  <2>3. CASE UNCHANGED flushing /\ ServerGoes(r, "load")
    BY <1>1, <1>2, <1>4, <2>1, <2>3, ProbedKept, ServedHandler
  <2>4. CASE Method[r] = "readiness" /\ ServerGoes(r, "probing") /\ FlushBegins(r)
    <3>1. r \in Flushers
      BY <2>1, <2>4, ProcessAssumption
    <3>2. Probed /\ flushing'[r].pc # "idle"
      BY <1>1, <2>1, <2>4, <3>1, ProbedBegins
    <3> QED
      BY <1>1, <1>2, <1>4, <2>1, <2>4, <3>1, <3>2, ServedHandler
  <2> QED
    BY <2>1, <2>2, <2>3, <2>4
<1>10. CASE HandlerExpires(r) \/ ReadinessAnswered(r)
  <2>1. /\ server[r].pc \in Handled /\ UNCHANGED <<client, reading>>
        /\ \E reply \in Replied : Replies(r, reply)
    BY <1>4, <1>10 DEF HandlerExpires, ReadinessAnswered, ServerAt
  <2>2. Probed
    BY <1>10, ProbedKept DEF HandlerExpires, ReadinessAnswered, storeVars
  <2> QED
    BY <1>5, <2>1, <2>2
<1>11. CASE LookupBegins(r)
  <2>1. /\ server[r].pc = "load" /\ UNCHANGED client
        /\ \A o \in Requests : FetchesKey(o) => Key[o] # Key[r]
        /\ \/ UNCHANGED reading /\ \E reply \in Replied : Replies(r, reply)
           \/ ServerGoes(r, "loading") /\ reading' = [reading EXCEPT ![r] = "reading"]
           \/ ServerGoes(r, "fetching") /\ UNCHANGED reading
    BY <1>4, <1>11 DEF LookupBegins, ServerAt
  <2>2. Probed
    BY <1>11, ProbedKept DEF LookupBegins, storeVars
  <2>3. client[r] = "waiting" /\ reading[r] = "none"
    BY <1>1, <1>4, <2>1 DEF Sound, InStep, Attended
  <2>4. CASE ServerGoes(r, "loading") /\ reading' = [reading EXCEPT ![r] = "reading"]
    <3>1. /\ reading' \in [Requests -> {"none", "reading", "removing"}] /\ reading'[r] = "reading"
          /\ \A o \in Requests : o # r => reading'[o] = reading[o]
      BY <1>1, <2>4
    <3> QED
      BY <1>2, <1>4, <2>1, <2>2, <2>4, <3>1, ServedHandler
  <2>5. CASE ServerGoes(r, "fetching") /\ UNCHANGED reading
    BY <1>1, <1>2, <1>4, <2>1, <2>2, <2>3, <2>5, ServedHandler
  <2> QED
    BY <1>4, <1>5, <2>1, <2>2, <2>4, <2>5
<1>12. CASE RowRead(r) \/ StaleRowRemoved(r)
  <2>1. PICK now \in {"none", "removing"} : reading' = [reading EXCEPT ![r] = now]
    BY <1>12 DEF RowRead, StaleRowRemoved
  <2>2. /\ reading' \in [Requests -> {"none", "reading", "removing"}] /\ reading'[r] = now
        /\ \A o \in Requests : o # r => reading'[o] = reading[o]
    BY <1>1, <2>1
  <2>3. /\ UNCHANGED client /\ reading[r] # "none"
        /\ \/ UNCHANGED server /\ (server[r].pc = "loading" => now = "removing")
           \/ server[r].pc = "loading" /\ now = "none" /\ \E reply \in Replied : Replies(r, reply)
           \/ server[r].pc = "loading" /\ now = "none" /\ ServerGoes(r, "fetching")
    BY <1>1, <1>4, <1>12, <2>2 DEF RowRead, StaleRowRemoved, ServerAt
  <2>4. Probed
    BY <1>12, ProbedKept DEF RowRead, StaleRowRemoved, storeVars
  <2>5. CASE UNCHANGED server /\ (server[r].pc = "loading" => now = "removing")
    <3>1. Reads(r)' /\ (client'[r] = "waiting" => Attended(r)')
      <4>1. Reads(r)'
        BY <1>1, <2>2, <2>3, <2>5 DEF Reads, Past
      <4>2. client[r] = "waiting" =>
               server[r].pc \notin {"load", "fetching"}
        BY <1>1, <2>3 DEF Attended
      <4> QED
        BY <1>1, <1>2, <2>2, <2>3, <2>4, <2>5, <4>1, <4>2 DEF Attended, Probed
    <3> QED
      BY <1>2, <2>2, <2>3, <2>4, <2>5, <3>1, ServedOne DEF FetchesKey
  <2>6. CASE /\ server[r].pc = "loading" /\ now = "none"
             /\ \E reply \in Replied : Replies(r, reply)
    BY <1>2, <1>4, <2>2, <2>3, <2>4, <2>6, ServedHandler
  <2>7. CASE server[r].pc = "loading" /\ now = "none" /\ ServerGoes(r, "fetching")
    BY <1>2, <1>4, <2>2, <2>3, <2>4, <2>7, ServedHandler DEF FetchesKey
  <2> QED
    BY <2>3, <2>5, <2>6, <2>7
<1>13. CASE Fetched(r)
  <2>1. /\ server[r].pc = "fetching" /\ UNCHANGED <<client, reading>>
        /\ \E reply \in Replied : Replies(r, reply)
    BY <1>4, <1>13 DEF Fetched, ServerAt
  <2>2. Probed
    BY <1>13, ProbedKept DEF Fetched
  <2> QED
    BY <1>4, <1>5, <2>1, <2>2
<1>14. CASE Responds(r)
  <2>1. server[r].pc = "respond" /\ client[r] \in {"waiting", "gone"} /\ UNCHANGED reading
    BY <1>1, <1>14 DEF Responds, ServerAt, Sound, InStep
  <2>2. PICK pc \in {"closed", "cancelling"} : ServerGoes(r, pc)
    BY <1>14 DEF Responds
  <2>3. PICK answer \in ClientStates \ {"idle", "waiting"} :
           ClientEnds(r, answer) /\ (server[r].asks = Method[r] => answer # "verified")
    BY <1>14, <2>1 DEF Responds, SeenByClient, ClientStates, Errors
  <2>4. /\ client' \in [Requests -> ClientStates] /\ client'[r] = answer
        /\ \A o \in Requests : o # r => client'[o] = client[o]
    BY <1>1, <2>3, ClientMoves
  <2>5. Probed
    BY <1>14, ProbedKept DEF Responds, storeVars
  <2>6. Past(r) => answer # "verified"
    BY <2>1, <2>3 DEF Past
  <2> QED
    BY <1>2, <2>1, <2>2, <2>3, <2>4, <2>5, <2>6, ServedClosed
<1>15. CASE Cancels(r)
  <2>1. /\ server[r].pc = "cancelling" /\ ServerGoes(r, "closed") /\ UNCHANGED <<client, reading>>
        /\ client[r] = "ok"
    BY <1>1, <1>15 DEF Cancels, ServerAt, Sound, InStep
  <2>2. Probed
    BY <1>15, ProbedKept DEF Cancels, storeVars
  <2>3. client' \in [Requests -> ClientStates]
    BY <1>1, <2>1 DEF RequestsTyped
  <2> QED
    BY <1>2, <2>1, <2>2, <2>3, ServedClosed
<1> QED
  BY <1>7, <1>8, <1>9, <1>10, <1>11, <1>12, <1>13, <1>14, <1>15 DEF ServerSteps

\* Connections that are cut off keep nobody waiting.
LEMMA ServedCut ==
    ASSUME Inv, ServedInv, NEW S, CutOff(S), Course,
           \/ reading' = [o \in Requests |-> "none"]
           \/ UNCHANGED reading,
           \A r \in Requests \ S : client[r] = "waiting" /\ Attended(r) =>
              /\ UNCHANGED <<reading, writer, flushing>>
              /\ r \in IpcRequests => /\ ipc' \in {"serving", "draining"}
                                      /\ server[r].pc = "backlog" => ipc' = "serving"
              /\ r \in HttpRequests => /\ http' # "off"
                                       /\ server[r].pc = "backlog" => http' = "serving"
    PROVE  ServedInv'
<1>1. RequestsTyped
  BY DEF Inv, RequestsInv
<1>2. reading' \in [Requests -> {"none", "reading", "removing"}]
  BY DEF ServedInv
<1>3. ASSUME NEW r \in Requests
      PROVE  /\ Reads(r)' /\ (client'[r] = "waiting" => Attended(r)')
             /\ FetchesKey(r)' => FetchesKey(r)
  <2>1. /\ server'[r].pc = IF r \in S THEN "closed" ELSE server[r].pc
        /\ server'[r].asks = server[r].asks
        /\ client'[r] = IF r \in S /\ client[r] = "waiting" THEN "unreachable" ELSE client[r]
    BY <1>1, CutOffMoves
  <2>2. /\ Reads(r) /\ (client[r] = "waiting" => Attended(r)) /\ Sound(r)
        /\ Past(r) => Past(r)'
    BY DEF Inv, RequestsInv, ServedInv, Course
  <2>3. server[r].pc = "loading" => client[r] = "waiting" /\ server[r].asks = Method[r]
    BY <2>2 DEF Sound, InStep, Asked, Handled, Asking
  <2>4. Reads(r)'
    <3>1. CASE reading'[r] = "none"
      BY <3>1 DEF Reads
    <3>2. CASE reading'[r] = reading[r] /\ r \in S
      BY <2>1, <2>2, <2>3, <3>2 DEF Reads, Past
    <3>3. CASE reading'[r] = reading[r] /\ r \notin S
      BY <2>1, <2>2, <2>3, <3>3 DEF Reads
    <3> QED
      BY <3>1, <3>2, <3>3
  <2>5. client'[r] = "waiting" => Attended(r)'
    <3> SUFFICES ASSUME client'[r] = "waiting" PROVE Attended(r)'
      OBVIOUS
    <3>1. r \notin S /\ client[r] = "waiting" /\ Attended(r) /\ server'[r].pc = server[r].pc
      BY <2>1, <2>2
    <3> QED
      BY <3>1 DEF Attended
  <2>6. FetchesKey(r)' => FetchesKey(r)
    BY <2>1 DEF FetchesKey
  <2> QED
    BY <2>4, <2>5, <2>6
<1>4. OneFetcher'
  BY <1>3 DEF ServedInv, OneFetcher
<1> QED
  BY <1>2, <1>3, <1>4 DEF ServedInv

\* Nobody waits before the service listens, nor when it has ended.
LEMMA NobodyWaits ==
    ASSUME Inv, ServedInv, http = "off", ipc = "off", UNCHANGED <<client, server, reading>>
    PROVE  ServedInv'
<1>1. \A r \in Requests : client[r] # "waiting"
  BY DEF ServedInv, Attended, Requests
<1> QED
  BY <1>1 DEF ServedInv, Reads, Past, OneFetcher, FetchesKey

LEMMA ServedHeld == Inv /\ ServedInv /\ [Next]_vars => ServedInv'
<1> SUFFICES ASSUME Inv, ServedInv, [Next]_vars PROVE ServedInv'
  OBVIOUS
<1>1. /\ Course /\ Servers /\ Stages /\ StoreInv /\ StoreTyped
      /\ IpcRequests \cap HttpRequests = {}
  BY CourseHeld, ProcessAssumption DEF Inv, ProcessInv, StoreInv
<1>2. ASSUME UNCHANGED <<client, server, reading, http, ipc>>, Probed PROVE ServedInv'
  <2>1. \A r \in Requests : Reads(r)'
    BY <1>2 DEF ServedInv, Reads, Past
  <2>2. ASSUME NEW r \in Requests, client'[r] = "waiting" PROVE Attended(r)'
    BY <1>2, <2>2 DEF ServedInv, Attended, Probed
  <2>3. OneFetcher'
    BY <1>2 DEF ServedInv, OneFetcher, FetchesKey
  <2> QED
    BY <1>2, <2>1, <2>2, <2>3 DEF ServedInv
<1>3. CASE Launch \/ OpenStores \/ Listen
  <2>1. http = "off" /\ ipc = "off" /\ UNCHANGED <<client, server, reading>>
    BY <1>1, <1>3 DEF Launch, OpenStores, Listen, requestVars, Stages
  <2> QED
    BY <2>1, NobodyWaits
<1>4. CASE Returns \/ Drops \/ OsSignal \/ Relaunch \/ UNCHANGED vars
  <2>1. UNCHANGED <<client, server, reading, http, ipc>> /\ Probed
    BY <1>4, ProbedKept
       DEF Returns, Drops, DropStore, OsSignal, Relaunch, requestVars, storeVars, processVars, vars
  <2> QED
    BY <1>2, <2>1
<1>5. CASE Writing \/ \E f \in Flushers : FlushSteps(f)
  <2>1. UNCHANGED <<client, server, reading, http, ipc>>
    BY <1>5 DEF Writing, FlushSteps, requestVars, processVars
  <2>2. Probed
    BY <1>1, <1>5, ProbedWriter, ProbedFlush DEF Writing
  <2> QED
    BY <1>2, <2>1, <2>2
<1>6. CASE FinalFlush
  <2>1. UNCHANGED <<client, server, reading, http, ipc, writer>>
    BY <1>6 DEF FinalFlush, requestVars, processVars
  <2>2. Probed
    <3>1. CASE FlushBegins(Final)
      BY <1>1, <2>1, <3>1, ProbedBegins
    <3>2. CASE flushing' = [flushing EXCEPT ![Final].pc = "ok"]
      <4>1. Final \in Flushers /\ "ok" \in FlushStates
        BY ProcessAssumption DEF FlushStates
      <4>2. PICK new \in FlushRecord : /\ new.pc = "ok" /\ new.before = flushing[Final].before
                                       /\ flushing' = [flushing EXCEPT ![Final] = new]
        BY <1>1, <3>2, <4>1, FlushMoves
      <4> QED
        BY <1>1, <2>1, <4>1, <4>2 DEF StoreTyped, Probed
    <3> QED
      BY <1>6, <3>1, <3>2 DEF FinalFlush
  <2> QED
    BY <1>2, <2>1, <2>2
<1>7. CASE IpcStops \/ IpcFails
  <2>1. /\ ipc' = "draining" /\ CutOff(Backlog(IpcRequests))
        /\ UNCHANGED <<http, reading, writer, flushing>>
    BY <1>7 DEF IpcStops, IpcFails, IpcCloses
  <2> QED
    BY <1>1, <2>1, ServedCut DEF Attended, Backlog, ServerAt
<1>8. CASE IpcDrained
  <2>1. /\ ipc = "draining" /\ CutOff(Active(IpcRequests))
        /\ UNCHANGED <<http, reading, writer, flushing>>
    BY <1>8 DEF IpcDrained, storeVars
  <2>2. \A r \in IpcRequests : server[r].pc \in Handled \cup {"respond"} => r \in Active(IpcRequests)
    BY <1>1, <2>1 DEF Servers, Backlog, ServerAt, Active, Handled, InHandler
  <2> QED
    BY <1>1, <2>1, <2>2, ServedCut DEF Attended
<1>9. CASE HttpCloses
  <2>1. /\ http' = "closing" /\ CutOff(Backlog(HttpRequests))
        /\ UNCHANGED <<ipc, reading, writer, flushing>>
    BY <1>9 DEF HttpCloses, storeVars
  <2> QED
    BY <1>1, <2>1, ServedCut DEF Attended, Backlog, ServerAt
<1>10. CASE HttpEnds
  <2>1. /\ http = "closing" /\ http' = "ended" /\ Active(HttpRequests) = {}
        /\ UNCHANGED <<ipc, client, server, reading, writer, flushing>>
    BY <1>10 DEF HttpEnds, requestVars, storeVars
  <2>2. \A r \in HttpRequests : server[r].pc \notin Handled \cup {"respond"}
    BY <1>1, <2>1 DEF Servers, Backlog, ServerAt, Active, Handled, InHandler
  <2>3. \A r \in Requests : client[r] = "waiting" => r \notin HttpRequests /\ Attended(r)
    BY <2>2 DEF ServedInv, Attended
  <2>4. ASSUME NEW r \in Requests, client'[r] = "waiting" PROVE Attended(r)'
    BY <2>1, <2>3, <2>4 DEF Attended
  <2> QED
    BY <2>1, <2>4 DEF ServedInv, Reads, Past, OneFetcher, FetchesKey
<1>11. CASE ServersEnd
  <2>1. /\ http' = "ended" /\ CutOff(Backlog(HttpRequests))
        /\ UNCHANGED <<ipc, reading, writer, flushing>>
    BY <1>11 DEF ServersEnd, storeVars
  <2> QED
    BY <1>1, <2>1, ServedCut DEF Attended, Backlog, ServerAt
<1>12. CASE Exit \/ Crash
  <2>1. CutOff(Requests) /\ reading' = [o \in Requests |-> "none"]
    BY <1>12 DEF Exit, Crash, Ended
  <2> QED
    BY <1>1, <2>1, ServedCut
<1> QED
  BY <1>3, <1>4, <1>5, <1>6, <1>7, <1>8, <1>9, <1>10, <1>11, <1>12, ServedClients, ServedServer
     DEF Next, Service, Lifecycle

(* Nobody who has connected is forgotten: whoever waits for the service    *)
(* has a handler, or a place in a backlog that is accepted from; the       *)
(* handler has the read or the flush it waits for under way; and who waits *)
(* for another's fetch waits for a request that is attended to.  When the  *)
(* connection is refused, drained or cut off, or the process exits, it is  *)
(* told (run_internal_ipc_server, handle_connection,                       *)
(* drain_internal_ipc_connections, run_service_with_options).              *)
THEOREM NobodyForgotten == Spec => []ClientsServed
<1>1. Init => ServedInv
  <2> SUFFICES ASSUME Init PROVE ServedInv
    OBVIOUS
  <2>1. \A r \in Requests : /\ client[r] = "idle" /\ server[r].pc = "closed"
                            /\ reading[r] = "none"
    BY DEF Init
  <2>2. reading \in [Requests -> {"none", "reading", "removing"}]
    BY DEF Init
  <2> QED
    BY <2>1, <2>2 DEF ServedInv, Reads, OneFetcher, FetchesKey
<1>2. Inv /\ ServedInv => ClientsServed
  BY DEF Inv, RequestsInv, Sound, InStep, Handled, FetchesKey, ServedInv, ClientsServed
<1>3. Init => Inv /\ ServedInv
  BY <1>1, ProcessStart
<1>4. Inv /\ ServedInv /\ [Next]_vars => (Inv /\ ServedInv)'
  BY ProcessKept, ServedHeld
<1> QED
  BY <1>2, <1>3, <1>4, PTL DEF Spec
=============================================================================
