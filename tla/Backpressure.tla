---------------------------- MODULE Backpressure ----------------------------
(***************************************************************************)
(* The concurrency gates of the service (crates/shipflow-service-runtime/  *)
(* src/upstream_backpressure.rs and its use in http_api.rs).               *)
(*                                                                         *)
(* A gate, here a lane, is a Tokio semaphore with a bounded count of the   *)
(* requests waiting for it.  A public request enters by the HTTP lane and  *)
(* takes the public and the shared lane for its upstream lookup; a request *)
(* of the desktop takes the shared lane only.  Both may then take the      *)
(* contact lane.  The semaphore and the counter are separate atomics, and  *)
(* a request may be dropped at every await: each atomic operation is an    *)
(* action.                                                                 *)
(***************************************************************************)
EXTENDS Integers, Sequences, FiniteSets, SequencesExt

CONSTANTS Public,      \* tasks that serve public HTTP requests
          Internal,    \* tasks that serve internal IPC requests
          Plain,       \* those for manifests and raw pages: no enrichment
          Limit,       \* max_concurrent of each lane
          MaxQueued    \* max_queued of each lane

Tasks == Public \cup Internal
Lanes == {"http", "public", "shared", "contact"}

ASSUME TasksAssumption ==
    Public \cap Internal = {} /\ Plain \subseteq Tasks /\ IsFiniteSet(Tasks)
ASSUME LimitAssumption == Limit \in [Lanes -> Nat \ {0}] /\ MaxQueued \in [Lanes -> Nat]
(* RuntimeOptions::validate.                                               *)
ASSUME OptionsAssumption ==
    Limit["public"] <= Limit["shared"] /\ Limit["public"] <= Limit["http"]

VARIABLES
    free,     \* permits the semaphore of each lane has left
    line,     \* the tasks each semaphore will serve, in order
    waiters,  \* the waiters counter of each lane
    task      \* the requests: where they stand, what they have left to do,
              \* and the permits they hold

vars == <<free, line, waiters, task>>

-----------------------------------------------------------------------------
(* What a request does, permit by permit                                   *)

Acquire(l) == [op |-> "acquire", lane |-> l]
Release(l) == [op |-> "release", lane |-> l]
Upstream(l) == [op |-> "upstream", lane |-> l]

(* acquire_lookup_permits, the lookup, LookupPermitSet dropped in the      *)
(* order of its fields.                                                    *)
Lookup_one_gate(t) ==
    <<Acquire("shared"), Upstream("shared"), Release("shared")>>
Lookup_nested(t) ==
    <<Acquire("shared"), Acquire("shared"), Upstream("shared"), Release("shared")>>
Lookup(t) ==
    IF t \in Public
    THEN <<Acquire("public"), Acquire("shared"), Upstream("shared"),
           Release("public"), Release("shared")>>
    ELSE <<Acquire("shared"), Upstream("shared"), Release("shared")>>

(* Contact and bag-route enrichment, once the lookup's permits are back.   *)
Enrichment == <<Acquire("contact"), Upstream("contact"), Release("contact")>>

(* The HTTP lane encloses what a public request does; a cached answer      *)
(* needs no lookup, or no enrichment.                                      *)
Requests(t) ==
    LET Work == IF t \in Plain THEN {Lookup(t)}
                ELSE {Lookup(t), Enrichment, Lookup(t) \o Enrichment}
    IN  IF t \in Public
        THEN {<<Acquire("http")>> \o w \o <<Release("http")>> : w \in Work}
        ELSE Work

(* An error or a dropped future gives back what is held, inmost last.      *)
Unwind_everything(held) ==
    <<Release("public"), Release("shared"), Release("contact"), Release("http")>>
Held(held, l) == IF l \in held THEN <<Release(l)>> ELSE <<>>
Unwind(held) ==
    Held(held, "public") \o Held(held, "shared") \o Held(held, "contact") \o Held(held, "http")

Idle == [pc |-> "idle", todo |-> <<>>, held |-> {}]

Init ==
    /\ free = Limit
    /\ line = [l \in Lanes |-> <<>>]
    /\ waiters = [l \in Lanes |-> 0]
    /\ task = [t \in Tasks |-> Idle]

Doing(t, op) == task[t].todo # <<>> /\ Head(task[t].todo).op = op
Lane(t) == Head(task[t].todo).lane
At(t, pc) == task[t].pc = pc

(* A request that goes on with what is left to do.                         *)
Ready(todo, held) ==
    [pc |-> IF todo = <<>> THEN "idle" ELSE "run", todo |-> todo, held |-> held]

(* The request t after its step succeeded, or failed.                      *)
Advanced(t, held) == Ready(Tail(task[t].todo), held)
Failed(t) == Ready(Unwind(task[t].held), task[t].held)

Arrive(t) ==
    /\ At(t, "idle")
    /\ \E todo \in Requests(t) : task' = [task EXCEPT ![t] = Ready(todo, task[t].held)]
    /\ UNCHANGED <<free, line, waiters>>

-----------------------------------------------------------------------------
(* UpstreamBackpressure::acquire                                           *)

(* try_acquire_owned.                                                      *)
TryAcquire(t) ==
    /\ At(t, "run") /\ Doing(t, "acquire")
    /\ LET l == Lane(t)
       IN  IF free[l] > 0
           THEN /\ free' = [free EXCEPT ![l] = @ - 1]
                /\ task' = [task EXCEPT ![t] = Advanced(t, @.held \cup {l})]
           ELSE task' = [task EXCEPT ![t].pc = "count"] /\ UNCHANGED free
    /\ UNCHANGED <<line, waiters>>

(* increment_waiter: a full queue refuses the request.                     *)
Counted(t) == waiters[Lane(t)] < MaxQueued[Lane(t)]

IncrementWaiter(t) ==
    /\ At(t, "count")
    /\ IF Counted(t)
       THEN /\ waiters' = [waiters EXCEPT ![Lane(t)] = @ + 1]
            /\ task' = [task EXCEPT ![t].pc = "enter"]
       ELSE task' = [task EXCEPT ![t] = Failed(t)] /\ UNCHANGED waiters
    /\ UNCHANGED <<free, line>>

(* acquire_owned, polled for the first time: take a permit or stand in     *)
(* line.                                                                   *)
EnterLine(t) ==
    /\ At(t, "enter")
    /\ LET l == Lane(t)
       IN  IF free[l] > 0
           THEN /\ free' = [free EXCEPT ![l] = @ - 1]
                /\ task' = [task EXCEPT ![t].pc = "leave", ![t].held = @ \cup {l}]
                /\ UNCHANGED line
           ELSE /\ line' = [line EXCEPT ![l] = Append(@, t)]
                /\ task' = [task EXCEPT ![t].pc = "wait"]
                /\ UNCHANGED free
    /\ UNCHANGED waiters

(* The permit was handed over and the task is polled.                      *)
Wake(t) ==
    /\ At(t, "granted")
    /\ task' = [task EXCEPT ![t].pc = "leave", ![t].held = @ \cup {Lane(t)}]
    /\ UNCHANGED <<free, line, waiters>>

(* decrement_waiter.                                                       *)
Decremented(t) == IF waiters[Lane(t)] > 0 THEN waiters[Lane(t)] - 1 ELSE 0

(* QueueWaiter is dropped: the request goes on, or gives up.               *)
LeaveQueue(t) ==
    /\ At(t, "leave")
    /\ waiters' = [waiters EXCEPT ![Lane(t)] = Decremented(t)]
    /\ task' = [task EXCEPT ![t] =
                  IF Lane(t) \in @.held THEN Advanced(t, @.held) ELSE Failed(t)]
    /\ UNCHANGED <<free, line>>

-----------------------------------------------------------------------------
(* Giving permits back                                                     *)

(* OwnedSemaphorePermit::drop: the next in line gets the permit of l.      *)
(* "with" is the request that gives it, already changed.                   *)
HandOver(l, with) ==
    IF line[l] = <<>>
    THEN task' = with /\ free' = [free EXCEPT ![l] = @ + 1] /\ UNCHANGED line
    ELSE /\ task' = [with EXCEPT ![Head(line[l])].pc = "granted"]
         /\ line' = [line EXCEPT ![l] = Tail(@)]
         /\ UNCHANGED free

ReleasePermit(t) ==
    /\ At(t, "run") /\ Doing(t, "release")
    /\ HandOver(Lane(t), [task EXCEPT ![t] = Advanced(t, @.held \ {Lane(t)})])
    /\ UNCHANGED waiters

(* The upstream request ends, by its answer or by its own deadline.        *)
UpstreamEnds(t) ==
    /\ At(t, "run") /\ Doing(t, "upstream")
    /\ task' = [task EXCEPT ![t] = Advanced(t, @.held)]
    /\ UNCHANGED <<free, line, waiters>>

(* The request is dropped during it: a deadline, a peer that is gone.      *)
DropUpstream(t) ==
    /\ At(t, "run") /\ Doing(t, "upstream")
    /\ task' = [task EXCEPT ![t] = Failed(t)]
    /\ UNCHANGED <<free, line, waiters>>

(* The permit's deadline passes, or the request is dropped, in line.       *)
LeaveLine(t) ==
    /\ At(t, "wait")
    /\ \E i \in DOMAIN line[Lane(t)] :
          line[Lane(t)][i] = t /\ line' = [line EXCEPT ![Lane(t)] = RemoveAt(@, i)]
    /\ task' = [task EXCEPT ![t].pc = "leave"]
    /\ UNCHANGED <<free, waiters>>

(* The request is dropped after it was handed a permit and before it was   *)
(* polled: the permit goes to the next in line.                            *)
DropGranted(t) ==
    /\ At(t, "granted")
    /\ HandOver(Lane(t), [task EXCEPT ![t].pc = "leave"])
    /\ UNCHANGED waiters

-----------------------------------------------------------------------------
Progress(t) ==
    \/ TryAcquire(t) \/ IncrementWaiter(t) \/ EnterLine(t) \/ Wake(t)
    \/ LeaveQueue(t) \/ ReleasePermit(t) \/ UpstreamEnds(t)

Dropped(t) == DropUpstream(t) \/ LeaveLine(t) \/ DropGranted(t)

Next == \E t \in Tasks : Arrive(t) \/ Progress(t) \/ Dropped(t)

(* Tokio polls a task that can go on, and every upstream request has a     *)
(* deadline.  Nothing is assumed of the deadlines of the lanes.            *)
Fairness == \A t \in Tasks : WF_vars(Progress(t))

Spec == Init /\ [][Next]_vars /\ Fairness

-----------------------------------------------------------------------------
(* Properties                                                              *)

Holders(l) == {t \in Tasks : l \in task[t].held}
Granted(l) == {t \in Tasks : At(t, "granted") /\ Lane(t) = l}
InQueue(l) == {t \in Tasks : task[t].pc \in {"enter", "wait", "granted", "leave"}
                               /\ Lane(t) = l}

(* No permit is lost or made: what a lane's semaphore has left, what it    *)
(* has handed out and what requests hold add up to its limit, however      *)
(* requests are dropped; and nobody is in line while a permit is free.     *)
(* The counter of a lane's queue counts the requests that wait, within its *)
(* bound: a counter that leaks fills the queue for good.                   *)
PermitsConserved ==
    \A l \in Lanes :
        /\ free[l] + Cardinality(Granted(l)) + Cardinality(Holders(l)) = Limit[l]
        /\ line[l] # <<>> => free[l] = 0
        /\ waiters[l] = Cardinality(InQueue(l))
        /\ waiters[l] <= MaxQueued[l]

(* Public traffic uses at most its share of the shared lane: no more       *)
(* public requests than the public lane admits look something up upstream, *)
(* and no more than those wait in the shared lane's queue, whose remaining *)
(* places are left to the desktop.                                         *)
PublicShare ==
    /\ Cardinality({t \in Public : "shared" \in task[t].held
                                    /\ Doing(t, "upstream")}) <= Limit["public"]
    /\ Cardinality(InQueue("shared") \cap Public) <= Limit["public"]

(* Requests that hold permits wait for further ones, and none is stuck: a  *)
(* request ends even if no lane's deadline ever passes.                    *)
RequestsEnd == \A t \in Tasks : task[t].pc # "idle" ~> task[t].pc = "idle"
=============================================================================
