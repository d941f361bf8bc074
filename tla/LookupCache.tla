---------------------------- MODULE LookupCache ----------------------------
(***************************************************************************)
(* The in-memory lookup cache of the ShipFlow service                      *)
(* (crates/shipflow-service-runtime/src/lookup_cache.rs).                  *)
(*                                                                         *)
(* A request is one call of resolve_cached_lookup, run by one task of the  *)
(* multi-threaded runtime.  Every section that holds the mutex of `inner`  *)
(* is one action; the awaits are the places where other requests, the      *)
(* maintenance task, an invalidation or a cancellation interleave.         *)
(*                                                                         *)
(* Abstractions.  Time: an entry expires in a step of its own.  Payloads:  *)
(* a value is its size class, whether it is a success, and whether it came *)
(* through the persistent store.  The order in which the byte budget       *)
(* evicts (least recently used first) is any order.  Metrics and logs are  *)
(* left out.  The branch that removes a Ready payload serde cannot decode  *)
(* is unreachable and left out: every payload in the map was serialized    *)
(* from, or has just been decoded as, the type it is read back as.         *)
(***************************************************************************)
EXTENDS Naturals, FiniteSets, FiniteSetsExt, Sequences

CONSTANTS
    Requests,           \* tasks that call resolve_cached_lookup
    Keys,               \* cache keys (kind, source fingerprint, normalized id)
    Nobody,             \* no request
    MaxEntries,         \* inner.max_entries
    MaxBytes,           \* inner.max_bytes
    MaxEntryBytes,      \* MAX_IN_MEMORY_LOOKUP_CACHE_ENTRY_BYTES
    MaxPersistedBytes,  \* MAX_PERSISTED_LOOKUP_PAYLOAD_BYTES
    MaxSize,            \* bound: the largest size class of a loaded payload
    QueueCapacity,      \* MAX_BUFFERED_PERSISTENT_WRITES
    BootRows,           \* kinds of rows an earlier process may have left
    MaxGeneration       \* bound: number of invalidate_all calls

ASSUME CacheAssumption ==
    /\ IsFiniteSet(Keys) /\ Keys # {}
    /\ Nobody \notin Requests
    /\ MaxEntries \in Nat
    /\ MaxBytes \in Nat
    /\ MaxEntryBytes \in Nat
    /\ MaxPersistedBytes \in Nat
    /\ MaxSize \in Nat
    /\ MaxPersistedBytes <= MaxEntryBytes /\ MaxEntryBytes <= MaxSize
    /\ QueueCapacity \in Nat
    /\ MaxGeneration \in Nat
    /\ BootRows \subseteq [size : 1..MaxPersistedBytes, decodes : BOOLEAN]

VARIABLES
    entries,     \* inner.entries: the slot of every key
    generation,  \* inner.generation
    pc,          \* where each request stands
    key,         \* the cache_key of each request
    forced,      \* its options.force_refresh
    bypass,      \* its local bypass_ready
    fetchGen,    \* the generation its LookupFetchGuard holds
    waitsFor,    \* the request whose Notify it awaits
    carried,     \* the payload or result it holds
    disk,        \* rows of lookup_cache in lookup-store.sqlite3
    queue        \* commands buffered for the persistent writer thread

vars == <<entries, generation, pc, key, forced, bypass, fetchGen, waitsFor,
          carried, disk, queue>>
request == <<key, forced, bypass, fetchGen, waitsFor>>

-----------------------------------------------------------------------------
\* Data

Values == [ok : BOOLEAN, size : 0..MaxSize, warm : BOOLEAN]
Nothing == [none |-> TRUE]

\* CachedLookupEntry::success and ::error.
Success(size) == [ok |-> TRUE, size |-> size, warm |-> FALSE]
CachedError == [ok |-> FALSE, size |-> 0, warm |-> FALSE]

Absent == [state |-> "absent"]
Loading(r) == [state |-> "loading", owner |-> r]
\* `gen` is the generation of the fetch that stored the entry.
Ready(v, g) == [state |-> "ready", value |-> v, gen |-> g, live |-> TRUE]

LoadingSlots == [state : {"loading"}, owner : Requests]
ReadySlots == [state : {"ready"}, value : Values, gen : 0..MaxGeneration,
               live : BOOLEAN]
Slots == {Absent} \cup LoadingSlots \cup ReadySlots

Rows == [size : 1..MaxPersistedBytes, decodes : BOOLEAN]
NoRow == [none |-> TRUE]
Commands == [op : {"upsert"}, key : Keys, size : 1..MaxPersistedBytes]
            \cup [op : {"remove"}, key : Keys]

IsReady(es, k) == es[k].state = "ready"
ReadyKeys(es) == {k \in Keys : es[k].state = "ready"}
LoadingKeys(es) == {k \in Keys : es[k].state = "loading"}
HeldKeys(es) == {k \in Keys : es[k].state # "absent"}

\* estimated_bytes, summed over a set of Ready keys.
Bytes(es, S) == MapThenSumSet(LAMBDA k : es[k].value.size, S)

\* What an idle request's key is reset to.
IdleKey == CHOOSE k \in Keys : TRUE

Fetching == {"reading", "read", "loading", "storing"}
Finished == {"done", "rejected", "cancelled"}

-----------------------------------------------------------------------------
\* prune_lookup_cache_with_limits

Without(es, S) == [k \in Keys |-> IF k \in S THEN Absent ELSE es[k]]

\* mutant: retain keeps live Ready slots only
NotLiveReady(es) == {k \in HeldKeys(es) : es[k].state = "loading" \/ ~es[k].live}
ExpiredKeys(es) == {k \in ReadyKeys(es) : ~es[k].live}

\* max_entries.saturating_sub(loading)
AllowedReady(es) == IF Cardinality(LoadingKeys(es)) >= MaxEntries THEN 0
                    ELSE MaxEntries - Cardinality(LoadingKeys(es))

WithinCount(es, S) == Cardinality(S) <= AllowedReady(es)   \* mutant: no byte budget

WithinLimits(es, S) ==
    /\ Cardinality(S) <= AllowedReady(es)
    /\ Bytes(es, S) <= MaxBytes

\* The victims the eviction loop can pick: it stops as soon as the rest fits.
Victims(es) ==
    LET ready == ReadyKeys(es) IN
    {V \in SUBSET ready :
        /\ WithinLimits(es, ready \ V)
        /\ V = {} \/ \E v \in V : ~WithinLimits(es, (ready \ V) \cup {v})}

Prunings(es) ==
    LET live == Without(es, ExpiredKeys(es)) IN
    {Without(live, V) : V \in Victims(live)}

-----------------------------------------------------------------------------
\* The persistent store as this cache sees it: a bounded queue (try_send, so a
\* full queue drops the command), a writer thread, and rows read by key.

Enqueue(command) ==
    queue' = IF Len(queue) < QueueCapacity THEN Append(queue, command) ELSE queue

\* The writer commits the oldest command, or rolls its transaction back.
WriterStep ==
    /\ queue # <<>>
    /\ queue' = Tail(queue)
    /\ LET command == Head(queue) IN
       \/ disk' = disk
       \/ disk' = [disk EXCEPT ![command.key] =
                      IF command.op = "upsert"
                      THEN [size |-> command.size, decodes |-> TRUE]
                      ELSE NoRow]
    /\ UNCHANGED <<entries, generation, pc, request, carried>>

-----------------------------------------------------------------------------
\* Requests

Notified(r) == {q \in Requests : pc[q] = "waiting" /\ waitsFor[q] = r}

\* Request r moves on to `next` and the `woken` requests loop back to
\* next_action with bypass_ready = false.
Wake(r, next, woken) ==
    /\ pc' = [q \in Requests |-> IF q = r THEN next
                                 ELSE IF q \in woken THEN "deciding" ELSE pc[q]]
    /\ bypass' = [q \in Requests |-> bypass[q] /\ q \notin woken]
    /\ waitsFor' = [q \in Requests |-> IF q \in woken THEN Nobody ELSE waitsFor[q]]
    /\ UNCHANGED <<key, forced, fetchGen>>

\* notify.notify_waiters(): everyone that awaits the Notify of r.
NotifyOne(r, next) ==        \* mutant: notify_one
    Wake(r, next, {q \in Notified(r) : q = CHOOSE x \in Notified(r) : TRUE})
NotifyIfDone(r, next) ==     \* mutant: a dropped guard notifies nobody
    Wake(r, next, IF next = "done" THEN Notified(r) ELSE {})
NotifyWaiters(r, next) == Wake(r, next, Notified(r))

\* inner.generation == generation: no invalidation since r began its fetch.
AnyGeneration(r) == fetchGen[r] <= generation        \* mutant: not compared
SameGeneration(r) == fetchGen[r] = generation

\* The slot still holds the Loading marker of r, in the generation r started in.
OwnsSlotUnchecked(r) == entries[key[r]].state = "loading"   \* mutant: whose is it?
OwnsSlot(r) == SameGeneration(r) /\ entries[key[r]] = Loading(r)

Arrive(r, k, f) ==
    /\ pc[r] = "idle"
    /\ pc' = [pc EXCEPT ![r] = "deciding"]
    /\ key' = [key EXCEPT ![r] = k]
    /\ forced' = [forced EXCEPT ![r] = f]
    /\ bypass' = [bypass EXCEPT ![r] = f]
    /\ UNCHANGED <<entries, generation, fetchGen, waitsFor, carried, disk, queue>>

\* next_action, an unexpired Ready slot: return its value or its error.
Hit(r) ==
    /\ pc[r] = "deciding"
    /\ IsReady(entries, key[r])
    /\ ~bypass[r] /\ entries[key[r]].live
    /\ pc' = [pc EXCEPT ![r] = "done"]
    /\ carried' = [carried EXCEPT ![r] = entries[key[r]].value]
    /\ UNCHANGED <<entries, generation, request, disk, queue>>

\* next_action, a Loading slot: notified_owned() is created under the lock.
Join(r) ==
    /\ pc[r] = "deciding"
    /\ entries[key[r]].state = "loading"
    /\ pc' = [pc EXCEPT ![r] = "waiting"]
    /\ waitsFor' = [waitsFor EXCEPT ![r] = entries[key[r]].owner]
    /\ UNCHANGED <<entries, generation, key, forced, bypass, fetchGen, carried,
                   disk, queue>>

\* next_action, a Ready slot that is bypassed or stale: fetch from the source.
Replace(r) ==
    /\ pc[r] = "deciding"
    /\ IsReady(entries, key[r])
    /\ bypass[r] \/ ~entries[key[r]].live
    /\ entries' \in Prunings([entries EXCEPT ![key[r]] = Loading(r)])
    /\ fetchGen' = [fetchGen EXCEPT ![r] = generation]
    /\ pc' = [pc EXCEPT ![r] = "loading"]
    /\ UNCHANGED <<generation, key, forced, bypass, waitsFor, carried, disk, queue>>

\* entries.len() < max_entries, after pruning.
HasRoomOffByOne(es) == Cardinality(HeldKeys(es)) <= MaxEntries   \* mutant
HasRoom(es) == Cardinality(HeldKeys(es)) < MaxEntries

\* next_action, no slot and room for one: read the persistent store first,
\* unless the caller asked for a forced refresh.
Claim(r) ==
    /\ pc[r] = "deciding"
    /\ entries[key[r]] = Absent
    /\ \E pruned \in Prunings(entries) :
        /\ HasRoom(pruned)
        /\ entries' = [pruned EXCEPT ![key[r]] = Loading(r)]
    /\ fetchGen' = [fetchGen EXCEPT ![r] = generation]
    /\ pc' = [pc EXCEPT ![r] = IF forced[r] THEN "loading" ELSE "reading"]
    /\ UNCHANGED <<generation, key, forced, bypass, waitsFor, carried, disk, queue>>

\* next_action, no slot and no room: 503.
Reject(r) ==
    /\ pc[r] = "deciding"
    /\ entries[key[r]] = Absent
    /\ \E pruned \in Prunings(entries) :
        /\ ~HasRoom(pruned)
        /\ entries' = pruned
    /\ pc' = [pc EXCEPT ![r] = "rejected"]
    /\ UNCHANGED <<generation, request, carried, disk, queue>>

\* load_success_fresh on the blocking pool: no row or a failed read, a row that
\* is expired or too old (a Remove is enqueued), or a usable row.
ReadDisk(r) ==
    /\ pc[r] = "reading"
    /\ pc' = [pc EXCEPT ![r] = "read"]
    /\ \/ UNCHANGED <<carried, queue>>
       \/ /\ disk[key[r]] # NoRow
          /\ Enqueue([op |-> "remove", key |-> key[r]])
          /\ UNCHANGED carried
       \/ /\ disk[key[r]] # NoRow
          /\ carried' = [carried EXCEPT ![r] = disk[key[r]]]
          /\ UNCHANGED queue
    /\ UNCHANGED <<entries, generation, request, disk>>

\* No usable row: run the loader.
MissDisk(r) ==
    /\ pc[r] = "read"
    /\ carried[r] = Nothing
    /\ pc' = [pc EXCEPT ![r] = "loading"]
    /\ UNCHANGED <<entries, generation, request, carried, disk, queue>>

\* The payload does not decode: remove the row, run the loader.
UndecodableRow(r) ==
    /\ pc[r] = "read"
    /\ carried[r] # Nothing /\ ~carried[r].decodes
    /\ Enqueue([op |-> "remove", key |-> key[r]])
    /\ carried' = [carried EXCEPT ![r] = Nothing]
    /\ pc' = [pc EXCEPT ![r] = "loading"]
    /\ UNCHANGED <<entries, generation, request, disk>>

\* resolve_persistent_cache_slot, then wake the waiters and return the value.
Hydrate(r) ==
    /\ pc[r] = "read"
    /\ carried[r] # Nothing /\ carried[r].decodes
    /\ LET v == [ok |-> TRUE, size |-> carried[r].size, warm |-> TRUE] IN
       /\ IF ~OwnsSlot(r) THEN UNCHANGED entries
          ELSE IF v.size > MaxEntryBytes
               THEN entries' = [entries EXCEPT ![key[r]] = Absent]
               ELSE entries' \in Prunings(
                        [entries EXCEPT ![key[r]] = Ready(v, fetchGen[r])])
       /\ carried' = [carried EXCEPT ![r] = v]
    /\ NotifyWaiters(r, "done")
    /\ UNCHANGED <<generation, disk, queue>>

\* What the cache keeps of a loader result: a payload that fits, or a cacheable
\* error; nothing of an oversized payload or a failure to get a permit.
Cacheable(v) == v # Nothing /\ v.size <= MaxEntryBytes

\* The loader returns and store_persistent_success queues the payload, or the
\* removal of the row when the payload may not be persisted.
LoaderReturns(r) ==
    /\ pc[r] = "loading"
    /\ \E v \in {Success(size) : size \in 1..MaxSize} \cup {CachedError, Nothing} :
        /\ carried' = [carried EXCEPT ![r] = v]
        /\ IF ~Cacheable(v) \/ ~v.ok THEN UNCHANGED queue
           ELSE IF v.size > MaxPersistedBytes
           THEN Enqueue([op |-> "remove", key |-> key[r]])
           ELSE Enqueue([op |-> "upsert", key |-> key[r], size |-> v.size])
    /\ pc' = [pc EXCEPT ![r] = "storing"]
    /\ UNCHANGED <<entries, generation, request, disk>>

\* The final locked section and the wake-up.  Only the generation is compared:
\* that the slot is still this fetch's own is the invariant SlotOwnership.
Store(r) ==
    /\ pc[r] = "storing"
    /\ IF ~SameGeneration(r) THEN UNCHANGED entries
       ELSE IF Cacheable(carried[r])
       THEN entries' \in Prunings(
                [entries EXCEPT ![key[r]] = Ready(carried[r], fetchGen[r])])
       ELSE entries' = [entries EXCEPT ![key[r]] = Absent]
    /\ NotifyWaiters(r, "done")
    /\ UNCHANGED <<generation, carried, disk, queue>>

\* The caller's future is dropped at an await: a deadline or a disconnect.
CancelWaiter(r) ==
    /\ pc[r] \in {"deciding", "waiting"}
    /\ pc' = [pc EXCEPT ![r] = "cancelled"]
    /\ waitsFor' = [waitsFor EXCEPT ![r] = Nobody]
    /\ UNCHANGED <<entries, generation, key, forced, bypass, fetchGen, carried,
                   disk, queue>>

\* LookupFetchGuard::drop while armed.
CancelFetch(r) ==
    /\ pc[r] \in {"reading", "read", "loading"}
    /\ entries' = IF OwnsSlot(r) THEN [entries EXCEPT ![key[r]] = Absent]
                  ELSE entries
    /\ carried' = [carried EXCEPT ![r] = Nothing]
    /\ NotifyWaiters(r, "cancelled")
    /\ UNCHANGED <<generation, disk, queue>>

\* The response is sent; the same client may call again.
Leave(r) ==
    /\ pc[r] \in Finished
    /\ pc' = [pc EXCEPT ![r] = "idle"]
    /\ carried' = [carried EXCEPT ![r] = Nothing]
    /\ bypass' = [bypass EXCEPT ![r] = FALSE]
    /\ forced' = [forced EXCEPT ![r] = FALSE]
    /\ key' = [key EXCEPT ![r] = IdleKey]
    /\ fetchGen' = [fetchGen EXCEPT ![r] = 0]
    /\ UNCHANGED <<entries, generation, waitsFor, disk, queue>>

-----------------------------------------------------------------------------
\* The rest of the service

\* expires_at passes.
Expire(k) ==
    /\ IsReady(entries, k) /\ entries[k].live
    /\ entries' = [entries EXCEPT ![k].live = FALSE]
    /\ UNCHANGED <<generation, pc, request, carried, disk, queue>>

\* prune_expired_and_over_capacity, the periodic maintenance.
Maintain ==
    /\ entries' \in Prunings(entries)
    /\ entries' # entries
    /\ UNCHANGED <<generation, pc, request, carried, disk, queue>>

\* invalidate_all: nobody is notified, and the rows on disk stay.
InvalidateAll ==
    /\ generation < MaxGeneration
    /\ generation' = generation + 1
    /\ entries' = [k \in Keys |-> Absent]
    /\ UNCHANGED <<pc, request, carried, disk, queue>>

-----------------------------------------------------------------------------
Init ==
    /\ entries = [k \in Keys |-> Absent]
    /\ generation = 0
    /\ pc = [r \in Requests |-> "idle"]
    /\ key = [r \in Requests |-> IdleKey]
    /\ forced = [r \in Requests |-> FALSE]
    /\ bypass = [r \in Requests |-> FALSE]
    /\ fetchGen = [r \in Requests |-> 0]
    /\ waitsFor = [r \in Requests |-> Nobody]
    /\ carried = [r \in Requests |-> Nothing]
    \* Rows of an earlier process, some written by a build with other types.
    /\ disk \in [Keys -> BootRows \cup {NoRow}]
    /\ queue = <<>>

Decide(r) == Hit(r) \/ Join(r) \/ Replace(r) \/ Claim(r) \/ Reject(r)
Fetch(r) == \/ ReadDisk(r) \/ MissDisk(r) \/ UndecodableRow(r) \/ Hydrate(r)
            \/ LoaderReturns(r) \/ Store(r)

Next ==
    \/ \E r \in Requests :
        \/ \E k \in Keys, f \in BOOLEAN : Arrive(r, k, f)
        \/ Decide(r) \/ Fetch(r)
        \/ CancelWaiter(r) \/ CancelFetch(r) \/ Leave(r)
    \/ \E k \in Keys : Expire(k)
    \/ Maintain
    \/ InvalidateAll
    \/ WriterStep

Spec == Init /\ [][Next]_vars

\* A started call is polled to its next await, and reads and loaders return: the
\* blocking pool runs every read and every upstream call has a timeout.
FairSpec == Spec /\ \A r \in Requests : WF_vars(Decide(r)) /\ WF_vars(Fetch(r))

-----------------------------------------------------------------------------
\* Properties

\* Every variable keeps its type.
TypeOK ==
    /\ entries \in [Keys -> Slots]
    /\ generation \in 0..MaxGeneration
    /\ pc \in [Requests -> {"idle", "deciding", "waiting"} \cup Fetching \cup Finished]
    /\ key \in [Requests -> Keys]
    /\ forced \in [Requests -> BOOLEAN]
    /\ bypass \in [Requests -> BOOLEAN]
    /\ fetchGen \in [Requests -> 0..MaxGeneration]
    /\ waitsFor \in [Requests -> Requests \cup {Nobody}]
    /\ carried \in [Requests -> Values \cup Rows \cup {Nothing}]
    /\ disk \in [Keys -> Rows \cup {NoRow}]
    /\ queue \in Seq(Commands)

\* What a request carries, by where it stands: a row it has just read, or the
\* result of its loader or of the whole call.
CarriedOK ==
    \A r \in Requests :
        /\ pc[r] = "read" => carried[r] \in Rows \cup {Nothing}
        /\ pc[r] = "storing" => carried[r] \in Values \cup {Nothing}
        /\ pc[r] \in {"idle", "deciding", "waiting", "reading", "loading"} =>
              carried[r] = Nothing

\* A Loading marker always has a live fetch behind it that will replace or
\* remove it, so a cancelled caller never blocks a key for good; and a fetch of
\* the current generation still finds its own marker, which is what makes the
\* unconditional insert at the end of resolve_cached_lookup safe.
SlotOwnership ==
    /\ \A k \in Keys : entries[k].state = "loading" =>
          LET r == entries[k].owner IN
          pc[r] \in Fetching /\ key[r] = k /\ fetchGen[r] = generation
    /\ \A r \in Requests : (pc[r] \in Fetching /\ fetchGen[r] = generation) =>
          entries[key[r]] = Loading(r)

\* A coalesced waiter waits for a fetch of its own key that is still running
\* and has yet to call notify_waiters, whatever was invalidated or cancelled.
WaitersHaveFetcher ==
    \A r \in Requests : pc[r] = "waiting" =>
        /\ waitsFor[r] \in Requests
        /\ pc[waitsFor[r]] \in Fetching
        /\ key[waitsFor[r]] = key[r]

\* Ready and in-flight slots together never exceed the hard capacity.
CapacityBound == Cardinality(HeldKeys(entries)) <= MaxEntries

\* The payloads held in memory stay within the byte budget.
ByteBound == Bytes(entries, ReadyKeys(entries)) <= MaxBytes

\* No result of a fetch that began before an invalidation is cached after it.
CurrentGenerationOnly ==
    \A k \in ReadyKeys(entries) : entries[k].gen = generation

\* A step of a fetch that an invalidation made obsolete changes no slot.
ObsoleteFetchHarmless ==
    [][\A r \in Requests :
        (pc[r] \in Fetching /\ fetchGen[r] # generation /\ pc'[r] # pc[r])
            => entries' = entries]_vars

\* The fetches of k that may still publish.
Flight(k) == {r \in Requests : /\ pc[r] \in Fetching
                               /\ key[r] = k
                               /\ fetchGen[r] = generation}

Flights == INSTANCE SingleFlight WITH flight <- [k \in Keys |-> Flight(k)]

\* The cache implements SingleFlight: concurrent lookups of one key share one
\* acquisition, and an invalidated one no longer counts.
OneFlightPerKey == Flights!Spec

\* Every coalesced waiter is woken.
WaitersWake == \A r \in Requests : pc[r] = "waiting" ~> pc[r] # "waiting"

\* docs/service-api-v1.md: a new lookup is rejected when every slot is an
\* in-flight lookup, and ready entries make room by eviction otherwise.
RejectsOnlyWhenAllInFlight ==
    \A r \in Requests : ENABLED Reject(r) => ReadyKeys(entries) = {}

\* docs/service-api-v1.md: the force-refresh header bypasses the service cache,
\* so a forced lookup is not answered from the persistent store.
ForcedNeverFromDisk ==
    \A r \in Requests :
        (pc[r] = "done" /\ forced[r] /\ carried[r] # Nothing) => ~carried[r].warm

=============================================================================
