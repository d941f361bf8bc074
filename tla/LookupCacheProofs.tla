------------------------- MODULE LookupCacheProofs -------------------------
(***************************************************************************)
(* Theorems about LookupCache, for every set of requests and keys and      *)
(* every limit.                                                            *)
(***************************************************************************)
EXTENDS LookupCache, FiniteSetTheorems, TLAPS

-----------------------------------------------------------------------------
\* Slots and pruning

\* The three kinds of slot are told apart by their state.
LEMMA SlotFacts ==
    ASSUME NEW s \in Slots
    PROVE  /\ s.state \in {"absent", "loading", "ready"}
           /\ s.state = "absent" <=> s = Absent
           /\ s.state = "loading" => s.owner \in Requests /\ s = Loading(s.owner)
           /\ s.state = "ready" => s \in ReadySlots
           /\ s \in ReadySlots => s.state = "ready"
  BY DEF Slots, Absent, Loading, LoadingSlots, ReadySlots

\* prune_lookup_cache_with_limits keeps a slot or drops it, and drops only Ready
\* slots.
LEMMA PruningDropsReady ==
    ASSUME NEW es, NEW p \in Prunings(es), NEW k \in Keys
    PROVE  p[k] = es[k] \/ (p[k] = Absent /\ es[k].state = "ready")
<1> DEFINE live == Without(es, ExpiredKeys(es))
<1>1. PICK V \in Victims(live) : p = Without(live, V)
  BY DEF Prunings
<1>2. live[k] = es[k] \/ (live[k] = Absent /\ es[k].state = "ready")
  BY DEF Without, ExpiredKeys, ReadyKeys
<1>3. V \subseteq ReadyKeys(live)
  BY DEF Victims
<1>4. p[k] = live[k] \/ (p[k] = Absent /\ live[k].state = "ready")
  BY <1>1, <1>3 DEF Without, ReadyKeys
<1>5. Absent.state # "ready"
  BY DEF Absent
<1> QED
  BY <1>2, <1>4, <1>5

\* Pruning keeps the type of the map.
LEMMA PruningType ==
    ASSUME NEW es \in [Keys -> Slots], NEW p \in Prunings(es)
    PROVE  p \in [Keys -> Slots]
<1> DEFINE live == Without(es, ExpiredKeys(es))
<1>1. PICK V \in Victims(live) : p = Without(live, V)
  BY DEF Prunings
<1>2. live \in [Keys -> Slots]
  BY DEF Without, Slots
<1> QED
  BY <1>1, <1>2 DEF Without, Slots

-----------------------------------------------------------------------------
\* Typing

Typed == TypeOK /\ CarriedOK

USE CacheAssumption

LEMMA IdleKeyInKeys == IdleKey \in Keys
  BY DEF IdleKey

\* Commands reach the queue, or are dropped when it is full.
LEMMA EnqueueType ==
    ASSUME queue \in Seq(Commands), NEW c \in Commands, Enqueue(c)
    PROVE  queue' \in Seq(Commands)
  BY DEF Enqueue

\* What notify_waiters changes is well typed.
LEMMA NotifyType ==
    ASSUME TypeOK, NEW r \in Requests, NEW next \in Finished, NotifyWaiters(r, next)
    PROVE  /\ pc' \in [Requests -> {"idle", "deciding", "waiting"} \cup Fetching \cup Finished]
           /\ bypass' \in [Requests -> BOOLEAN]
           /\ waitsFor' \in [Requests -> Requests \cup {Nobody}]
           /\ pc'[r] = next
           /\ \A q \in Requests \ {r} : pc'[q] = pc[q] \/ (pc[q] = "waiting" /\ pc'[q] = "deciding")
  BY DEF NotifyWaiters, Wake, TypeOK, Notified

\* The service starts with every variable in its type.
LEMMA TypedInit == Init => Typed
  BY IdleKeyInKeys DEF Init, Typed, TypeOK, CarriedOK, Slots, Rows

\* Every step keeps every variable in its type.
LEMMA TypedStep == Typed /\ [Next]_vars => Typed'
<1> SUFFICES ASSUME Typed, [Next]_vars PROVE Typed'
  OBVIOUS
<1> USE DEF Typed
<1>1. ASSUME NEW r \in Requests, NEW k \in Keys, NEW f \in BOOLEAN, Arrive(r, k, f)
      PROVE  Typed'
  BY <1>1 DEF Arrive, TypeOK, CarriedOK, Fetching, Finished
<1>2. ASSUME NEW r \in Requests, Hit(r) PROVE Typed'
  BY <1>2, SlotFacts DEF Hit, IsReady, request, TypeOK, CarriedOK, Fetching, Finished,
     ReadySlots
<1>3. ASSUME NEW r \in Requests, Join(r) PROVE Typed'
  BY <1>3, SlotFacts DEF Join, TypeOK, CarriedOK, Fetching, Finished
<1>4. ASSUME NEW r \in Requests, Replace(r) PROVE Typed'
  <2> DEFINE es == [entries EXCEPT ![key[r]] = Loading(r)]
  <2>1. es \in [Keys -> Slots]
    BY <1>4 DEF TypeOK, Slots, LoadingSlots, Loading
  <2>2. entries' \in [Keys -> Slots]
    BY <1>4, <2>1, PruningType DEF Replace
  <2> QED
    BY <1>4, <2>2 DEF Replace, TypeOK, CarriedOK, Fetching, Finished
<1>5. ASSUME NEW r \in Requests, Claim(r) PROVE Typed'
  <2>1. PICK pruned \in Prunings(entries) : entries' = [pruned EXCEPT ![key[r]] = Loading(r)]
    BY <1>5 DEF Claim
  <2>2. pruned \in [Keys -> Slots]
    BY <2>1, PruningType DEF TypeOK
  <2>3. entries' \in [Keys -> Slots]
    BY <2>1, <2>2 DEF TypeOK, Slots, LoadingSlots, Loading
  <2> QED
    BY <1>5, <2>3 DEF Claim, TypeOK, CarriedOK, Fetching, Finished
<1>6. ASSUME NEW r \in Requests, Reject(r) PROVE Typed'
  <2>1. entries' \in [Keys -> Slots]
    BY <1>6, PruningType DEF Reject, TypeOK
  <2> QED
    BY <1>6, <2>1 DEF Reject, request, TypeOK, CarriedOK, Fetching, Finished
<1>7. ASSUME NEW r \in Requests, ReadDisk(r) PROVE Typed'
  <2>1. [op |-> "remove", key |-> key[r]] \in Commands
    BY DEF Commands, TypeOK
  <2>2. queue' \in Seq(Commands)
    BY <1>7, <2>1, EnqueueType DEF ReadDisk, TypeOK
  <2>3. carried' \in [Requests -> Values \cup Rows \cup {Nothing}]
    BY <1>7 DEF ReadDisk, TypeOK
  <2>4. CarriedOK'
    BY <1>7 DEF ReadDisk, TypeOK, CarriedOK, request
  <2> QED
    BY <1>7, <2>2, <2>3, <2>4 DEF ReadDisk, request, TypeOK, Fetching
<1>8. ASSUME NEW r \in Requests, MissDisk(r) PROVE Typed'
  BY <1>8 DEF MissDisk, request, TypeOK, CarriedOK, Fetching, Finished
<1>9. ASSUME NEW r \in Requests, UndecodableRow(r) PROVE Typed'
  <2>1. [op |-> "remove", key |-> key[r]] \in Commands
    BY DEF Commands, TypeOK
  <2>2. queue' \in Seq(Commands)
    BY <1>9, <2>1, EnqueueType DEF UndecodableRow, TypeOK
  <2> QED
    BY <1>9, <2>2 DEF UndecodableRow, request, TypeOK, CarriedOK, Fetching, Finished
<1>10. ASSUME NEW r \in Requests, Hydrate(r) PROVE Typed'
  <2> DEFINE v == [ok |-> TRUE, size |-> carried[r].size, warm |-> TRUE]
             es == [entries EXCEPT ![key[r]] = Ready(v, fetchGen[r])]
  <2>1. carried[r] \in Rows
    BY <1>10 DEF Hydrate, CarriedOK
  <2>2. v \in Values
    BY <2>1 DEF Rows, Values
  <2>3. es \in [Keys -> Slots]
    BY <2>2 DEF TypeOK, Slots, ReadySlots, Ready
  <2>4. entries' \in [Keys -> Slots]
    <3>1. entries \in [Keys -> Slots] /\ Absent \in Slots
      BY DEF TypeOK, Slots
    <3>2. \/ entries' = entries
          \/ entries' = [entries EXCEPT ![key[r]] = Absent]
          \/ entries' \in Prunings(es)
      BY <1>10 DEF Hydrate
    <3>3. entries' \in Prunings(es) => entries' \in [Keys -> Slots]
      BY <2>3, PruningType
    <3> HIDE DEF es
    <3> QED
      BY <3>1, <3>2, <3>3
  <2>5. NotifyWaiters(r, "done") /\ "done" \in Finished
    BY <1>10 DEF Hydrate, Finished
  <2>6. carried' = [carried EXCEPT ![r] = v]
    BY <1>10 DEF Hydrate
  <2>7. CarriedOK'
    BY <2>5, <2>6, NotifyType DEF CarriedOK, TypeOK
  <2> QED
    BY <1>10, <2>2, <2>4, <2>5, <2>6, <2>7, NotifyType DEF Hydrate, NotifyWaiters, Wake, TypeOK
<1>11. ASSUME NEW r \in Requests, LoaderReturns(r) PROVE Typed'
  <2>1. PICK v \in {Success(size) : size \in 1..MaxSize} \cup {CachedError, Nothing} :
           /\ carried' = [carried EXCEPT ![r] = v]
           /\ IF ~Cacheable(v) \/ ~v.ok THEN UNCHANGED queue
              ELSE IF v.size > MaxPersistedBytes
              THEN Enqueue([op |-> "remove", key |-> key[r]])
              ELSE Enqueue([op |-> "upsert", key |-> key[r], size |-> v.size])
    BY <1>11 DEF LoaderReturns
  <2>2. v \in Values \cup {Nothing}
    <3>1. \A size \in 1..MaxSize : Success(size) \in Values
      BY DEF Success, Values
    <3>2. CachedError \in Values
      BY DEF CachedError, Values
    <3> QED
      BY <2>1, <3>1, <3>2
  <2>3. [op |-> "remove", key |-> key[r]] \in Commands
    BY DEF Commands, TypeOK
  <2>4. Cacheable(v) /\ v.ok /\ ~(v.size > MaxPersistedBytes) =>
           [op |-> "upsert", key |-> key[r], size |-> v.size] \in Commands
    BY <2>1 DEF Commands, TypeOK, Cacheable, Success, CachedError
  <2>5. queue' \in Seq(Commands)
    BY <2>1, <2>3, <2>4, EnqueueType DEF TypeOK
  <2>6. CarriedOK'
    BY <1>11, <2>1, <2>2 DEF LoaderReturns, request, CarriedOK, TypeOK
  <2> QED
    BY <1>11, <2>1, <2>2, <2>5, <2>6 DEF LoaderReturns, request, TypeOK, Fetching
<1>12. ASSUME NEW r \in Requests, Store(r) PROVE Typed'
  <2> DEFINE es == [entries EXCEPT ![key[r]] = Ready(carried[r], fetchGen[r])]
  <2>1. Cacheable(carried[r]) => carried[r] \in Values
    BY <1>12 DEF Store, CarriedOK, Cacheable
  <2>2. Cacheable(carried[r]) => es \in [Keys -> Slots]
    BY <2>1 DEF TypeOK, Slots, ReadySlots, Ready
  <2>3. entries' \in [Keys -> Slots]
    BY <1>12, <2>2, PruningType DEF Store, TypeOK, Slots
  <2>4. NotifyWaiters(r, "done") /\ "done" \in Finished
    BY <1>12 DEF Store, Finished
  <2>5. CarriedOK'
    BY <1>12, <2>4, NotifyType DEF Store, CarriedOK, TypeOK
  <2> QED
    BY <1>12, <2>3, <2>4, <2>5, NotifyType DEF Store, NotifyWaiters, Wake, TypeOK
<1>13. ASSUME NEW r \in Requests, CancelWaiter(r) PROVE Typed'
  BY <1>13 DEF CancelWaiter, TypeOK, CarriedOK, Fetching, Finished
<1>14. ASSUME NEW r \in Requests, CancelFetch(r) PROVE Typed'
  <2>1. entries' \in [Keys -> Slots]
    BY <1>14 DEF CancelFetch, TypeOK, Slots
  <2>2. NotifyWaiters(r, "cancelled") /\ "cancelled" \in Finished
    BY <1>14 DEF CancelFetch, Finished
  <2>3. CarriedOK'
    BY <1>14, <2>2, NotifyType DEF CancelFetch, CarriedOK, TypeOK
  <2> QED
    BY <1>14, <2>1, <2>2, <2>3, NotifyType DEF CancelFetch, NotifyWaiters, Wake, TypeOK
<1>15. ASSUME NEW r \in Requests, Leave(r) PROVE Typed'
  BY <1>15, IdleKeyInKeys DEF Leave, TypeOK, CarriedOK, Fetching, Finished
<1>16. ASSUME NEW k \in Keys, Expire(k) PROVE Typed'
  <2>1. entries[k] \in ReadySlots
    BY <1>16, SlotFacts DEF Expire, IsReady, TypeOK
  <2>2. entries' \in [Keys -> Slots]
    BY <1>16, <2>1 DEF Expire, TypeOK, Slots, ReadySlots
  <2> QED
    BY <1>16, <2>2 DEF Expire, request, TypeOK, CarriedOK
<1>17. CASE Maintain
  <2>1. entries' \in [Keys -> Slots]
    BY <1>17, PruningType DEF Maintain, TypeOK
  <2> QED
    BY <1>17, <2>1 DEF Maintain, request, TypeOK, CarriedOK
<1>18. CASE InvalidateAll
  BY <1>18 DEF InvalidateAll, request, TypeOK, CarriedOK, Slots
<1>19. CASE WriterStep
  <2>1. Head(queue) \in Commands /\ queue' \in Seq(Commands)
    BY <1>19 DEF WriterStep, TypeOK
  <2> DEFINE command == Head(queue)
             row == IF command.op = "upsert"
                    THEN [size |-> command.size, decodes |-> TRUE] ELSE NoRow
  <2>2. disk' \in [Keys -> Rows \cup {NoRow}]
    <3>1. row \in Rows \cup {NoRow}
      BY <2>1 DEF Commands, Rows
    <3>2. disk' = disk \/ disk' = [disk EXCEPT ![command.key] = row]
      BY <1>19 DEF WriterStep
    <3> HIDE DEF row
    <3> QED
      BY <3>1, <3>2 DEF TypeOK
  <2> QED
    BY <1>19, <2>1, <2>2 DEF WriterStep, request, TypeOK, CarriedOK
<1>20. CASE UNCHANGED vars
  BY <1>20 DEF vars, request, TypeOK, CarriedOK
<1> QED
  BY <1>1, <1>2, <1>3, <1>4, <1>5, <1>6, <1>7, <1>8, <1>9, <1>10, <1>11, <1>12,
     <1>13, <1>14, <1>15, <1>16, <1>17, <1>18, <1>19, <1>20 DEF Next, Decide, Fetch

\* Every reachable state is well typed.
THEOREM Typing == Spec => []TypeOK
<1>1. Spec => []Typed
  BY TypedInit, TypedStep, PTL DEF Spec
<1> QED
  BY <1>1, PTL DEF Typed

-----------------------------------------------------------------------------
\* Slot ownership

\* No guard holds a generation the cache has not reached.
NoFutureFetch == \A r \in Requests : fetchGen[r] <= generation

Owned == SlotOwnership /\ WaitersHaveFetcher /\ NoFutureFetch

\* Pruning neither adds, moves nor removes a Loading marker.
LEMMA PruningKeepsLoading ==
    ASSUME NEW es, NEW p \in Prunings(es), NEW k \in Keys
    PROVE  /\ p[k] = es[k] \/ (es[k].state # "loading" /\ p[k].state # "loading")
           /\ \A r : es[k] = Loading(r) => p[k] = Loading(r)
  BY PruningDropsReady DEF Absent, Loading

\* Inserting a Ready entry and pruning leaves that slot not Loading, and keeps
\* the Loading markers of the other keys.
LEMMA InstallFrame ==
    ASSUME TypeOK, NEW r \in Requests, NEW v, NEW g,
           NEW p \in Prunings([entries EXCEPT ![key[r]] = Ready(v, g)])
    PROVE  /\ p[key[r]].state # "loading"
           /\ \A k \in Keys \ {key[r]} :
                 \/ p[k] = entries[k]
                 \/ entries[k].state # "loading" /\ p[k].state # "loading"
<1> DEFINE es == [entries EXCEPT ![key[r]] = Ready(v, g)]
<1>1. es[key[r]].state = "ready" /\ \A k \in Keys \ {key[r]} : es[k] = entries[k]
  BY DEF TypeOK, Ready
<1>2. key[r] \in Keys
  BY DEF TypeOK
<1>3. p \in Prunings(es)
  OBVIOUS
<1> HIDE DEF es
<1> QED
  BY <1>1, <1>2, <1>3, PruningKeepsLoading

\* A step that leaves the fetches and the waiters alone and only prunes, or
\* changes a slot that was and is not Loading, keeps the ownership.
LEMMA OwnedFrame ==
    ASSUME TypeOK, TypeOK', Owned,
           generation' = generation, key' = key, fetchGen' = fetchGen,
           \A k \in Keys : \/ entries'[k] = entries[k]
                           \/ entries[k].state # "loading" /\ entries'[k].state # "loading",
           \A r \in Requests : pc'[r] \in Fetching <=> pc[r] \in Fetching,
           \A r \in Requests : pc'[r] = "waiting" =>
                                    pc[r] = "waiting" /\ waitsFor'[r] = waitsFor[r]
    PROVE  Owned'
<1>1. SlotOwnership'
  <2>1. ASSUME NEW k \in Keys, entries'[k].state = "loading"
        PROVE  LET r == entries'[k].owner IN
               pc'[r] \in Fetching /\ key'[r] = k /\ fetchGen'[r] = generation'
    <3>1. entries'[k] = entries[k] /\ entries[k].owner \in Requests
      BY <2>1, SlotFacts DEF TypeOK
    <3> QED
      BY <2>1, <3>1 DEF Owned, SlotOwnership
  <2>2. ASSUME NEW r \in Requests, pc'[r] \in Fetching, fetchGen'[r] = generation'
        PROVE  entries'[key'[r]] = Loading(r)
    BY <2>2 DEF Owned, SlotOwnership, TypeOK, Loading
  <2> QED
    BY <2>1, <2>2 DEF SlotOwnership
<1>2. WaitersHaveFetcher'
  BY DEF Owned, WaitersHaveFetcher
<1> QED
  BY <1>1, <1>2 DEF Owned, NoFutureFetch

\* A fetch that leaves its slot not Loading, or that owned none, and wakes its
\* waiters keeps the ownership.
LEMMA OwnedFetchEnds ==
    ASSUME TypeOK, TypeOK', Owned, NEW r \in Requests, NEW next \in Finished,
           pc[r] \in Fetching, NotifyWaiters(r, next), generation' = generation,
           \A k \in Keys : \/ entries'[k] = entries[k]
                           \/ entries[k].state # "loading" /\ entries'[k].state # "loading"
                           \/ k = key[r] /\ OwnsSlot(r),
           OwnsSlot(r) => entries'[key[r]].state # "loading"
    PROVE  Owned'
<1>1. key' = key /\ fetchGen' = fetchGen
  BY DEF NotifyWaiters, Wake
<1>2. \A q \in Requests : pc'[q] \in Fetching <=> pc[q] \in Fetching /\ q # r
  BY NotifyType DEF Fetching, Finished
<1>3. \A q \in Requests : pc'[q] = "waiting" =>
          pc[q] = "waiting" /\ waitsFor'[q] = waitsFor[q] /\ waitsFor[q] # r
  BY DEF NotifyWaiters, Wake, Notified, Finished, TypeOK
<1>4. WaitersHaveFetcher'
  BY <1>1, <1>2, <1>3 DEF Owned, WaitersHaveFetcher
<1>5. ASSUME NEW k \in Keys, entries'[k].state = "loading"
      PROVE  LET q == entries'[k].owner IN
             pc'[q] \in Fetching /\ key'[q] = k /\ fetchGen'[q] = generation'
  <2>1. entries'[k] = entries[k] /\ entries[k].owner \in Requests
    BY <1>5, SlotFacts DEF TypeOK
  <2> DEFINE q == entries[k].owner
  <2>2. pc[q] \in Fetching /\ key[q] = k /\ fetchGen[q] = generation
    BY <1>5, <2>1 DEF Owned, SlotOwnership
  <2>3. entries[k] = Loading(q)
    BY <1>5, <2>1, SlotFacts DEF TypeOK
  <2>4. q # r
    BY <1>5, <2>2, <2>3 DEF OwnsSlot, SameGeneration
  <2> QED
    BY <1>1, <1>2, <2>1, <2>2, <2>4
<1>6. ASSUME NEW q \in Requests, pc'[q] \in Fetching, fetchGen'[q] = generation'
      PROVE  entries'[key'[q]] = Loading(q)
  <2>1. pc[q] \in Fetching /\ q # r /\ fetchGen[q] = generation
    BY <1>1, <1>2, <1>6
  <2>2. entries[key[q]] = Loading(q) /\ key[q] \in Keys
    BY <2>1 DEF Owned, SlotOwnership, TypeOK
  <2>3. ~(key[q] = key[r] /\ OwnsSlot(r))
    BY <2>1, <2>2 DEF OwnsSlot, SameGeneration, Loading
  <2> QED
    BY <1>1, <2>2, <2>3 DEF Loading
<1> QED
  BY <1>1, <1>4, <1>5, <1>6 DEF Owned, SlotOwnership, NoFutureFetch

\* A request that installs its marker in a slot that is not Loading becomes the
\* fetch of that key.
LEMMA OwnedFetchBegins ==
    ASSUME TypeOK, TypeOK', Owned, NEW r \in Requests,
           pc[r] = "deciding", pc'[r] \in Fetching,
           \A q \in Requests \ {r} : pc'[q] = pc[q],
           entries[key[r]].state # "loading", entries'[key[r]] = Loading(r),
           \A k \in Keys \ {key[r]} :
              \/ entries'[k] = entries[k]
              \/ entries[k].state # "loading" /\ entries'[k].state # "loading",
           fetchGen' = [fetchGen EXCEPT ![r] = generation],
           generation' = generation, key' = key, waitsFor' = waitsFor
    PROVE  Owned'
<1>1. \A q \in Requests : pc'[q] \in Fetching <=> pc[q] \in Fetching \/ q = r
  BY DEF Fetching
<1>2. WaitersHaveFetcher'
  BY <1>1 DEF Owned, WaitersHaveFetcher, Fetching
<1>3. ASSUME NEW k \in Keys, entries'[k].state = "loading"
      PROVE  LET q == entries'[k].owner IN
             pc'[q] \in Fetching /\ key'[q] = k /\ fetchGen'[q] = generation'
  <2>1. CASE k = key[r]
    BY <2>1 DEF TypeOK, Loading
  <2>2. CASE k # key[r]
    <3>1. entries'[k] = entries[k] /\ entries[k].owner \in Requests
      BY <1>3, <2>2, SlotFacts DEF TypeOK
    <3>2. pc[entries[k].owner] \in Fetching /\ key[entries[k].owner] = k
             /\ fetchGen[entries[k].owner] = generation
      BY <1>3, <3>1 DEF Owned, SlotOwnership
    <3>3. entries[k].owner # r
      BY <3>2 DEF Fetching
    <3> QED
      BY <1>1, <3>1, <3>2, <3>3 DEF TypeOK
  <2> QED
    BY <2>1, <2>2
<1>4. ASSUME NEW q \in Requests, pc'[q] \in Fetching, fetchGen'[q] = generation'
      PROVE  entries'[key'[q]] = Loading(q)
  <2>1. CASE q = r
    BY <2>1
  <2>2. CASE q # r
    <3>1. pc[q] \in Fetching /\ fetchGen[q] = generation
      BY <1>1, <1>4, <2>2 DEF TypeOK
    <3>2. entries[key[q]] = Loading(q) /\ key[q] \in Keys
      BY <3>1 DEF Owned, SlotOwnership, TypeOK
    <3>3. key[q] # key[r]
      BY <3>2 DEF Loading
    <3> QED
      BY <3>2, <3>3 DEF Loading
  <2> QED
    BY <2>1, <2>2
<1>5. NoFutureFetch'
  BY DEF Owned, NoFutureFetch, TypeOK
<1> QED
  BY <1>2, <1>3, <1>4, <1>5 DEF Owned, SlotOwnership

\* The service starts with no marker and no waiter.
LEMMA OwnedInit == Init => Owned
  BY IdleKeyInKeys DEF Init, Owned, SlotOwnership, WaitersHaveFetcher, NoFutureFetch,
     Absent, Fetching

\* Every step keeps the ownership.
LEMMA OwnedStep == TypeOK /\ TypeOK' /\ Owned /\ [Next]_vars => Owned'
<1> SUFFICES ASSUME TypeOK, TypeOK', Owned, [Next]_vars PROVE Owned'
  OBVIOUS
<1>0. entries \in [Keys -> Slots] /\ \A r \in Requests : key[r] \in Keys
  BY DEF TypeOK
<1>1. ASSUME NEW r \in Requests, NEW k \in Keys, NEW f \in BOOLEAN, Arrive(r, k, f)
      PROVE  Owned'
  <2>1. \A q \in Requests : pc'[q] \in Fetching \/ pc'[q] = "waiting" =>
           q # r /\ pc'[q] = pc[q] /\ key'[q] = key[q]
    BY <1>1 DEF Arrive, TypeOK, Fetching
  <2>2. \A q \in Requests : pc[q] \in Fetching =>
           q # r /\ pc'[q] = pc[q] /\ key'[q] = key[q]
    BY <1>1 DEF Arrive, TypeOK, Fetching
  <2>3. SlotOwnership'
    BY <1>1, <2>1, <2>2, SlotFacts DEF Arrive, Owned, SlotOwnership, TypeOK, Loading
  <2>4. WaitersHaveFetcher'
    BY <1>1, <2>1, <2>2 DEF Arrive, Owned, WaitersHaveFetcher
  <2> QED
    BY <1>1, <2>3, <2>4 DEF Arrive, Owned, NoFutureFetch
<1>2. ASSUME NEW r \in Requests, Hit(r) PROVE Owned'
  BY <1>2, OwnedFrame DEF Hit, request, TypeOK, Fetching
<1>3. ASSUME NEW r \in Requests, Join(r) PROVE Owned'
  <2>1. /\ entries[key[r]].owner \in Requests
        /\ pc[entries[key[r]].owner] \in Fetching
        /\ key[entries[key[r]].owner] = key[r]
    BY <1>0, <1>3, SlotFacts DEF Join, Owned, SlotOwnership
  <2>2. \A q \in Requests : pc'[q] \in Fetching <=> pc[q] \in Fetching
    BY <1>3 DEF Join, TypeOK, Fetching
  <2>3. SlotOwnership'
    BY <1>0, <1>3, <2>2, SlotFacts DEF Join, Owned, SlotOwnership, Loading
  <2>4. WaitersHaveFetcher'
    BY <1>3, <2>1, <2>2 DEF Join, Owned, WaitersHaveFetcher, TypeOK
  <2> QED
    BY <1>3, <2>3, <2>4 DEF Join, Owned, NoFutureFetch
<1>4. ASSUME NEW r \in Requests, Replace(r) PROVE Owned'
  <2> DEFINE es == [entries EXCEPT ![key[r]] = Loading(r)]
  <2>1. es \in [Keys -> Slots] /\ entries' \in Prunings(es)
    BY <1>0, <1>4 DEF Replace, Slots, LoadingSlots, Loading
  <2>2. es[key[r]] = Loading(r) /\ \A k \in Keys \ {key[r]} : es[k] = entries[k]
    BY <1>0
  <2> HIDE DEF es
  <2>3. entries'[key[r]] = Loading(r)
    BY <1>0, <2>1, <2>2, PruningKeepsLoading
  <2>4. \A k \in Keys \ {key[r]} :
           \/ entries'[k] = entries[k]
           \/ entries[k].state # "loading" /\ entries'[k].state # "loading"
    BY <2>1, <2>2, PruningKeepsLoading
  <2>5. pc[r] = "deciding" /\ pc'[r] \in Fetching /\ entries[key[r]].state # "loading"
    BY <1>4 DEF Replace, TypeOK, Fetching, IsReady
  <2> QED
    BY <1>4, <2>3, <2>4, <2>5, OwnedFetchBegins DEF Replace, TypeOK
<1>5. ASSUME NEW r \in Requests, Claim(r) PROVE Owned'
  <2>1. PICK pruned \in Prunings(entries) : entries' = [pruned EXCEPT ![key[r]] = Loading(r)]
    BY <1>5 DEF Claim
  <2>2. pruned \in [Keys -> Slots]
    BY <1>0, <2>1, PruningType
  <2>3. entries'[key[r]] = Loading(r)
    BY <1>0, <2>1, <2>2
  <2>4. \A k \in Keys \ {key[r]} :
           \/ entries'[k] = entries[k]
           \/ entries[k].state # "loading" /\ entries'[k].state # "loading"
    BY <1>0, <2>1, <2>2, PruningKeepsLoading
  <2>5. pc[r] = "deciding" /\ pc'[r] \in Fetching /\ entries[key[r]].state # "loading"
    BY <1>5 DEF Claim, TypeOK, Fetching, Absent
  <2> QED
    BY <1>5, <2>3, <2>4, <2>5, OwnedFetchBegins DEF Claim, TypeOK
<1>6. ASSUME NEW r \in Requests, Reject(r) PROVE Owned'
  <2>1. \A k \in Keys : \/ entries'[k] = entries[k]
                        \/ entries[k].state # "loading" /\ entries'[k].state # "loading"
    BY <1>0, <1>6, PruningKeepsLoading DEF Reject
  <2> QED
    BY <1>6, <2>1, OwnedFrame DEF Reject, request, TypeOK, Fetching
<1>7. ASSUME NEW r \in Requests,
             ReadDisk(r) \/ MissDisk(r) \/ UndecodableRow(r) \/ LoaderReturns(r)
      PROVE  Owned'
  <2>1. /\ entries' = entries /\ generation' = generation /\ UNCHANGED request
        /\ pc[r] \in Fetching /\ pc'[r] \in Fetching /\ pc'[r] # "waiting"
        /\ \A q \in Requests \ {r} : pc'[q] = pc[q]
    BY <1>7 DEF ReadDisk, MissDisk, UndecodableRow, LoaderReturns, TypeOK, Fetching
  <2> QED
    BY <2>1, OwnedFrame DEF request
<1>8. ASSUME NEW r \in Requests, Hydrate(r) PROVE Owned'
  <2> DEFINE v == [ok |-> TRUE, size |-> carried[r].size, warm |-> TRUE]
  <2>1. \/ entries' = entries /\ ~OwnsSlot(r)
        \/ entries' = [entries EXCEPT ![key[r]] = Absent] /\ OwnsSlot(r)
        \/ /\ entries' \in Prunings([entries EXCEPT ![key[r]] = Ready(v, fetchGen[r])])
           /\ OwnsSlot(r)
    BY <1>8 DEF Hydrate
  <2> HIDE DEF v
  <2>2. \A k \in Keys \ {key[r]} :
           \/ entries'[k] = entries[k]
           \/ entries[k].state # "loading" /\ entries'[k].state # "loading"
    <3>1. CASE entries' = [entries EXCEPT ![key[r]] = Absent] \/ entries' = entries
      BY <1>0, <3>1
    <3>2. CASE entries' \in Prunings([entries EXCEPT ![key[r]] = Ready(v, fetchGen[r])])
      BY <3>2, InstallFrame
    <3> QED
      BY <2>1, <3>1, <3>2
  <2>3. OwnsSlot(r) => entries'[key[r]].state # "loading"
    <3>1. CASE entries' = [entries EXCEPT ![key[r]] = Absent]
      BY <1>0, <3>1 DEF Absent
    <3>2. CASE entries' \in Prunings([entries EXCEPT ![key[r]] = Ready(v, fetchGen[r])])
      BY <3>2, InstallFrame
    <3> QED
      BY <2>1, <3>1, <3>2
  <2>4. ~OwnsSlot(r) => entries'[key[r]] = entries[key[r]]
    BY <2>1
  <2>5. NotifyWaiters(r, "done") /\ "done" \in Finished /\ pc[r] \in Fetching
           /\ generation' = generation
    BY <1>8 DEF Hydrate, Finished, Fetching
  <2> QED
    BY <2>2, <2>3, <2>4, <2>5, OwnedFetchEnds
<1>9. ASSUME NEW r \in Requests, Store(r) PROVE Owned'
  <2>1. \/ entries' = entries /\ ~OwnsSlot(r)
        \/ entries' = [entries EXCEPT ![key[r]] = Absent] /\ OwnsSlot(r)
        \/ /\ entries' \in Prunings(
                  [entries EXCEPT ![key[r]] = Ready(carried[r], fetchGen[r])])
           /\ OwnsSlot(r)
    BY <1>9 DEF Store, OwnsSlot, SameGeneration, Owned, SlotOwnership, Fetching
  <2>2. \A k \in Keys \ {key[r]} :
           \/ entries'[k] = entries[k]
           \/ entries[k].state # "loading" /\ entries'[k].state # "loading"
    <3>1. CASE entries' = [entries EXCEPT ![key[r]] = Absent] \/ entries' = entries
      BY <1>0, <3>1
    <3>2. CASE entries' \in Prunings([entries EXCEPT ![key[r]] = Ready(carried[r], fetchGen[r])])
      BY <3>2, InstallFrame
    <3> QED
      BY <2>1, <3>1, <3>2
  <2>3. OwnsSlot(r) => entries'[key[r]].state # "loading"
    <3>1. CASE entries' = [entries EXCEPT ![key[r]] = Absent]
      BY <1>0, <3>1 DEF Absent
    <3>2. CASE entries' \in Prunings([entries EXCEPT ![key[r]] = Ready(carried[r], fetchGen[r])])
      BY <3>2, InstallFrame
    <3> QED
      BY <2>1, <3>1, <3>2
  <2>4. ~OwnsSlot(r) => entries'[key[r]] = entries[key[r]]
    BY <2>1
  <2>5. NotifyWaiters(r, "done") /\ "done" \in Finished /\ pc[r] \in Fetching
           /\ generation' = generation
    BY <1>9 DEF Store, Finished, Fetching
  <2> QED
    BY <2>2, <2>3, <2>4, <2>5, OwnedFetchEnds
<1>10. ASSUME NEW r \in Requests, CancelWaiter(r) PROVE Owned'
  BY <1>10, OwnedFrame DEF CancelWaiter, TypeOK, Fetching
<1>11. ASSUME NEW r \in Requests, CancelFetch(r) PROVE Owned'
  <2>1. \/ entries' = entries /\ ~OwnsSlot(r)
        \/ entries' = [entries EXCEPT ![key[r]] = Absent] /\ OwnsSlot(r)
    BY <1>11 DEF CancelFetch
  <2>2. \A k \in Keys \ {key[r]} : entries'[k] = entries[k]
    BY <1>0, <2>1
  <2>3. OwnsSlot(r) => entries'[key[r]].state # "loading"
    BY <1>0, <2>1 DEF Absent
  <2>4. NotifyWaiters(r, "cancelled") /\ "cancelled" \in Finished /\ pc[r] \in Fetching
           /\ generation' = generation
    BY <1>11 DEF CancelFetch, Finished, Fetching
  <2> QED
    BY <2>1, <2>2, <2>3, <2>4, OwnedFetchEnds
<1>12. ASSUME NEW r \in Requests, Leave(r) PROVE Owned'
  <2>1. \A q \in Requests : pc'[q] \in Fetching \/ pc'[q] = "waiting" =>
           q # r /\ pc'[q] = pc[q] /\ key'[q] = key[q] /\ fetchGen'[q] = fetchGen[q]
    BY <1>12 DEF Leave, TypeOK, Fetching
  <2>2. \A q \in Requests : pc[q] \in Fetching =>
           q # r /\ pc'[q] = pc[q] /\ key'[q] = key[q] /\ fetchGen'[q] = fetchGen[q]
    BY <1>12 DEF Leave, TypeOK, Fetching, Finished
  <2>3. SlotOwnership'
    BY <1>12, <2>1, <2>2, SlotFacts DEF Leave, Owned, SlotOwnership, TypeOK, Loading
  <2>4. WaitersHaveFetcher'
    BY <1>12, <2>1, <2>2 DEF Leave, Owned, WaitersHaveFetcher
  <2>5. NoFutureFetch'
    BY <1>12 DEF Leave, Owned, NoFutureFetch, TypeOK
  <2> QED
    BY <2>3, <2>4, <2>5 DEF Owned
<1>13. ASSUME NEW k \in Keys, Expire(k) PROVE Owned'
  <2>1. entries[k] \in ReadySlots
    BY <1>0, <1>13, SlotFacts DEF Expire, IsReady
  <2>2. entries'[k].state = "ready" /\ \A j \in Keys \ {k} : entries'[j] = entries[j]
    BY <1>0, <1>13, <2>1 DEF Expire, IsReady, ReadySlots
  <2> QED
    BY <1>13, <2>1, <2>2, OwnedFrame DEF Expire, IsReady, request
<1>14. CASE Maintain
  <2>1. \A k \in Keys : \/ entries'[k] = entries[k]
                        \/ entries[k].state # "loading" /\ entries'[k].state # "loading"
    BY <1>14, PruningKeepsLoading DEF Maintain
  <2> QED
    BY <1>14, <2>1, OwnedFrame DEF Maintain, request
<1>15. CASE InvalidateAll
  <2>1. \A r \in Requests : fetchGen'[r] # generation'
    BY <1>15 DEF InvalidateAll, request, TypeOK, Owned, NoFutureFetch
  <2>2. NoFutureFetch'
    BY <1>15 DEF InvalidateAll, request, TypeOK, Owned, NoFutureFetch
  <2> QED
    BY <1>15, <2>1, <2>2
    DEF InvalidateAll, request, Owned, SlotOwnership, WaitersHaveFetcher, Absent
<1>16. CASE WriterStep
  BY <1>16, OwnedFrame DEF WriterStep, request
<1>17. CASE UNCHANGED vars
  BY <1>17, OwnedFrame DEF vars, request
<1> QED
  BY <1>1, <1>2, <1>3, <1>4, <1>5, <1>6, <1>7, <1>8, <1>9, <1>10, <1>11, <1>12,
     <1>13, <1>14, <1>15, <1>16, <1>17 DEF Next, Decide, Fetch

\* A Loading marker always has a live fetch behind it, and a current fetch its
\* marker: cancellation and invalidation never leave a key blocked, and the
\* final insert never overwrites the marker of another fetch.
THEOREM Ownership == Spec => []SlotOwnership
<1>1. Spec => [](TypeOK /\ Owned)
  <2>1. Spec => []TypeOK
    BY Typing
  <2>2. Init => Owned
    BY OwnedInit
  <2>3. TypeOK /\ TypeOK' /\ Owned /\ [Next]_vars => Owned'
    BY OwnedStep
  <2> QED
    BY <2>1, <2>2, <2>3, PTL DEF Spec
<1> QED
  BY <1>1, PTL DEF Owned

\* Every coalesced waiter waits for a fetch of its key that has yet to notify.
THEOREM WaitersServed == Spec => []WaitersHaveFetcher
<1>1. Spec => [](TypeOK /\ Owned)
  BY Typing, OwnedInit, OwnedStep, PTL DEF Spec
<1> QED
  BY <1>1, PTL DEF Owned

-----------------------------------------------------------------------------
\* Capacity and generations

Bounded == CapacityBound /\ CurrentGenerationOnly

LEMMA HeldFinite ==
    ASSUME NEW es PROVE IsFiniteSet(HeldKeys(es)) /\ Cardinality(HeldKeys(es)) \in Nat
  BY FS_Subset, FS_CardinalityType DEF HeldKeys

\* A step that fills no absent slot and leaves only Ready entries of the current
\* generation stays within the bounds.
LEMMA BoundedFrame ==
    ASSUME Bounded, generation' = generation,
           \A k \in Keys : entries'[k].state # "absent" => entries[k].state # "absent",
           \A k \in Keys : entries'[k].state = "ready" =>
               \/ entries[k].state = "ready" /\ entries'[k].gen = entries[k].gen
               \/ entries'[k].gen = generation
    PROVE  Bounded'
<1>1. HeldKeys(entries') \subseteq HeldKeys(entries)
  BY DEF HeldKeys
<1>2. Cardinality(HeldKeys(entries')) <= Cardinality(HeldKeys(entries))
  BY <1>1, HeldFinite, FS_Subset
<1>3. CapacityBound'
  BY <1>2, HeldFinite DEF Bounded, CapacityBound
<1>4. CurrentGenerationOnly'
  BY DEF Bounded, CurrentGenerationOnly, ReadyKeys
<1> QED
  BY <1>3, <1>4 DEF Bounded

\* Pruning alone stays within the bounds.
LEMMA BoundedPruning ==
    ASSUME Bounded, generation' = generation, entries' \in Prunings(entries)
    PROVE  Bounded'
<1>1. \A k \in Keys : entries'[k] = entries[k]
                      \/ (entries'[k] = Absent /\ entries[k].state = "ready")
  BY PruningDropsReady
<1> QED
  BY <1>1, BoundedFrame DEF Absent

\* A fetch that owns its slot may fill it: the slot was counted all along.
LEMMA BoundedInstall ==
    ASSUME TypeOK, Bounded, NEW r \in Requests, OwnsSlot(r), generation' = generation, NEW v,
           entries' \in Prunings([entries EXCEPT ![key[r]] = Ready(v, fetchGen[r])])
    PROVE  Bounded'
<1> DEFINE es == [entries EXCEPT ![key[r]] = Ready(v, fetchGen[r])]
<1>1. key[r] \in Keys /\ entries[key[r]].state # "absent" /\ fetchGen[r] = generation
  BY DEF TypeOK, OwnsSlot, SameGeneration, Loading
<1>2. /\ es[key[r]].state = "ready" /\ es[key[r]].gen = generation
      /\ \A k \in Keys \ {key[r]} : es[k] = entries[k]
  BY <1>1 DEF TypeOK, Ready
<1> HIDE DEF es
<1>3. \A k \in Keys : entries'[k] = es[k] \/ (entries'[k] = Absent /\ es[k].state = "ready")
  BY PruningDropsReady DEF es
<1>4. \A k \in Keys : entries'[k].state # "absent" => entries[k].state # "absent"
  BY <1>1, <1>2, <1>3 DEF Absent
<1>5. ASSUME NEW k \in Keys, entries'[k].state = "ready"
      PROVE  \/ entries[k].state = "ready" /\ entries'[k].gen = entries[k].gen
             \/ entries'[k].gen = generation
  <2>1. entries'[k] = es[k]
    BY <1>3, <1>5 DEF Absent
  <2> QED
    BY <1>2, <1>5, <2>1
<1> QED
  BY <1>4, <1>5, BoundedFrame

\* A fetch that gives up its slot stays within the bounds.
LEMMA BoundedRelease ==
    ASSUME TypeOK, Bounded, NEW r \in Requests, generation' = generation,
           entries' = [entries EXCEPT ![key[r]] = Absent]
    PROVE  Bounded'
<1>1. \A k \in Keys : entries'[k] = entries[k] \/ entries'[k] = Absent
  BY DEF TypeOK
<1> QED
  BY <1>1, BoundedFrame DEF Absent

LEMMA BoundedInit == Init => Bounded
<1> SUFFICES ASSUME Init PROVE Bounded
  OBVIOUS
<1>1. HeldKeys(entries) = {} /\ ReadyKeys(entries) = {}
  BY DEF Init, HeldKeys, ReadyKeys, Absent
<1> QED
  BY <1>1, FS_EmptySet DEF Bounded, CapacityBound, CurrentGenerationOnly

\* Every step stays within the bounds.
LEMMA BoundedStep == TypeOK /\ Owned /\ Bounded /\ [Next]_vars => Bounded'
<1> SUFFICES ASSUME TypeOK, Owned, Bounded, [Next]_vars PROVE Bounded'
  OBVIOUS
<1>1. ASSUME NEW r \in Requests, Replace(r) PROVE Bounded'
  <2> DEFINE es == [entries EXCEPT ![key[r]] = Loading(r)]
  <2>1. key[r] \in Keys /\ entries[key[r]].state = "ready" /\ generation' = generation
    BY <1>1 DEF Replace, IsReady, TypeOK
  <2>2. es[key[r]].state = "loading" /\ \A k \in Keys \ {key[r]} : es[k] = entries[k]
    BY <2>1 DEF TypeOK, Loading
  <2>3. entries' \in Prunings(es)
    BY <1>1 DEF Replace
  <2> HIDE DEF es
  <2>4. \A k \in Keys : entries'[k] = es[k] \/ (entries'[k] = Absent /\ es[k].state = "ready")
    BY <2>3, PruningDropsReady
  <2>5. \A k \in Keys : entries'[k].state # "absent" => entries[k].state # "absent"
    BY <2>1, <2>2, <2>4 DEF Absent
  <2>6. \A k \in Keys : entries'[k].state = "ready" => entries'[k] = entries[k]
    BY <2>1, <2>2, <2>4 DEF Absent
  <2> QED
    BY <2>1, <2>5, <2>6, BoundedFrame
<1>2. ASSUME NEW r \in Requests, Claim(r) PROVE Bounded'
  <2>1. PICK pruned \in Prunings(entries) :
           /\ Cardinality(HeldKeys(pruned)) < MaxEntries
           /\ entries' = [pruned EXCEPT ![key[r]] = Loading(r)]
    BY <1>2 DEF Claim, HasRoom
  <2>2. pruned \in [Keys -> Slots] /\ key[r] \in Keys
    BY <2>1, PruningType DEF TypeOK
  <2>3. HeldKeys(entries') \subseteq HeldKeys(pruned) \cup {key[r]}
    BY <2>1, <2>2 DEF HeldKeys
  <2>4. Cardinality(HeldKeys(pruned) \cup {key[r]}) <= Cardinality(HeldKeys(pruned)) + 1
    <3>1. CASE key[r] \in HeldKeys(pruned)
      <4>1. HeldKeys(pruned) \cup {key[r]} = HeldKeys(pruned)
        BY <3>1
      <4> QED
        BY <4>1, HeldFinite
    <3>2. CASE key[r] \notin HeldKeys(pruned)
      <4>1. Cardinality(HeldKeys(pruned) \cup {key[r]}) = Cardinality(HeldKeys(pruned)) + 1
        BY <3>2, HeldFinite, FS_AddElement
      <4> QED
        BY <4>1, HeldFinite
    <3> QED
      BY <3>1, <3>2
  <2>5. IsFiniteSet(HeldKeys(pruned) \cup {key[r]})
    BY HeldFinite, FS_AddElement
  <2>6. Cardinality(HeldKeys(entries')) <= Cardinality(HeldKeys(pruned) \cup {key[r]})
    BY <2>3, <2>5, FS_Subset
  <2>7. Cardinality(HeldKeys(pruned) \cup {key[r]}) \in Nat
    BY <2>5, FS_CardinalityType
  <2>8. CapacityBound'
    BY <2>1, <2>4, <2>6, <2>7, HeldFinite, CacheAssumption DEF CapacityBound
  <2>9. \A k \in Keys : entries'[k].state = "ready" => entries'[k] = entries[k]
    BY <2>1, <2>2, PruningDropsReady DEF Absent, Loading
  <2>10. CurrentGenerationOnly'
    BY <1>2, <2>9 DEF Claim, Bounded, CurrentGenerationOnly, ReadyKeys
  <2> QED
    BY <2>8, <2>10 DEF Bounded
<1>3. ASSUME NEW r \in Requests, Hydrate(r) PROVE Bounded'
  <2> DEFINE v == [ok |-> TRUE, size |-> carried[r].size, warm |-> TRUE]
  <2>1. generation' = generation
    BY <1>3 DEF Hydrate
  <2>2. \/ entries' = entries
        \/ entries' = [entries EXCEPT ![key[r]] = Absent]
        \/ /\ OwnsSlot(r)
           /\ entries' \in Prunings([entries EXCEPT ![key[r]] = Ready(v, fetchGen[r])])
    BY <1>3 DEF Hydrate
  <2> HIDE DEF v
  <2>3. CASE entries' = entries
    BY <2>1, <2>3, BoundedFrame
  <2> QED
    BY <2>1, <2>2, <2>3, BoundedRelease, BoundedInstall
<1>4. ASSUME NEW r \in Requests, Store(r) PROVE Bounded'
  <2>1. generation' = generation
    BY <1>4 DEF Store
  <2>2. \/ entries' = entries
        \/ entries' = [entries EXCEPT ![key[r]] = Absent]
        \/ /\ OwnsSlot(r)
           /\ entries' \in Prunings(
                  [entries EXCEPT ![key[r]] = Ready(carried[r], fetchGen[r])])
    BY <1>4 DEF Store, OwnsSlot, SameGeneration, Owned, SlotOwnership, Fetching
  <2>3. CASE entries' = entries
    BY <2>1, <2>3, BoundedFrame
  <2> QED
    BY <2>1, <2>2, <2>3, BoundedRelease, BoundedInstall
<1>5. ASSUME NEW r \in Requests, CancelFetch(r) PROVE Bounded'
  <2>1. generation' = generation
    BY <1>5 DEF CancelFetch
  <2>2. entries' = entries \/ entries' = [entries EXCEPT ![key[r]] = Absent]
    BY <1>5 DEF CancelFetch
  <2>3. CASE entries' = entries
    BY <2>1, <2>3, BoundedFrame
  <2> QED
    BY <2>1, <2>2, <2>3, BoundedRelease
<1>6. ASSUME NEW k \in Keys, Expire(k) PROVE Bounded'
  <2>1. entries[k] \in ReadySlots /\ entries \in [Keys -> Slots]
    BY <1>6, SlotFacts DEF Expire, IsReady, TypeOK
  <2>2. /\ entries'[k].state = "ready" /\ entries'[k].gen = entries[k].gen
        /\ \A j \in Keys \ {k} : entries'[j] = entries[j]
    BY <1>6, <2>1 DEF Expire, ReadySlots
  <2>3. entries[k].state = "ready" /\ generation' = generation
    BY <1>6 DEF Expire, IsReady
  <2> QED
    BY <2>2, <2>3, BoundedFrame
<1>7. ASSUME NEW r \in Requests, Reject(r) PROVE Bounded'
  <2>1. entries' \in Prunings(entries) /\ generation' = generation
    BY <1>7 DEF Reject
  <2> QED
    BY <2>1, BoundedPruning
<1>8. CASE Maintain
  BY <1>8, BoundedPruning DEF Maintain
<1>9. CASE InvalidateAll
  <2>1. HeldKeys(entries') = {} /\ ReadyKeys(entries') = {}
    BY <1>9 DEF InvalidateAll, HeldKeys, ReadyKeys, Absent
  <2> QED
    BY <2>1, FS_EmptySet DEF Bounded, CapacityBound, CurrentGenerationOnly
<1>10. ASSUME entries' = entries, generation' = generation PROVE Bounded'
  BY <1>10, BoundedFrame
<1> QED
  BY <1>1, <1>2, <1>3, <1>4, <1>5, <1>6, <1>7, <1>8, <1>9, <1>10
  DEF Next, Decide, Fetch, Arrive, Hit, Join, ReadDisk, MissDisk, UndecodableRow,
      LoaderReturns, CancelWaiter, Leave, WriterStep, vars

\* Ready and in-flight slots together never exceed max_entries.
THEOREM Capacity == Spec => []CapacityBound
<1>1. Spec => [](TypeOK /\ Owned /\ Bounded)
  BY Typing, OwnedInit, OwnedStep, BoundedInit, BoundedStep, PTL DEF Spec
<1> QED
  BY <1>1, PTL DEF Bounded

\* No result of a fetch that began before an invalidation is cached after it.
THEOREM CurrentGeneration == Spec => []CurrentGenerationOnly
<1>1. Spec => [](TypeOK /\ Owned /\ Bounded)
  BY Typing, OwnedInit, OwnedStep, BoundedInit, BoundedStep, PTL DEF Spec
<1> QED
  BY <1>1, PTL DEF Bounded

-----------------------------------------------------------------------------
\* The byte budget

\* The sum of some entries depends on their sizes alone: the folds over them
\* are the same function.
LEMMA BytesAlike ==
    ASSUME NEW es, NEW fs, NEW S, \A k \in S : es[k].value.size = fs[k].value.size
    PROVE  Bytes(es, S) = Bytes(fs, S)
<1> DEFINE pick(s) == CHOOSE x \in s : TRUE
           E(g) == g = [s \in SUBSET S |->
                           IF s = {} THEN 0 ELSE es[pick(s)].value.size + g[s \ {pick(s)}]]
           F(g) == g = [s \in SUBSET S |->
                           IF s = {} THEN 0 ELSE fs[pick(s)].value.size + g[s \ {pick(s)}]]
<1>1. \A s \in SUBSET S : s # {} => es[pick(s)].value.size = fs[pick(s)].value.size
  <2>1. \A s \in SUBSET S : s # {} => pick(s) \in S
    OBVIOUS
  <2> HIDE DEF pick
  <2> QED
    BY <2>1
<1>2. ASSUME NEW g PROVE E(g) <=> F(g)
  <2> HIDE DEF pick
  <2> QED
    BY <1>1
<1>3. (CHOOSE g : E(g)) = (CHOOSE g : F(g))
  <2> HIDE DEF E, F
  <2> QED
    BY <1>2, Zenon
<1>4. Bytes(es, S) = (CHOOSE g : E(g))[S]
  BY DEF Bytes, MapThenSumSet, MapThenFoldSet
<1>5. Bytes(fs, S) = (CHOOSE g : F(g))[S]
  BY DEF Bytes, MapThenSumSet, MapThenFoldSet
<1> QED
  BY <1>3, <1>4, <1>5, Zenon

LEMMA BytesOfNone ==
    ASSUME NEW es PROVE Bytes(es, {}) = 0
<1> DEFINE pick(s) == CHOOSE x \in s : TRUE
           E(g) == g = [s \in SUBSET {} |->
                           IF s = {} THEN 0 ELSE es[pick(s)].value.size + g[s \ {pick(s)}]]
           sum == CHOOSE g : E(g)
<1>1. E([s \in SUBSET {} |-> 0])
  <2> HIDE DEF pick
  <2> QED
    OBVIOUS
<1>2. E(sum)
  <2> HIDE DEF E
  <2> QED
    BY <1>1, Zenon
<1>3. sum[{}] = 0
  <2> HIDE DEF sum
  <2> QED
    BY <1>2
<1> QED
  BY <1>3 DEF Bytes, MapThenSumSet, MapThenFoldSet

\* Whatever was cached, what pruning leaves fits.
LEMMA PrunedBytes ==
    ASSUME NEW es, NEW p \in Prunings(es)
    PROVE  Bytes(p, ReadyKeys(p)) <= MaxBytes
<1> DEFINE live == Without(es, ExpiredKeys(es))
<1>1. PICK V \in Victims(live) : p = Without(live, V)
  BY DEF Prunings
<1> HIDE DEF live
<1>2. V \subseteq ReadyKeys(live) /\ Bytes(live, ReadyKeys(live) \ V) <= MaxBytes
  BY DEF Victims, WithinLimits
<1>3. /\ ReadyKeys(p) = ReadyKeys(live) \ V
      /\ \A k \in ReadyKeys(live) \ V : p[k] = live[k]
  BY <1>1 DEF Without, ReadyKeys, Absent
<1>4. Bytes(p, ReadyKeys(live) \ V) = Bytes(live, ReadyKeys(live) \ V)
  BY <1>3, BytesAlike
<1> QED
  BY <1>2, <1>3, <1>4

LEMMA BytesFrame ==
    ASSUME ByteBound, ReadyKeys(entries') = ReadyKeys(entries),
           \A k \in ReadyKeys(entries) : entries'[k].value.size = entries[k].value.size
    PROVE  ByteBound'
<1>1. Bytes(entries', ReadyKeys(entries)) = Bytes(entries, ReadyKeys(entries))
  BY BytesAlike
<1> QED
  BY <1>1 DEF ByteBound

\* A slot that was not Ready is emptied.
LEMMA BytesRelease ==
    ASSUME TypeOK, ByteBound, NEW r \in Requests, entries[key[r]].state # "ready",
           entries' = [entries EXCEPT ![key[r]] = Absent]
    PROVE  ByteBound'
<1>1. key[r] \in Keys /\ entries'[key[r]].state # "ready"
      /\ \A k \in Keys \ {key[r]} : entries'[k] = entries[k]
  BY DEF TypeOK, Absent
<1>2. ReadyKeys(entries') = ReadyKeys(entries)
  BY <1>1 DEF ReadyKeys
<1>3. \A k \in ReadyKeys(entries) : entries'[k].value.size = entries[k].value.size
  BY <1>1 DEF ReadyKeys
<1> QED
  BY <1>2, <1>3, BytesFrame

LEMMA BytesInit == Init => ByteBound
<1> SUFFICES ASSUME Init PROVE ByteBound
  OBVIOUS
<1>1. ReadyKeys(entries) = {}
  BY DEF Init, ReadyKeys, Absent
<1> QED
  BY <1>1, BytesOfNone, CacheAssumption DEF ByteBound

\* Every step stays within the budget.
LEMMA BytesStep == TypeOK /\ Owned /\ ByteBound /\ [Next]_vars => ByteBound'
<1> SUFFICES ASSUME TypeOK, Owned, ByteBound, [Next]_vars PROVE ByteBound'
  OBVIOUS
<1>1. ASSUME NEW es, entries' \in Prunings(es) PROVE ByteBound'
  BY <1>1, PrunedBytes DEF ByteBound
<1>2. ASSUME NEW r \in Requests, Claim(r) PROVE ByteBound'
  <2>1. PICK pruned \in Prunings(entries) : entries' = [pruned EXCEPT ![key[r]] = Loading(r)]
    BY <1>2 DEF Claim
  <2>2. pruned \in [Keys -> Slots] /\ key[r] \in Keys
    BY <2>1, PruningType DEF TypeOK
  <2>3. pruned[key[r]].state # "ready"
    BY <1>2, <2>2, PruningDropsReady DEF Claim, Absent
  <2>4. /\ entries'[key[r]].state # "ready"
        /\ \A k \in Keys \ {key[r]} : entries'[k] = pruned[k]
    BY <2>1, <2>2 DEF Loading
  <2>5. /\ ReadyKeys(entries') = ReadyKeys(pruned)
        /\ \A k \in ReadyKeys(pruned) : entries'[k] = pruned[k]
    BY <2>3, <2>4 DEF ReadyKeys
  <2>6. Bytes(entries', ReadyKeys(pruned)) = Bytes(pruned, ReadyKeys(pruned))
    BY <2>5, BytesAlike
  <2>7. Bytes(pruned, ReadyKeys(pruned)) <= MaxBytes
    BY PrunedBytes
  <2> QED
    BY <2>5, <2>6, <2>7 DEF ByteBound
<1>3. ASSUME entries' = entries PROVE ByteBound'
  BY <1>3, BytesFrame
<1>4. ASSUME NEW r \in Requests, OwnsSlot(r) PROVE entries[key[r]].state # "ready"
  BY <1>4 DEF OwnsSlot, Loading
<1>5. ASSUME NEW r \in Requests, Hydrate(r) PROVE ByteBound'
  <2>1. \/ entries' = entries
        \/ OwnsSlot(r) /\ entries' = [entries EXCEPT ![key[r]] = Absent]
        \/ \E es : entries' \in Prunings(es)
    BY <1>5, Zenon DEF Hydrate
  <2> QED
    BY <1>1, <1>3, <1>4, <2>1, BytesRelease
<1>6. ASSUME NEW r \in Requests, Store(r) PROVE ByteBound'
  <2>1. \/ entries' = entries
        \/ SameGeneration(r) /\ entries' = [entries EXCEPT ![key[r]] = Absent]
        \/ \E es : entries' \in Prunings(es)
    BY <1>6, Zenon DEF Store
  <2>2. SameGeneration(r) => OwnsSlot(r)
    BY <1>6 DEF Store, OwnsSlot, SameGeneration, Owned, SlotOwnership, Fetching
  <2> QED
    BY <1>1, <1>3, <1>4, <2>1, <2>2, BytesRelease
<1>7. ASSUME NEW r \in Requests, CancelFetch(r) PROVE ByteBound'
  <2>1. \/ entries' = entries
        \/ OwnsSlot(r) /\ entries' = [entries EXCEPT ![key[r]] = Absent]
    BY <1>7 DEF CancelFetch
  <2> QED
    BY <1>3, <1>4, <2>1, BytesRelease
<1>8. ASSUME NEW k \in Keys, Expire(k) PROVE ByteBound'
  <2>1. entries[k] \in ReadySlots /\ entries \in [Keys -> Slots]
    BY <1>8, SlotFacts DEF Expire, IsReady, TypeOK
  <2>2. /\ entries'[k].state = "ready" /\ entries'[k].value = entries[k].value
        /\ entries[k].state = "ready" /\ \A j \in Keys \ {k} : entries'[j] = entries[j]
    BY <1>8, <2>1 DEF Expire, ReadySlots
  <2>3. ReadyKeys(entries') = ReadyKeys(entries)
    BY <2>2 DEF ReadyKeys
  <2>4. \A j \in ReadyKeys(entries) : entries'[j].value.size = entries[j].value.size
    BY <2>2 DEF ReadyKeys
  <2> QED
    BY <2>3, <2>4, BytesFrame
<1>9. CASE InvalidateAll
  <2>1. ReadyKeys(entries') = {}
    BY <1>9 DEF InvalidateAll, ReadyKeys, Absent
  <2> QED
    BY <2>1, BytesOfNone, CacheAssumption DEF ByteBound
<1>10. ASSUME NEW r \in Requests, Replace(r) \/ Reject(r) PROVE ByteBound'
  BY <1>1, <1>10, Zenon DEF Replace, Reject
<1>11. CASE Maintain
  BY <1>1, <1>11, Zenon DEF Maintain
<1> QED
  BY <1>2, <1>3, <1>5, <1>6, <1>7, <1>8, <1>9, <1>10, <1>11
  DEF Next, Decide, Fetch, Arrive, Hit, Join, ReadDisk, MissDisk, UndecodableRow,
      LoaderReturns, CancelWaiter, Leave, WriterStep, vars

\* The payloads held in memory stay within the byte budget, whatever was stored,
\* hydrated or expired since the last pruning (prune_lookup_cache_with_limits).
THEOREM Budget == Spec => []ByteBound
<1>1. Spec => [](TypeOK /\ Owned /\ ByteBound)
  BY Typing, OwnedInit, OwnedStep, BytesInit, BytesStep, PTL DEF Spec
<1> QED
  BY <1>1, PTL

-----------------------------------------------------------------------------
\* Obsolete fetches

\* A step of a fetch that an invalidation made obsolete changes no slot.
THEOREM ObsoleteHarmless == Spec => ObsoleteFetchHarmless
<1>1. ASSUME TypeOK, Owned, [Next]_vars, NEW r \in Requests, pc[r] \in Fetching,
             fetchGen[r] # generation, pc'[r] # pc[r]
      PROVE  entries' = entries
  <2>1. ~OwnsSlot(r)
    BY <1>1 DEF OwnsSlot, SameGeneration
  <2>2. \A q \in Requests : Hydrate(q) \/ Store(q) \/ CancelFetch(q) => q = r
    BY <1>1, NotifyType DEF Hydrate, Store, CancelFetch, NotifyWaiters, Wake, Notified,
       Fetching, TypeOK
  <2>3. \A q \in Requests : Replace(q) \/ Claim(q) \/ Reject(q) => q = r
    BY <1>1 DEF Replace, Claim, Reject, TypeOK
  <2>4. ~\E q \in Requests : Replace(q) \/ Claim(q) \/ Reject(q)
    BY <1>1, <2>3 DEF Replace, Claim, Reject, Fetching
  <2>5. ~(\/ \E k \in Keys : Expire(k)
          \/ Maintain \/ InvalidateAll)
    BY <1>1 DEF Expire, Maintain, InvalidateAll
  <2>6. Hydrate(r) \/ Store(r) \/ CancelFetch(r) => entries' = entries
    BY <1>1, <2>1 DEF Hydrate, Store, CancelFetch, SameGeneration
  <2> QED
    BY <1>1, <2>2, <2>4, <2>5, <2>6
    DEF Next, Decide, Fetch, Arrive, Hit, Join, ReadDisk, MissDisk, UndecodableRow,
        LoaderReturns, CancelWaiter, Leave, WriterStep, vars
<1>2. TypeOK /\ Owned /\ [Next]_vars =>
        [\A r \in Requests :
            (pc[r] \in Fetching /\ fetchGen[r] # generation /\ pc'[r] # pc[r])
                => entries' = entries]_vars
  BY <1>1
<1> QED
  BY <1>2, Typing, OwnedInit, OwnedStep, PTL DEF Spec, ObsoleteFetchHarmless

-----------------------------------------------------------------------------
\* The cache implements SingleFlight

flights == [k \in Keys |-> Flight(k)]

\* Steps that begin and end no current fetch stutter.
LEMMA FlightFrame ==
    ASSUME generation' = generation,
           \A r \in Requests : pc'[r] \in Fetching <=> pc[r] \in Fetching,
           \A r \in Requests : pc[r] \in Fetching =>
                                    key'[r] = key[r] /\ fetchGen'[r] = fetchGen[r]
    PROVE  flights' = flights
  BY DEF flights, Flight

\* A request that starts a fetch of a key that is not Loading begins its flight.
LEMMA FlightBegins ==
    ASSUME TypeOK, Owned, NEW r \in Requests, pc[r] = "deciding", pc'[r] \in Fetching,
           \A q \in Requests \ {r} : pc'[q] = pc[q],
           entries[key[r]].state # "loading",
           fetchGen' = [fetchGen EXCEPT ![r] = generation],
           generation' = generation, key' = key
    PROVE  Flights!Begin(r, key[r])
<1>1. Flight(key[r]) = {}
  <2>1. \A q \in Flight(key[r]) : entries[key[r]] = Loading(q)
    BY DEF Flight, Owned, SlotOwnership
  <2>2. \A q : Loading(q).state = "loading"
    BY DEF Loading
  <2> QED
    BY <2>1, <2>2
<1>2. \A j \in Keys : r \notin Flight(j)
  BY DEF Flight, Fetching
<1>3. \A k \in Keys : Flight(k)' = IF k = key[r] THEN {r} ELSE Flight(k)
  <2>1. \A q \in Requests \ {r} : fetchGen'[q] = fetchGen[q]
    BY DEF TypeOK
  <2>2. fetchGen'[r] = generation
    BY DEF TypeOK
  <2> QED
    BY <1>1, <1>2, <2>1, <2>2 DEF Flight
<1>4. key[r] \in Keys
  BY DEF TypeOK
<1> QED
  BY <1>1, <1>2, <1>3, <1>4 DEF Flights!Begin

\* A fetch that finishes ends its flight, or stutters if it was obsolete.
LEMMA FlightEnds ==
    ASSUME TypeOK, Owned, NEW r \in Requests, NEW next \in Finished,
           pc[r] \in Fetching, NotifyWaiters(r, next), generation' = generation
    PROVE  Flights!End(r, key[r]) \/ flights' = flights
<1>1. key' = key /\ fetchGen' = fetchGen /\ key[r] \in Keys
  BY DEF NotifyWaiters, Wake, TypeOK
<1>2. \A q \in Requests : pc'[q] \in Fetching <=> pc[q] \in Fetching /\ q # r
  BY NotifyType DEF Fetching, Finished
<1>3. \A k \in Keys : Flight(k)' = Flight(k) \ {r}
  BY <1>1, <1>2 DEF Flight
<1>4. CASE fetchGen[r] = generation
  <2>1. Flight(key[r]) = {r}
    <3>1. \A q \in Flight(key[r]) \cup {r} : entries[key[r]] = Loading(q)
      BY <1>4 DEF Flight, Owned, SlotOwnership
    <3>2. \A q : Loading(q) = Loading(r) => q = r
      BY DEF Loading
    <3>3. r \in Flight(key[r])
      BY <1>4 DEF Flight
    <3> QED
      BY <3>1, <3>2, <3>3
  <2>2. \A k \in Keys : Flight(k)' = IF k = key[r] THEN {} ELSE Flight(k)
    <3>1. \A k \in Keys \ {key[r]} : r \notin Flight(k)
      BY DEF Flight
    <3> QED
      BY <1>3, <2>1, <3>1
  <2> QED
    BY <1>1, <2>1, <2>2 DEF Flights!End
<1>5. CASE fetchGen[r] # generation
  <2>1. \A k \in Keys : r \notin Flight(k)
    BY <1>5 DEF Flight
  <2> QED
    BY <1>3, <2>1 DEF flights
<1> QED
  BY <1>4, <1>5

\* Every step of the cache is a step of SingleFlight or a stutter.
LEMMA FlightStep ==
    TypeOK /\ Owned /\ [Next]_vars => [Flights!Next]_flights
<1> SUFFICES ASSUME TypeOK, Owned, [Next]_vars
             PROVE  Flights!Next \/ flights' = flights
  OBVIOUS
<1>0. \A r \in Requests : key[r] \in Keys
  BY DEF TypeOK
<1>1. ASSUME NEW r \in Requests, Replace(r) \/ Claim(r)
      PROVE  Flights!Next
  <2>1. /\ pc[r] = "deciding" /\ pc'[r] \in Fetching
        /\ \A q \in Requests \ {r} : pc'[q] = pc[q]
        /\ entries[key[r]].state # "loading"
        /\ fetchGen' = [fetchGen EXCEPT ![r] = generation]
        /\ generation' = generation /\ key' = key
    BY <1>1 DEF Replace, Claim, IsReady, Absent, Fetching, TypeOK
  <2>2. Flights!Begin(r, key[r])
    BY <2>1, FlightBegins
  <2> QED
    BY <1>0, <2>2 DEF Flights!Next
<1>2. ASSUME NEW r \in Requests, Hydrate(r) \/ Store(r) \/ CancelFetch(r)
      PROVE  Flights!Next \/ flights' = flights
  <2>1. PICK next \in Finished : NotifyWaiters(r, next)
    BY <1>2 DEF Hydrate, Store, CancelFetch, Finished
  <2>2. pc[r] \in Fetching /\ generation' = generation
    BY <1>2 DEF Hydrate, Store, CancelFetch, Fetching
  <2>3. Flights!End(r, key[r]) \/ flights' = flights
    BY <2>1, <2>2, FlightEnds
  <2> QED
    BY <1>0, <2>3 DEF Flights!Next
<1>3. CASE InvalidateAll
  <2>1. \A r \in Requests : fetchGen'[r] # generation'
    BY <1>3 DEF InvalidateAll, request, Owned, NoFutureFetch, TypeOK
  <2>2. \A k \in Keys : Flight(k)' = {}
    BY <2>1 DEF Flight
  <2> QED
    BY <2>2 DEF Flights!Next, Flights!AbandonAll
<1>4. ASSUME NEW r \in Requests,
             \/ \E k \in Keys, f \in BOOLEAN : Arrive(r, k, f)
             \/ Hit(r) \/ Join(r) \/ Reject(r)
             \/ ReadDisk(r) \/ MissDisk(r) \/ UndecodableRow(r) \/ LoaderReturns(r)
             \/ CancelWaiter(r) \/ Leave(r)
      PROVE  flights' = flights
  <2>1. generation' = generation
    BY <1>4 DEF Arrive, Hit, Join, Reject, ReadDisk, MissDisk, UndecodableRow,
       LoaderReturns, CancelWaiter, Leave
  <2>2. \A q \in Requests : pc'[q] \in Fetching <=> pc[q] \in Fetching
    BY <1>4 DEF Arrive, Hit, Join, Reject, ReadDisk, MissDisk, UndecodableRow,
       LoaderReturns, CancelWaiter, Leave, TypeOK, Fetching, Finished
  <2>3. \A q \in Requests : pc[q] \in Fetching =>
           key'[q] = key[q] /\ fetchGen'[q] = fetchGen[q]
    BY <1>4 DEF Arrive, Hit, Join, Reject, ReadDisk, MissDisk, UndecodableRow,
       LoaderReturns, CancelWaiter, Leave, request, TypeOK, Fetching, Finished
  <2> QED
    BY <2>1, <2>2, <2>3, FlightFrame
<1>5. ASSUME generation' = generation, pc' = pc, key' = key, fetchGen' = fetchGen
      PROVE  flights' = flights
  BY <1>5, FlightFrame
<1> QED
  BY <1>1, <1>2, <1>3, <1>4, <1>5
  DEF Next, Decide, Fetch, Expire, Maintain, WriterStep, request, vars

\* The cache implements the abstract single-flight specification.
THEOREM Refinement == Spec => OneFlightPerKey
<1>1. Init => Flights!Init
  BY DEF Init, Flights!Init, Flight, Fetching
<1>2. TypeOK /\ Owned /\ [Next]_vars => [Flights!Next]_flights
  BY FlightStep
<1> QED
  BY <1>1, <1>2, Typing, OwnedInit, OwnedStep, PTL
  DEF Spec, OneFlightPerKey, Flights!Spec, flights
=============================================================================
