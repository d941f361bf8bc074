-------------------------- MODULE PersistentStore --------------------------
(***************************************************************************)
(* The persistent lookup store of the service                              *)
(* (crates/shipflow-service-runtime/src/persistent_store.rs): one SQLite   *)
(* table, a reader used by lookups, and a writer thread fed by a bounded   *)
(* queue, which applies what it takes from it in one transaction.          *)
(*                                                                         *)
(* A row is known by the request that stored it, and by whether it may be  *)
(* served: "dead" rows have expired or hold a payload that is too large or *)
(* embeds an image, "old" ones only exceed the configured age.             *)
(***************************************************************************)
EXTENDS Naturals, Sequences, SequencesExt, FiniteSets, FiniteSetsExt

CONSTANTS
    Keys, Writers,        \* cache keys; the requests that store and remove
    Flushers,             \* the callers of flush
    QueueCapacity,        \* MAX_BUFFERED_PERSISTENT_WRITES
    BatchLimit,           \* MAX_WRITES_PER_TRANSACTION
    MaxRows,              \* max_entries
    BootLegacy,           \* bound: what the former JSON store may hold
    MaxFaults             \* bound: transactions that fail

VARIABLES
    table,      \* lookup_cache
    queue,      \* the channel to the writer
    writer,     \* "absent", "opening", "running", "rejecting" or "ended"
    batch,      \* the commands of the transaction under way
    failed,     \* the sticky flag
    flushing,   \* each call of flush
    unwritten,  \* history: accepted stores that no committed batch holds
    faults

storeVars == <<table, queue, writer, batch, failed, flushing, unwritten, faults>>

Row == [by : Writers \cup {"earlier"}, life : {"fresh", "old", "dead"}]
NoRow == [none |-> TRUE]
Live(t) == {k \in Keys : t[k] # NoRow /\ t[k].life # "dead"}

StoreCommand(k, r) == [op |-> "store", key |-> k, by |-> r]
RemoveCommand(k, r) == [op |-> "remove", key |-> k, by |-> r]
FlushCommand(f) == [op |-> "flush", by |-> f]
Shutdown == [op |-> "shutdown"]

NotFlushing == [pc |-> "idle", before |-> {}]

ASSUME StoreAssumption ==
    /\ QueueCapacity \in Nat \ {0} /\ BatchLimit \in Nat \ {0} /\ MaxRows \in Nat \ {0}
    /\ BootLegacy \subseteq [Keys -> Row \cup {NoRow}]

-----------------------------------------------------------------------------
(* Opening: rows of the former JSON store fill the gaps when they may      *)
(* still be served.                                                        *)

WithLegacyRows(t, legacy) ==
    [k \in Keys |-> IF t[k] = NoRow /\ k \in Live(legacy) THEN legacy[k] ELSE t[k]]

\* The strict store migrates nothing; a fallback path holds an empty table.
OpenStore(legacies) ==
    /\ \E legacy \in legacies : table' = WithLegacyRows(table, legacy)
    /\ writer' = "opening"
    /\ UNCHANGED <<queue, batch, failed, flushing, unwritten, faults>>

OpenFallback ==
    /\ \E legacy \in BootLegacy :
          table' = WithLegacyRows([k \in Keys |-> NoRow], legacy)
    /\ writer' = "opening"
    /\ UNCHANGED <<queue, batch, failed, flushing, unwritten, faults>>

(* The writer opens a connection of its own.                               *)
WriterOpens ==
    /\ writer = "opening"
    /\ \/ writer' = "running" /\ UNCHANGED faults
       \/ faults < MaxFaults /\ writer' = "rejecting" /\ faults' = faults + 1
    /\ UNCHANGED <<table, queue, batch, failed, flushing, unwritten>>

-----------------------------------------------------------------------------
(* Callers.  try_send drops what does not fit.                             *)

Accepts == writer \notin {"absent", "ended"} /\ Len(queue) < QueueCapacity

EnqueueStore(k, r) ==
    IF Accepts THEN queue' = Append(queue, StoreCommand(k, r)) /\ unwritten' = unwritten \cup {r}
    ELSE UNCHANGED <<queue, unwritten>>
EnqueueRemove(k, r) ==
    queue' = IF Accepts THEN Append(queue, RemoveCommand(k, r)) ELSE queue

(* load_success_fresh: nothing, a row to serve, or a row to remove.        *)
Loaded(k) == IF table[k] = NoRow THEN "missing"
             ELSE IF table[k].life = "fresh" THEN "fresh" ELSE "stale"

(* flush: it waits for room until its deadline, then for the writer, and   *)
(* fails too if any batch of this process has.                             *)
FlushBegins(f) ==
    flushing' = [flushing EXCEPT ![f] = [pc |-> "sending", before |-> unwritten]]

FlushSends(f) ==
    /\ flushing[f].pc = "sending"
    /\ \/ /\ Accepts
          /\ queue' = Append(queue, FlushCommand(f))
          /\ flushing' = [flushing EXCEPT ![f].pc = "waiting"]
       \/ /\ ~Accepts      \* queue full until the deadline, or no writer
          /\ flushing' = [flushing EXCEPT ![f].pc = "error"]
          /\ UNCHANGED queue
    /\ UNCHANGED <<table, writer, batch, failed, unwritten, faults>>

FlushTimesOut(f) ==
    /\ flushing[f].pc = "waiting"
    /\ flushing' = [flushing EXCEPT ![f].pc = "error"]
    /\ UNCHANGED <<table, queue, writer, batch, failed, unwritten, faults>>

ResultIfAcknowledged == "ok"                                    \* mutant
FlushResult == IF failed THEN "error" ELSE "ok"
FlushReturns(f) ==
    /\ flushing[f].pc = "committed"
    /\ flushing' = [flushing EXCEPT ![f].pc = FlushResult]
    /\ UNCHANGED <<table, queue, writer, batch, failed, unwritten, faults>>

-----------------------------------------------------------------------------
(* The writer thread.                                                      *)

\* Any prefix: try_recv finds the queue empty whenever producers are late.
TakeBatch ==
    /\ writer = "running" /\ batch = <<>>
    /\ \E n \in 1..BatchLimit :
          /\ n <= Len(queue)
          /\ Shutdown \notin ToSet(SubSeq(queue, 1, n))
          /\ batch' = SubSeq(queue, 1, n)
          /\ queue' = SubSeq(queue, n + 1, Len(queue))
    /\ UNCHANGED <<table, writer, failed, flushing, unwritten, faults>>

Written(t, command) ==
    IF command.op = "store"
    THEN [t EXCEPT ![command.key] = [by |-> command.by, life |-> "fresh"]]
    ELSE IF command.op = "remove" THEN [t EXCEPT ![command.key] = NoRow] ELSE t

(* Dead rows go, then those that expire first: any, to the model.          *)
Prunings(t) ==
    LET room == IF Cardinality(Live(t)) < MaxRows THEN Cardinality(Live(t)) ELSE MaxRows
    IN  {[k \in Keys |-> IF k \in S THEN t[k] ELSE NoRow] : S \in kSubset(room, Live(t))}

Answered(outcome) ==
    [f \in Flushers |-> IF flushing[f].pc = "waiting" /\ FlushCommand(f) \in ToSet(batch)
                        THEN [flushing[f] EXCEPT !.pc = outcome] ELSE flushing[f]]

BatchCommits ==
    /\ table' \in Prunings(FoldLeft(Written, table, batch))
    /\ unwritten' = unwritten \ {r \in Writers : \E k \in Keys : StoreCommand(k, r) \in ToSet(batch)}
    /\ flushing' = Answered("committed")
    /\ UNCHANGED <<failed, faults>>

(* One statement, the pruning or the commit fails: all of it is undone.    *)
BatchRollsBack ==
    /\ faults < MaxFaults /\ faults' = faults + 1
    /\ failed' = TRUE
    /\ flushing' = Answered("error")
    /\ UNCHANGED <<table, unwritten>>

WriteBatch ==
    /\ batch # <<>> /\ batch' = <<>>
    /\ BatchCommits \/ BatchRollsBack
    /\ UNCHANGED <<queue, writer>>

(* A writer that could not open its connection answers every command.      *)
RejectCommand ==
    /\ writer = "rejecting" /\ queue # <<>> /\ Head(queue) # Shutdown
    /\ flushing' = [f \in Flushers |->
           IF flushing[f].pc = "waiting" /\ Head(queue) = FlushCommand(f)
           THEN [flushing[f] EXCEPT !.pc = "error"] ELSE flushing[f]]
    /\ queue' = Tail(queue)
    /\ UNCHANGED <<table, writer, batch, failed, unwritten, faults>>

WriterEndsIfItRan ==                                            \* mutant
    /\ writer = "running" /\ batch = <<>>
    /\ queue # <<>> /\ Head(queue) = Shutdown
    /\ writer' = "ended" /\ queue' = <<>>
    /\ UNCHANGED <<table, batch, failed, flushing, unwritten, faults>>
WriterEnds ==
    /\ writer \in {"running", "rejecting"} /\ batch = <<>>
    /\ queue # <<>> /\ Head(queue) = Shutdown
    /\ writer' = "ended" /\ queue' = <<>>
    /\ UNCHANGED <<table, batch, failed, flushing, unwritten, faults>>

WriterStep == WriterOpens \/ TakeBatch \/ WriteBatch \/ RejectCommand \/ WriterEnds

-----------------------------------------------------------------------------
(* Drop of the last handle: Shutdown is sent when there is room, and the   *)
(* thread is joined.                                                       *)
DropStore ==
    /\ Shutdown \notin ToSet(queue) /\ Accepts
    /\ queue' = Append(queue, Shutdown)
    /\ UNCHANGED <<table, writer, batch, failed, flushing, unwritten, faults>>
Joined == writer \in {"absent", "ended"}

(* The process is gone: the table alone remains.                           *)
StoreLost ==
    /\ queue' = <<>> /\ batch' = <<>> /\ writer' = "absent" /\ failed' = FALSE
    /\ flushing' = [f \in Flushers |-> NotFlushing]
    /\ UNCHANGED <<table, faults>>

StoreInit ==
    /\ queue = <<>> /\ batch = <<>> /\ writer = "absent" /\ failed = FALSE
    /\ flushing = [f \in Flushers |-> NotFlushing]
    /\ unwritten = {} /\ faults = 0
=============================================================================
