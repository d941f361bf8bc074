----------------------------- MODULE ImportJobs -----------------------------
(***************************************************************************)
(* Import jobs: the bags and manifests whose shipments become rows of a    *)
(* sheet (crates/shipflow-workspace-engine/src/import_engine.rs,           *)
(* storage.rs, engine.rs, imports.rs, jobs.rs).                            *)
(*                                                                         *)
(* A job has an item for each source.  A run claims one pending item after *)
(* another, records an attempt, asks the source and commits what it found. *)
(* A manifest that is found adds its bags to the job; a bag that is found  *)
(* adds its shipments to the sheet.  A second connection may cancel the    *)
(* job between any two commits of the run, the process may die between     *)
(* them, and the store may refuse one; an engine that opens its database   *)
(* puts back what a dead run left, in three commits.                       *)
(***************************************************************************)
EXTENDS SheetRows

CONSTANTS
    Jobs,             \* next_import_job_id: no identifier is used twice
    Sources,          \* bags and manifests
    BagAnswers,       \* bound: what each source may answer, as a bag: lists
    ManifestAnswers,  \*        of shipments, and as a manifest: lists of bags
    NotFound,         \* a failed or late answer
    Requests,         \* bound: the lists of sources of a new job
    MaxSources,       \* MAX_IMPORT_SOURCE_IDS
    MaxItems,         \* MAX_IMPORT_JOB_ITEMS
    MaxAttempts       \* retry_policy.max_attempts

ASSUME ImportAssumption ==
    /\ BagAnswers \in [Sources -> SUBSET Seq(Shown)]
    /\ ManifestAnswers \in [Sources -> SUBSET Seq(Sources)]
    /\ \A q \in Requests : q.kind \in {"bag", "manifest"} /\ q.sources \in Seq(Sources)
    /\ \A x \in Sources : NotFound \notin BagAnswers[x] \cup ManifestAnswers[x]

VARIABLES
    jobs,       \* the table import_jobs, by id
    items,      \* the items of each job, in the order of their positions
    runner,     \* the run of the engine
    engine      \* up, or how far its opening has come

jobVars == <<jobs, items, runner, engine>>

ItemStatus == {"pending", "running", "succeeded", "failed", "cancelled"}
AttemptStatus == {"running", "succeeded", "failed", "cancelled", "interrupted"}
JobStatus == {"pending", "running", "completed", "failed", "cancelled"}
Item == [source : Sources, kind : {"bag", "manifest", "manifest_bag"},
         status : ItemStatus, count : Nat, attempts : Seq(AttemptStatus)]
Job == [sheet : Sheets, status : JobStatus,
        total : Nat, success : Nat, failed : Nat, pending : Nat]
IdleRunner == [pc |-> "idle"]
Running(job, pc) == [pc |-> pc, job |-> job, item |-> 0, left |-> {}, found |-> NotFound]

JobsTypeOK ==
    /\ DOMAIN jobs \subseteq Jobs /\ DOMAIN items = DOMAIN jobs
    /\ \A j \in DOMAIN jobs : jobs[j] \in Job /\ items[j] \in Seq(Item)
    /\ engine \in [pc : {"up", "down", "attempts", "items", "counts"}, left : SUBSET DOMAIN jobs]

-----------------------------------------------------------------------------
(* Statements on a job.                                                    *)

With(list, S) == {n \in DOMAIN list : list[n].status \in S}
Count(list, S) == Cardinality(With(list, S))

(* recompute_import_job_counts_on: a cancelled job stays cancelled.        *)
StatusOf(job, list) ==
    CASE job.status = "cancelled"                 -> "cancelled"
      [] With(list, {"pending", "running"}) # {}  -> "running"
      [] With(list, {"failed"}) # {}              -> "failed"
      [] With(list, {"succeeded"}) = DOMAIN list  -> "completed"
      [] OTHER                                    -> "pending"
Recomputed(job, list) ==
    [job EXCEPT !.total = Len(list), !.success = Count(list, {"succeeded"}),
                !.failed = Count(list, {"failed"}),
                !.pending = Count(list, {"pending", "running"}),
                !.status = StatusOf(job, list)]

(* The items of a job change and its counts with them.                     *)
ItemsOnly(j, list) == items' = [items EXCEPT ![j] = list]
Recounts(j, list) ==
    /\ ItemsOnly(j, list)
    /\ jobs' = [jobs EXCEPT ![j] = Recomputed(jobs[j], list)]

NewItem(source, kind) ==
    [source |-> source, kind |-> kind, status |-> "pending", count |-> 0, attempts |-> <<>>]
NewItems(list, sources, kind) ==
    LET known == {list[n].source : n \in {m \in DOMAIN list : list[m].kind = kind}}
        new == Selected(sources, {n \in DOMAIN sources : sources[n] \notin known})
    IN  list \o [k \in DOMAIN new |-> NewItem(new[k], kind)]

LastAttempt(item, status) == [item.attempts EXCEPT ![Len(item.attempts)] = status]
Settled(item, status) ==
    [item EXCEPT !.status = status, !.attempts = LastAttempt(item, status)]

-----------------------------------------------------------------------------
(* Commands.                                                               *)

\* create_job.  The sheet exists afterwards even if the sources are refused.
CreateJob(j, s, kind, sources, replace) ==
    LET refused == Len(sources) > MaxSources
        list == NewItems(<<>>, Distinct(sources), kind)
        empty == [sheet |-> s, status |-> "pending", total |-> 0, success |-> 0,
                  failed |-> 0, pending |-> 0]
    IN  /\ j \notin DOMAIN jobs
        /\ Ensured({s})
        /\ Answer("import", ~refused)
        /\ IF refused THEN UNCHANGED <<rows, jobs, items>>
           ELSE /\ rows' = IF replace THEN Without(rows, RowsOf(rows, s)) ELSE rows
                /\ jobs' = Inserting(jobs, j, Recomputed(empty, list))
                /\ items' = Inserting(items, j, list)
        /\ UNCHANGED <<runner, engine>>

\* cancel_import_job, of this engine or of another connection.
CancelledItem(item) ==
    IF item.status \notin {"pending", "running"} THEN item
    ELSE [item EXCEPT !.status = "cancelled",
            !.attempts = [k \in DOMAIN item.attempts |->
                IF item.attempts[k] = "running" THEN "cancelled" ELSE item.attempts[k]]]
CancelJob(j) ==
    LET list == [n \in DOMAIN items[j] |-> CancelledItem(items[j][n])] IN
    /\ ItemsOnly(j, list)
    /\ jobs' = [jobs EXCEPT ![j].status = "cancelled", ![j].pending = 0,
                            ![j].success = Count(list, {"succeeded"}),
                            ![j].failed = Count(list, {"failed"})]
    /\ UNCHANGED <<sheetVars, runner, engine>>

\* The jobs of a sheet go with it, and with the sheets of the old document.
JobsOf(S) == {j \in DOMAIN jobs : jobs[j].sheet \in S}
JobsStay(S) ==
    /\ jobs' = Restrict(jobs, DOMAIN jobs \ JobsOf(S))
    /\ items' = Restrict(items, DOMAIN items \ JobsOf(S))
    /\ UNCHANGED <<runner, engine>>

-----------------------------------------------------------------------------
(* A run.  `mine` is the item it works on, if the job still has it.        *)

At(pc) == runner.pc = pc
Goes(pc) == runner' = [runner EXCEPT !.pc = pc]
itsItems == items[runner.job]
mine == itsItems[runner.item]
Replaced(item) == [itsItems EXCEPT ![runner.item] = item]
Fails == runner' = IdleRunner

RunJob(j) ==
    /\ At("idle") /\ runner' = Running(j, "claim")
    /\ UNCHANGED <<sheetVars, jobs, items, engine>>

\* retry_import_job_failed reads the items once, requeues them one commit
\* at a time and then recounts.
RetryJob(j) ==
    /\ At("idle")
    /\ runner' = [Running(j, "requeue") EXCEPT !.left =
           {n \in DOMAIN items[j] : items[j][n].status = "failed"
                                    /\ items[j][n].count < MaxAttempts}]
    /\ UNCHANGED <<sheetVars, jobs, items, engine>>

RequeuedAnew(item) == [item EXCEPT !.status = "pending", !.count = 0]    \* mutant
Requeued(item) == [item EXCEPT !.status = "pending"]
Requeue ==
    /\ At("requeue") /\ runner.left # {}
    /\ LET n == Min(runner.left) IN
       /\ ItemsOnly(runner.job, [itsItems EXCEPT ![n] = Requeued(@)])
       /\ runner' = [runner EXCEPT !.left = @ \ {n}]
    /\ UNCHANGED <<sheetVars, jobs, engine>>

Recount ==
    /\ At("requeue") /\ runner.left = {}
    /\ Recounts(runner.job, itsItems)
    /\ Goes("claim")
    /\ UNCHANGED <<sheetVars, engine>>

\* claim_next_pending_import_job_item.
Claimable ==
    IF jobs[runner.job].status = "cancelled" THEN {} ELSE With(itsItems, {"pending"})
Claim ==
    /\ At("claim")
    /\ IF Claimable = {} THEN Fails /\ UNCHANGED <<jobs, items>>
       ELSE LET n == Min(Claimable) IN
            /\ Recounts(runner.job, [itsItems EXCEPT ![n].status = "running"])
            /\ runner' = [runner EXCEPT !.pc = "start", !.item = n]
    /\ UNCHANGED <<sheetVars, engine>>

\* start_import_attempt: the attempt is named after the count of attempts,
\* and its name is a primary key.
StartAttempt ==
    /\ At("start")
    /\ IF mine.status # "running" \/ mine.count < Len(mine.attempts)
       THEN Fails /\ UNCHANGED <<jobs, items>>
       ELSE /\ Recounts(runner.job, Replaced([mine EXCEPT !.count = @ + 1,
                                                !.attempts = Append(@, "running")]))
            /\ Goes("fetch")
    /\ UNCHANGED <<sheetVars, engine>>

\* fetch_bag_with_timeout, fetch_manifest_with_timeout.
Fetch ==
    /\ At("fetch")
    /\ \E found \in {NotFound} \cup (IF mine.kind = "manifest" THEN ManifestAnswers[mine.source]
                                     ELSE BagAnswers[mine.source]) :
          runner' = [runner EXCEPT !.pc = "finish", !.found = found]
    /\ UNCHANGED <<sheetVars, jobs, items, engine>>

(* running_import_attempt_context: what was cancelled meanwhile is not     *)
(* finished.                                                               *)
AttemptRunning ==
    /\ mine.status = "running" /\ mine.attempts[mine.count] = "running"
    /\ jobs[runner.job].status # "cancelled"

TooMany ==
    /\ runner.found # NotFound /\ mine.kind = "manifest"
    /\ Len(itsItems) + Len(Distinct(runner.found)) > MaxItems
FinishFailed ==
    /\ runner.found = NotFound \/ TooMany
    /\ Recounts(runner.job, Replaced(Settled(mine, "failed")))
    /\ UNCHANGED rows

FinishManifest ==
    /\ mine.kind = "manifest" /\ runner.found # NotFound /\ ~TooMany
    /\ Recounts(runner.job, NewItems(Replaced(Settled(mine, "succeeded")),
                                     Distinct(runner.found), "manifest_bag"))
    /\ UNCHANGED rows

(* plan_unique_sheet_rows: the shipments the sheet does not show yet, at   *)
(* its end, in the order of the bag.                                       *)
ShownIn(s) == {rows[r].shown : r \in RowsOf(rows, s)}
PlannedAgain(s, found) == Distinct(found)                         \* mutant
Planned(s, found) ==
    LET list == Distinct(found)
    IN  Selected(list, {n \in DOMAIN list : list[n] \notin ShownIn(s)})
PlannedId(s, k) == GeneratedId(rows, s, NextPosition(rows, s) + k - 1)
FinishBag ==
    /\ mine.kind # "manifest" /\ runner.found # NotFound
    /\ LET s == jobs[runner.job].sheet
           new == Planned(s, runner.found)
           ids == {PlannedId(s, k) : k \in DOMAIN new}
           row(k) == [sheet |-> s, position |-> NextPosition(rows, s) + k - 1,
                      shown |-> new[k], record |-> NoRecord]
       IN  rows' = [r \in DOMAIN rows \cup ids |->
                       IF r \in DOMAIN rows THEN rows[r]
                       ELSE row(CHOOSE k \in DOMAIN new : PlannedId(s, k) = r)]
    /\ Recounts(runner.job, Replaced(Settled(mine, "succeeded")))

Finish ==
    /\ At("finish")
    /\ IF AttemptRunning THEN FinishFailed \/ FinishManifest \/ FinishBag
       ELSE UNCHANGED <<rows, jobs, items>>
    /\ Goes("claim")
    /\ UNCHANGED <<sheets, reply, engine>>

\* The store or the blob store refuses a write: the run ends where it is.
StoreFails ==
    /\ runner.pc \in {"requeue", "claim", "start", "finish"}
    /\ Fails
    /\ UNCHANGED <<sheetVars, jobs, items, engine>>

RunStep == Requeue \/ Recount \/ Claim \/ StartAttempt \/ Fetch \/ Finish

-----------------------------------------------------------------------------
(* The process dies; the next engine opens the database: workspace and     *)
(* first sheet, then recover_interrupted_import_jobs.                      *)

EngineAt(pc) == engine.pc = pc
EngineGoes(pc) == engine' = [engine EXCEPT !.pc = pc]
Up == [pc |-> "up", left |-> {}]

Crash ==
    /\ engine' = [pc |-> "down", left |-> {}] /\ runner' = IdleRunner
    /\ UNCHANGED <<sheetVars, jobs, items>>

Open ==
    /\ EngineAt("down") /\ EngineGoes("attempts")
    /\ FirstSheetExists
    /\ UNCHANGED <<rows, reply, jobs, items, runner>>

Changed(Do(_)) == items' = [j \in DOMAIN items |-> [n \in DOMAIN items[j] |-> Do(items[j][n])]]
Interrupted(item) ==
    [item EXCEPT !.attempts = [k \in DOMAIN item.attempts |->
        IF item.attempts[k] = "running" THEN "interrupted" ELSE item.attempts[k]]]
RecoverAttempts ==
    /\ EngineAt("attempts") /\ EngineGoes("items")
    /\ Changed(Interrupted)
    /\ UNCHANGED <<sheetVars, jobs, runner>>

Recovered(item) ==
    IF item.status = "running" THEN [item EXCEPT !.status = "pending"] ELSE item
RecoverItems ==
    /\ EngineAt("items")
    /\ engine' = [pc |-> "counts", left |-> {j \in DOMAIN jobs : With(items[j], {"running"}) # {}}]
    /\ Changed(Recovered)
    /\ UNCHANGED <<sheetVars, jobs, runner>>

\* Only the jobs that had a running item are recounted, one commit each.
RecoverCounts ==
    /\ EngineAt("counts")
    /\ IF engine.left = {} THEN engine' = Up /\ UNCHANGED jobs
       ELSE \E j \in engine.left :
            /\ engine' = [engine EXCEPT !.left = @ \ {j}]
            /\ jobs' = [jobs EXCEPT ![j] = Recomputed(jobs[j], items[j])]
    /\ UNCHANGED <<sheetVars, items, runner>>

RecoverStep == Open \/ RecoverAttempts \/ RecoverItems \/ RecoverCounts

-----------------------------------------------------------------------------
(* Invariants.                                                             *)

(* Between two commits the counts of a job add up to its items; a job is   *)
(* completed exactly when every source is in, a cancelled one has nothing  *)
(* running; an attempt runs only for the item it belongs to, and the       *)
(* outcome of an item is the outcome of its last attempt.                  *)
CountsAddUp(j) ==
    LET job == jobs[j] list == items[j] IN
    /\ job.total = Len(list) /\ job.success = Count(list, {"succeeded"})
    /\ job.failed + job.pending = Count(list, {"failed", "pending", "running"})
StatusHonest(j) ==
    LET job == jobs[j] list == items[j] IN
    /\ job.status = "completed" => With(list, {"succeeded"}) = DOMAIN list
    /\ job.status = "cancelled" => With(list, {"running"}) = {}
AttemptsMatch(item) ==
    /\ item.count = Len(item.attempts)
    /\ \A k \in DOMAIN item.attempts :
          item.attempts[k] = "running" => k = item.count /\ item.status = "running"
    /\ item.status \in {"succeeded", "failed"} =>
          item.count > 0 /\ item.attempts[item.count] = item.status
=============================================================================
