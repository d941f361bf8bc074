-------------------------- MODULE TrackingRefresh --------------------------
(***************************************************************************)
(* Tracking refresh in one workspace host                                  *)
(* (crates/shipflow-workspace-engine/src/tracking.rs and storage.rs,       *)
(* dispatched by apps/workspace-host/src/main.rs).                         *)
(*                                                                         *)
(* Two SQLite connections share the sheet rows.  The serial actor runs the *)
(* editing commands, each one transaction.  One refresh at a time runs on  *)
(* a connection of its own: it marks its rows in a setup transaction, then *)
(* fetches lookups concurrently and stores each row's outcome in a small   *)
(* transaction of its own, so every command may land between two of its    *)
(* writes.  Rows are protected by a compare-and-swap on the pair (lookup   *)
(* id, row generation) captured at setup; documents by a generation number *)
(* checked again inside the setup transaction.                             *)
(***************************************************************************)
EXTENDS Integers, Sequences, FiniteSets

CONSTANTS RowIds,       \* row identifiers, those a transfer may generate included
          Sheets,       \* sheet identifiers
          Lookups,      \* lookup tracking ids
          Documents,    \* saved documents a restore may bring in
          BootRows,     \* the rows found in the database at start
          EngineSlots,  \* MAX_CONCURRENT_TRACKING_REFRESH_LOOKUPS
          HostSlots,    \* MAX_CONCURRENT_TRACKING_LOOKUPS of the host's source
          MaxGen,       \* bound: row generations handed out
          MaxFaults,    \* bound: storage errors met by refreshes
          NoRow,        \* no row is being read back
          NoRecord      \* tracking_record_id IS NULL

Status == {"empty", "pending", "loading", "loaded", "failed"}
Active == {"pending", "loading"}
Phases == {"idle", "queued", "listed", "fetching", "storing", "activating",
           "failing", "sweeping"}

Row == [sheet : Sheets, lookup : Lookups, gen : 0 .. MaxGen, status : Status,
        record : Lookups \cup {NoRecord}]
SavedRow == [sheet : Sheets, lookup : Lookups, status : Status, shipment : BOOLEAN]

ASSUME SlotsAssumption == EngineSlots \in Nat \ {0} /\ HostSlots \in Nat \ {0}
ASSUME BoundAssumption == MaxGen \in Nat \ {0} /\ MaxFaults \in Nat
ASSUME RowsFinite == IsFiniteSet(RowIds) /\ IsFiniteSet(Lookups)
ASSUME NoRowAssumption == NoRow \notin RowIds
ASSUME NoRecordAssumption == NoRecord \notin Lookups
ASSUME DocumentsAssumption ==
    \A d \in Documents : DOMAIN d \subseteq RowIds /\ d \in [DOMAIN d -> SavedRow]
(* What recover_interrupted_tracking_rows leaves behind at start.          *)
ASSUME BootAssumption ==
    /\ DOMAIN BootRows \subseteq RowIds
    /\ BootRows \in [DOMAIN BootRows -> Row]
    /\ \A r \in DOMAIN BootRows :
          /\ BootRows[r].gen = 0
          /\ BootRows[r].status \notin Active
          /\ BootRows[r].record \in {NoRecord, BootRows[r].lookup}

VARIABLES
    rows,        \* the sheet_rows table: a function on the row ids present
    docGen,      \* workspace_document_state.generation
    nextGen,     \* the next row generation
    \* the refresh in progress
    phase,       \* where refresh_sheet_rows_with_progress stands
    request,     \* what the window asked for, and under which document
    target,      \* row id |-> the (lookup, gen) captured at setup
    groups,      \* distinct lookup ids, in fetch order
    left,        \* lookup |-> rows of its group not yet taken by a result
    next,        \* next_lookup_to_activate: groups[1 .. next] are activated
    delivered,   \* lookups whose result reached the callback
    outcome,     \* the result the callback is storing
    work,        \* rows the current loop still has to visit
    rereading,   \* the row written last, about to be read back
    terminal,    \* terminal_row_ids
    reported,    \* rows whose terminal event was emitted
    success, failed,  \* the two progress counters
    storeError,  \* storage_error.is_some()
    faults,      \* storage errors met so far
    \* history
    since,       \* nextGen at the setup of the current refresh
    orphans      \* active rows no refresh will finish, see NoStrandedRow

table == <<rows, docGen, nextGen>>
plan == <<request, target, groups, since>>
queue == <<left, next, delivered, outcome>>
tally == <<terminal, reported, success, failed>>
errors == <<storeError, faults>>
vars == <<table, plan, queue, tally, errors, phase, work, rereading, orphans>>

InSheet(s) == {r \in DOMAIN rows : rows[r].sheet = s}
LeftRows == UNION {left[l] : l \in DOMAIN left}
Prefix(n) == {groups[i] : i \in 1 .. (IF n < Len(groups) THEN n ELSE Len(groups))}
LookupsOf(f) == {f[r].lookup : r \in DOMAIN f}
Nothing == [x \in {} |-> x]

(* WHERE id = ? AND lookup_tracking_id = ? AND row_generation = ?          *)
\* mutant: the generation is left out of the comparison.
Matches_lookup_only(r) ==
    r \in DOMAIN rows /\ rows[r].lookup = target[r].lookup
Matches(r) ==
    /\ r \in DOMAIN rows
    /\ rows[r].lookup = target[r].lookup
    /\ rows[r].gen = target[r].gen

Init ==
    /\ rows = BootRows /\ docGen = 0 /\ nextGen = 1
    /\ phase = "idle"
    /\ request = [kind |-> "none"]
    /\ target = Nothing /\ groups = << >> /\ left = Nothing /\ next = 0
    /\ delivered = {} /\ outcome = "ok" /\ work = {} /\ rereading = NoRow
    /\ terminal = {} /\ reported = {} /\ success = 0 /\ failed = 0
    /\ storeError = FALSE /\ faults = 0
    /\ since = 0 /\ orphans = {}

(***************************************************************************)
(* Editing commands of the serial actor, each one transaction              *)
(***************************************************************************)

RunUnchanged ==
    UNCHANGED <<plan, queue, tally, errors, phase, work, rereading>>

Without(f, D) == [r \in DOMAIN f \ D |-> f[r]]
With(f, r, row) == [x \in DOMAIN f \cup {r} |-> IF x = r THEN row ELSE f[x]]

NewRow(s, l, st, rec) ==
    [sheet |-> s, lookup |-> l, gen |-> nextGen, status |-> st, record |-> rec]

(* ON CONFLICT(id): an unchanged lookup keeps generation, record and, in   *)
(* the editing mode, status; a changed one starts a new incarnation.       *)
\* mutant: a changed lookup keeps the record that was attached.
Edited_keeps_record(r, s, l) ==
    IF r \in DOMAIN rows /\ rows[r].lookup = l
      THEN rows[r]
      ELSE NewRow(s, l, "empty", IF r \in DOMAIN rows THEN rows[r].record ELSE NoRecord)
Edited(r, s, l) ==
    IF r \in DOMAIN rows /\ rows[r].lookup = l
      THEN rows[r]
      ELSE NewRow(s, l, "empty", NoRecord)

(* upsert_sheet_rows without replacement: one cell of sheet s now reads l; *)
(* another row that held the same position is deleted.                     *)
EditRow(r, s, l) ==
    /\ nextGen < MaxGen
    /\ r \in DOMAIN rows => rows[r].sheet = s
    /\ \E D \in SUBSET (InSheet(s) \ {r}) :
          /\ Cardinality(D) <= 1
          /\ rows' = With(Without(rows, D), r, Edited(r, s, l))
    /\ nextGen' = nextGen + 1
    /\ UNCHANGED <<docGen, orphans>> /\ RunUnchanged

(* upsert_sheet_rows with replace_existing: the sheet's rows are deleted   *)
(* first, so a kept id comes back as a new row.                            *)
ReplaceRows(r, s, l) ==
    /\ nextGen < MaxGen
    /\ r \in DOMAIN rows => rows[r].sheet = s
    /\ rows' = With(Without(rows, InSheet(s)), r, NewRow(s, l, "empty", NoRecord))
    /\ nextGen' = nextGen + 1
    /\ UNCHANGED <<docGen, orphans>> /\ RunUnchanged

(* delete_sheet_rows, clear_sheet_rows, and delete_sheet's cascade.        *)
DeleteRows(D) ==
    /\ D # {}
    /\ rows' = Without(rows, D)
    /\ UNCHANGED <<docGen, nextGen, orphans>> /\ RunUnchanged

(* transfer_sheet_rows: the copy gets an id and a generation of its own    *)
(* but the source's status, which no refresh of the copy stands behind.    *)
TransferRow(r, t, s, move) ==
    /\ nextGen < MaxGen
    /\ rows[r].sheet # s /\ t \notin DOMAIN rows
    /\ LET copied == With(rows, t, [rows[r] EXCEPT !.sheet = s, !.gen = nextGen])
       IN  rows' = IF move THEN Without(copied, {r}) ELSE copied
    /\ nextGen' = nextGen + 1
    /\ orphans' = IF rows[r].status \in Active THEN orphans \cup {t} ELSE orphans
    /\ UNCHANGED docGen /\ RunUnchanged

(* restore_workspace: a saved document replaces every row.  A status that  *)
(* was active when the document was saved comes back as failed.            *)
\* mutant: the saved status is taken as it is.
Restored_as_saved(saved) ==
    NewRow(saved.sheet, saved.lookup, saved.status,
           IF saved.shipment THEN saved.lookup ELSE NoRecord)
Restored(saved) ==
    NewRow(saved.sheet, saved.lookup,
           IF saved.status \in Active THEN "failed" ELSE saved.status,
           IF saved.shipment THEN saved.lookup ELSE NoRecord)

RestoreWorkspace(d) ==
    /\ nextGen < MaxGen
    /\ docGen' = docGen + 1
    /\ rows' = [r \in DOMAIN d |-> Restored(d[r])]
    /\ nextGen' = nextGen + 1
    /\ UNCHANGED orphans /\ RunUnchanged

ActorStep ==
    \/ \E r \in RowIds, s \in Sheets, l \in Lookups : EditRow(r, s, l) \/ ReplaceRows(r, s, l)
    \/ \E s \in Sheets : \E D \in SUBSET InSheet(s) : DeleteRows(D)
    \/ \E r \in DOMAIN rows, t \in RowIds, s \in Sheets, move \in BOOLEAN :
          TransferRow(r, t, s, move)
    \/ \E d \in Documents : RestoreWorkspace(d)

(***************************************************************************)
(* A refresh: admission and setup                                          *)
(***************************************************************************)

ResetRun ==
    /\ phase' = "idle"
    /\ request' = [kind |-> "none"]
    /\ target' = Nothing /\ groups' = << >> /\ left' = Nothing /\ next' = 0
    /\ delivered' = {} /\ outcome' = "ok" /\ work' = {} /\ rereading' = NoRow
    /\ terminal' = {} /\ reported' = {} /\ success' = 0 /\ failed' = 0
    /\ storeError' = FALSE /\ since' = 0

BatchRequests == [kind : {"batch"}, sheet : Sheets, rows : SUBSET RowIds, doc : {docGen}]
SingleRequests == [kind : {"single"}, rows : {{r} : r \in RowIds}, doc : {docGen}]

(* The window asks for some rows of a sheet (none: the whole sheet), or    *)
(* for a single row, naming the document it displays.                      *)
RequestRows(req) ==
    /\ phase = "idle"
    /\ request' = req
    /\ phase' = "queued"
    /\ UNCHANGED <<table, target, groups, since, queue, tally, errors, work,
                   rereading, orphans>>

(* The long-operation slot is free: handle_request binds the document      *)
(* generation and the row ids of a whole-sheet refresh are listed.         *)
BindRequest ==
    /\ phase = "queued"
    /\ IF request.doc # docGen
         THEN ResetRun /\ UNCHANGED <<table, faults, orphans>>
         ELSE /\ phase' = "listed"
              /\ work' = IF request.kind = "batch" /\ request.rows = {}
                           THEN InSheet(request.sheet) ELSE request.rows
              /\ UNCHANGED <<table, plan, queue, tally, errors, rereading, orphans>>

(* The rows the setup transaction selects.  A batch skips rows that left   *)
(* the sheet; a single refresh looks its row up by id alone.               *)
Selected ==
    IF request.kind = "batch" THEN work \cap InSheet(request.sheet)
                              ELSE work \cap DOMAIN rows

\* mutant: the document is not checked again inside the transaction.
SetupAdmitted_unchecked == TRUE
SetupAdmitted == request.doc = docGen

(* The setup transaction: rows of the first EngineSlots lookups become     *)
(* Loading, the others Pending; a single refresh goes to Loading at once.  *)
Setup ==
    /\ phase = "listed"
    /\ \/ /\ ~SetupAdmitted \/ (request.kind = "single" /\ Selected = {})
          /\ ResetRun /\ UNCHANGED <<table, faults, orphans>>
       \/ /\ SetupAdmitted
          /\ request.kind = "single" => Selected # {}
          /\ target' = [r \in Selected |-> [lookup |-> rows[r].lookup, gen |-> rows[r].gen]]
          /\ LET found == {rows[r].lookup : r \in Selected}
                 first == IF Cardinality(found) < EngineSlots
                            THEN Cardinality(found) ELSE EngineSlots
             IN  \E order \in [1 .. Cardinality(found) -> found] :
                   /\ {order[i] : i \in DOMAIN order} = found
                   /\ groups' = order
                   /\ next' = first
                   /\ left' = [l \in found |-> {r \in Selected : rows[r].lookup = l}]
                   /\ rows' = [r \in DOMAIN rows |->
                        IF r \notin Selected THEN rows[r]
                        ELSE [rows[r] EXCEPT !.status =
                               IF rows[r].lookup \in {order[i] : i \in 1 .. first}
                                 THEN "loading" ELSE "pending"]]
          /\ phase' = "fetching" /\ work' = {} /\ since' = nextGen
          /\ orphans' = orphans \ Selected
          /\ UNCHANGED <<docGen, nextGen, request, delivered, outcome, tally, errors,
                         rereading>>

(* A storage error inside the transaction rolls all of it back.            *)
SetupFault ==
    /\ phase = "listed" /\ faults < MaxFaults
    /\ ResetRun /\ faults' = faults + 1
    /\ UNCHANGED <<table, orphans>>

(***************************************************************************)
(* A refresh: results and their storage                                    *)
(***************************************************************************)

(* Lookups the host's source has started and not yet reported: it keeps    *)
(* HostSlots tasks running, taken from the queue in order.                 *)
InFlight == Prefix(Cardinality(delivered) + HostSlots) \ delivered

SetStatus(r, st) == rows' = [rows EXCEPT ![r].status = st]

(* Ends the fetch: tasks still running are aborted and their rows, with    *)
(* those never started, are visited by the failing loop.                   *)
StartFailing ==
    /\ phase' = "failing"
    /\ work' = LeftRows \ terminal
    /\ rereading' = NoRow

Deliver(l, o) ==
    /\ phase = "fetching" /\ l \in InFlight
    /\ delivered' = delivered \cup {l}
    /\ outcome' = o
    /\ work' = left[l]
    /\ left' = [left EXCEPT ![l] = {}]
    /\ phase' = "storing"
    /\ UNCHANGED <<table, plan, next, tally, errors, rereading, orphans>>

(* store_successful_tracking_response, or store_failed_tracking_lookup.    *)
StoreRow(r) ==
    /\ phase = "storing" /\ rereading = NoRow /\ r \in work
    /\ work' = work \ {r}
    /\ IF Matches(r)
         THEN /\ rows' = IF outcome = "ok"
                           THEN [rows EXCEPT ![r].status = "loaded",
                                             ![r].record = target[r].lookup]
                           ELSE [rows EXCEPT ![r].status = "failed"]
              /\ rereading' = r
         ELSE UNCHANGED <<rows, rereading>>
    /\ UNCHANGED <<docGen, nextGen, plan, queue, tally, errors, phase, orphans>>

(* The row just written is read back, unless it was replaced meanwhile,    *)
(* and counted.  The events of a lookup's rows leave together at its end.  *)
\* mutant: the failing and sweeping loops emit no event.
CountRow_silently(r) ==
    /\ terminal' = terminal \cup {r}
    /\ IF phase = "storing" /\ outcome = "ok"
         THEN success' = success + 1 /\ UNCHANGED failed
         ELSE failed' = failed + 1 /\ UNCHANGED success
    /\ UNCHANGED reported
CountRow(r) ==
    /\ terminal' = terminal \cup {r}
    /\ IF phase = "storing" /\ outcome = "ok"
         THEN success' = success + 1 /\ UNCHANGED failed
         ELSE failed' = failed + 1 /\ UNCHANGED success
    /\ reported' = IF phase = "storing" THEN reported ELSE reported \cup {r}

Reread ==
    /\ rereading # NoRow
    /\ IF Matches(rereading) THEN CountRow(rereading) ELSE UNCHANGED tally
    /\ rereading' = NoRow
    /\ UNCHANGED <<table, plan, queue, errors, phase, work, orphans>>

(* A storage error while a result is stored: the rows of that result that  *)
(* were not visited yet are dropped, events held back are never emitted.   *)
(* A single refresh has no later pass: its row is left as it is.           *)
StoreFault ==
    /\ phase = "storing" /\ (work # {} \/ rereading # NoRow) /\ faults < MaxFaults
    /\ faults' = faults + 1
    /\ IF request.kind = "single"
         THEN /\ orphans' = orphans \cup {r \in work : Matches(r)}
              /\ ResetRun
         ELSE /\ storeError' = TRUE
              /\ StartFailing
              /\ UNCHANGED <<plan, queue, tally, orphans>>
    /\ UNCHANGED table

StoringDone ==
    /\ phase = "storing" /\ work = {} /\ rereading = NoRow
    /\ IF request.kind = "single" THEN ResetRun ELSE
         /\ reported' = terminal
         /\ IF next < Len(groups)
              THEN phase' = "activating" /\ work' = left[groups[next + 1]]
              ELSE phase' = "fetching" /\ work' = {}
         /\ UNCHANGED <<plan, queue, terminal, success, failed, storeError, rereading>>
    /\ UNCHANGED <<table, faults, orphans>>

(* activate_tracking_lookup_group, one row at a time.                      *)
ActivateRow(r) ==
    /\ phase = "activating" /\ r \in work
    /\ work' = work \ {r}
    /\ IF Matches(r) THEN SetStatus(r, "loading") ELSE UNCHANGED rows
    /\ UNCHANGED <<docGen, nextGen, plan, queue, tally, errors, phase, rereading, orphans>>

ActivateFault ==
    /\ phase = "activating" /\ work # {} /\ faults < MaxFaults
    /\ faults' = faults + 1 /\ storeError' = TRUE
    /\ StartFailing
    /\ UNCHANGED <<table, plan, queue, tally, orphans>>

\* mutant: the next group is activated without being counted.
ActivationDone_uncounted ==
    /\ phase = "activating" /\ work = {}
    /\ phase' = "fetching"
    /\ UNCHANGED <<table, plan, queue, tally, errors, work, rereading, orphans>>
ActivationDone ==
    /\ phase = "activating" /\ work = {}
    /\ next' = next + 1
    /\ phase' = "fetching"
    /\ UNCHANGED <<table, plan, left, delivered, outcome, tally, errors, work,
                   rereading, orphans>>

(* Every lookup reported, or a worker failed and the others were aborted.  *)
FetchEnds ==
    /\ phase = "fetching" /\ delivered = LookupsOf(target)
    /\ StartFailing
    /\ UNCHANGED <<table, plan, queue, tally, errors, orphans>>

WorkerFails ==
    /\ phase = "fetching" /\ InFlight # {} /\ request.kind = "batch"
    /\ StartFailing
    /\ UNCHANGED <<table, plan, queue, tally, errors, orphans>>

(***************************************************************************)
(* A refresh: the two passes that leave no row behind                      *)
(***************************************************************************)

InCleanup == phase \in {"failing", "sweeping"}

(* Mark a row failed if it is still the one captured at setup; the sweep   *)
(* does so only when the row is still waiting.                             *)
FailRow(r) ==
    /\ InCleanup /\ rereading = NoRow /\ r \in work
    /\ work' = work \ {r}
    /\ IF Matches(r) /\ (phase = "sweeping" => rows[r].status \in Active)
         THEN SetStatus(r, "failed") /\ rereading' = r
         ELSE UNCHANGED <<rows, rereading>>
    /\ UNCHANGED <<docGen, nextGen, plan, queue, tally, errors, phase, orphans>>

(* A storage error in a pass: the window is told the row failed although   *)
(* the database was not updated.  The sweep cannot do so for a row it      *)
(* could not even read, unless the row is still in the plan's groups.      *)
FailFault(r) ==
    /\ InCleanup /\ rereading = NoRow /\ r \in work /\ faults < MaxFaults
    /\ faults' = faults + 1 /\ storeError' = TRUE
    /\ work' = work \ {r}
    /\ orphans' = IF Matches(r) /\ rows[r].status \in Active THEN orphans \cup {r}
                                                             ELSE orphans
    /\ \/ /\ phase = "failing" \/ r \in LeftRows \/ (Matches(r) /\ rows[r].status \in Active)
          /\ CountRow(r)
       \/ phase = "sweeping" /\ r \notin LeftRows /\ UNCHANGED tally
    /\ UNCHANGED <<table, plan, queue, phase, rereading>>

(* The row was marked failed but could not be read back.                   *)
RereadFault ==
    /\ InCleanup /\ rereading # NoRow /\ faults < MaxFaults
    /\ faults' = faults + 1 /\ storeError' = TRUE
    /\ CountRow(rereading)
    /\ rereading' = NoRow
    /\ UNCHANGED <<table, plan, queue, phase, work, orphans>>

\* mutant: the sweep visits rows already counted.
FailingDone_all_targets ==
    /\ phase = "failing" /\ work = {} /\ rereading = NoRow
    /\ phase' = "sweeping" /\ work' = DOMAIN target
    /\ UNCHANGED <<table, plan, queue, tally, errors, rereading, orphans>>
FailingDone ==
    /\ phase = "failing" /\ work = {} /\ rereading = NoRow
    /\ phase' = "sweeping" /\ work' = DOMAIN target \ terminal
    /\ UNCHANGED <<table, plan, queue, tally, errors, rereading, orphans>>

SweepDone ==
    /\ phase = "sweeping" /\ work = {} /\ rereading = NoRow
    /\ ResetRun
    /\ UNCHANGED <<table, faults, orphans>>

(* The host process dies and its supervisor starts it again:               *)
(* recover_interrupted_tracking_rows runs before any request.  Nothing     *)
(* else writes the database while the host is down.                        *)
\* mutant: only rows being loaded are recovered.
Recovered_loading_only(st) == IF st = "loading" THEN "failed" ELSE st
Recovered(st) == IF st \in Active THEN "failed" ELSE st

CrashAndRecover ==
    /\ rows' = [r \in DOMAIN rows |->
                  [rows[r] EXCEPT !.status = Recovered(rows[r].status)]]
    /\ ResetRun
    /\ orphans' = {}
    /\ UNCHANGED <<docGen, nextGen, faults>>

(* Steps the refresh takes by itself, storage errors aside.                *)
RunStep ==
    \/ BindRequest \/ Setup
    \/ \E l \in Lookups, o \in {"ok", "failed"} : Deliver(l, o)
    \/ \E r \in RowIds : StoreRow(r) \/ ActivateRow(r) \/ FailRow(r)
    \/ Reread \/ StoringDone \/ ActivationDone
    \/ FetchEnds \/ FailingDone \/ SweepDone

Fault ==
    \/ SetupFault \/ StoreFault \/ ActivateFault \/ WorkerFails \/ RereadFault
    \/ \E r \in RowIds : FailFault(r)

Next ==
    \/ ActorStep
    \/ \E req \in BatchRequests \cup SingleRequests : RequestRows(req)
    \/ RunStep
    \/ Fault
    \/ CrashAndRecover

(* The refresh is a Tokio task of its own and every lookup of the service  *)
(* client has a deadline, so an enabled step of the refresh is taken.      *)
Spec == Init /\ [][Next]_vars /\ WF_vars(RunStep)

-----------------------------------------------------------------------------
Targets == [lookup : Lookups, gen : 0 .. MaxGen]

TableOK ==
    /\ DOMAIN rows \subseteq RowIds /\ rows \in [DOMAIN rows -> Row]
    /\ docGen \in Nat /\ nextGen \in 1 .. MaxGen
    /\ orphans \subseteq RowIds

RunOK ==
    /\ phase \in Phases /\ request.kind \in {"none", "batch", "single"}
    /\ request.kind # "none" => request.rows \subseteq RowIds
    /\ DOMAIN target \subseteq RowIds /\ target \in [DOMAIN target -> Targets]
    /\ groups \in Seq(Lookups) /\ next \in 0 .. Len(groups)
    /\ DOMAIN left \subseteq Lookups /\ left \in [DOMAIN left -> SUBSET RowIds]
    /\ delivered \subseteq Lookups /\ outcome \in {"ok", "failed"}
    /\ work \subseteq RowIds /\ rereading \in RowIds \cup {NoRow}
    /\ terminal \subseteq RowIds /\ reported \subseteq RowIds
    /\ success \in Nat /\ failed \in Nat
    /\ storeError \in BOOLEAN /\ faults \in 0 .. MaxFaults
    /\ since \in 0 .. MaxGen

TypeOK == TableOK /\ RunOK

(* A row shown as pending or loading is waited for: either it is one of    *)
(* the current refresh's rows, still as captured at setup and not yet      *)
(* counted, and when the last pass runs it is on that pass's list; or it   *)
(* is an orphan.  Orphans arise in three ways only: a storage error in the *)
(* last two passes, one while a single row's result was stored, and        *)
(* copying a row that was being refreshed.  Nothing else (an edit, a       *)
(* restore, a crash, a failed setup, a worker failure, a storage error     *)
(* while results arrive) strands a row.                                    *)
NoStrandedRow ==
    \A r \in DOMAIN rows \ orphans :
        rows[r].status \in Active =>
            /\ phase \notin {"idle", "queued", "listed"}
            /\ r \in DOMAIN target /\ Matches(r)
            /\ r \notin terminal
            /\ phase = "sweeping" => r \in work

(* The record a row displays is for the lookup id the row has now, however *)
(* edits, transfers, restores and late results interleave.                 *)
RecordMatchesLookup ==
    \A r \in DOMAIN rows : rows[r].record \in {NoRecord, rows[r].lookup}

(* Progress is consistent: every row counted is a row of the refresh,      *)
(* counted once, so pending = total - success - failed never goes below    *)
(* the rows really outstanding and never needs its saturation.             *)
CountsAgree ==
    /\ terminal \subseteq DOMAIN target
    /\ reported \subseteq terminal
    /\ success + failed = Cardinality(terminal)

(* The engine activates groups and the host's source starts lookups, each  *)
(* with a limit of its own and neither told of the other: still no lookup  *)
(* is in flight whose rows have not been moved to loading.                 *)
StartedAfterActivation ==
    phase = "fetching" => InFlight \subseteq Prefix(next)

(* When a batch ends without storage error, each of its rows that was not  *)
(* replaced meanwhile has left the waiting states and its window has been  *)
(* sent a terminal event for it.                                           *)
CompleteReport ==
    phase = "sweeping" /\ work = {} /\ rereading = NoRow /\ ~storeError =>
        \A r \in DOMAIN target :
            Matches(r) => rows[r].status \notin Active /\ r \in reported

(* What a refresh has shown of its progress is true at each point.         *)
RefreshReported == StartedAfterActivation /\ CompleteReport

(* A step of a refresh never writes a row that was created, re-created or  *)
(* given another lookup id after the refresh's setup.                      *)
LateResultsIgnored ==
    [][RunStep \/ Fault =>
         \A r \in DOMAIN rows :
            phase \notin {"queued", "listed"} /\ rows[r].gen >= since =>
                r \in DOMAIN rows' /\ rows'[r] = rows[r]]_vars

(* Once a restore has replaced the document a refresh was asked under, at  *)
(* any point between the request and its last write, no step of that       *)
(* refresh changes any row of the new document.                            *)
NoCrossDocumentWrite ==
    [][(RunStep \/ Fault) /\ request.kind # "none" =>
         (request.doc # docGen => rows' = rows)]_vars

(* Every row that is pending or loading leaves those states, or is an      *)
(* orphan.                                                                 *)
RowsSettle ==
    \A r \in RowIds :
        (r \in DOMAIN rows /\ rows[r].status \in Active)
            ~> (r \in DOMAIN rows => rows[r].status \notin Active \/ r \in orphans)
=============================================================================
