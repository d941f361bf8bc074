------------------------------ MODULE Workspace ------------------------------
(***************************************************************************)
(* A workspace: its sheets, its import jobs and its import previews, as    *)
(* the host process runs them (apps/workspace-host/src/main.rs,            *)
(* crates/shipflow-workspace-engine/src/engine.rs).                        *)
(*                                                                         *)
(* The engine carries out one command after another, a run of a job among  *)
(* them, over one database; tracking runs store records and a second       *)
(* connection cancels jobs meanwhile.  Previews have their own tasks.  One *)
(* process holds all of it, and dies as a whole.                           *)
(***************************************************************************)
EXTENDS ImportJobs, ImportPreview

CONSTANTS
    Scenarios,        \* bound: what a session does and what it starts from
    MaxFaults         \* bound: deaths of the process and refused writes

ASSUME ScenariosAssumption ==
    \A q \in Scenarios : /\ q.sheets \subseteq Sheets
                         /\ \A t \in q.rows : Table(t) /\ Distinguished(t)

VARIABLES
    ops,        \* bound: the operations of this session
    commands,   \* bound: the commands that it still gives
    faults

boundVars == <<ops, commands, faults>>
vars == <<sheetVars, jobVars, previewVars, boundVars>>

Given == commands > 0 /\ commands' = commands - 1 /\ UNCHANGED <<ops, faults>>
Occurs(fault) ==
    fault \in ops /\ faults < MaxFaults /\ faults' = faults + 1 /\ UNCHANGED <<ops, commands>>

-----------------------------------------------------------------------------
(* handle_command takes the engine for itself until it has answered.       *)
EngineFree == EngineAt("up") /\ At("idle")

(* Rows and jobs refer to their sheet and are deleted with it; opening a   *)
(* document deletes every sheet first.                                     *)
DeletedSheets ==
    CASE reply'.op = "delete_sheet"               -> sheets \ sheets'
      [] reply'.op = "restore" /\ reply'.ok       -> sheets
      [] OTHER                                    -> {}
SheetCommand ==
    \E op \in ops : Command(Sheets, op) /\ JobsStay(DeletedSheets)

JobCommand ==
    \/ /\ "import" \in ops
       /\ \E j \in Jobs, s \in Sheets, q \in Requests, replace \in BOOLEAN :
             CreateJob(j, s, q.kind, q.sources, replace)
    \/ "run" \in ops /\ \E j \in DOMAIN jobs : RunJob(j) \/ RetryJob(j)

HandleCommand ==
    /\ EngineFree /\ Given
    /\ SheetCommand \/ JobCommand
    /\ UNCHANGED previewVars

(* Another connection to the database.                                     *)
OtherConnection ==
    /\ \/ "cancel" \in ops /\ (\E j \in DOMAIN jobs : CancelJob(j))
       \/ "track" \in ops /\ (\E r \in DOMAIN rows : RecordStored(r)) /\ UNCHANGED jobVars
    /\ Given /\ UNCHANGED previewVars

-----------------------------------------------------------------------------
RunGoesOn == RunStep /\ UNCHANGED <<previewVars, boundVars>>
EngineOpens == RecoverStep /\ UNCHANGED <<previewVars, boundVars>>
WriteRefused == Occurs("refusal") /\ StoreFails /\ UNCHANGED previewVars
ProcessDies == Occurs("death") /\ Crash /\ HostDies

UserPreviews ==
    /\ "preview" \in ops
    /\ \E s \in Scopes :
          \/ \E draft \in Drafts[s] : EditDraft(s, draft)
          \/ \E k \in Keys : StartLookup(s, k) \/ StartRetry(s, k)
          \/ CloseModal(s)
    /\ Given /\ UNCHANGED <<sheetVars, jobVars>>

RendererStep == \E r \in DOMAIN request : ReceivePreview(r) \/ ReceiveRetry(r)
HostStep ==
    \/ HostReads
    \/ \E r \in DOMAIN request : Execute(r) \/ PreviewCancelled(r) \/ PreviewDone(r)
PreviewGoesOn == (RendererStep \/ HostStep) /\ UNCHANGED <<sheetVars, jobVars, boundVars>>

Init ==
    /\ reply = [op |-> "none", ok |-> TRUE]
    /\ runner = IdleRunner /\ engine = Up
    /\ PreviewInit
    /\ faults = 0
    /\ \E q \in Scenarios :
          /\ ops = q.ops /\ commands = q.commands
          /\ sheets = q.sheets /\ rows \in q.rows
          /\ jobs = <<>> /\ items = <<>>

Next == \/ HandleCommand \/ OtherConnection \/ RunGoesOn \/ EngineOpens
        \/ WriteRefused \/ ProcessDies \/ UserPreviews \/ PreviewGoesOn

(* Every task of the process and of the renderer goes on; a lookup answers *)
(* or times out; a process that died is started again.                     *)
Fairness == WF_vars(RunGoesOn) /\ WF_vars(EngineOpens) /\ WF_vars(PreviewGoesOn)

Spec == Init /\ [][Next]_vars /\ Fairness

-----------------------------------------------------------------------------
(* Each command on the sheets is the operation on lists that it stands     *)
(* for: identifiers, positions, compaction, runs and crashes do not show.  *)
ListsKept == Lists!Spec

(* In every state between two commits the counts, the status and the       *)
(* attempts of each job agree with its items, and no two rows of a sheet   *)
(* are at one place, whatever edits, runs, cancellations, crashes and      *)
(* recoveries came before, in any order.                                   *)
JobsConsistent ==
    /\ JobsTypeOK
    /\ \A j \in DOMAIN jobs :
          /\ CountsAddUp(j) /\ StatusHonest(j)
          /\ \A n \in DOMAIN items[j] : AttemptsMatch(items[j][n])
TablesConsistent == SheetsTypeOK /\ PlacesUnique /\ JobsConsistent

(* A bag succeeds by putting each of its shipments into the sheet of the   *)
(* job, once, and never for a job that has been cancelled.                 *)
Succeeds(j, n) ==
    items[j][n].status # "succeeded" /\ items'[j][n].status = "succeeded"
Showing(table, s, x) == {r \in RowsOf(table, s) : table[r].shown = x}
BagsLand ==
    [][\A j \in DOMAIN jobs \cap DOMAIN jobs' : \A n \in DOMAIN items[j] :
          Succeeds(j, n) =>
            /\ items[j][n].status = "running" /\ jobs[j].status # "cancelled"
            /\ items[j][n].kind # "manifest" =>
                 \A x \in Range(runner.found) :
                    LET before == Showing(rows, jobs[j].sheet, x)
                    IN  Cardinality(Showing(rows', jobs[j].sheet, x)) =
                            IF before = {} THEN 1 ELSE Cardinality(before)]_vars

(* The screen shows answers only for sources of the draft: those of an     *)
(* earlier lookup that arrive late are not merged into it.                 *)
NothingForeign ==
    \A s \in Scopes : DOMAIN screen[s].item \subseteq Range(screen[s].draft)

(* Every run of a job ends, whatever is cancelled, refused or interrupted, *)
(* and a modal that is loading stops loading unless the request of its     *)
(* retry was refused.                                                      *)
RetryRefused(s) == screen[s].key # NoKey /\ lookup[screen[s].key].pc = "refused"
WorkEnds ==
    /\ ~At("idle") ~> At("idle")
    /\ \A s \in Scopes : Loading(s) ~> (~Loading(s) \/ RetryRefused(s))
=============================================================================
