--------------------------- MODULE DocumentScope ---------------------------
(***************************************************************************)
(* Which document a workspace command acts on: the renderer's document     *)
(* scope (src/features/workspace-engine/document-scope.ts), the sequence of *)
(* document replacements that uses it (src/features/workspace/             *)
(* engine-sync.ts, useWorkspaceDocumentController.ts) and the generation   *)
(* check of the workspace host (apps/workspace-host/src/main.rs).          *)
(*                                                                         *)
(* The renderer shows one document and the host stores one; opening a file *)
(* changes the host first and the screen later.  Meanwhile the user's      *)
(* commands are in flight.  Each command carries a scope: an epoch of the  *)
(* renderer and a promise of the host's generation number.                 *)
(*                                                                         *)
(* JavaScript callbacks run to completion, so each of them is one action.  *)
(* Requests in flight reach the host in any order: a large document goes   *)
(* through a staging file first.                                           *)
(***************************************************************************)
EXTENDS Integers, Sequences, FiniteSets

CONSTANTS Jobs,      \* document replacements; each is named by its document
          NewJobs,   \* those that show their document before they sync it
          Cmds,      \* commands in progress at one time
          First,     \* the document shown and stored at the start
          NoDoc      \* a command the host did not carry out

ASSUME NewJobsAssumption == NewJobs \subseteq Jobs
ASSUME JobsFinite == IsFiniteSet(Jobs)
ASSUME FirstAssumption == First \notin Jobs
ASSUME NoDocAssumption == NoDoc \notin Jobs \cup {First}

Docs == Jobs \cup {First}

VARIABLES
    hostDoc, hostGen,  \* the document in the database, its generation
    shown,             \* the document React displays
    scheduled,         \* the replacement whose React update awaits its commit
    epoch, replacing, handoffs,  \* epoch, replacing, pendingHandoffs
    promises,          \* every generation promise made
    generation, displayed,  \* generation, displayedGeneration: 0 is null
    queue, latest,     \* the sync coordinator's queue, its last request
    job,               \* the replacements
    cmd                \* the commands

hostVars == <<hostDoc, hostGen>>
scopeVars == <<epoch, replacing, handoffs, promises, generation, displayed>>
syncVars == <<scheduled, queue, latest, job>>
vars == <<hostVars, shown, scopeVars, syncVars, cmd>>

-----------------------------------------------------------------------------
(* Promises and scopes                                                     *)

Pending == [state |-> "pending", gen |-> 0]
Failed == [state |-> "failed", gen |-> 0]
Resolved(g) == [state |-> "resolved", gen |-> g]

(* captureScope: make the promises that are missing.                       *)
MakePromises ==
    /\ promises' = IF generation = 0 THEN Append(promises, Pending) ELSE promises
    /\ generation' = IF generation = 0 THEN Len(promises) + 1 ELSE generation
    /\ displayed' = IF displayed = 0 THEN generation' ELSE displayed

(* The promise of an ordinary command's scope, once MakePromises is done.  *)
OrdinaryPromise_replacement == generation'
OrdinaryPromise == displayed'

Available == ~replacing /\ handoffs = 0

ScopeCurrent(c) == Available /\ cmd[c].available /\ epoch = cmd[c].epoch

IdleCmd == [pc |-> "idle", available |-> FALSE, epoch |-> 0, promise |-> 0,
            doc |-> First, on |-> NoDoc]
UnbornJob == [pc |-> "unborn", promise |-> 0, atHost |-> FALSE,
              ok |-> FALSE, gen |-> 0]

Init ==
    /\ hostDoc = First /\ hostGen = 0 /\ shown = First /\ scheduled = {}
    /\ epoch = 0 /\ replacing = FALSE /\ handoffs = 0
    /\ promises = <<>> /\ generation = 0 /\ displayed = 0
    /\ queue = <<>> /\ latest = First
    /\ job = [j \in Jobs |-> UnbornJob]
    /\ cmd = [c \in Cmds |-> IdleCmd]

(* The workspace.document_generation request is answered, or fails.        *)
ResolvePromise ==
    \E p \in DOMAIN promises :
        /\ promises[p] = Pending
        /\ \E r \in {Resolved(hostGen), Failed} :
              promises' = [promises EXCEPT ![p] = r]
        /\ UNCHANGED <<hostVars, shown, epoch, replacing, handoffs, generation,
                       displayed, syncVars, cmd>>

-----------------------------------------------------------------------------
(* Ordinary commands                                                       *)

(* captureWorkspaceDocumentScope: when the user acts on what is shown.     *)
Capture(c) ==
    /\ cmd[c].pc = "idle"
    /\ MakePromises
    /\ cmd' = [cmd EXCEPT ![c] = [IdleCmd EXCEPT
          !.pc = "captured", !.available = Available, !.epoch = epoch,
          !.promise = OrdinaryPromise, !.doc = shown]]
    /\ UNCHANGED <<hostVars, shown, epoch, replacing, handoffs, syncVars>>

(* requestScopedWorkspace, up to its first await.                          *)
Request(c) ==
    /\ cmd[c].pc = "captured"
    /\ cmd' = [cmd EXCEPT ![c] =
                 IF ScopeCurrent(c) THEN [@ EXCEPT !.pc = "waiting"] ELSE IdleCmd]
    /\ UNCHANGED <<hostVars, shown, scopeVars, syncVars>>

(* The generation is known: send the command, or give it up.               *)
Send(c) ==
    /\ cmd[c].pc = "waiting"
    /\ promises[cmd[c].promise] # Pending
    /\ cmd' = [cmd EXCEPT ![c] =
                 IF promises[cmd[c].promise] # Failed /\ ScopeCurrent(c)
                 THEN [@ EXCEPT !.pc = "sent"] ELSE IdleCmd]
    /\ UNCHANGED <<hostVars, shown, scopeVars, syncVars>>

(* handle_request: bind_document_generation, then the command.             *)
HostExecute(c) ==
    /\ cmd[c].pc = "sent"
    /\ cmd' = [cmd EXCEPT ![c] = [@ EXCEPT !.pc = "answered",
                 !.on = IF promises[cmd[c].promise].gen = hostGen
                        THEN hostDoc ELSE NoDoc]]
    /\ UNCHANGED <<hostVars, shown, scopeVars, syncVars>>

(* The answer is handed to the caller, who may ask for a further page with *)
(* the same scope.                                                         *)
Accepted(c) == cmd[c].on # NoDoc /\ ScopeCurrent(c)

Deliver(c) ==
    /\ cmd[c].pc = "answered" /\ Accepted(c)
    /\ cmd' = [cmd EXCEPT ![c] = [@ EXCEPT !.pc = "page"]]
    /\ UNCHANGED <<hostVars, shown, scopeVars, syncVars>>

(* A stale answer, an error, a request that timed out.                     *)
Discard(c) ==
    /\ cmd[c].pc = "answered"
    /\ cmd' = [cmd EXCEPT ![c] = IdleCmd]
    /\ UNCHANGED <<hostVars, shown, scopeVars, syncVars>>

NextPage(c) ==
    /\ cmd[c].pc = "page"
    /\ cmd' = [cmd EXCEPT ![c] = [@ EXCEPT !.pc = "captured", !.on = NoDoc]]
    /\ UNCHANGED <<hostVars, shown, scopeVars, syncVars>>

LastPage(c) ==
    /\ cmd[c].pc = "page"
    /\ cmd' = [cmd EXCEPT ![c] = IdleCmd]
    /\ UNCHANGED <<hostVars, shown, scopeVars, syncVars>>

-----------------------------------------------------------------------------
(* Document replacements                                                   *)

(* syncWorkspaceToEngine: beginWorkspaceDocumentHandoff and the request to *)
(* the coordinator.  A new document is shown at once, an opened one later. *)
Begin(j) ==
    /\ job[j].pc = "unborn"
    /\ MakePromises
    /\ handoffs' = handoffs + 1
    /\ epoch' = epoch + 1
    /\ queue' = Append(queue, j)
    /\ latest' = j
    /\ job' = [job EXCEPT ![j].pc = "queued"]
    /\ shown' = IF j \in NewJobs THEN j ELSE shown
    /\ UNCHANGED <<hostVars, replacing, scheduled, cmd>>

(* replaceScopedWorkspace, up to its first await.  The queue runs one      *)
(* replacement at a time, so none is replacing yet.                        *)
Start(j) ==
    /\ queue # <<>> /\ Head(queue) = j /\ job[j].pc = "queued"
    /\ MakePromises
    /\ replacing' = TRUE
    /\ epoch' = epoch + 1
    /\ job' = [job EXCEPT ![j].pc = "fetching", ![j].promise = generation']
    /\ UNCHANGED <<hostVars, shown, handoffs, scheduled, queue, latest, cmd>>

SendRestore(j) ==
    /\ job[j].pc = "fetching"
    /\ promises[job[j].promise] # Pending
    /\ job' = IF promises[job[j].promise] = Failed
              THEN [job EXCEPT ![j].pc = "answered"]
              ELSE [job EXCEPT ![j].pc = "sent", ![j].atHost = TRUE]
    /\ UNCHANGED <<hostVars, shown, scopeVars, scheduled, queue, latest, cmd>>

(* The restore has left the host; the renderer may have given it up.       *)
Answered(j, ok, g) ==
    job' = [job EXCEPT ![j] = [job[j] EXCEPT
        !.atHost = FALSE, !.gen = g,
        !.pc = IF job[j].pc = "sent" THEN "answered" ELSE job[j].pc,
        !.ok = IF job[j].pc = "sent" THEN ok ELSE FALSE]]

(* restore_workspace in the host.  It commits and answers; or it commits   *)
(* and the answer is an error, because the host died; or it refuses.  A    *)
(* request the renderer gave up on is carried out all the same.            *)
HostRestore(j) ==
    /\ job[j].atHost
    /\ \/ /\ promises[job[j].promise].gen = hostGen
          /\ hostGen' = hostGen + 1
          /\ hostDoc' = j
          /\ \E ok \in BOOLEAN : Answered(j, ok, hostGen + 1)
       \/ Answered(j, FALSE, 0) /\ UNCHANGED hostVars
    /\ UNCHANGED <<shown, scopeVars, scheduled, queue, latest, cmd>>

(* The renderer gives up a restore the host has not carried out yet.       *)
TimeOut(j) ==
    /\ job[j].pc = "sent"
    /\ job' = [job EXCEPT ![j].pc = "answered"]
    /\ UNCHANGED <<hostVars, shown, scopeVars, scheduled, queue, latest, cmd>>

(* The answer of the restore: replaceScopedWorkspace takes the new         *)
(* generation, or forgets the one it had.                                  *)
Rebind(j) ==
    /\ IF job[j].ok
       THEN /\ promises' = Append(promises, Resolved(job[j].gen))
            /\ generation' = Len(promises) + 1
            /\ displayed' = IF handoffs = 0 THEN generation' ELSE displayed
       ELSE generation' = 0 /\ UNCHANGED <<promises, displayed>>
    /\ replacing' = FALSE

(* An applied replacement that is still the latest waits for React with    *)
(* its handoff open; any other closes it.                                  *)
KeepsHandoff_superseded(j) == job[j].ok
KeepsHandoff(j) == job[j].ok /\ latest = j

(* The rest of the coordinator's run and of syncWorkspaceToEngine.         *)
(* Assumption: React commits an update before the host answers a request   *)
(* sent after it, so no update is scheduled here and the controller never  *)
(* has to close the handoff of an earlier one.                             *)
Settle(j) ==
    /\ job[j].pc = "answered" /\ scheduled = {}
    /\ Rebind(j)
    /\ scheduled' = IF job[j].ok /\ latest = j THEN {j} ELSE {}
    /\ handoffs' = IF KeepsHandoff(j) THEN handoffs ELSE handoffs - 1
    /\ queue' = Tail(queue)
    /\ job' = [job EXCEPT ![j].pc = "done"]
    /\ UNCHANGED <<hostVars, shown, epoch, latest, cmd>>

(* React commits the update and the layout effect closes the handoff.  A   *)
(* new document begun since then stays on the screen.                      *)
Commit ==
    \E j \in scheduled :
        /\ scheduled' = {}
        /\ shown' = IF \E i \in DOMAIN queue : queue[i] \in NewJobs
                    THEN shown ELSE j
        /\ handoffs' = handoffs - 1
        /\ displayed' = IF handoffs = 1 /\ generation # 0
                        THEN generation ELSE displayed
        /\ UNCHANGED <<hostVars, epoch, replacing, promises, generation,
                       queue, latest, job, cmd>>

-----------------------------------------------------------------------------
CommandStep(c) ==
    \/ Capture(c) \/ Request(c) \/ Send(c) \/ HostExecute(c)
    \/ Deliver(c) \/ Discard(c) \/ NextPage(c) \/ LastPage(c)

ReplacementStep(j) ==
    Start(j) \/ SendRestore(j) \/ HostRestore(j) \/ TimeOut(j) \/ Settle(j)

Next ==
    \/ \E c \in Cmds : CommandStep(c)
    \/ \E j \in Jobs : Begin(j) \/ ReplacementStep(j)
    \/ ResolvePromise
    \/ Commit

(* The host client rejects every request after a deadline, the host's exit *)
(* rejects what is outstanding, and React commits what is scheduled.       *)
Fairness == WF_vars((\E j \in Jobs : ReplacementStep(j)) \/ ResolvePromise \/ Commit)

Spec == Init /\ [][Next]_vars /\ Fairness

-----------------------------------------------------------------------------
(* Properties                                                              *)

(* A command takes effect only on the document that was on the screen when *)
(* the user gave it: the scope's generation and the host's check keep it   *)
(* from every other document, through lost answers, timeouts and restores  *)
(* the renderer believes to have failed.                                   *)
AppliedToDisplayed ==
    \A c \in Cmds : cmd[c].on # NoDoc => cmd[c].on = cmd[c].doc

(* Neither end of a command meets another document than the one shown:     *)
(* what the host read from one document is handed to the interface only    *)
(* while that document is on the screen; later answers are dropped.        *)
OnDisplayedOnly ==
    [][/\ AppliedToDisplayed'
       /\ \A c \in Cmds : cmd[c].pc = "answered" /\ cmd'[c].pc = "page"
                              => cmd[c].on = shown]_vars

(* Commands are blocked while a replacement is under way, and only then:   *)
(* the open handoffs are those of the replacements that have begun and     *)
(* neither failed, nor been superseded, nor reached the screen, and        *)
(* however they overlap and fail, every handoff is closed.                 *)
HandoffsEnd ==
    /\ [](handoffs = Len(queue) + Cardinality(scheduled))
    /\ handoffs > 0 ~> handoffs = 0
=============================================================================
