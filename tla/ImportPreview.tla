--------------------------- MODULE ImportPreview ---------------------------
(***************************************************************************)
(* The preview of an import: the modal of the renderer that looks up bags  *)
(* or manifests (useWorkspaceInteractionRuntimeController.ts, sheet/       *)
(* actions.ts) and the workspace host that answers it (apps/workspace-     *)
(* host/src/main.rs).                                                      *)
(*                                                                         *)
(* A lookup has a fresh key and its workers ask for one source at a time.  *)
(* The host runs the previews of a scope, that is of a sheet and a kind,   *)
(* for one key: a preview with another key cancels the run in progress.    *)
(* Requests reach the host in the order they were sent, and are answered   *)
(* in any order.  What a source answers is any answer.                     *)
(***************************************************************************)
EXTENDS Integers, Sequences, FiniteSets, FiniteSetsExt, Functions

CONSTANTS
    Scopes,           \* sheet and kind
    Keys,             \* bound: the lookups and retries of a session
    Drafts,           \* bound: the lists of sources a user types
    Workers,          \* MAX_CONCURRENT_IMPORT_SOURCE_PREVIEW_LOOKUPS
    MaxPreviews,      \* MAX_BUFFERED_IMPORT_PREVIEWS
    MaxExecuting,     \* MAX_CONCURRENT_IMPORT_PREVIEWS
    NoKey, NoRun

ASSUME PreviewAssumption ==
    /\ {Workers, MaxPreviews, MaxExecuting} \subseteq Nat \ {0}
    /\ NoKey \notin Keys
    /\ \A s \in Scopes : \A draft \in Drafts[s] :
          draft \in Seq(Range(draft)) /\ IsInjective(draft)

VARIABLES
    screen,     \* importSourceDrafts and importSourceLookupStates
    lookup,     \* what is left to ask of each key that was started
    request,    \* the previews: <<scope, key, sources>>
    inbox,      \* what the host has not read
    registry    \* PreviewCancellationRegistry: the run of each scope

previewVars == <<screen, lookup, request, inbox, registry>>

ScreenState == [draft |-> <<>>, key |-> NoKey, loading |-> FALSE, item |-> <<>>]
NoLookup == [todo |-> <<>>, pc |-> "none"]
NewRun(key, r) == [key |-> key, active |-> 1, members |-> {r}, cancelled |-> FALSE]

Scope(r) == r[1]
Key(r) == r[2]
SourcesOf(r) == r[3]
In(state) == {r \in DOMAIN request : request[r].state = state}
Loading(s) == screen[s].loading \/ \E x \in DOMAIN screen[s].item : screen[s].item[x] = "loading"

-----------------------------------------------------------------------------
(* The renderer.                                                           *)

CurrentAlways(s, k) == TRUE                                       \* mutant
Current(s, k) == screen[s].key = k
Shows(s, key, loading, item) ==
    screen' = [screen EXCEPT ![s].key = key, ![s].loading = loading, ![s].item = item]
HostUnchanged == UNCHANGED <<inbox, registry>>

(* setImportSourceDraftInSheet: the lookup in progress is not cancelled.   *)
EditDraft(s, draft) ==
    /\ draft # screen[s].draft
    /\ screen' = [screen EXCEPT ![s] = [ScreenState EXCEPT !.draft = draft]]
    /\ UNCHANGED <<lookup, request>> /\ HostUnchanged

(* previewImportSource, once for each of `list`.                           *)
Asked(s, k, list) == {<<s, k, {x}>> : x \in Range(list)}
Sent(R, known) ==
    [r \in DOMAIN known \cup R |->
        IF r \in DOMAIN known THEN known[r] ELSE [state |-> "sent", answer |-> NoKey]]
Asks(s, k, list, answered) ==
    /\ request' = Sent(Asked(s, k, list), answered)
    /\ inbox' = inbox \o [n \in DOMAIN list |-> [preview |-> <<s, k, {list[n]}>>]]

(* runImportSourceLookup: each worker asks for its first source at once.   *)
StartLookup(s, k) ==
    LET draft == screen[s].draft
        first == SubSeq(draft, 1, Min({Workers, Len(draft)}))
    IN  /\ ~Loading(s) /\ draft # <<>>
        /\ lookup[k].pc = "none"
        /\ Shows(s, k, TRUE, [x \in Range(draft) |-> "loading"])
        /\ lookup' = [lookup EXCEPT ![k] =
               [todo |-> SubSeq(draft, Len(first) + 1, Len(draft)), pc |-> "running"]]
        /\ Asks(s, k, first, request)
        /\ UNCHANGED registry

\* Only the failed sources, in one request.
StartRetry(s, k) ==
    LET failed == {x \in DOMAIN screen[s].item : screen[s].item[x] = "failed"} IN
    /\ ~Loading(s) /\ failed # {}
    /\ lookup[k].pc = "none"
    /\ Shows(s, k, screen[s].loading,
             [x \in DOMAIN screen[s].item |-> IF x \in failed THEN "loading" ELSE screen[s].item[x]])
    /\ lookup' = [lookup EXCEPT ![k].pc = "retrying"]
    /\ request' = Sent({<<s, k, failed>>}, request)
    /\ inbox' = Append(inbox, [preview |-> <<s, k, failed>>])
    /\ UNCHANGED registry

\* closeImportSourceModal: offered only when nothing is loading.
CloseModal(s) ==
    /\ ~Loading(s) /\ screen[s].key # NoKey
    /\ inbox' = Append(inbox, [cancel |-> s, key |-> screen[s].key])
    /\ Shows(s, NoKey, FALSE, screen[s].item)
    /\ UNCHANGED <<lookup, request, registry>>

ItemIfFetched(answer) ==                                          \* mutant
    CASE answer \in {"found", "failed"} -> answer [] OTHER -> "loading"
ItemAfter(answer) == IF answer = "found" THEN "found" ELSE "failed"
Merged(s, r, answer) ==
    [x \in DOMAIN screen[s].item \cup SourcesOf(r) |->
        IF x \in SourcesOf(r) THEN ItemAfter(answer) ELSE screen[s].item[x]]
Received(r) == request' = [request EXCEPT ![r].state = "received"]

(* runWorker, applyPreviewProgress: a worker goes on with the next source  *)
(* even when its lookup is no longer the one on the screen.                *)
ReceivePreview(r) ==
    LET s == Scope(r) k == Key(r) item == Merged(s, r, request[r].answer)
        todo == lookup[k].todo
        next == IF todo = <<>> THEN <<>> ELSE <<Head(todo)>>
    IN  /\ request[r].state = "answered" /\ lookup[k].pc = "running"
        /\ IF Current(s, k)
           THEN Shows(s, k, \E x \in DOMAIN item : item[x] = "loading", item)
           ELSE UNCHANGED screen
        /\ lookup' = [lookup EXCEPT ![k].todo = SubSeq(todo, Len(next) + 1, Len(todo))]
        /\ Asks(s, k, next, [request EXCEPT ![r].state = "received"])
        /\ UNCHANGED registry

\* A retry that is refused or cancelled leaves its sources loading.
ReceiveRetry(r) ==
    LET s == Scope(r) refused == request[r].answer \notin {"found", "failed"} IN
    /\ request[r].state = "answered" /\ lookup[Key(r)].pc = "retrying"
    /\ Received(r)
    /\ lookup' = [lookup EXCEPT ![Key(r)].pc = IF refused THEN "refused" ELSE "done"]
    /\ IF Current(s, Key(r))
       THEN Shows(s, Key(r), FALSE, IF refused THEN screen[s].item
                                    ELSE Merged(s, r, request[r].answer))
       ELSE UNCHANGED screen
    /\ HostUnchanged

-----------------------------------------------------------------------------
(* The host.  `Signalled` previews have seen their channel say cancelled,  *)
(* or its sender dropped.                                                  *)

Signalled(table, S) ==
    [r \in DOMAIN table |-> IF r \in S /\ table[r].state \in {"waiting", "executing"}
                            THEN [table[r] EXCEPT !.answer = "cancelled"] ELSE table[r]]

\* register: the same key joins the run, another key cancels it.
Registers(r, run) ==
    IF run # NoRun /\ run.key = Key(r)
    THEN [run EXCEPT !.active = @ + 1, !.members = @ \cup {r}]
    ELSE NewRun(Key(r), r)
HostPreviews(r) ==
    LET s == Scope(r)
        run == registry[s]
        joined == run # NoRun /\ run.key = Key(r)
        waiting == [request EXCEPT ![r].state = "waiting",
                       ![r].answer = IF joined /\ run.cancelled THEN "cancelled" ELSE NoKey]
    IN  IF Cardinality(In("waiting") \cup In("executing")) >= MaxPreviews
        THEN /\ request' = [request EXCEPT ![r] = [state |-> "answered", answer |-> "busy"]]
             /\ UNCHANGED registry
        ELSE /\ registry' = [registry EXCEPT ![s] = Registers(r, run)]
             /\ request' = IF run = NoRun \/ joined THEN waiting
                           ELSE Signalled(waiting, run.members)

\* cancel.
HostCancels(s, k) ==
    IF registry[s] = NoRun \/ registry[s].key # k
    THEN UNCHANGED <<request, registry>>
    ELSE /\ registry' = [registry EXCEPT ![s].cancelled = TRUE]
         /\ request' = Signalled(request, registry[s].members)

HostReads ==
    /\ inbox # <<>>
    /\ inbox' = Tail(inbox)
    /\ IF "preview" \in DOMAIN Head(inbox) THEN HostPreviews(Head(inbox).preview)
       ELSE HostCancels(Head(inbox).cancel, Head(inbox).key)
    /\ UNCHANGED <<screen, lookup>>

Execute(r) ==
    /\ request[r].state = "waiting" /\ Cardinality(In("executing")) < MaxExecuting
    /\ request' = [request EXCEPT ![r].state = "executing"]
    /\ UNCHANGED <<screen, lookup>> /\ HostUnchanged

(* complete: the run is matched by its key; the last of it drops the       *)
(* channel, which cancels whoever still listens to it.                     *)
Completes(r, answer) ==
    LET s == Scope(r) run == registry[s]
        mine == run # NoRun /\ run.key = Key(r)
        answered == [request EXCEPT ![r] = [state |-> "answered", answer |-> answer]]
    IN  IF ~mine THEN UNCHANGED registry /\ request' = answered
        ELSE IF run.active > 1
        THEN /\ registry' = [registry EXCEPT ![s].active = @ - 1, ![s].members = @ \ {r}]
             /\ request' = answered
        ELSE /\ registry' = [registry EXCEPT ![s] = NoRun]
             /\ request' = Signalled(answered, run.members)

\* The select of the task: cancelled, or the operation is over.
PreviewCancelled(r) ==
    /\ request[r].state \in {"waiting", "executing"} /\ request[r].answer = "cancelled"
    /\ Completes(r, "cancelled")
    /\ UNCHANGED <<screen, lookup, inbox>>
PreviewDone(r) ==
    /\ request[r].state = "executing"
    /\ \E answer \in {"found", "failed", "error"} : Completes(r, answer)
    /\ UNCHANGED <<screen, lookup, inbox>>

\* The host dies: what it had not answered is answered with an error.
HostDies ==
    /\ inbox' = <<>> /\ registry' = [s \in Scopes |-> NoRun]
    /\ request' = [r \in DOMAIN request |->
          IF request[r].state \in {"sent", "waiting", "executing"}
          THEN [state |-> "answered", answer |-> "error"] ELSE request[r]]
    /\ UNCHANGED <<screen, lookup>>

PreviewInit ==
    /\ screen = [s \in Scopes |-> ScreenState]
    /\ lookup = [k \in Keys |-> NoLookup]
    /\ request = <<>> /\ inbox = <<>>
    /\ registry = [s \in Scopes |-> NoRun]
=============================================================================
