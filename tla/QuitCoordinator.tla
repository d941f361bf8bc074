-------------------------- MODULE QuitCoordinator --------------------------
(***************************************************************************)
(* The end of the desktop application (electron/main/application-          *)
(* lifecycle.ts, with the windows of electron/main/index.ts and the close  *)
(* dialog of useWorkspaceDocumentController.ts).                           *)
(*                                                                         *)
(* A quit asks each window with unsaved changes, one after the other.  The *)
(* question is an event to the window's renderer, the answer a command     *)
(* from it; between them windows are edited, saved, opened and closed, and *)
(* renderers crash and are loaded again.  Windows are asked in the order   *)
(* they were opened in, which nothing depends on and is left open here.    *)
(***************************************************************************)
EXTENDS Naturals

CONSTANTS Windows,      \* the workspace windows that may be open
          NoWindow      \* none of them

ASSUME WindowAssumption == NoWindow \notin Windows

VARIABLES
    opened,    \* windowsByLabel: the open windows
    win,       \* WindowRecord of each, with its renderer and close dialog
    quit,      \* #pending, or the finalization
    unsaved,   \* the windows with unsaved changes ever since the quit began
    crashes    \* the renderer crashes to come: a bound

quitVars == <<opened, win, quit, unsaved, crashes>>

(* createWindow.                                                           *)
Fresh == [isDirty |-> FALSE, allowClose |-> FALSE, closeRequestPending |-> FALSE,
          renderer |-> "up", dialog |-> "none"]
NoQuit == [pc |-> "none", remaining |-> {}, resolved |-> {}, current |-> NoWindow]

QuitInit ==
    /\ opened = {}
    /\ win = [w \in Windows |-> Fresh]
    /\ quit = NoQuit
    /\ unsaved = {}

IsOpen(w) == w \in opened
Undecided(r) == r.isDirty /\ ~r.allowClose

(* emitWindowEvent: a renderer that is gone receives nothing, and one      *)
(* whose answer is on its way closes the dialog with it.                   *)
Asked(r) ==
    [r EXCEPT !.closeRequestPending = TRUE,
              !.dialog = IF r.renderer = "up" /\ @ = "none" THEN "sent" ELSE @]

-----------------------------------------------------------------------------
(* ApplicationQuitCoordinator                                              *)

(* #beginFinalize, finalizeApplicationQuit: native shutdown begins.        *)
Finalize(w) ==
    /\ quit' = [NoQuit EXCEPT !.pc = "final"]
    /\ win' = [v \in Windows |-> [w[v] EXCEPT !.allowClose = @ \/ IsOpen(v)]]

(* #requestNextDecision, with the windows as w: those it comes by that     *)
(* need no decision any more are passed over for good.                     *)
RequestNextDecision(w, remaining, resolved) ==
    LET undecided == {v \in remaining : Undecided(w[v])}
    IN  IF undecided = {} THEN Finalize(w)
        ELSE \E next \in undecided, passed \in SUBSET (remaining \ undecided) :
               /\ quit' = [pc |-> "asking", current |-> next, resolved |-> resolved,
                           remaining |-> remaining \ ({next} \cup passed)]
               /\ win' = [w EXCEPT ![next] = Asked(@)]

Listed_not_pending == {w \in opened : Undecided(win[w]) /\ ~win[w].closeRequestPending}
Listed == {w \in opened : Undecided(win[w])}

(* request.                                                                *)
Request ==
    /\ quit.pc = "none"
    /\ RequestNextDecision(win, Listed, {})
    /\ unsaved' = {w \in Windows : IsOpen(w) /\ win[w].isDirty}
    /\ UNCHANGED <<opened, crashes>>

(* resolve, the cancelled quit: the windows as they become.                *)
Restored_only_current(w, cancelled) ==
    [w EXCEPT ![cancelled].allowClose = FALSE]
Restored(w, cancelled) ==
    [v \in Windows |-> IF v \in quit.resolved THEN [w[v] EXCEPT !.allowClose = FALSE] ELSE w[v]]

(* remove, with the windows as w.                                          *)
RemoveWindow_keep_current(w, gone) ==
    /\ win' = w
    /\ quit' = [quit EXCEPT !.remaining = @ \ {gone}, !.resolved = @ \ {gone}]
RemoveWindow(w, gone) ==
    LET others == quit.remaining \ {gone}
    IN  IF quit.pc # "asking" THEN win' = w /\ UNCHANGED quit
        ELSE IF quit.current = gone
             THEN RequestNextDecision(w, others, quit.resolved \ {gone})
             ELSE /\ quit' = [quit EXCEPT !.remaining = others, !.resolved = @ \ {gone}]
                  /\ win' = w

-----------------------------------------------------------------------------
(* The windows                                                             *)

Open(w) ==
    /\ ~IsOpen(w) /\ quit.pc # "final"
    /\ opened' = opened \cup {w}
    /\ win' = [win EXCEPT ![w] = Fresh]
    /\ UNCHANGED <<quit, unsaved, crashes>>

(* set_current_window_document_state.                                      *)
Edit(w) ==
    /\ IsOpen(w) /\ quit.pc # "final" /\ win[w].renderer = "up" /\ ~win[w].isDirty
    /\ win' = [win EXCEPT ![w].isDirty = TRUE]
    /\ UNCHANGED <<opened, quit, unsaved, crashes>>

Save(w) ==
    /\ IsOpen(w) /\ quit.pc # "final" /\ win[w].renderer = "up" /\ win[w].isDirty
    /\ win' = [win EXCEPT ![w].isDirty = FALSE]
    /\ unsaved' = unsaved \ {w}
    /\ UNCHANGED <<opened, quit, crashes>>

(* The "closed" event.                                                     *)
Closed(w) ==
    /\ opened' = opened \ {w}
    /\ unsaved' = unsaved \ {w}
    /\ RemoveWindow([win EXCEPT ![w] = Fresh], w)

(* The "close" event: with unsaved changes, ask first.                     *)
CloseButton(w) ==
    /\ IsOpen(w) /\ quit.pc # "final"
    /\ IF Undecided(win[w])
       THEN /\ ~win[w].closeRequestPending
            /\ win' = [win EXCEPT ![w] = Asked(@)]
            /\ UNCHANGED <<opened, quit, unsaved>>
       ELSE Closed(w)
    /\ UNCHANGED crashes

(* "shipflow://window-close-requested" arrives in the renderer.            *)
Show(w) ==
    /\ win[w].dialog = "sent"
    /\ win' = [win EXCEPT ![w].dialog = "shown"]
    /\ UNCHANGED <<opened, quit, unsaved, crashes>>

(* Batal, Jangan Simpan, or Simpan & Tutup, which saves first.             *)
Answer(w) ==
    /\ win[w].dialog = "shown" /\ quit.pc # "final"
    /\ \E a \in {"cancel", "discard"} : win' = [win EXCEPT ![w].dialog = a]
    /\ UNCHANGED <<opened, quit, unsaved, crashes>>

(* resolve_window_close_request.                                           *)
Resolve(w) ==
    LET told == [win EXCEPT ![w].closeRequestPending = FALSE, ![w].dialog = "none"]
        discard == win[w].dialog = "discard"
        accepted == [told EXCEPT ![w].allowClose = TRUE]
    IN  /\ win[w].dialog \in {"cancel", "discard"} /\ quit.pc # "final"
        /\ IF quit.pc = "asking" /\ quit.current = w
           THEN /\ IF discard
                   THEN RequestNextDecision(accepted, quit.remaining, quit.resolved \cup {w})
                   ELSE quit' = NoQuit /\ win' = Restored(told, w)
                /\ unsaved' = unsaved \ {w}
                /\ UNCHANGED opened
           ELSE IF discard THEN Closed(w)
                ELSE win' = told /\ UNCHANGED <<opened, quit, unsaved>>
        /\ UNCHANGED crashes

(* render-process-gone: the dialog, or its answer, is gone with it.        *)
RendererGone(w) ==
    /\ IsOpen(w) /\ win[w].renderer = "up" /\ quit.pc # "final" /\ crashes > 0
    /\ win' = [win EXCEPT ![w].renderer = "gone", ![w].dialog = "none"]
    /\ crashes' = crashes - 1
    /\ UNCHANGED <<opened, quit, unsaved>>

(* scheduleRendererRecovery: the record of the window stays as it was, but *)
(* for the state that the renderer reports again, by Edit or Save.         *)
RendererLoaded(w) ==
    /\ win[w].renderer = "gone" /\ quit.pc # "final"
    /\ win' = [win EXCEPT ![w].renderer = "up"]
    /\ UNCHANGED <<opened, quit, unsaved, crashes>>

(* The application exits, and its windows with it.                         *)
Exit ==
    /\ opened' = {} /\ win' = [w \in Windows |-> Fresh] /\ quit' = NoQuit
    /\ unsaved' = {} /\ UNCHANGED crashes

Dialog(w) == Show(w) \/ Answer(w) \/ Resolve(w)
WindowStep(w) ==
    \/ Open(w) \/ Edit(w) \/ Save(w) \/ CloseButton(w)
    \/ RendererGone(w) \/ RendererLoaded(w)
=============================================================================
