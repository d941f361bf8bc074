---------------------------- MODULE Application ----------------------------
(***************************************************************************)
(* The main process of the desktop application (electron/main/index.ts):   *)
(* its windows and the quit that asks them (QuitCoordinator), and the      *)
(* supervisor of the native service (ServiceAgent).  The quit that has     *)
(* every decision shuts the service down, the end of that shutdown ends    *)
(* the application, and a crash ends both at any step; processes of the    *)
(* service that are left over meet the next launch.                        *)
(***************************************************************************)
EXTENDS QuitCoordinator, ServiceAgent

CONSTANT Sessions   \* what a behaviour may meet: its windows, renderer crashes,
                    \* faults, settings saved before, whether commands reach the
                    \* supervisor, and what is not guarded against: bounds

ASSUME SessionsAssumption ==
    \A s \in Sessions :
        /\ s.windows \subseteq Windows /\ s.settings \in 0..MaxSettings
        /\ s.crashes \in Nat /\ s.faults \in Nat

VARIABLE session

vars == <<quitVars, agentVars, session>>

Init ==
    /\ session \in Sessions
    /\ QuitInit /\ AgentInit
    /\ crashes = session.crashes
    /\ faults = session.faults
    /\ agent.settings = session.settings
    /\ unguarded = session.unguarded

-----------------------------------------------------------------------------
(* finalizeApplicationQuit begins the shutdown of the service.             *)
ShutsDown ==
    IF quit.pc # "final" /\ quit'.pc = "final" THEN Quit
    ELSE UNCHANGED <<procs, endpoint, agent, start, stop, faults>>

(* The interface, while the main process runs.                             *)
Desk(w) == Running /\ WindowStep(w) /\ ShutsDown /\ UNCHANGED <<unguarded, session>>
Asking(w) == Running /\ Dialog(w) /\ ShutsDown /\ UNCHANGED <<unguarded, session>>
QuitRequested == Running /\ Request /\ ShutsDown /\ UNCHANGED <<unguarded, session>>

(* The service and its supervisor, which do not look at the windows.       *)
elsewhere == <<quitVars, unguarded, session>>
Process(p) == ProcessStep(p) /\ UNCHANGED elsewhere
Starting == StartStep /\ UNCHANGED elsewhere
Firing == TimerFires /\ UNCHANGED elsewhere
Restarting == Restart /\ UNCHANGED elsewhere
Stopping(c) == StopStep(c) /\ UNCHANGED elsewhere
Saving == SavePersists /\ UNCHANGED elsewhere
Awaiting == Awaited /\ UNCHANGED elsewhere
Elsewhere ==
    /\ session.commands
    /\ Connect \/ SaveBegins \/ SaveFails \/ \E p \in Pids : Crash(p)
    /\ UNCHANGED elsewhere

(* app.quit, or the main process dies: windows go, processes stay.         *)
Quits == QuitEnds /\ Exit /\ UNCHANGED <<unguarded, session>>
Dies == AppCrash /\ Exit /\ UNCHANGED <<unguarded, session>>
Launched == Launch /\ UNCHANGED elsewhere

Next ==
    \/ \E w \in session.windows : Desk(w) \/ Asking(w)
    \/ QuitRequested
    \/ \E p \in Pids : Process(p)
    \/ Starting \/ Firing \/ Restarting
    \/ \E c \in Callers : Stopping(c)
    \/ Saving \/ Awaiting \/ Elsewhere
    \/ Quits \/ Dies \/ Launched

(* Processes run, events, commands and timers are dispatched, requests to  *)
(* the service are answered or time out, and the user answers a dialog     *)
(* that is shown; nobody has to edit, save, connect, quit or launch.       *)
Fairness ==
    /\ \A w \in Windows : WF_vars(Asking(w))
    /\ \A p \in Pids : WF_vars(Boot(p) /\ UNCHANGED elsewhere)
    /\ \A p \in Pids : WF_vars(End(p) /\ UNCHANGED elsewhere)
    /\ \A p \in Pids : WF_vars(ExitNoticed(p) /\ UNCHANGED elsewhere)
    /\ WF_vars(Starting) /\ WF_vars(Firing) /\ WF_vars(Restarting)
    /\ \A c \in Callers : WF_vars(Stopping(c))
    /\ WF_vars(Saving) /\ WF_vars(Awaiting) /\ WF_vars(Quits)

Spec == Init /\ [][Next]_vars /\ Fairness

-----------------------------------------------------------------------------
(* Properties                                                              *)

(* No window loses unsaved changes without a question: a cancelled quit    *)
(* takes back every permission it was given, so that while no quit is      *)
(* under way every window would ask; and native shutdown does not begin    *)
(* while a window is open whose changes were unsaved all the time since    *)
(* the quit was requested, and about which its user was not asked.         *)
ChangesAsked ==
    /\ quit.pc = "none" => \A w \in Windows : IsOpen(w) => ~win[w].allowClose
    /\ quit.pc = "final" => unsaved = {}

(* The question of a renderer that crashed: lost, and not asked again.     *)
Unanswerable(w) ==
    win[w].closeRequestPending /\ win[w].dialog = "none"

(* A quit ends, cancelled or with the application: in any order of answers *)
(* and of windows that close by themselves, unless a renderer loses its    *)
(* question, and whichever start, save or restart of the service it        *)
(* interrupts.                                                             *)
QuitSettles ==
    quit.pc # "none" ~>
        quit.pc = "none" \/ (quit.pc = "asking" /\ Unanswerable(quit.current))

(* docs/runtime-architecture.md:151: a quit that ends leaves no process    *)
(* that this run of the application started, but those that are ending.    *)
QuitStopsService ==
    [][unguarded = {} /\ stop.quit.pc = "stopped" /\ stop'.quit.pc = "down" =>
         \A p \in Pids : procs[p].mine => procs[p].st \in {"ending", "exited"}]_vars

Up(p) == procs[p].st \in {"booting", "serving"}

(* Never do two processes boot or serve, whichever starts, saves, restarts *)
(* and quits meet each other and whatever earlier runs left: one that does *)
(* has the settings saved last, which a crash of the application finds     *)
(* again, it is reached at the endpoint when it serves, and once a start   *)
(* has succeeded it is the child whose exit restarts it.                   *)
Supervised ==
    unguarded = {} /\ Running =>
        /\ agent.stored = agent.settings
        /\ \A p, q \in Pids : Up(p) /\ Up(q) => p = q
        /\ \A p \in Pids : Up(p) =>
              /\ procs[p].settings = agent.settings
              /\ procs[p].st = "serving" => p = endpoint
              /\ agent.ready => p = agent.child

(* After a crash the service comes back, whatever else is started, crashes *)
(* or is found listening meanwhile, unless the user intervenes or the      *)
(* policy gives up.                                                        *)
ServiceReturns ==
    (unguarded = {} /\ agent.timer) ~>
        \/ Serving # {} \/ Exhausted \/ ~Enabled
        \/ \E c \in Callers : stop[c].pc # "idle"
=============================================================================
