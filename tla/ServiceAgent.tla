---------------------------- MODULE ServiceAgent ----------------------------
(***************************************************************************)
(* The supervisor of the native service (electron/main/service-agent.ts,   *)
(* service-restart-policy.ts, single-flight.ts, child-process-lifecycle.ts)*)
(* with the processes it starts, stops and finds left behind.              *)
(*                                                                         *)
(* Starting, saving new settings, restarting after a crash and quitting    *)
(* are asynchronous functions over the same fields, each suspended many    *)
(* times.  A process is reached by the IPC endpoint, a path that belongs   *)
(* to the process that bound it last, or by the port of its settings.      *)
(***************************************************************************)
EXTENDS Naturals

CONSTANTS Pids,           \* processes
          NoProcess,      \* none of them
          MaxSettings,    \* settings saved, each with a port of its own: a bound
          Disabled,       \* those with the service switched off
          MaxRestarts     \* SERVICE_RESTART_DELAYS_MS.length

ASSUME PidAssumption == NoProcess \notin Pids
ASSUME BoundsAssumption == MaxSettings \in Nat /\ MaxRestarts \in Nat

VARIABLES
    procs,     \* the processes of the operating system
    endpoint,  \* the process that bound the IPC path last
    agent,     \* the fields of ServiceAgentManager
    start,     \* #connectionStart: the start under way
    stop,      \* configure and shutdown, and #stopManagedService in each
    faults,    \* crashes, missed deadlines and failed writes to come: a bound
    unguarded  \* what may happen although the code does not guard against it:
               \* "overlap", a start during a save, and "unrecorded", a start
               \* whose child cannot be recorded

agentVars == <<procs, endpoint, agent, start, stop, faults, unguarded>>

Unborn == [st |-> "none", settings |-> 0, mine |-> FALSE]
Agent(settings) ==
    [settings |-> settings, stored |-> settings, child |-> NoProcess, expected |-> {},
     timer |-> FALSE, waiting |-> "no", joined |-> FALSE, crashes |-> 0, ready |-> FALSE]
NoStart == [pc |-> "idle", settings |-> 0, child |-> NoProcess, failed |-> FALSE]
NoStop == [pc |-> "idle", child |-> NoProcess, old |-> 0, next |-> 0]

(* The application is launched, with the settings stored last, and         *)
(* connects at once.                                                       *)
AgentInit ==
    /\ procs = [p \in Pids |-> Unborn]
    /\ endpoint = NoProcess
    /\ \E settings \in 0..MaxSettings : agent = Agent(settings)
    /\ start = [NoStart EXCEPT !.pc = "begin"]
    /\ stop = [save |-> NoStop, quit |-> NoStop]

Running == stop.quit.pc # "down"
Enabled == agent.settings \notin Disabled
Quitting == stop.quit.pc # "idle"             \* #isShuttingDown
Fault == faults > 0 /\ faults' = faults - 1
Alive(p) == p # NoProcess /\ procs[p].st \in {"booting", "serving", "ending"}
Remains(p) == p # NoProcess /\ procs[p].st # "none"      \* not childProcessHasExited
Serving == {p \in Pids : procs[p].st = "serving"}
Listening(settings) == \E p \in Serving : procs[p].settings = settings

(* readManagedServiceStatus answers: the service at the path has the port. *)
Managed(settings) ==
    endpoint \in Serving /\ procs[endpoint].settings = settings

(* A process ends without a word.  One of this run is noticed later.       *)
Ended(p) == IF procs[p].mine THEN [procs[p] EXCEPT !.st = "exited"] ELSE Unborn
(* LocalIpcListener::drop removes the path, whoever bound it last.         *)
Unbound(p) == IF procs[p].st = "serving" THEN NoProcess ELSE endpoint
Terminate(p) == procs' = [procs EXCEPT ![p] = Ended(p)] /\ endpoint' = Unbound(p)

-----------------------------------------------------------------------------
(* Processes: run_service_runtime as its supervisor sees it                *)

Boot(p) ==
    /\ procs[p].st = "booting"
    /\ IF Listening(procs[p].settings)
       THEN procs' = [procs EXCEPT ![p] = Ended(p)] /\ UNCHANGED endpoint
       ELSE procs' = [procs EXCEPT ![p].st = "serving"] /\ endpoint' = p
    /\ UNCHANGED <<agent, start, stop, faults>>

End(p) ==
    /\ procs[p].st = "ending"
    /\ Terminate(p)
    /\ UNCHANGED <<agent, start, stop, faults>>

Crash(p) ==
    /\ procs[p].st \in {"booting", "serving"} /\ Fault
    /\ procs' = [procs EXCEPT ![p] = Ended(p)]
    /\ UNCHANGED <<endpoint, agent, start, stop>>

(* #scheduleRestart, with registerCrash: crashes of more than two minutes  *)
(* ago are forgotten.                                                      *)
Scheduled(a) ==
    IF a.timer \/ Quitting THEN {a}
    ELSE {[a EXCEPT !.crashes = n, !.timer = n <= MaxRestarts] : n \in 1..(a.crashes + 1)}
Exhausted == agent.crashes > MaxRestarts /\ ~agent.timer

(* handleTermination.                                                      *)
ExitNoticed(p) ==
    LET told == [agent EXCEPT !.expected = @ \ {p},
                              !.child = IF @ = p THEN NoProcess ELSE @]
    IN  /\ procs[p].st = "exited" /\ Running
        /\ procs' = [procs EXCEPT ![p] = Unborn]
        /\ agent' \in IF Enabled /\ agent.child = p /\ p \notin agent.expected
                      THEN Scheduled(told) ELSE {told}
        /\ start' = [start EXCEPT !.failed = @ \/ start.child = p]
        /\ UNCHANGED <<endpoint, stop, faults>>

-----------------------------------------------------------------------------
(* connection and #ensureStarted                                           *)

Quiescent == "overlap" \in unguarded \/ stop.save.pc = "idle"

(* connection, called by a workspace host or a command.                    *)
Connect ==
    /\ start.pc = "idle" /\ ~Quitting /\ Quiescent
    /\ start' = [NoStart EXCEPT !.pc = "begin"]
    /\ UNCHANGED <<procs, endpoint, agent, stop, faults>>

(* What a start that settles leaves to the restarts: the one that joined   *)
(* it schedules the next when it failed, one that waited for it goes on.   *)
Retried_once(ok, a) ==
    {[a EXCEPT !.ready = ok, !.joined = FALSE,
               !.waiting = IF @ = "start" THEN "turn" ELSE @]}
Retried(ok, a) ==
    LET others == [a EXCEPT !.ready = ok, !.joined = FALSE,
                            !.waiting = IF @ = "start" THEN "turn" ELSE @]
    IN  IF ~ok /\ a.joined THEN Scheduled(others) ELSE {others}

(* The start settles, for all who joined it.                               *)
SettleStart(ok, a) ==
    /\ start' = NoStart
    /\ stop' = [stop EXCEPT !.save = IF @.pc = "connect" THEN NoStop ELSE @]
    /\ agent' \in Retried(ok, a)

Begin ==
    /\ start.pc = "begin"
    /\ IF Quitting \/ ~Enabled THEN SettleStart(FALSE, agent)
       ELSE /\ start' = [start EXCEPT !.pc = "probe", !.settings = agent.settings]
            /\ UNCHANGED <<agent, stop>>
    /\ UNCHANGED <<procs, endpoint, faults>>

(* The status of a managed service: reuse it, or take over an orphan.      *)
Probe_adopt ==
    /\ start.pc = "probe" /\ Managed(start.settings)
    /\ SettleStart(TRUE, agent)
    /\ UNCHANGED <<procs, endpoint, faults>>
Probe ==
    /\ start.pc = "probe" /\ Managed(start.settings)
    /\ IF agent.child # NoProcess THEN SettleStart(TRUE, agent)
       ELSE start' = [start EXCEPT !.pc = "ask"] /\ UNCHANGED <<agent, stop>>
    /\ UNCHANGED <<procs, endpoint, faults>>

(* No status, or none in time.                                             *)
ProbeFails ==
    /\ start.pc = "probe"
    /\ IF Managed(start.settings) THEN Fault ELSE UNCHANGED faults
    /\ start' = [start EXCEPT !.pc = "listen"]
    /\ UNCHANGED <<procs, endpoint, agent, stop>>

(* service.shutdown: it is accepted, or refused.                           *)
Accepted ==
    /\ endpoint \in Serving
    /\ procs' = [procs EXCEPT ![endpoint].st = "ending"]
    /\ endpoint' = NoProcess
    /\ UNCHANGED faults
Refused ==
    /\ IF endpoint \in Serving THEN Fault ELSE UNCHANGED faults
    /\ UNCHANGED <<procs, endpoint>>

TakeOver ==
    /\ start.pc = "ask"
    /\ \/ /\ Accepted
          /\ start' = [start EXCEPT !.pc = "listen"]
          /\ UNCHANGED <<agent, stop>>
       \/ Refused /\ SettleStart(FALSE, agent)      \* or its deadline passes

(* isShipFlowServiceListening, and then the new process.                   *)
Listen ==
    /\ start.pc = "listen" /\ (Quitting \/ Listening(start.settings))
    /\ SettleStart(FALSE, agent)
    /\ UNCHANGED <<procs, endpoint, faults>>

Free == {p \in Pids : procs[p] = Unborn /\ endpoint # p
                      /\ p \notin {start.child, stop.save.child, stop.quit.child}}

(* Which free process it becomes makes no difference.                      *)
Spawn ==
    /\ start.pc = "listen" /\ ~Quitting /\ ~Listening(start.settings) /\ Free # {}
    /\ LET p == CHOOSE p \in Free : TRUE
       IN  /\ procs' = [procs EXCEPT ![p] = [st |-> "booting", settings |-> start.settings,
                                             mine |-> TRUE]]
           /\ start' = [start EXCEPT !.pc = "boot", !.child = p]
           /\ agent' = [agent EXCEPT !.child = p, !.stored = start.settings]
    /\ UNCHANGED <<endpoint, stop, faults>>

(* The polls: ready, whoever answers; or the child has exited.             *)
Booted ==
    /\ start.pc = "boot"
    /\ start.failed \/ Managed(start.settings)
    /\ SettleStart(~start.failed, agent)
    /\ UNCHANGED <<procs, endpoint, faults>>

(* persistConfig fails after the spawn: the start does, and the child goes *)
(* on.                                                                     *)
NotRecorded ==
    /\ start.pc = "boot" /\ "unrecorded" \in unguarded /\ Fault
    /\ SettleStart(FALSE, agent)
    /\ UNCHANGED <<procs, endpoint>>

(* The startup deadline, which a child that serves at a path it lost       *)
(* always meets: the child is terminated.                                  *)
Deadline ==
    /\ start.pc = "boot" /\ ~start.failed
    /\ IF start.child \in Serving /\ ~Managed(start.settings) THEN UNCHANGED faults ELSE Fault
    /\ Terminate(start.child)
    /\ agent' = [agent EXCEPT !.expected = @ \cup {start.child}]
    /\ start' = [start EXCEPT !.pc = "kill"]
    /\ UNCHANGED stop

Killed ==
    /\ start.pc = "kill" /\ start.failed
    /\ SettleStart(FALSE, [agent EXCEPT !.stored = start.settings])
    /\ UNCHANGED <<procs, endpoint, faults>>

StartStep ==
    \/ Begin \/ Probe \/ ProbeFails \/ TakeOver \/ Listen \/ Spawn
    \/ Booted \/ NotRecorded \/ Deadline \/ Killed

-----------------------------------------------------------------------------
(* #scheduleRestart's timer, and #restartAfterCrash                        *)

TimerFires ==
    /\ agent.timer
    /\ agent' = [agent EXCEPT !.timer = FALSE,
                              !.waiting = IF ~Enabled THEN "no"
                                          ELSE IF start.pc = "idle" THEN "turn" ELSE "start"]
    /\ UNCHANGED <<procs, endpoint, start, stop, faults>>

Restart ==
    /\ agent.waiting = "turn" /\ Quiescent
    /\ agent' = [agent EXCEPT !.waiting = "no", !.joined = ~Quitting]
    /\ start' = IF Quitting \/ start.pc # "idle" THEN start
                ELSE [NoStart EXCEPT !.pc = "begin"]
    /\ UNCHANGED <<procs, endpoint, stop, faults>>

-----------------------------------------------------------------------------
(* #stopManagedService, called by c: "save" (requireStopped) or "quit"     *)

Goes(c, pc) == stop' = [stop EXCEPT ![c].pc = pc]

(* The service is not to be stopped: configure throws, shutdown goes on.   *)
LeftRunning(c) ==
    /\ stop' = [stop EXCEPT ![c] = IF c = "save" THEN NoStop ELSE [@ EXCEPT !.pc = "stopped"]]
    /\ agent' = [agent EXCEPT !.ready = FALSE]

Answered(c) ==
    /\ stop[c].pc = "status" /\ Managed(stop[c].old)
    /\ stop' = [stop EXCEPT ![c].pc = "ask", ![c].child = agent.child]
    /\ agent' = [agent EXCEPT !.expected = @ \cup ({agent.child} \ {NoProcess})]
    /\ UNCHANGED <<procs, endpoint, start, faults>>

(* No status, or none in time: the child is terminated; a service without  *)
(* one that listens on the port is left.                                   *)
Unanswered(c) ==
    /\ stop[c].pc = "status"
    /\ IF Managed(stop[c].old) THEN Fault ELSE UNCHANGED faults
    /\ IF Listening(stop[c].old) /\ agent.child = NoProcess
       THEN LeftRunning(c)
       ELSE /\ stop' = [stop EXCEPT ![c].pc = "exit", ![c].child = agent.child]
            /\ UNCHANGED agent
    /\ UNCHANGED <<procs, endpoint, start>>

Ask_trust_accept(c) ==
    /\ stop[c].pc = "ask"
    /\ \/ Accepted /\ Goes(c, "exit")
       \/ Refused /\ Goes(c, "stopped")
    /\ UNCHANGED <<agent, start>>
Ask(c) ==
    /\ stop[c].pc = "ask"
    /\ \/ Accepted /\ Goes(c, "exit") /\ UNCHANGED agent
       \/ /\ IF endpoint \in Serving THEN Fault ELSE UNCHANGED faults
          /\ IF Remains(stop[c].child)
             THEN Terminate(stop[c].child) /\ Goes(c, "exit") /\ UNCHANGED agent
             ELSE LeftRunning(c) /\ UNCHANGED <<procs, endpoint>>
    /\ UNCHANGED start

(* terminateChildProcess, when the child does not exit by itself.          *)
Kill_ignored(c) ==
    /\ stop[c].pc = "exit" /\ Alive(stop[c].child)
    /\ IF procs[stop[c].child].st = "ending" THEN Terminate(stop[c].child)
       ELSE UNCHANGED <<procs, endpoint>>
    /\ agent' = [agent EXCEPT !.expected = @ \cup {stop[c].child}]
    /\ UNCHANGED <<start, stop, faults>>
Kill(c) ==
    /\ stop[c].pc = "exit" /\ Alive(stop[c].child)
    /\ Terminate(stop[c].child)
    /\ agent' = [agent EXCEPT !.expected = @ \cup {stop[c].child}]
    /\ UNCHANGED <<start, stop, faults>>

ChildGone(c) ==
    /\ stop[c].pc = "exit"
    /\ ~Remains(stop[c].child)
    /\ Goes(c, "stopped")
    /\ UNCHANGED <<procs, endpoint, agent, start, faults>>

-----------------------------------------------------------------------------
(* configure                                                               *)

SaveBegins ==
    /\ stop.save.pc = "idle" /\ Running
    /\ "overlap" \in unguarded \/ start.pc = "idle"
    /\ \/ /\ agent.settings < MaxSettings                 \* requiresRestart
          /\ stop' = [stop EXCEPT !.save = [pc |-> "status", child |-> NoProcess,
                         old |-> agent.settings, next |-> agent.settings + 1]]
          /\ agent' = [agent EXCEPT !.timer = FALSE, !.crashes = 0]
       \/ /\ stop' = [stop EXCEPT !.save = [pc |-> "stopped", child |-> NoProcess,
                         old |-> agent.settings, next |-> agent.settings]]
          /\ UNCHANGED agent
    /\ UNCHANGED <<procs, endpoint, start, faults>>

(* persistConfig, the new fields, and connection.                          *)
SavePersists ==
    /\ stop.save.pc = "stopped"
    /\ agent' = [agent EXCEPT !.settings = stop.save.next, !.stored = stop.save.next]
    /\ IF Quitting \/ stop.save.next \in Disabled
       THEN stop' = [stop EXCEPT !.save = NoStop] /\ UNCHANGED start
       ELSE /\ Goes("save", "connect")
            /\ start' = IF start.pc = "idle" THEN [NoStart EXCEPT !.pc = "begin"] ELSE start
    /\ UNCHANGED <<procs, endpoint, faults>>

SaveFails ==
    /\ stop.save.pc = "stopped" /\ Fault
    /\ stop' = [stop EXCEPT !.save = NoStop]
    /\ UNCHANGED <<procs, endpoint, agent, start>>

-----------------------------------------------------------------------------
(* shutdown, and the end of the application                                *)

Quit ==
    /\ ~Quitting
    /\ Goes("quit", "await")
    /\ agent' = [agent EXCEPT !.timer = FALSE, !.crashes = 0]
    /\ UNCHANGED <<procs, endpoint, start, faults>>

Awaited ==
    /\ stop.quit.pc = "await" /\ start.pc = "idle"
    /\ stop' = [stop EXCEPT !.quit = [@ EXCEPT !.pc = "status", !.old = agent.settings]]
    /\ UNCHANGED <<procs, endpoint, agent, start, faults>>

(* Orphans go on; who was started by this run is one from now on.          *)
Left(down) ==
    /\ procs' = [p \in Pids |-> IF down[p].st = "exited" THEN Unborn
                                ELSE [down[p] EXCEPT !.mine = FALSE]]
    /\ start' = NoStart
    /\ stop' = [save |-> NoStop, quit |-> [NoStop EXCEPT !.pc = "down"]]

QuitEnds ==
    /\ stop.quit.pc = "stopped"
    /\ Left(procs)
    /\ agent' = Agent(stop.quit.old)
    /\ UNCHANGED <<endpoint, faults>>

AppCrash ==
    /\ Running /\ Fault
    /\ Left(procs)
    /\ agent' = Agent(agent.stored)
    /\ UNCHANGED endpoint

(* A process that was booting has its port, or none, before the            *)
(* application is there again.                                             *)
Launch ==
    /\ ~Running /\ \A p \in Pids : procs[p].st # "booting"
    /\ start' = [NoStart EXCEPT !.pc = "begin"]
    /\ stop' = [stop EXCEPT !.quit = NoStop]
    /\ UNCHANGED <<procs, endpoint, agent, faults>>

-----------------------------------------------------------------------------
Callers == {"save", "quit"}
StopStep(c) == Answered(c) \/ Unanswered(c) \/ Ask(c) \/ Kill(c) \/ ChildGone(c)
ProcessStep(p) == Boot(p) \/ End(p) \/ ExitNoticed(p)
=============================================================================
