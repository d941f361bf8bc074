------------------------- MODULE ApplicationProofs -------------------------
(***************************************************************************)
(* Theorems about Application, for every set of windows and processes, any *)
(* number of settings, restarts, crashes and faults, and any number of     *)
(* launches.                                                               *)
(***************************************************************************)
EXTENDS Application, TLAPS

-----------------------------------------------------------------------------
(* The quit and the windows                                                *)

WindowRecord ==
    [isDirty : BOOLEAN, allowClose : BOOLEAN, closeRequestPending : BOOLEAN,
     renderer : {"up", "gone"}, dialog : {"none", "sent", "shown", "cancel", "discard"}]
QuitRecord ==
    [pc : {"none", "asking", "final"}, remaining : SUBSET Windows,
     resolved : SUBSET Windows, current : Windows \cup {NoWindow}]

QuitTyped ==
    /\ opened \subseteq Windows /\ unsaved \subseteq Windows
    /\ win \in [Windows -> WindowRecord]
    /\ quit \in QuitRecord

(* While the quit asks, only windows it has a decision for may close, and  *)
(* one that was unsaved ever since is asked or still to be asked: it is    *)
(* among those that are never passed over.                                 *)
Asks ==
    quit.pc = "asking" =>
        /\ \A w \in opened : win[w].allowClose => w \in quit.resolved
        /\ unsaved \subseteq quit.remaining \cup {quit.current}
        /\ \A w \in unsaved : w \in opened /\ Undecided(win[w])

QuitInv == QuitTyped /\ Asks /\ ChangesAsked

LEMMA AskedRecord ==
    ASSUME NEW r \in WindowRecord
    PROVE  /\ Asked(r) \in WindowRecord
           /\ Asked(r).allowClose = r.allowClose /\ Asked(r).isDirty = r.isDirty
BY DEF WindowRecord, Asked

LEMMA Withdrawn ==
    ASSUME NEW r \in WindowRecord
    PROVE  [r EXCEPT !.allowClose = FALSE] \in WindowRecord
BY DEF WindowRecord

(* Both answers and the windows that close go on with the next question:   *)
(* nobody unsaved ever since the quit began is lost by it.                 *)
LEMMA NextDecision ==
    ASSUME NEW w \in [Windows -> WindowRecord],
           NEW remaining \in SUBSET Windows, NEW resolved \in SUBSET Windows,
           QuitTyped, RequestNextDecision(w, remaining, resolved),
           opened' \subseteq Windows, unsaved' \subseteq remaining,
           \A v \in opened' : w[v].allowClose => v \in resolved,
           \A v \in unsaved' : v \in opened' /\ Undecided(w[v])
    PROVE  QuitInv'
<1> DEFINE undecided == {v \in remaining : Undecided(w[v])}
<1>1. CASE undecided = {}
  <2>1. Finalize(w)
    BY <1>1 DEF RequestNextDecision
  <2>2. unsaved' = {}
    BY <1>1
  <2>3. quit' = [pc |-> "final", remaining |-> {}, resolved |-> {}, current |-> NoWindow]
    BY <2>1 DEF Finalize, NoQuit
  <2>4. \A v \in Windows : [w[v] EXCEPT !.allowClose = @ \/ IsOpen(v)] \in WindowRecord
    BY DEF WindowRecord, IsOpen
  <2>5. win' \in [Windows -> WindowRecord]
    BY <2>1, <2>4 DEF Finalize
  <2> QED
    BY <2>2, <2>3, <2>5 DEF QuitInv, QuitTyped, Asks, ChangesAsked, QuitRecord
<1>2. CASE undecided # {}
  <2>1. PICK next \in undecided, passed \in SUBSET (remaining \ undecided) :
          /\ quit' = [pc |-> "asking", current |-> next, resolved |-> resolved,
                      remaining |-> remaining \ ({next} \cup passed)]
          /\ win' = [w EXCEPT ![next] = Asked(@)]
    BY <1>2 DEF RequestNextDecision
  <2>2. win' \in [Windows -> WindowRecord]
    BY <2>1, AskedRecord
  <2>3. \A v \in Windows : win'[v].allowClose = w[v].allowClose /\ win'[v].isDirty = w[v].isDirty
    BY <2>1, AskedRecord
  <2>4. unsaved' \subseteq undecided
    OBVIOUS
  <2>5. quit' \in QuitRecord /\ quit'.pc = "asking"
    BY <2>1 DEF QuitRecord
  <2>6. unsaved' \subseteq quit'.remaining \cup {quit'.current}
    BY <2>1, <2>4
  <2> QED
    BY <2>1, <2>2, <2>3, <2>5, <2>6
       DEF QuitInv, QuitTyped, Asks, ChangesAsked, Undecided
<1> QED
  BY <1>1, <1>2

LEMMA WindowCloses ==
    ASSUME QuitInv, NEW w \in Windows, quit.pc # "final", Closed(w)
    PROVE  QuitInv'
<1> DEFINE after == [win EXCEPT ![w] = Fresh]
<1>1. /\ after \in [Windows -> WindowRecord]
      /\ opened' = opened \ {w} /\ unsaved' = unsaved \ {w} /\ RemoveWindow(after, w)
      /\ \A v \in Windows : after[v] = IF v = w THEN Fresh ELSE win[v]
  BY DEF QuitInv, QuitTyped, Closed, WindowRecord, Fresh
<1> HIDE DEF after
<1>2. CASE quit.pc = "asking" /\ quit.current = w
  <2>1. RequestNextDecision(after, quit.remaining \ {w}, quit.resolved \ {w})
    BY <1>1, <1>2 DEF RemoveWindow
  <2>2. /\ opened' \subseteq Windows /\ unsaved' \subseteq quit.remaining \ {w}
        /\ quit.remaining \ {w} \in SUBSET Windows /\ quit.resolved \ {w} \in SUBSET Windows
        /\ \A v \in opened' : after[v].allowClose => v \in quit.resolved \ {w}
        /\ \A v \in unsaved' : v \in opened' /\ Undecided(after[v])
    BY <1>1, <1>2 DEF QuitInv, QuitTyped, QuitRecord, Asks
  <2> QED
    BY <1>1, <2>1, <2>2, NextDecision DEF QuitInv
<1>3. CASE quit.pc = "asking" /\ quit.current # w
  <2>1. /\ win' = after
        /\ quit' = [quit EXCEPT !.remaining = @ \ {w}, !.resolved = @ \ {w}]
    BY <1>1, <1>3 DEF RemoveWindow, QuitInv, QuitTyped, QuitRecord
  <2> QED
    BY <1>1, <1>3, <2>1 DEF QuitInv, QuitTyped, QuitRecord, Asks, ChangesAsked
<1>4. CASE quit.pc = "none"
  BY <1>1, <1>4 DEF RemoveWindow, QuitInv, QuitTyped, QuitRecord, Asks, ChangesAsked, IsOpen
<1> QED
  BY <1>2, <1>3, <1>4 DEF QuitInv, QuitTyped, QuitRecord

(* The answer of a window: the quit's own, or that of its close button.    *)
LEMMA WindowResolves ==
    ASSUME QuitInv, NEW w \in Windows, Resolve(w)
    PROVE  QuitInv'
<1> DEFINE told == [win EXCEPT ![w].closeRequestPending = FALSE, ![w].dialog = "none"]
           accepted == [told EXCEPT ![w].allowClose = TRUE]
<1>1. /\ told \in [Windows -> WindowRecord] /\ accepted \in [Windows -> WindowRecord]
      /\ \A v \in Windows : /\ told[v].isDirty = win[v].isDirty
                            /\ told[v].allowClose = win[v].allowClose
                            /\ accepted[v] = IF v = w THEN [told[w] EXCEPT !.allowClose = TRUE]
                                             ELSE told[v]
  BY DEF QuitInv, QuitTyped, WindowRecord
<1>2. /\ quit.pc # "final"
      /\ \/ /\ quit.pc = "asking" /\ quit.current = w /\ win[w].dialog = "discard"
            /\ RequestNextDecision(accepted, quit.remaining, quit.resolved \cup {w})
            /\ unsaved' = unsaved \ {w} /\ opened' = opened
         \/ /\ quit.pc = "asking" /\ quit.current = w
            /\ quit' = NoQuit /\ win' = Restored(told, w)
            /\ unsaved' = unsaved \ {w} /\ opened' = opened
         \/ Closed(w)
         \/ win' = told /\ UNCHANGED <<opened, quit, unsaved>>
  BY DEF Resolve
<1> HIDE DEF told, accepted
<1>3. ASSUME quit.pc = "asking", quit.current = w, unsaved' = unsaved \ {w}, opened' = opened,
             RequestNextDecision(accepted, quit.remaining, quit.resolved \cup {w})
      PROVE  QuitInv'
  <2>1. /\ opened' \subseteq Windows /\ unsaved' \subseteq quit.remaining
        /\ quit.remaining \in SUBSET Windows /\ quit.resolved \cup {w} \in SUBSET Windows
        /\ \A v \in opened' : accepted[v].allowClose => v \in quit.resolved \cup {w}
        /\ \A v \in unsaved' : v \in opened' /\ Undecided(accepted[v])
    BY <1>1, <1>3 DEF QuitInv, QuitTyped, QuitRecord, Asks, Undecided
  <2> QED
    BY <1>1, <1>3, <2>1, NextDecision DEF QuitInv
<1>4. ASSUME quit.pc = "asking", unsaved' = unsaved \ {w}, opened' = opened,
             quit' = NoQuit, win' = Restored(told, w)
      PROVE  QuitInv'
  <2>1. \A v \in Windows : win'[v] = IF v \in quit.resolved
                                     THEN [told[v] EXCEPT !.allowClose = FALSE] ELSE told[v]
    BY <1>4 DEF Restored
  <2>2. ASSUME NEW v \in Windows
        PROVE  win'[v] \in WindowRecord
    <3>1. told[v] \in WindowRecord
      BY <1>1
    <3>2. win'[v] = told[v] \/ win'[v] = [told[v] EXCEPT !.allowClose = FALSE]
      BY <2>1
    <3> QED
      BY <3>1, <3>2, Withdrawn
  <2>3. win' \in [Windows -> WindowRecord]
    BY <1>4, <2>2 DEF Restored
  <2>4. \A v \in opened : told[v].allowClose => v \in quit.resolved
    BY <1>1, <1>4 DEF QuitInv, QuitTyped, Asks
  <2>5. \A v \in opened : ~win'[v].allowClose
    <3> SUFFICES ASSUME NEW v \in opened PROVE ~win'[v].allowClose
      OBVIOUS
    <3>1. v \in Windows /\ told[v] \in WindowRecord
      BY <1>1 DEF QuitInv, QuitTyped
    <3>2. CASE v \in quit.resolved
      BY <2>1, <3>1, <3>2 DEF WindowRecord
    <3>3. CASE v \notin quit.resolved
      BY <2>1, <2>4, <3>1, <3>3
    <3> QED
      BY <3>2, <3>3
  <2> QED
    BY <1>4, <2>3, <2>5 DEF QuitInv, QuitTyped, QuitRecord, NoQuit, Asks, ChangesAsked, IsOpen
<1>5. CASE win' = told /\ UNCHANGED <<opened, quit, unsaved>>
  BY <1>1, <1>5 DEF QuitInv, QuitTyped, Asks, ChangesAsked, IsOpen, Undecided
<1> QED
  BY <1>2, <1>3, <1>4, <1>5, WindowCloses

LEMMA WindowSteps ==
    ASSUME QuitInv, NEW w \in Windows, WindowStep(w) \/ Dialog(w)
    PROVE  QuitInv'
<1> USE DEF QuitInv, QuitTyped, WindowRecord
<1>1. CASE Open(w)
  BY <1>1 DEF Open, Fresh, Asks, ChangesAsked, IsOpen, Undecided
<1>2. CASE Edit(w)
  BY <1>2 DEF Edit, Asks, ChangesAsked, IsOpen, Undecided
<1>3. CASE Save(w)
  BY <1>3 DEF Save, Asks, ChangesAsked, IsOpen, Undecided
<1>4. CASE CloseButton(w)
  <2>1. CASE Closed(w)
    BY <1>4, <2>1, WindowCloses DEF CloseButton
  <2>2. CASE win' = [win EXCEPT ![w] = Asked(@)] /\ UNCHANGED <<opened, quit, unsaved>>
    <3>1. /\ win' \in [Windows -> WindowRecord]
          /\ \A v \in Windows : /\ win'[v].allowClose = win[v].allowClose
                                /\ win'[v].isDirty = win[v].isDirty
      BY <2>2, AskedRecord
    <3> QED
      BY <2>2, <3>1 DEF Asks, ChangesAsked, IsOpen, Undecided
  <2> QED
    BY <1>4, <2>1, <2>2 DEF CloseButton
<1>5. CASE RendererGone(w)
  <2>1. /\ win' \in [Windows -> WindowRecord]
        /\ \A v \in Windows : /\ win'[v].allowClose = win[v].allowClose
                              /\ win'[v].isDirty = win[v].isDirty
    BY <1>5 DEF RendererGone
  <2> QED
    BY <1>5, <2>1 DEF RendererGone, Asks, ChangesAsked, IsOpen, Undecided
<1>6. CASE RendererLoaded(w)
  BY <1>6 DEF RendererLoaded, Asks, ChangesAsked, IsOpen, Undecided
<1>7. CASE Show(w)
  BY <1>7 DEF Show, Asks, ChangesAsked, IsOpen, Undecided
<1>8. CASE Answer(w)
  BY <1>8 DEF Answer, Asks, ChangesAsked, IsOpen, Undecided
<1>9. CASE Resolve(w)
  BY <1>9, WindowResolves
<1> QED
  BY <1>1, <1>2, <1>3, <1>4, <1>5, <1>6, <1>7, <1>8, <1>9 DEF WindowStep, Dialog

LEMMA QuitRequests ==
    ASSUME QuitInv, Request
    PROVE  QuitInv'
<1>1. /\ quit.pc = "none" /\ RequestNextDecision(win, Listed, {})
      /\ unsaved' = {w \in Windows : IsOpen(w) /\ win[w].isDirty} /\ opened' = opened
  BY DEF Request
<1>2. \A v \in opened : ~win[v].allowClose
  BY <1>1 DEF QuitInv, QuitTyped, ChangesAsked, IsOpen
<1>3. /\ Listed \in SUBSET Windows /\ unsaved' \subseteq Listed
      /\ \A v \in unsaved' : v \in opened' /\ Undecided(win[v])
  BY <1>1, <1>2 DEF QuitInv, QuitTyped, Listed, Undecided, IsOpen
<1> QED
  BY <1>1, <1>2, <1>3, NextDecision DEF QuitInv, QuitTyped

LEMMA QuitStays ==
    ASSUME QuitInv, session \in Sessions, [Next]_vars
    PROVE  QuitInv' /\ session' \in Sessions
<1>1. CASE UNCHANGED quitVars /\ UNCHANGED session
  BY <1>1 DEF quitVars, QuitInv, QuitTyped, Asks, ChangesAsked, IsOpen
<1>2. ASSUME NEW w \in session.windows, Desk(w) \/ Asking(w)
      PROVE  QuitInv' /\ session' \in Sessions
  <2>1. w \in Windows
    BY <1>2, SessionsAssumption
  <2> QED
    BY <1>2, <2>1, WindowSteps DEF Desk, Asking
<1>3. CASE QuitRequested
  BY <1>3, QuitRequests DEF QuitRequested
<1>4. CASE Quits \/ Dies
  <2>1. Exit /\ session' = session
    BY <1>4 DEF Quits, Dies
  <2>2. Fresh \in WindowRecord /\ Fresh.allowClose = FALSE
    BY DEF Fresh, WindowRecord
  <2>3. win' \in [Windows -> WindowRecord]
    BY <2>1, <2>2 DEF Exit
  <2> QED
    BY <2>1, <2>3 DEF Exit, NoQuit, QuitInv, QuitTyped, QuitRecord, Asks, ChangesAsked, IsOpen
<1> QED
  BY <1>1, <1>2, <1>3, <1>4
     DEF Next, vars, elsewhere, Process, Starting, Firing, Restarting, Stopping, Saving,
         Awaiting, Elsewhere, Launched

(* The theorem, for any number of windows opened and closed in the course  *)
(* of a quit, and of renderers that crash: no change is lost unasked.      *)
THEOREM UnsavedChanges == Spec => []ChangesAsked
<1> DEFINE QInv == QuitInv /\ session \in Sessions
<1>1. Init => QInv
  BY DEF Init, QuitInit, NoQuit, Fresh, QuitInv, QuitTyped, QuitRecord, WindowRecord, Asks,
         ChangesAsked, IsOpen
<1>2. QInv /\ [Next]_vars => QInv'
  BY QuitStays
<1>3. QInv => ChangesAsked
  BY DEF QuitInv
<1> QED
  BY <1>1, <1>2, <1>3, PTL DEF Spec

-----------------------------------------------------------------------------
(* The service and its supervisor                                          *)

Stopped == {"status", "ask", "exit", "stopped"}

ProcessRecord ==
    [st : {"none", "booting", "serving", "ending", "exited"}, settings : Nat, mine : BOOLEAN]
AgentRecord ==
    [settings : Nat, stored : Nat, child : Pids \cup {NoProcess}, expected : SUBSET Pids,
     timer : BOOLEAN, waiting : {"no", "turn", "start"}, joined : BOOLEAN,
     crashes : Nat, ready : BOOLEAN]
StartRecord ==
    [pc : {"idle", "begin", "probe", "ask", "listen", "boot", "kill"}, settings : Nat,
     child : Pids \cup {NoProcess}, failed : BOOLEAN]
StopRecord ==
    [pc : Stopped \cup {"idle", "connect", "await", "down"},
     child : Pids \cup {NoProcess}, old : Nat, next : Nat]

AgentTyped ==
    /\ procs \in [Pids -> ProcessRecord] /\ endpoint \in Pids \cup {NoProcess}
    /\ agent \in AgentRecord /\ start \in StartRecord
    /\ stop \in [save : StopRecord, quit : StopRecord]
    /\ start.pc = "boot" => start.child \in Pids

(* Processes: one is up at a time, with the settings of the agent, at the  *)
(* endpoint once it serves; of this run it is the child.                   *)
OneUp ==
    /\ agent.stored = agent.settings
    /\ \A p, q \in Pids : Up(p) /\ Up(q) => p = q
    /\ \A p \in Pids : Up(p) =>
          /\ procs[p].settings = agent.settings
          /\ procs[p].st = "serving" => p = endpoint
          /\ procs[p].mine => p = agent.child
          /\ agent.ready \/ agent.child # NoProcess => procs[p].mine
          /\ procs[p].st = "booting" => ~Running \/ start.pc = "boot"
    /\ \A p \in Pids : procs[p].st = "none" => ~procs[p].mine

(* A start goes on under the settings it began with, and only its child    *)
(* is up from its spawn on; nothing is stopped while it goes on, and       *)
(* nothing is started after the end.                                       *)
StartHeld ==
    /\ start.pc \notin {"boot", "kill"} => start.child = NoProcess /\ ~start.failed
    /\ start.pc \notin {"idle", "begin"} => start.settings = agent.settings
    /\ start.pc = "boot" => \A p \in Pids : Up(p) => p = start.child /\ procs[p].mine
    /\ start.pc = "kill" \/ (start.pc = "boot" /\ start.failed) => \A p \in Pids : ~Up(p)
    /\ start.pc # "idle" =>
          stop.save.pc \in {"idle", "connect"} /\ stop.quit.pc \in {"idle", "await"}
    /\ ~Running => /\ start.pc = "idle" /\ stop.save.pc = "idle"
                   /\ ~agent.ready /\ agent.child = NoProcess

(* A stop that has read the child: only that one is up, or an orphan that  *)
(* may refuse; and none is once the stop is over.                          *)
StopHeld(c) ==
    /\ stop[c].pc \in Stopped => \A p \in Pids : Up(p) => procs[p].settings = stop[c].old
    /\ stop[c].pc = "ask" => \A p \in Pids : Up(p) =>
          IF stop[c].child = NoProcess THEN ~procs[p].mine ELSE p = stop[c].child
    /\ stop[c].pc = "exit" => \A p \in Pids : Up(p) => p = stop[c].child

StopsHeld ==
    /\ \A c \in Callers : StopHeld(c)
    /\ stop.save.pc \in Stopped => stop.save.old = agent.settings
    /\ stop.save.pc = "stopped" /\ stop.save.next # stop.save.old => \A p \in Pids : ~Up(p)
    /\ stop.quit.pc = "stopped" => \A p \in Pids : Up(p) => ~procs[p].mine

Held == OneUp /\ StartHeld /\ StopsHeld
AgentInv == AgentTyped /\ (unguarded = {} => Held)

-----------------------------------------------------------------------------
(* What the helpers of the supervisor return                               *)

(* A process that ends is not up, and forgotten unless it is to be noticed.*)
LEMMA EndedRecord ==
    ASSUME AgentTyped, NEW p \in Pids
    PROVE  /\ Ended(p) \in ProcessRecord /\ Ended(p).st \in {"none", "exited"}
           /\ Ended(p).st = "none" => ~Ended(p).mine
BY DEF AgentTyped, ProcessRecord, Ended, Unborn

LEMMA Terminates ==
    ASSUME AgentTyped, NEW p \in Pids, Terminate(p)
    PROVE  /\ procs' \in [Pids -> ProcessRecord] /\ endpoint' \in Pids \cup {NoProcess}
           /\ \A q \in Pids : q # p => procs'[q] = procs[q]
           /\ procs'[p].st \in {"none", "exited"}
           /\ procs'[p].st = "none" => ~procs'[p].mine
BY EndedRecord DEF AgentTyped, Terminate, Unbound

(* A crash that is counted changes the count and the timer.                *)
SameService(a, b) ==
    /\ b \in AgentRecord
    /\ b.settings = a.settings /\ b.stored = a.stored /\ b.child = a.child

LEMMA ScheduledRecord ==
    ASSUME NEW a \in AgentRecord, NEW b, b \in Scheduled(a)
    PROVE  SameService(a, b) /\ b.ready = a.ready
<1>1. CASE a.timer \/ Quitting
  <2>1. b = a
    <3>1. Scheduled(a) = {a}
      BY <1>1, Zenon DEF Scheduled
    <3> QED
      BY <3>1
  <2> QED
    BY <2>1 DEF SameService
<1>2. CASE ~(a.timer \/ Quitting)
  <2>1. PICK n \in 1..(a.crashes + 1) :
          b = [a EXCEPT !.crashes = n, !.timer = n <= MaxRestarts]
    <3>1. Scheduled(a) = {[a EXCEPT !.crashes = n, !.timer = n <= MaxRestarts] :
                             n \in 1..(a.crashes + 1)}
      BY <1>2, Zenon DEF Scheduled
    <3> QED
      BY <3>1, Zenon
  <2>2. n \in Nat /\ (n <= MaxRestarts) \in BOOLEAN
    BY BoundsAssumption DEF AgentRecord
  <2> QED
    BY <2>1, <2>2 DEF AgentRecord, SameService
<1> QED
  BY <1>1, <1>2

LEMMA RetriedRecord ==
    ASSUME NEW a \in AgentRecord, NEW ok \in BOOLEAN, NEW b, b \in Retried(ok, a)
    PROVE  SameService(a, b) /\ b.ready = ok
<1> DEFINE others == [a EXCEPT !.ready = ok, !.joined = FALSE,
                               !.waiting = IF @ = "start" THEN "turn" ELSE @]
<1>1. SameService(a, others) /\ others.ready = ok
  BY DEF AgentRecord, SameService
<1>2. b \in Scheduled(others) \/ b = others
  BY DEF Retried
<1> HIDE DEF others
<1> QED
  BY <1>1, <1>2, ScheduledRecord DEF SameService

LEMMA Settles ==
    ASSUME AgentTyped, NEW ok \in BOOLEAN, NEW a \in AgentRecord, SettleStart(ok, a)
    PROVE  /\ agent' \in AgentRecord /\ SameService(a, agent') /\ agent'.ready = ok
           /\ start' = NoStart /\ start' \in StartRecord
           /\ stop' \in [save : StopRecord, quit : StopRecord] /\ stop'.quit = stop.quit
           /\ stop'.save = IF stop.save.pc = "connect" THEN NoStop ELSE stop.save
<1>1. agent' \in AgentRecord /\ SameService(a, agent') /\ agent'.ready = ok
  BY RetriedRecord DEF SettleStart, SameService
<1>2. NoStart \in StartRecord /\ NoStop \in StopRecord
  BY DEF NoStart, StartRecord, NoStop, StopRecord
<1> QED
  BY <1>1, <1>2 DEF SettleStart, AgentTyped

Spawned(p) ==
    /\ procs' = [procs EXCEPT ![p] = [st |-> "booting", settings |-> start.settings,
                                      mine |-> TRUE]]
    /\ start' = [start EXCEPT !.pc = "boot", !.child = p]
    /\ agent' = [agent EXCEPT !.child = p, !.stored = start.settings]

LEMMA Spawns ==
    ASSUME Spawn
    PROVE  /\ start.pc = "listen" /\ ~Listening(start.settings)
           /\ \E p \in Pids : /\ procs[p] = Unborn /\ Spawned(p) /\ UNCHANGED <<endpoint, stop>>
                              /\ p \notin {stop.save.child, stop.quit.child}
<1> DEFINE p == CHOOSE p \in Free : TRUE
<1>1. p \in Free
  BY Zenon DEF Spawn
<1>2. Spawned(p) /\ UNCHANGED <<endpoint, stop>>
  BY Zenon DEF Spawn, Spawned
<1>3. start.pc = "listen" /\ ~Listening(start.settings)
  BY Zenon DEF Spawn
<1> HIDE DEF p
<1> QED
  BY <1>1, <1>2, <1>3 DEF Free

-----------------------------------------------------------------------------
(* Types                                                                   *)

LEMMA ProcessTypes ==
    ASSUME AgentTyped, NEW p \in Pids, ProcessStep(p) \/ Crash(p)
    PROVE  AgentTyped'
<1>1. CASE Boot(p)
  BY <1>1, EndedRecord DEF Boot, AgentTyped, ProcessRecord
<1>2. CASE End(p)
  BY <1>2, Terminates DEF End, AgentTyped
<1>3. CASE Crash(p)
  BY <1>3, EndedRecord DEF Crash, AgentTyped
<1>4. CASE ExitNoticed(p)
  <2> DEFINE told == [agent EXCEPT !.expected = @ \ {p},
                                   !.child = IF @ = p THEN NoProcess ELSE @]
  <2>1. told \in AgentRecord
    BY DEF AgentTyped, AgentRecord
  <2>2. agent' = told \/ agent' \in Scheduled(told)
    BY <1>4 DEF ExitNoticed
  <2> HIDE DEF told
  <2>3. agent' \in AgentRecord
    BY <2>1, <2>2, ScheduledRecord DEF SameService
  <2>4. procs' \in [Pids -> ProcessRecord]
    BY <1>4 DEF ExitNoticed, AgentTyped, ProcessRecord, Unborn
  <2>5. start' \in StartRecord /\ start'.pc = start.pc /\ start'.child = start.child
    BY <1>4 DEF ExitNoticed, AgentTyped, StartRecord
  <2> QED
    BY <1>4, <2>3, <2>4, <2>5 DEF ExitNoticed, AgentTyped
<1> QED
  BY <1>1, <1>2, <1>3, <1>4 DEF ProcessStep

LEMMA StartTypes ==
    ASSUME AgentTyped, StartStep \/ Connect \/ Restart \/ TimerFires
    PROVE  AgentTyped'
<1> DEFINE Settled == \E ok \in BOOLEAN, a \in AgentRecord : SettleStart(ok, a)
<1>1. ASSUME Settled, UNCHANGED <<procs, endpoint>>
      PROVE  AgentTyped'
    BY <1>1, Settles DEF AgentTyped, NoStart
<1>2. agent \in AgentRecord /\ \A ok \in BOOLEAN : SettleStart(ok, agent) => Settled
  BY DEF AgentTyped
<1> HIDE DEF Settled
<1>3. CASE Begin
  <2>1. CASE Quitting \/ ~Enabled
    BY <1>1, <1>2, <1>3, <2>1 DEF Begin
  <2>2. CASE ~(Quitting \/ ~Enabled)
    BY <1>3, <2>2 DEF Begin, AgentTyped, StartRecord, AgentRecord
  <2> QED
    BY <2>1, <2>2
<1>4. CASE Probe
  <2>1. CASE agent.child # NoProcess
    BY <1>1, <1>2, <1>4, <2>1 DEF Probe
  <2>2. CASE agent.child = NoProcess
    BY <1>4, <2>2 DEF Probe, AgentTyped, StartRecord
  <2> QED
    BY <2>1, <2>2
<1>5. CASE ProbeFails
  BY <1>5 DEF ProbeFails, AgentTyped, StartRecord
<1>6. CASE TakeOver
  <2>1. CASE Refused /\ SettleStart(FALSE, agent)
    BY <1>1, <1>2, <2>1 DEF Refused
  <2>2. CASE Accepted /\ start' = [start EXCEPT !.pc = "listen"] /\ UNCHANGED <<agent, stop>>
    BY <2>2 DEF Accepted, Serving, AgentTyped, StartRecord, ProcessRecord
  <2> QED
    BY <1>6, <2>1, <2>2 DEF TakeOver
<1>7. CASE Listen
  BY <1>1, <1>2, <1>7 DEF Listen
<1>8. CASE Spawn
  <2>1. PICK p \in Pids : Spawned(p) /\ UNCHANGED <<endpoint, stop>>
    BY <1>8, Spawns
  <2> QED
    BY <2>1, <1>8 DEF Spawned, AgentTyped, ProcessRecord, StartRecord, AgentRecord
<1>9. CASE Booted
  <2>1. (~start.failed) \in BOOLEAN
    OBVIOUS
  <2> QED
    BY <1>1, <1>2, <1>9, <2>1 DEF Booted
<1>10. CASE NotRecorded
  BY <1>1, <1>2, <1>10 DEF NotRecorded
<1>11. CASE Deadline
  <2>1. start.child \in Pids
    BY <1>11 DEF Deadline, AgentTyped
  <2> QED
    BY <1>11, <2>1, Terminates DEF Deadline, AgentTyped, StartRecord, AgentRecord
<1>12. CASE Killed
  <2>1. [agent EXCEPT !.stored = start.settings] \in AgentRecord
    BY DEF AgentTyped, AgentRecord, StartRecord
  <2> QED
    BY <1>1, <1>12, <2>1 DEF Killed, Settled
<1>13. CASE Connect
  BY <1>13 DEF Connect, NoStart, AgentTyped, StartRecord
<1>14. CASE Restart
  BY <1>14 DEF Restart, NoStart, AgentTyped, StartRecord, AgentRecord, Quitting
<1>15. CASE TimerFires
  BY <1>15 DEF TimerFires, AgentTyped, AgentRecord
<1> QED
  BY <1>3, <1>4, <1>5, <1>6, <1>7, <1>8, <1>9, <1>10, <1>11, <1>12, <1>13, <1>14, <1>15
     DEF StartStep

LEMMA StopTypes ==
    ASSUME AgentTyped, NEW c \in Callers, StopStep(c)
    PROVE  AgentTyped'
<1>1. stop[c] \in StopRecord /\ NoStop \in StopRecord
  BY DEF AgentTyped, Callers, NoStop, StopRecord
<1>2. \A pc \in Stopped : Goes(c, pc) => stop' \in [save : StopRecord, quit : StopRecord]
  BY DEF Goes, AgentTyped, Callers, StopRecord, Stopped
<1>3. LeftRunning(c) => /\ stop' \in [save : StopRecord, quit : StopRecord]
                        /\ agent' \in AgentRecord
  <2>1. LeftRunning(c) => agent' \in AgentRecord
    BY DEF LeftRunning, AgentTyped, AgentRecord
  <2>2. c = "save" /\ LeftRunning(c) => stop' = [stop EXCEPT !.save = NoStop]
    BY DEF LeftRunning
  <2>3. c = "quit" /\ LeftRunning(c) => stop' = [stop EXCEPT !.quit.pc = "stopped"]
    BY DEF LeftRunning
  <2> QED
    BY <1>1, <2>1, <2>2, <2>3 DEF AgentTyped, Callers, StopRecord, Stopped
<1>4. CASE Answered(c)
  BY <1>1, <1>4 DEF Answered, AgentTyped, Callers, StopRecord, Stopped, AgentRecord
<1>5. CASE Unanswered(c)
  <2>1. CASE LeftRunning(c)
    BY <1>3, <1>5, <2>1 DEF Unanswered, AgentTyped
  <2>2. CASE ~LeftRunning(c)
    BY <1>1, <1>5, <2>2
       DEF Unanswered, AgentTyped, Callers, StopRecord, Stopped, AgentRecord
  <2> QED
    BY <2>1, <2>2
<1>6. CASE Ask(c)
  <2>1. CASE Accepted /\ Goes(c, "exit") /\ UNCHANGED agent
    BY <1>2, <1>6, <2>1 DEF Ask, Accepted, Serving, AgentTyped, ProcessRecord, Stopped
  <2>2. CASE /\ Remains(stop[c].child) /\ Terminate(stop[c].child)
             /\ Goes(c, "exit") /\ UNCHANGED agent
    <3>1. stop[c].child \in Pids
      BY <1>1, <2>2 DEF Remains, StopRecord
    <3> QED
      BY <1>2, <1>6, <2>2, <3>1, Terminates DEF Ask, AgentTyped, Stopped
  <2>3. CASE LeftRunning(c) /\ UNCHANGED <<procs, endpoint>>
    BY <1>3, <1>6, <2>3 DEF Ask, AgentTyped
  <2> QED
    BY <1>6, <2>1, <2>2, <2>3 DEF Ask
<1>7. CASE Kill(c)
  <2>1. stop[c].child \in Pids
    BY <1>1, <1>7 DEF Kill, Alive, StopRecord
  <2> QED
    BY <1>7, <2>1, Terminates DEF Kill, AgentTyped, AgentRecord
<1>8. CASE ChildGone(c)
  BY <1>2, <1>8 DEF ChildGone, AgentTyped, Stopped
<1> QED
  BY <1>4, <1>5, <1>6, <1>7, <1>8 DEF StopStep

LEMMA SaveTypes ==
    ASSUME AgentTyped, SaveBegins \/ SavePersists \/ SaveFails \/ Quit \/ Awaited
    PROVE  AgentTyped'
<1>1. NoStop \in StopRecord /\ NoStart \in StartRecord /\ NoStart.pc = "idle"
  BY DEF NoStop, StopRecord, NoStart, StartRecord
<1>2. CASE SaveBegins
  <2>1. \A pc \in Stopped, next \in Nat :
          [pc |-> pc, child |-> NoProcess, old |-> agent.settings, next |-> next] \in StopRecord
    BY DEF AgentTyped, StopRecord, AgentRecord
  <2>2. "status" \in Stopped /\ "stopped" \in Stopped
    BY DEF Stopped
  <2>3. agent.settings \in Nat /\ agent.settings + 1 \in Nat
    BY DEF AgentTyped, AgentRecord
  <2>4. \E pc \in Stopped, next \in Nat :
          stop' = [stop EXCEPT !.save = [pc |-> pc, child |-> NoProcess,
                                         old |-> agent.settings, next |-> next]]
    BY <1>2, <2>2, <2>3 DEF SaveBegins
  <2>5. stop' \in [save : StopRecord, quit : StopRecord]
    BY <2>1, <2>4 DEF AgentTyped
  <2>6. agent' = agent \/ agent' = [agent EXCEPT !.timer = FALSE, !.crashes = 0]
    BY <1>2 DEF SaveBegins
  <2>7. agent' \in AgentRecord
    <3>1. agent \in AgentRecord /\ [agent EXCEPT !.timer = FALSE, !.crashes = 0] \in AgentRecord
      BY DEF AgentTyped, AgentRecord
    <3> QED
      BY <2>6, <3>1
  <2>8. UNCHANGED <<procs, endpoint, start>>
    BY <1>2 DEF SaveBegins
  <2> QED
    BY <2>5, <2>7, <2>8 DEF AgentTyped
<1>3. CASE SavePersists
  <2>1. agent' \in AgentRecord
    BY <1>3 DEF SavePersists, AgentTyped, AgentRecord, StopRecord
  <2>2. \/ stop' = [stop EXCEPT !.save = NoStop]
        \/ stop' = [stop EXCEPT !.save.pc = "connect"]
    BY <1>3 DEF SavePersists, Goes
  <2>3. stop' \in [save : StopRecord, quit : StopRecord]
    BY <1>1, <2>2 DEF AgentTyped, StopRecord
  <2>4. start' = start \/ start' = [NoStart EXCEPT !.pc = "begin"]
    BY <1>3 DEF SavePersists
  <2>5. start' \in StartRecord /\ (start'.pc = "boot" => start' = start)
    BY <1>1, <2>4 DEF AgentTyped, StartRecord
  <2>6. UNCHANGED <<procs, endpoint>>
    BY <1>3 DEF SavePersists
  <2> QED
    BY <2>1, <2>3, <2>5, <2>6 DEF AgentTyped
<1>4. CASE SaveFails
  BY <1>1, <1>4 DEF SaveFails, AgentTyped
<1>5. CASE Quit
  BY <1>5 DEF Quit, Goes, AgentTyped, StopRecord, AgentRecord
<1>6. CASE Awaited
  BY <1>6 DEF Awaited, AgentTyped, StopRecord, Stopped, AgentRecord
<1> QED
  BY <1>2, <1>3, <1>4, <1>5, <1>6

LEMMA EndTypes ==
    ASSUME AgentTyped, QuitEnds \/ AppCrash \/ Launch
    PROVE  AgentTyped'
<1>1. ASSUME Left(procs)
      PROVE  procs' \in [Pids -> ProcessRecord] /\ start' \in StartRecord
             /\ start'.pc = "idle" /\ stop' \in [save : StopRecord, quit : StopRecord]
  <2>1. \A p \in Pids : /\ [procs[p] EXCEPT !.mine = FALSE].st = procs[p].st
                        /\ procs'[p] = Unborn \/ procs'[p] = [procs[p] EXCEPT !.mine = FALSE]
    BY <1>1 DEF Left, AgentTyped, ProcessRecord
  <2>2. ASSUME NEW p \in Pids
        PROVE  procs'[p] \in ProcessRecord
    <3>1. Unborn \in ProcessRecord /\ [procs[p] EXCEPT !.mine = FALSE] \in ProcessRecord
      BY DEF AgentTyped, Unborn, ProcessRecord
    <3> QED
      BY <2>1, <3>1
  <2>3. procs' \in [Pids -> ProcessRecord]
    BY <1>1, <2>2 DEF Left
  <2> QED
    BY <1>1, <2>3 DEF Left, NoStart, StartRecord, NoStop, StopRecord
<1>2. \A s \in Nat : Agent(s) \in AgentRecord
  BY DEF Agent, AgentRecord
<1>3. CASE QuitEnds
  BY <1>1, <1>2, <1>3 DEF QuitEnds, AgentTyped, StopRecord
<1>4. CASE AppCrash
  BY <1>1, <1>2, <1>4 DEF AppCrash, AgentTyped, AgentRecord
<1>5. CASE Launch
  BY <1>5 DEF Launch, AgentTyped, NoStart, StartRecord, NoStop, StopRecord
<1> QED
  BY <1>3, <1>4, <1>5

-----------------------------------------------------------------------------
(* One process is up, and the child: the steps                             *)

(* A process that ends disturbs nothing, and nothing is left to disturb    *)
(* when it was the one that was up.                                        *)
LEMMA ProcessEnds ==
    ASSUME AgentTyped, AgentTyped', Held,
           \A p \in Pids : Up(p)' => Up(p) /\ procs'[p] = procs[p] /\ endpoint' = endpoint,
           \A p \in Pids : procs'[p].st = "none" => ~procs'[p].mine,
           UNCHANGED <<start, stop>>,
           agent'.settings = agent.settings, agent'.stored = agent.stored,
           agent'.ready = agent.ready, agent'.child = agent.child
    PROVE  Held'
BY DEF Held, OneUp, StartHeld, StopsHeld, StopHeld, Up, Running

(* While no process is up, only the order of starts and stops matters.     *)
Ordered ==
    /\ agent.stored = agent.settings
    /\ start.pc \notin {"boot", "kill"} => start.child = NoProcess /\ ~start.failed
    /\ start.pc \notin {"idle", "begin"} => start.settings = agent.settings
    /\ start.pc # "idle" =>
          stop.save.pc \in {"idle", "connect"} /\ stop.quit.pc \in {"idle", "await"}
    /\ ~Running => /\ start.pc = "idle" /\ stop.save.pc = "idle"
                   /\ ~agent.ready /\ agent.child = NoProcess
    /\ stop.save.pc \in Stopped => stop.save.old = agent.settings

NoneUp == \A p \in Pids : ~Up(p) /\ (procs[p].st = "none" => ~procs[p].mine)

LEMMA NothingUp ==
    ASSUME NoneUp', Ordered'
    PROVE  Held'
BY DEF NoneUp, Ordered, Held, OneUp, StartHeld, StopsHeld, StopHeld

LEMMA HeldOrdered == Held => Ordered
BY DEF Ordered, Held, OneUp, StartHeld, StopsHeld

LEMMA ProcessHeld ==
    ASSUME AgentTyped, Held, NEW p \in Pids, ProcessStep(p) \/ Crash(p)
    PROVE  Held'
<1>1. AgentTyped'
  BY ProcessTypes
<1>2. CASE Boot(p)
  <2>1. UNCHANGED <<agent, start, stop>> /\ \A q \in Pids : q # p => procs'[q] = procs[q]
    BY <1>2 DEF Boot, AgentTyped
  <2>2. CASE procs' = [procs EXCEPT ![p] = Ended(p)] /\ UNCHANGED endpoint
    <3>1. procs'[p] = Ended(p)
      BY <2>2 DEF AgentTyped
    <3> QED
      BY <1>1, <2>1, <2>2, <3>1, EndedRecord, ProcessEnds DEF Up, Held, OneUp
  <2>3. CASE procs' = [procs EXCEPT ![p].st = "serving"] /\ endpoint' = p
    <3>1. /\ Up(p) /\ procs'[p].st = "serving" /\ procs'[p].settings = procs[p].settings
          /\ procs'[p].mine = procs[p].mine
      BY <1>2, <2>3 DEF Boot, Up, AgentTyped, ProcessRecord
    <3>2. \A q \in Pids : Up(q)' => q = p
      BY <2>1, <3>1 DEF Held, OneUp, Up
    <3> QED
      BY <2>1, <2>3, <3>1, <3>2
         DEF Held, OneUp, StartHeld, StopsHeld, StopHeld, Up, Running
  <2> QED
    BY <1>2, <2>2, <2>3 DEF Boot
<1>3. CASE End(p)
  <2>1. UNCHANGED <<agent, start, stop, endpoint>> \/ procs[p].st = "serving"
    BY <1>3 DEF End, Terminate, Unbound
  <2> QED
    BY <1>1, <1>3, <2>1, Terminates, ProcessEnds DEF End, Up, Held, OneUp
<1>4. CASE Crash(p)
  <2>1. /\ UNCHANGED <<agent, start, stop, endpoint>> /\ procs'[p] = Ended(p)
        /\ \A q \in Pids : q # p => procs'[q] = procs[q]
    BY <1>4 DEF Crash, AgentTyped
  <2> QED
    BY <1>1, <2>1, EndedRecord, ProcessEnds DEF Up, Held, OneUp
<1>5. CASE ExitNoticed(p)
  <2> DEFINE told == [agent EXCEPT !.expected = @ \ {p},
                                   !.child = IF @ = p THEN NoProcess ELSE @]
  <2>1. /\ told \in AgentRecord
        /\ told.settings = agent.settings /\ told.stored = agent.stored
        /\ told.ready = agent.ready
        /\ told.child = IF agent.child = p THEN NoProcess ELSE agent.child
    BY DEF AgentTyped, AgentRecord
  <2>2. agent' = told \/ agent' \in Scheduled(told)
    BY <1>5 DEF ExitNoticed
  <2> HIDE DEF told
  <2>3. /\ agent'.settings = agent.settings /\ agent'.stored = agent.stored
        /\ agent'.ready = agent.ready
        /\ agent'.child = IF agent.child = p THEN NoProcess ELSE agent.child
    BY <2>1, <2>2, ScheduledRecord DEF SameService
  <2>4. /\ Running /\ UNCHANGED <<stop, endpoint>>
        /\ procs[p].st = "exited" /\ procs'[p] = Unborn
        /\ \A q \in Pids : q # p => procs'[q] = procs[q]
    BY <1>5 DEF ExitNoticed, AgentTyped
  <2>5. /\ start'.pc = start.pc /\ start'.settings = start.settings
        /\ start'.child = start.child
        /\ start'.failed = (start.failed \/ start.child = p)
    BY <1>5 DEF ExitNoticed, AgentTyped, StartRecord
  <2>6. \A q \in Pids : Up(q)' => q # p /\ Up(q) /\ procs'[q] = procs[q]
    BY <2>4 DEF Up, Unborn
  <2>7. agent.child = p \/ (start.child = p /\ start.pc = "boot") => \A q \in Pids : ~Up(q)'
    BY <2>6, PidAssumption DEF Held, OneUp, StartHeld
  <2>8. \A q \in Pids : procs'[q].st = "none" => ~procs'[q].mine
    BY <2>4 DEF Held, OneUp, Unborn
  <2>9. OneUp'
    BY <2>3, <2>4, <2>5, <2>6, <2>7, <2>8 DEF Held, OneUp, Running
  <2>10. StartHeld'
    BY <2>3, <2>4, <2>5, <2>6, <2>7, PidAssumption DEF Held, StartHeld, Running
  <2>11. StopsHeld'
    BY <2>3, <2>4, <2>6 DEF Held, StopsHeld, StopHeld
  <2> QED
    BY <2>9, <2>10, <2>11 DEF Held
<1> QED
  BY <1>2, <1>3, <1>4, <1>5 DEF ProcessStep

(* A start that settles leaves what is up; when it succeeded, the child.   *)
LEMMA StartSettles ==
    ASSUME AgentTyped, Held, NEW ok \in BOOLEAN, NEW a \in AgentRecord,
           SettleStart(ok, a), SameService(agent, a), UNCHANGED <<procs, endpoint>>,
           start.pc # "idle", \A p \in Pids : procs[p].st # "booting",
           ok => \A p \in Pids : Up(p) => procs[p].mine
    PROVE  Held'
<1>1. /\ SameService(agent, agent') /\ agent'.ready = ok
      /\ start'.pc = "idle" /\ start'.child = NoProcess /\ ~start'.failed
      /\ stop'.quit = stop.quit
      /\ stop'.save.pc = IF stop.save.pc = "connect" THEN "idle" ELSE stop.save.pc
  BY Settles DEF SameService, NoStart, NoStop
<1>2. stop'.save.pc = "idle" /\ stop.quit.pc \in {"idle", "await"}
  BY <1>1 DEF Held, StartHeld
<1>3. OneUp'
  BY <1>1, <1>2 DEF Held, OneUp, SameService, Up, Running
<1>4. StartHeld'
  BY <1>1, <1>2 DEF Held, StartHeld, SameService, Up, Running
<1>5. StopsHeld'
  BY <1>1, <1>2 DEF StopsHeld, StopHeld, Stopped, Callers
<1> QED
  BY <1>3, <1>4, <1>5 DEF Held

(* One that goes on does so with the settings of the agent.                *)
LEMMA StartGoesOn ==
    ASSUME Held, start.pc \notin {"idle", "boot", "kill"},
           start'.pc \in {"probe", "ask", "listen"}, start'.settings = agent.settings,
           start'.child = start.child, start'.failed = start.failed, UNCHANGED <<agent, stop>>,
           \A p \in Pids : Up(p)' => Up(p) /\ procs'[p] = procs[p] /\ endpoint' = endpoint,
           \A p \in Pids : procs'[p].st = "none" => ~procs'[p].mine
    PROVE  Held'
<1>1. OneUp'
  BY DEF Held, OneUp, Up, Running
<1>2. StartHeld'
  BY DEF Held, StartHeld, Running
<1>3. StopsHeld'
  BY DEF Held, StartHeld, StopsHeld, StopHeld, Stopped, Callers
<1> QED
  BY <1>1, <1>2, <1>3 DEF Held

(* It begins when nothing is being started or stopped.                     *)
LEMMA StartBegins ==
    ASSUME AgentTyped, Held, start.pc = "idle", start' = [NoStart EXCEPT !.pc = "begin"],
           UNCHANGED <<procs, endpoint>>, Ordered',
           agent'.settings = agent.settings, agent'.child = agent.child,
           agent'.ready = agent.ready, ~Running => \A p \in Pids : procs[p].st # "booting",
           stop'.save.pc \in {"idle", "connect"}, stop'.quit.pc \in {"idle", "await"}
    PROVE  Held'
<1>1. start'.pc = "begin"
  BY DEF NoStart
<1>2. OneUp'
  BY <1>1 DEF Held, OneUp, Ordered, Up, Running
<1>3. StartHeld'
  BY <1>1 DEF Ordered, StartHeld
<1>4. StopsHeld'
  BY DEF StopsHeld, StopHeld, Stopped, Callers
<1> QED
  BY <1>2, <1>3, <1>4 DEF Held

(* Only the end of a start is still booting something.                     *)
LEMMA NoneBooting ==
    ASSUME Held, start.pc \notin {"idle", "boot"}
    PROVE  \A p \in Pids : procs[p].st # "booting"
BY DEF Held, OneUp, StartHeld, Up, Running

(* service.shutdown: the endpoint's process was the one that was up.       *)
LEMMA Accepts ==
    ASSUME AgentTyped, Held, Accepted
    PROVE  NoneUp'
<1>1. /\ endpoint \in Pids /\ Up(endpoint) /\ procs'[endpoint].st = "ending"
      /\ \A q \in Pids : q # endpoint => procs'[q] = procs[q]
  BY DEF Accepted, Serving, Up, AgentTyped, ProcessRecord
<1> QED
  BY <1>1 DEF NoneUp, Up, Held, OneUp

LEMMA StartHolds ==
    ASSUME AgentTyped, Held, StartStep, "unrecorded" \notin unguarded
    PROVE  Held'
<1>1. agent \in AgentRecord /\ SameService(agent, agent)
  BY DEF AgentTyped, SameService
<1>2. \A p \in Pids : procs[p].st = "none" => ~procs[p].mine
  BY DEF Held, OneUp
<1>3. CASE Begin
  <2>1. CASE Quitting \/ ~Enabled
    BY <1>1, <1>3, <2>1, StartSettles, NoneBooting DEF Begin
  <2>2. CASE ~(Quitting \/ ~Enabled)
    <3>1. /\ start'.pc = "probe" /\ start'.settings = agent.settings
          /\ start'.child = start.child /\ start'.failed = start.failed
          /\ UNCHANGED <<agent, stop, procs, endpoint>>
      BY <1>3, <2>2 DEF Begin, AgentTyped, StartRecord
    <3> QED
      BY <1>2, <1>3, <3>1, StartGoesOn DEF Begin, Up
  <2> QED
    BY <2>1, <2>2
<1>4. CASE Probe
  <2>1. CASE agent.child # NoProcess
    BY <1>1, <1>4, <2>1, StartSettles, NoneBooting DEF Probe, Held, OneUp
  <2>2. CASE agent.child = NoProcess
    <3>1. /\ start'.pc = "ask" /\ start'.settings = start.settings
          /\ start'.child = start.child /\ start'.failed = start.failed
          /\ UNCHANGED <<agent, stop, procs, endpoint>>
      BY <1>4, <2>2 DEF Probe, AgentTyped, StartRecord
    <3> QED
      BY <1>2, <1>4, <3>1, StartGoesOn DEF Probe, Up, Held, StartHeld
  <2> QED
    BY <2>1, <2>2
<1>5. CASE ProbeFails
  <2>1. /\ start'.pc = "listen" /\ start'.settings = start.settings
        /\ start'.child = start.child /\ start'.failed = start.failed
        /\ UNCHANGED <<agent, stop, procs, endpoint>>
    BY <1>5 DEF ProbeFails, AgentTyped, StartRecord
  <2> QED
    BY <1>2, <1>5, <2>1, StartGoesOn DEF ProbeFails, Up, Held, StartHeld
<1>6. CASE TakeOver
  <2>1. CASE Refused /\ SettleStart(FALSE, agent)
    BY <1>1, <1>6, <2>1, StartSettles, NoneBooting DEF TakeOver, Refused
  <2>2. CASE Accepted /\ start' = [start EXCEPT !.pc = "listen"] /\ UNCHANGED <<agent, stop>>
    <3>1. /\ start'.pc = "listen" /\ start'.settings = start.settings
          /\ start'.child = start.child /\ start'.failed = start.failed
      BY <2>2 DEF AgentTyped, StartRecord
    <3> QED
      BY <1>6, <2>2, <3>1, Accepts, StartGoesOn DEF TakeOver, NoneUp, Held, StartHeld
  <2> QED
    BY <1>6, <2>1, <2>2 DEF TakeOver
<1>7. CASE Listen
  BY <1>1, <1>7, StartSettles, NoneBooting DEF Listen
<1>8. CASE Spawn
  <2>1. start.pc = "listen" /\ ~Listening(start.settings)
    BY <1>8, Zenon DEF Spawn
  <2>2. \A q \in Pids : ~Up(q)
    BY <2>1, NoneBooting DEF Held, OneUp, StartHeld, Up, Listening, Serving
  <2>3. PICK p \in Pids : Spawned(p) /\ UNCHANGED <<endpoint, stop>>
    BY <1>8, Spawns
  <2>4. /\ procs'[p].st = "booting" /\ procs'[p].settings = agent.settings /\ procs'[p].mine
        /\ \A q \in Pids : q # p => procs'[q] = procs[q]
    BY <2>1, <2>3 DEF Spawned, AgentTyped, Held, StartHeld
  <2>5. /\ start'.pc = "boot" /\ start'.child = p /\ start'.settings = start.settings
        /\ start'.failed = start.failed
        /\ agent'.child = p /\ agent'.stored = start.settings
        /\ agent'.settings = agent.settings /\ agent'.ready = agent.ready
    BY <2>3 DEF Spawned, AgentTyped, StartRecord, AgentRecord
  <2>6. \A q \in Pids : Up(q)' => q = p
    BY <2>2, <2>4 DEF Up
  <2>7. OneUp'
    BY <1>2, <2>1, <2>4, <2>5, <2>6 DEF Held, OneUp, StartHeld, Running
  <2>8. StartHeld'
    BY <2>1, <2>3, <2>4, <2>5, <2>6 DEF Held, StartHeld, Running
  <2>9. StopsHeld'
    BY <2>1, <2>3 DEF Held, StartHeld, StopsHeld, StopHeld, Stopped, Callers
  <2> QED
    BY <2>7, <2>8, <2>9 DEF Held
<1>9. CASE Booted
  <2>1. (~start.failed) \in BOOLEAN /\ SettleStart(~start.failed, agent) /\ start.pc = "boot"
    BY <1>9 DEF Booted
  <2>2. CASE start.failed
    BY <1>1, <1>9, <2>1, <2>2, StartSettles DEF Booted, Held, StartHeld, Up
  <2>3. CASE ~start.failed
    <3>1. endpoint \in Serving
      BY <1>9, <2>3 DEF Booted, Managed
    <3>2. \A p \in Pids : Up(p) => p = endpoint
      BY <3>1 DEF Held, OneUp, Up, Serving
    <3>3. \A p \in Pids : procs[p].st # "booting"
      BY <3>1, <3>2 DEF Up, Serving
    <3> QED
      BY <1>1, <1>9, <2>1, <3>3, StartSettles DEF Booted, Held, StartHeld
  <2> QED
    BY <2>2, <2>3
<1>10. CASE Deadline
  <2>1. start.child \in Pids /\ start.pc = "boot" /\ Terminate(start.child)
    BY <1>10 DEF Deadline, AgentTyped
  <2>2. NoneUp'
    BY <1>2, <2>1, Terminates DEF NoneUp, Up, Held, StartHeld
  <2>3. /\ start'.pc = "kill" /\ start'.settings = start.settings /\ UNCHANGED stop
        /\ agent'.settings = agent.settings /\ agent'.stored = agent.stored
        /\ agent'.ready = agent.ready /\ agent'.child = agent.child
    BY <1>10 DEF Deadline, AgentTyped, StartRecord, AgentRecord
  <2>4. Ordered'
    BY <2>1, <2>3, HeldOrdered DEF Ordered, Running
  <2> QED
    BY <2>2, <2>4, NothingUp
<1>11. CASE Killed
  <2> DEFINE a == [agent EXCEPT !.stored = start.settings]
  <2>1. a \in AgentRecord /\ SameService(agent, a)
    BY <1>11 DEF Killed, AgentTyped, AgentRecord, StartRecord, SameService, Held, OneUp, StartHeld
  <2>2. SettleStart(FALSE, a)
    BY <1>11 DEF Killed
  <2> HIDE DEF a
  <2> QED
    BY <1>11, <2>1, <2>2, StartSettles, NoneBooting DEF Killed
<1> QED
  BY <1>3, <1>4, <1>5, <1>6, <1>7, <1>8, <1>9, <1>10, <1>11 DEF StartStep, NotRecorded

LEMMA RestartHolds ==
    ASSUME AgentTyped, Held, Connect \/ Restart \/ TimerFires, "overlap" \notin unguarded
    PROVE  Held'
<1>1. /\ agent'.settings = agent.settings /\ agent'.stored = agent.stored
      /\ agent'.child = agent.child /\ agent'.ready = agent.ready
      /\ UNCHANGED <<procs, endpoint, stop>>
  BY DEF Connect, Restart, TimerFires, AgentTyped, AgentRecord
<1>2. CASE start' = start
  <2>1. \A p \in Pids : procs[p].st = "none" => ~procs[p].mine
    BY DEF Held, OneUp
  <2>2. AgentTyped'
    BY StartTypes
  <2> QED
    BY <1>1, <1>2, <2>1, <2>2, ProcessEnds DEF Up
<1>3. CASE start' # start
  <2>1. /\ start.pc = "idle" /\ start' = [NoStart EXCEPT !.pc = "begin"]
        /\ ~Quitting /\ stop.save.pc = "idle"
    BY <1>3 DEF Connect, Restart, TimerFires, Quiescent
  <2>2. Ordered'
    BY <1>1, <2>1, HeldOrdered DEF Ordered, Quitting, Running, NoStart, Stopped
  <2> QED
    BY <1>1, <2>1, <2>2, StartBegins DEF Quitting, Running
<1> QED
  BY <1>2, <1>3

(* A stop goes on: as far as it has come, the others are not under way.    *)
LEMMA StopGoesOn ==
    ASSUME AgentTyped, Held, NEW c \in Callers, stop[c].pc \in Stopped,
           UNCHANGED <<procs, endpoint, start>>,
           stop' \in [save : StopRecord, quit : StopRecord],
           \A d \in Callers : d # c => stop'[d] = stop[d],
           agent'.settings = agent.settings, agent'.stored = agent.stored,
           agent'.child = agent.child, agent'.ready => agent.ready,
           stop'[c].pc \in Stopped \cup {"idle"}, c = "quit" => stop'[c].pc # "idle",
           stop'[c].old = stop[c].old \/ stop'[c].pc = "idle",
           StopHeld(c)',
           stop'[c].pc = "stopped" => \A p \in Pids : Up(p) => c = "quit" /\ ~procs[p].mine
    PROVE  Held'
<1>1. start.pc = "idle" /\ Running /\ Running'
  BY DEF Held, StartHeld, Stopped, Callers, Running
<1>2. OneUp'
  BY <1>1 DEF Held, OneUp, Up
<1>3. StartHeld'
  BY <1>1 DEF Held, StartHeld, Up
<1>4. \A d \in Callers : StopHeld(d)'
  BY DEF Held, StopsHeld, StopHeld, Up
<1>5. StopsHeld'
  <2>1. CASE c = "save"
    BY <1>4, <2>1 DEF Held, StopsHeld, Callers, Stopped, Up
  <2>2. CASE c = "quit"
    BY <1>4, <2>2 DEF Held, StopsHeld, Callers, Stopped, Up
  <2> QED
    BY <2>1, <2>2 DEF Callers
<1> QED
  BY <1>2, <1>3, <1>5 DEF Held

(* It has left nothing up: whatever it is about to wait for.               *)
LEMMA StopEnds ==
    ASSUME AgentTyped, Held, NEW c \in Callers, stop[c].pc \in Stopped,
           NoneUp', UNCHANGED start,
           \A d \in Callers : d # c => stop'[d] = stop[d],
           agent'.settings = agent.settings, agent'.stored = agent.stored,
           agent'.child = agent.child, agent'.ready => agent.ready,
           stop'[c].pc \in Stopped \cup {"idle"}, c = "quit" => stop'[c].pc # "idle",
           stop'[c].old = stop[c].old \/ stop'[c].pc = "idle"
    PROVE  Held'
<1>1. start.pc = "idle" /\ Running'
  BY DEF Held, StartHeld, Stopped, Callers, Running
<1>2. Ordered'
  BY <1>1, HeldOrdered DEF Ordered, Callers, Stopped
<1> QED
  BY <1>2, NothingUp

(* The process that a stop may end is the one that is up.                  *)
LEMMA StopKills ==
    ASSUME AgentTyped, Held, NEW c \in Callers, stop[c].pc \in {"ask", "exit"},
           stop[c].child \in Pids, Terminate(stop[c].child)
    PROVE  NoneUp'
<1>1. \A p \in Pids : Up(p) => p = stop[c].child
  BY PidAssumption DEF Held, StopsHeld, StopHeld
<1> QED
  BY <1>1, Terminates DEF NoneUp, Up, Held, OneUp

LEMMA StopHolds ==
    ASSUME AgentTyped, Held, NEW c \in Callers, StopStep(c)
    PROVE  Held'
<1> USE DEF Callers
<1>1. AgentTyped' /\ stop[c] \in StopRecord /\ stop'[c] \in StopRecord
  BY StopTypes DEF AgentTyped
<1>2. stop[c].pc \in Stopped /\ start.pc = "idle" /\ Running
  BY DEF StopStep, Answered, Unanswered, Ask, Kill, ChildGone, Stopped, Held, StartHeld, Running
<1>3. \A pc \in Stopped : Goes(c, pc) =>
        /\ stop'[c].pc = pc /\ stop'[c].old = stop[c].old /\ stop'[c].child = stop[c].child
        /\ \A d \in Callers : d # c => stop'[d] = stop[d]
  BY DEF Goes, AgentTyped, StopRecord
<1>4. LeftRunning(c) =>
        /\ stop'[c].pc = IF c = "save" THEN "idle" ELSE "stopped"
        /\ stop'[c].old = stop[c].old \/ stop'[c].pc = "idle"
        /\ \A d \in Callers : d # c => stop'[d] = stop[d]
        /\ agent'.settings = agent.settings /\ agent'.stored = agent.stored
        /\ agent'.child = agent.child /\ ~agent'.ready
  <2>1. LeftRunning(c) => /\ agent'.settings = agent.settings /\ agent'.stored = agent.stored
                          /\ agent'.child = agent.child /\ ~agent'.ready
    BY DEF LeftRunning, AgentTyped, AgentRecord
  <2>2. c = "save" /\ LeftRunning(c) => stop' = [stop EXCEPT !.save = NoStop]
    BY DEF LeftRunning
  <2>3. c = "quit" /\ LeftRunning(c) => stop' = [stop EXCEPT !.quit.pc = "stopped"]
    BY DEF LeftRunning
  <2> QED
    BY <2>1, <2>2, <2>3 DEF AgentTyped, StopRecord, NoStop
<1>5. \A p \in Pids : Up(p) => procs[p].settings = stop[c].old
  BY <1>2 DEF Held, StopsHeld, StopHeld
<1>6. \A p \in Pids : Up(p) => (agent.child = NoProcess <=> ~procs[p].mine)
  BY PidAssumption DEF Held, OneUp
<1>7. CASE Answered(c)
  <2>1. /\ stop'[c].pc = "ask" /\ stop'[c].old = stop[c].old /\ stop'[c].child = agent.child
        /\ \A d \in Callers : d # c => stop'[d] = stop[d]
    BY <1>1, <1>7 DEF Answered, AgentTyped, StopRecord
  <2>2. /\ agent'.settings = agent.settings /\ agent'.stored = agent.stored
        /\ agent'.child = agent.child /\ agent'.ready = agent.ready
        /\ UNCHANGED <<procs, endpoint, start>>
    BY <1>7 DEF Answered, AgentTyped, AgentRecord
  <2>3. StopHeld(c)'
    BY <1>5, <1>6, <2>1, <2>2 DEF StopHeld, Up, Held, OneUp
  <2> QED
    BY <1>1, <1>2, <2>1, <2>2, <2>3, StopGoesOn DEF AgentTyped, Stopped
<1>8. CASE Unanswered(c)
  <2>1. UNCHANGED <<procs, endpoint, start>>
    BY <1>8 DEF Unanswered
  <2>2. CASE Listening(stop[c].old) /\ agent.child = NoProcess
    <3>1. LeftRunning(c)
      BY <1>8, <2>2 DEF Unanswered
    <3>2. StopHeld(c)'
      BY <1>4, <1>5, <2>1, <3>1 DEF StopHeld, Up, Stopped
    <3> QED
      BY <1>1, <1>2, <1>4, <1>6, <2>1, <2>2, <3>1, <3>2, StopGoesOn
         DEF AgentTyped, Stopped
  <2>3. CASE ~(Listening(stop[c].old) /\ agent.child = NoProcess)
    <3>1. /\ stop'[c].pc = "exit" /\ stop'[c].old = stop[c].old /\ stop'[c].child = agent.child
          /\ \A d \in Callers : d # c => stop'[d] = stop[d]
          /\ UNCHANGED agent
      BY <1>1, <1>8, <2>3 DEF Unanswered, AgentTyped, StopRecord
    <3>2. \A p \in Pids : Up(p) => procs[p].st = "serving"
      BY <1>2 DEF Held, OneUp, Up
    <3>3. \A p \in Pids : Up(p) => p = agent.child
      BY <1>5, <1>6, <2>3, <3>2 DEF Listening, Serving, Held, OneUp
    <3>4. StopHeld(c)'
      BY <1>5, <2>1, <3>1, <3>3 DEF StopHeld, Up
    <3> QED
      BY <1>1, <1>2, <2>1, <3>1, <3>4, StopGoesOn DEF AgentTyped, Stopped
  <2> QED
    BY <2>2, <2>3
<1>9. CASE Ask(c)
  <2>1. "exit" \in Stopped /\ stop[c].pc = "ask" /\ UNCHANGED start
    BY <1>9 DEF Ask, Stopped
  <2>2. CASE Accepted /\ Goes(c, "exit") /\ UNCHANGED agent
    BY <1>2, <1>3, <2>1, <2>2, Accepts, StopEnds
  <2>3. CASE /\ Remains(stop[c].child) /\ Terminate(stop[c].child)
             /\ Goes(c, "exit") /\ UNCHANGED agent
    <3>1. stop[c].child \in Pids
      BY <1>1, <2>3 DEF Remains, StopRecord
    <3>2. NoneUp'
      BY <2>1, <2>3, <3>1, StopKills
    <3> QED
      BY <1>2, <1>3, <2>1, <2>3, <3>2, StopEnds
  <2>4. CASE ~Remains(stop[c].child) /\ LeftRunning(c) /\ UNCHANGED <<procs, endpoint>>
    <3>1. \A p \in Pids : Up(p) => ~procs[p].mine
      BY <2>1, <2>4 DEF Remains, Held, StopsHeld, StopHeld, Up
    <3>2. StopHeld(c)'
      BY <1>4, <1>5, <2>4 DEF StopHeld, Up, Stopped
    <3>3. c = "save" \/ stop'[c].pc # "idle"
      BY <1>4, <2>4
    <3> QED
      BY <1>1, <1>2, <1>4, <2>1, <2>4, <3>1, <3>2, <3>3, StopGoesOn DEF AgentTyped, Stopped
  <2> QED
    BY <1>9, <2>2, <2>3, <2>4 DEF Ask
<1>10. CASE Kill(c)
  <2>1. stop[c].child \in Pids /\ stop[c].pc = "exit" /\ Terminate(stop[c].child)
    BY <1>1, <1>10 DEF Kill, Alive, StopRecord
  <2>2. NoneUp'
    BY <2>1, StopKills
  <2>3. /\ agent'.settings = agent.settings /\ agent'.stored = agent.stored
        /\ agent'.child = agent.child /\ agent'.ready = agent.ready
        /\ UNCHANGED <<start, stop>>
    BY <1>10 DEF Kill, AgentTyped, AgentRecord
  <2> QED
    BY <1>2, <2>1, <2>2, <2>3, StopEnds
<1>11. CASE ChildGone(c)
  <2>1. "stopped" \in Stopped /\ stop[c].pc = "exit" /\ ~Remains(stop[c].child)
        /\ Goes(c, "stopped") /\ UNCHANGED <<procs, endpoint, agent, start>>
    BY <1>11 DEF ChildGone, Stopped
  <2>2. NoneUp'
    BY <2>1, PidAssumption DEF Remains, NoneUp, Up, Held, OneUp, StopsHeld, StopHeld
  <2> QED
    BY <1>2, <1>3, <2>1, <2>2, StopEnds
<1> QED
  BY <1>7, <1>8, <1>9, <1>10, <1>11 DEF StopStep

LEMMA SaveHolds ==
    ASSUME AgentTyped, Held, SaveBegins \/ SavePersists \/ SaveFails \/ Quit \/ Awaited,
           "overlap" \notin unguarded
    PROVE  Held'
<1>1. CASE SaveBegins
  <2>1. /\ start.pc = "idle" /\ Running /\ UNCHANGED <<procs, endpoint, start>>
        /\ stop'.quit = stop.quit
        /\ stop'.save.pc \in {"status", "stopped"} /\ stop'.save.old = agent.settings
        /\ stop'.save.pc = "stopped" => stop'.save.next = stop'.save.old
    BY <1>1 DEF SaveBegins, AgentTyped
  <2>2. agent' = agent \/ agent' = [agent EXCEPT !.timer = FALSE, !.crashes = 0]
    BY <1>1 DEF SaveBegins
  <2>3. /\ agent'.settings = agent.settings /\ agent'.stored = agent.stored
        /\ agent'.child = agent.child /\ agent'.ready = agent.ready
    BY <2>2 DEF AgentTyped, AgentRecord
  <2>4. OneUp'
    BY <2>1, <2>3 DEF Held, OneUp, Up, Running
  <2>5. StartHeld'
    BY <2>1, <2>3 DEF Held, StartHeld, Up, Running
  <2>6. StopsHeld'
    BY <2>1, <2>3 DEF Held, OneUp, StopsHeld, StopHeld, Callers, Up
  <2> QED
    BY <2>4, <2>5, <2>6 DEF Held
<1>2. CASE SavePersists
  <2>1. /\ stop.save.pc = "stopped" /\ start.pc = "idle" /\ Running
        /\ stop.save.old = agent.settings /\ UNCHANGED <<procs, endpoint>>
        /\ agent' = [agent EXCEPT !.settings = stop.save.next, !.stored = stop.save.next]
    BY <1>2 DEF SavePersists, Held, StartHeld, StopsHeld, Stopped, Running
  <2>2. /\ agent'.settings = stop.save.next /\ agent'.stored = agent'.settings
        /\ agent'.child = agent.child /\ agent'.ready = agent.ready
    BY <2>1 DEF AgentTyped, AgentRecord
  <2>3. \/ stop' = [stop EXCEPT !.save = NoStop] /\ UNCHANGED start
        \/ /\ ~Quitting /\ stop' = [stop EXCEPT !.save.pc = "connect"]
           /\ start' = [NoStart EXCEPT !.pc = "begin"]
    BY <1>2, <2>1 DEF SavePersists, Goes
  <2>4. /\ stop'.quit = stop.quit /\ stop'.save.pc \in {"idle", "connect"}
        /\ start' = start \/ (~Quitting /\ start' = [NoStart EXCEPT !.pc = "begin"])
    BY <2>3 DEF AgentTyped, StopRecord, NoStop
  <2>5. Ordered'
    BY <2>1, <2>2, <2>4, HeldOrdered DEF Ordered, NoStart, Quitting, Running, Stopped
  <2>6. CASE stop.save.next # stop.save.old
    BY <2>1, <2>5, <2>6, NothingUp DEF NoneUp, Up, Held, OneUp, StopsHeld
  <2>7. CASE stop.save.next = stop.save.old
    <3>1. CASE start' = start
      <4>1. OneUp'
        BY <2>1, <2>2, <2>4, <2>7, <3>1 DEF Held, OneUp, Up, Running
      <4>2. StartHeld'
        BY <2>1, <2>2, <2>4, <2>5, <3>1 DEF Ordered, StartHeld, Running
      <4>3. StopsHeld'
        BY <2>1, <2>2, <2>4, <2>7 DEF Held, StopsHeld, StopHeld, Callers, Stopped, Up
      <4> QED
        BY <4>1, <4>2, <4>3 DEF Held
    <3>2. CASE ~Quitting /\ start' = [NoStart EXCEPT !.pc = "begin"]
      BY <2>1, <2>2, <2>4, <2>5, <2>7, <3>2, StartBegins DEF Quitting
    <3> QED
      BY <2>4, <3>1, <3>2
  <2> QED
    BY <2>6, <2>7
<1>3. CASE SaveFails
  <2>1. /\ UNCHANGED <<procs, endpoint, agent, start>> /\ stop'.quit = stop.quit
        /\ stop'.save.pc = "idle"
    BY <1>3 DEF SaveFails, AgentTyped, NoStop
  <2>2. OneUp' /\ StartHeld'
    BY <2>1 DEF Held, OneUp, StartHeld, Up, Running
  <2>3. StopsHeld'
    BY <2>1 DEF Held, StopsHeld, StopHeld, Callers, Stopped, Up
  <2> QED
    BY <2>2, <2>3 DEF Held
<1>4. CASE Quit \/ Awaited
  <2>1. /\ UNCHANGED <<procs, endpoint, start>> /\ stop'.save = stop.save /\ Running /\ Running'
        /\ \/ stop'.quit.pc = "await"
           \/ /\ stop'.quit.pc = "status" /\ stop'.quit.old = agent.settings
              /\ start.pc = "idle"
    <3>1. CASE Quit
      BY <3>1 DEF Quit, Goes, Quitting, Running, AgentTyped, StopRecord
    <3>2. CASE Awaited
      BY <3>2 DEF Awaited, Running, AgentTyped, StopRecord
    <3> QED
      BY <1>4, <3>1, <3>2
  <2>2. /\ agent'.settings = agent.settings /\ agent'.stored = agent.stored
        /\ agent'.child = agent.child /\ agent'.ready = agent.ready
    BY <1>4 DEF Quit, Awaited, AgentTyped, AgentRecord
  <2>3. OneUp'
    BY <2>1, <2>2 DEF Held, OneUp, Up, Running
  <2>4. StartHeld'
    BY <2>1, <2>2 DEF Held, StartHeld, Up
  <2>5. StopsHeld'
    BY <2>1, <2>2 DEF Held, OneUp, StopsHeld, StopHeld, Callers, Stopped, Up
  <2> QED
    BY <2>3, <2>4, <2>5 DEF Held
<1> QED
  BY <1>1, <1>2, <1>3, <1>4

(* The next run of the application finds what this one left: orphans,      *)
(* whose settings are those that it stored.                                *)
LEMMA EndHolds ==
    ASSUME AgentTyped, Held, QuitEnds \/ AppCrash \/ Launch
    PROVE  Held'
<1>1. ASSUME Left(procs), UNCHANGED endpoint, NEW settings \in Nat, agent' = Agent(settings),
             \A p \in Pids : Up(p) => procs[p].settings = settings
      PROVE  Held'
  <2>1. \A p \in Pids : /\ ~procs'[p].mine
                        /\ Up(p)' => /\ Up(p) /\ procs'[p].settings = procs[p].settings
                                     /\ procs'[p].st = procs[p].st
    <3> SUFFICES ASSUME NEW p \in Pids
                 PROVE  /\ ~procs'[p].mine
                        /\ Up(p)' => /\ Up(p) /\ procs'[p].settings = procs[p].settings
                                     /\ procs'[p].st = procs[p].st
      OBVIOUS
    <3>1. procs'[p] = Unborn \/ procs'[p] = [procs[p] EXCEPT !.mine = FALSE]
      BY <1>1 DEF Left
    <3>2. /\ [procs[p] EXCEPT !.mine = FALSE].st = procs[p].st
          /\ [procs[p] EXCEPT !.mine = FALSE].settings = procs[p].settings
          /\ [procs[p] EXCEPT !.mine = FALSE].mine = FALSE
      BY DEF AgentTyped, ProcessRecord
    <3>3. CASE procs'[p] = Unborn
      BY <3>3 DEF Up, Unborn
    <3>4. CASE procs'[p] = [procs[p] EXCEPT !.mine = FALSE]
      BY <3>2, <3>4 DEF Up
    <3> QED
      BY <3>1, <3>3, <3>4
  <2>2. /\ start'.pc = "idle" /\ start'.child = NoProcess /\ ~start'.failed
        /\ stop'.save.pc = "idle" /\ stop'.quit.pc = "down" /\ ~Running'
        /\ agent'.settings = settings /\ agent'.stored = settings
        /\ agent'.child = NoProcess /\ ~agent'.ready
    BY <1>1 DEF Left, NoStart, NoStop, Agent, Running
  <2>3. OneUp'
    BY <1>1, <2>1, <2>2 DEF Held, OneUp
  <2>4. StartHeld'
    BY <2>2 DEF StartHeld
  <2>5. StopsHeld'
    BY <2>2 DEF StopsHeld, StopHeld, Callers, Stopped
  <2> QED
    BY <2>3, <2>4, <2>5 DEF Held
<1>2. CASE QuitEnds
  <2>1. \A p \in Pids : Up(p) => procs[p].settings = stop.quit.old
    BY <1>2 DEF QuitEnds, Held, StopsHeld, StopHeld, Callers, Stopped
  <2> QED
    BY <1>1, <1>2, <2>1 DEF QuitEnds, AgentTyped, StopRecord
<1>3. CASE AppCrash
  <2>1. \A p \in Pids : Up(p) => procs[p].settings = agent.stored
    BY DEF Held, OneUp
  <2> QED
    BY <1>1, <1>3, <2>1 DEF AppCrash, AgentTyped, AgentRecord
<1>4. CASE Launch
  <2>1. /\ start' = [NoStart EXCEPT !.pc = "begin"] /\ UNCHANGED <<procs, endpoint, agent>>
        /\ stop'.quit.pc = "idle" /\ stop'.save = stop.save /\ Running'
        /\ start.pc = "idle" /\ stop.save.pc = "idle"
        /\ \A p \in Pids : procs[p].st # "booting"
    BY <1>4 DEF Launch, NoStop, AgentTyped, StopRecord, Running, Held, StartHeld
  <2>2. Ordered'
    BY <2>1, HeldOrdered DEF Ordered, NoStart, Stopped
  <2> QED
    BY <2>1, <2>2, StartBegins
<1> QED
  BY <1>2, <1>3, <1>4

-----------------------------------------------------------------------------
(* The theorems                                                            *)

AgentStep ==
    \/ \E p \in Pids : ProcessStep(p) \/ Crash(p)
    \/ StartStep \/ Connect \/ Restart \/ TimerFires
    \/ \E c \in Callers : StopStep(c)
    \/ SaveBegins \/ SavePersists \/ SaveFails \/ Quit \/ Awaited
    \/ QuitEnds \/ AppCrash \/ Launch

LEMMA AgentStepHolds ==
    ASSUME AgentInv, AgentStep, UNCHANGED unguarded
    PROVE  AgentInv'
<1>1. AgentTyped'
  BY ProcessTypes, StartTypes, StopTypes, SaveTypes, EndTypes DEF AgentStep, AgentInv
<1>2. unguarded = {} => Held'
  BY ProcessHeld, StartHolds, RestartHolds, StopHolds, SaveHolds, EndHolds
     DEF AgentStep, AgentInv
<1> QED
  BY <1>1, <1>2 DEF AgentInv

LEMMA NextAgentStep ==
    ASSUME [Next]_vars
    PROVE  UNCHANGED <<unguarded, session>> /\ (AgentStep \/ UNCHANGED agentVars)
BY DEF Next, vars, agentVars, AgentStep, ShutsDown, Desk, Asking, QuitRequested, elsewhere,
       Process, Starting, Firing, Restarting, Stopping, Saving, Awaiting, Elsewhere, Quits,
       Dies, Launched

LEMMA AgentInvariant == Spec => []AgentInv
<1>1. Init => AgentInv
  <2> SUFFICES ASSUME Init PROVE AgentTyped /\ Held
    BY DEF AgentInv
  <2>1. PICK settings \in 0..MaxSettings : agent = Agent(settings)
    BY DEF Init, AgentInit
  <2>2. settings \in Nat
    BY BoundsAssumption
  <2>3. AgentTyped
    BY <2>1, <2>2 DEF Init, AgentInit, AgentTyped, Unborn, ProcessRecord, Agent, AgentRecord,
                      NoStart, StartRecord, NoStop, StopRecord
  <2>4. NoneUp
    BY DEF Init, AgentInit, NoneUp, Up, Unborn
  <2>5. Ordered
    BY <2>1 DEF Init, AgentInit, Ordered, Agent, NoStart, NoStop, Running, Stopped
  <2>6. Held
    BY <2>4, <2>5 DEF NoneUp, Ordered, Held, OneUp, StartHeld, StopsHeld, StopHeld
  <2> QED
    BY <2>3, <2>6
<1>2. AgentInv /\ [Next]_vars => AgentInv'
  <2> SUFFICES ASSUME AgentInv, [Next]_vars PROVE AgentInv'
    OBVIOUS
  <2>1. CASE AgentStep
    BY <2>1, NextAgentStep, AgentStepHolds
  <2>2. CASE UNCHANGED agentVars
    BY <2>2 DEF agentVars, AgentInv, AgentTyped, Held, OneUp, StartHeld, StopsHeld, StopHeld,
                Up, Running
  <2> QED
    BY <2>1, <2>2, NextAgentStep
<1> QED
  BY <1>1, <1>2, PTL DEF Spec

(* However starts, saves, restarts, quits, crashes and launches meet, one  *)
(* process is up at most: with the stored settings, at the endpoint, and   *)
(* the child of a start that succeeded.                                    *)
THEOREM Supervision == Spec => []Supervised
<1>1. AgentInv => Supervised
  BY DEF AgentInv, Held, OneUp, Supervised
<1> QED
  BY <1>1, AgentInvariant, PTL

(* Whichever start, save or restart the end of the application meets, it   *)
(* leaves no process of its own but those that are ending.                 *)
THEOREM NothingLeft == Spec => QuitStopsService
<1>1. ASSUME AgentInv, [Next]_vars
      PROVE  [unguarded = {} /\ stop.quit.pc = "stopped" /\ stop'.quit.pc = "down" =>
                \A p \in Pids : procs[p].mine => procs[p].st \in {"ending", "exited"}]_vars
  BY <1>1 DEF AgentInv, AgentTyped, ProcessRecord, Held, OneUp, StopsHeld, Up
<1> QED
  BY <1>1, AgentInvariant, PTL DEF Spec, QuitStopsService

-----------------------------------------------------------------------------
(* What a quit waits for                                                   *)

(* A quit that asks has its question in an open window: a dialog, or the   *)
(* answer from it, that only the crash of a renderer can have lost; it     *)
(* keeps to open windows.  With every decision the shutdown of the service *)
(* is under way, and never without.                                        *)
QuestionStands ==
    /\ quit.pc = "asking" =>
          /\ IsOpen(quit.current) /\ win[quit.current].closeRequestPending
          /\ win[quit.current].dialog = "none" => crashes < session.crashes
          /\ quit.remaining \cup quit.resolved \subseteq opened
    /\ quit.pc = "final" <=> Running /\ Quitting

Lost == crashes < session.crashes
Stands(r) ==
    /\ r.dialog # "none" => r.closeRequestPending
    /\ r.closeRequestPending /\ r.dialog = "none" => Lost
    /\ r.renderer = "gone" => Lost

Questions ==
    /\ crashes \in Nat /\ session.crashes \in Nat /\ crashes <= session.crashes
    /\ \A v \in Windows : Stands(win[v]) /\ (win[v].closeRequestPending => v \in opened)
    /\ quit.pc = "asking" =>
          /\ quit.current \in Windows /\ win[quit.current].closeRequestPending
          /\ quit.remaining \cup quit.resolved \subseteq opened \ {quit.current}
          /\ quit.remaining \cap quit.resolved = {}

LEMMA AskedStands ==
    ASSUME NEW r \in WindowRecord, Stands(r)
    PROVE  Stands(Asked(r)) /\ Asked(r).closeRequestPending
<1> DEFINE asked == Asked(r)
<1>1. /\ asked.closeRequestPending /\ asked.renderer = r.renderer
      /\ asked.dialog = IF r.renderer = "up" /\ r.dialog = "none" THEN "sent" ELSE r.dialog
  BY DEF Asked, WindowRecord
<1> HIDE DEF asked
<1>2. r.renderer \in {"up", "gone"}
  BY DEF WindowRecord
<1>3. Stands(asked)
  BY <1>1, <1>2 DEF Stands
<1> QED
  BY <1>1, <1>3 DEF asked

\* The next question, for both answers and for windows that close.
LEMMA NextQuestion ==
    ASSUME NEW w \in [Windows -> WindowRecord],
           NEW remaining \in SUBSET Windows, NEW resolved \in SUBSET Windows,
           Questions, RequestNextDecision(w, remaining, resolved),
           opened' \subseteq Windows, UNCHANGED <<crashes, session>>,
           remaining \cup resolved \subseteq opened', remaining \cap resolved = {},
           \A v \in Windows : Stands(w[v]) /\ (w[v].closeRequestPending => v \in opened')
    PROVE  Questions'
<1> DEFINE undecided == {v \in remaining : Undecided(w[v])}
<1>1. CASE undecided = {}
  <2>1. Finalize(w)
    BY <1>1 DEF RequestNextDecision
  <2>2. quit'.pc = "final"
    BY <2>1 DEF Finalize, NoQuit
  <2>3. ASSUME NEW v \in Windows
        PROVE  Stands(win[v])' /\ (win'[v].closeRequestPending => v \in opened')
    <3> DEFINE closes == w[v].allowClose \/ IsOpen(v)
    <3>1. win'[v] = [w[v] EXCEPT !.allowClose = closes]
      BY <2>1 DEF Finalize
    <3> HIDE DEF closes
    <3>2. /\ win'[v].closeRequestPending = w[v].closeRequestPending
          /\ win'[v].dialog = w[v].dialog /\ win'[v].renderer = w[v].renderer
      BY <3>1 DEF WindowRecord
    <3> QED
      BY <3>2 DEF Stands, Lost
  <2> QED
    BY <2>2, <2>3 DEF Questions
<1>2. CASE undecided # {}
  <2>1. PICK next \in undecided, passed \in SUBSET (remaining \ undecided) :
          /\ quit' = [pc |-> "asking", current |-> next, resolved |-> resolved,
                      remaining |-> remaining \ ({next} \cup passed)]
          /\ win' = [w EXCEPT ![next] = Asked(@)]
    BY <1>2 DEF RequestNextDecision
  <2>2. /\ next \in remaining /\ next \in Windows /\ next \in opened' /\ next \notin resolved
        /\ quit'.pc = "asking" /\ quit'.current = next /\ quit'.resolved = resolved
        /\ quit'.remaining = remaining \ ({next} \cup passed)
    BY <2>1
  <2>3. ASSUME NEW v \in Windows
        PROVE  Stands(win'[v]) /\ (win'[v].closeRequestPending => v \in opened')
    <3>1. CASE v = next
      BY <2>1, <2>2, <3>1, AskedStands
    <3>2. CASE v # next
      <4>1. win'[v] = w[v]
        BY <2>1, <3>2
      <4> QED
        BY <4>1
    <3> QED
      BY <3>1, <3>2
  <2>4. \A v \in Windows : Stands(win[v])'
    BY <2>3 DEF Stands, Lost
  <2>5. win'[next].closeRequestPending
    BY <2>1, <2>2, AskedStands
  <2> HIDE DEF undecided
  <2> QED
    BY <2>2, <2>3, <2>4, <2>5 DEF Questions
<1> QED
  BY <1>1, <1>2

LEMMA CloseAsks ==
    ASSUME QuitTyped, Questions, NEW w \in Windows, quit.pc # "final", Closed(w),
           UNCHANGED <<crashes, session>>
    PROVE  Questions'
<1> DEFINE after == [win EXCEPT ![w] = Fresh]
<1>1. /\ after \in [Windows -> WindowRecord]
      /\ opened' = opened \ {w} /\ RemoveWindow(after, w)
      /\ \A v \in Windows : after[v] = IF v = w THEN Fresh ELSE win[v]
  BY DEF QuitTyped, Closed, WindowRecord, Fresh
<1>2. Stands(Fresh) /\ ~Fresh.closeRequestPending
  BY DEF Stands, Fresh
<1>3. \A v \in Windows : Stands(after[v]) /\ (after[v].closeRequestPending => v \in opened')
  BY <1>1, <1>2 DEF Questions
<1> HIDE DEF after
<1>4. CASE quit.pc = "asking" /\ quit.current = w
  <2>1. RequestNextDecision(after, quit.remaining \ {w}, quit.resolved \ {w})
    BY <1>1, <1>4 DEF RemoveWindow
  <2>2. /\ quit.remaining \ {w} \in SUBSET Windows /\ quit.resolved \ {w} \in SUBSET Windows
        /\ (quit.remaining \ {w}) \cup (quit.resolved \ {w}) \subseteq opened'
        /\ (quit.remaining \ {w}) \cap (quit.resolved \ {w}) = {}
        /\ opened' \subseteq Windows
    BY <1>1, <1>4 DEF QuitTyped, QuitRecord, Questions
  <2> QED
    BY <1>1, <1>3, <2>1, <2>2, NextQuestion
<1>5. CASE quit.pc = "asking" /\ quit.current # w
  <2>1. /\ win' = after
        /\ quit' = [quit EXCEPT !.remaining = @ \ {w}, !.resolved = @ \ {w}]
    BY <1>1, <1>5 DEF RemoveWindow, QuitTyped, QuitRecord
  <2>2. /\ quit'.pc = quit.pc /\ quit'.current = quit.current
        /\ quit'.remaining = quit.remaining \ {w} /\ quit'.resolved = quit.resolved \ {w}
    BY <2>1 DEF QuitTyped, QuitRecord
  <2>3. \A v \in Windows : Stands(win[v])'
    BY <1>3, <2>1 DEF Stands, Lost
  <2>4. win'[quit.current] = win[quit.current]
    BY <1>1, <1>5, <2>1 DEF Questions
  <2> QED
    BY <1>1, <1>3, <1>5, <2>1, <2>2, <2>3, <2>4 DEF Questions
<1>6. CASE quit.pc = "none"
  <2>1. win' = after /\ UNCHANGED quit
    BY <1>1, <1>6 DEF RemoveWindow
  <2>2. \A v \in Windows : Stands(win[v])'
    BY <1>3, <2>1 DEF Stands, Lost
  <2> QED
    BY <1>1, <1>3, <1>6, <2>1, <2>2 DEF Questions
<1> QED
  BY <1>4, <1>5, <1>6 DEF QuitTyped, QuitRecord

LEMMA ResolveAsks ==
    ASSUME QuitTyped, Questions, NEW w \in Windows, Resolve(w), UNCHANGED <<crashes, session>>
    PROVE  Questions'
<1> DEFINE told == [win EXCEPT ![w].closeRequestPending = FALSE, ![w].dialog = "none"]
           accepted == [told EXCEPT ![w].allowClose = TRUE]
<1>1. /\ told \in [Windows -> WindowRecord] /\ accepted \in [Windows -> WindowRecord]
      /\ \A v \in Windows : v # w => told[v] = win[v] /\ accepted[v] = win[v]
      /\ told[w].dialog = "none" /\ ~told[w].closeRequestPending
      /\ told[w].renderer = win[w].renderer
      /\ accepted[w].dialog = "none" /\ ~accepted[w].closeRequestPending
      /\ accepted[w].renderer = win[w].renderer
  BY DEF QuitTyped, WindowRecord
<1>2. /\ quit.pc # "final"
      /\ \/ /\ quit.pc = "asking" /\ quit.current = w
            /\ RequestNextDecision(accepted, quit.remaining, quit.resolved \cup {w})
            /\ opened' = opened
         \/ /\ quit' = NoQuit /\ win' = Restored(told, w) /\ opened' = opened
         \/ Closed(w)
         \/ /\ win' = told /\ UNCHANGED <<opened, quit>>
            /\ ~(quit.pc = "asking" /\ quit.current = w)
  BY DEF Resolve
<1> HIDE DEF told, accepted
<1>3. \A v \in Windows : /\ Stands(told[v]) /\ (told[v].closeRequestPending => v \in opened)
                         /\ Stands(accepted[v]) /\ (accepted[v].closeRequestPending => v \in opened)
  <2> SUFFICES ASSUME NEW v \in Windows
               PROVE  /\ Stands(told[v]) /\ (told[v].closeRequestPending => v \in opened)
                      /\ Stands(accepted[v]) /\ (accepted[v].closeRequestPending => v \in opened)
    OBVIOUS
  <2>1. CASE v = w
    BY <1>1, <2>1 DEF Questions, Stands
  <2>2. CASE v # w
    BY <1>1, <2>2 DEF Questions
  <2> QED
    BY <2>1, <2>2
<1>4. CASE /\ quit.pc = "asking" /\ quit.current = w
           /\ RequestNextDecision(accepted, quit.remaining, quit.resolved \cup {w})
           /\ opened' = opened
  <2>1. w \in opened
    BY <1>4 DEF Questions
  <2>2. /\ quit.remaining \in SUBSET Windows /\ quit.resolved \cup {w} \in SUBSET Windows
        /\ quit.remaining \cup (quit.resolved \cup {w}) \subseteq opened'
        /\ quit.remaining \cap (quit.resolved \cup {w}) = {}
        /\ opened' \subseteq Windows
    BY <1>4, <2>1 DEF QuitTyped, QuitRecord, Questions
  <2> QED
    BY <1>1, <1>3, <1>4, <2>2, NextQuestion
<1>5. CASE quit' = NoQuit /\ win' = Restored(told, w) /\ opened' = opened
  <2>1. ASSUME NEW v \in Windows
        PROVE  Stands(win[v])' /\ (win'[v].closeRequestPending => v \in opened')
    <3>1. told[v] \in WindowRecord
      BY <1>1
    <3>2. win'[v] = told[v] \/ win'[v] = [told[v] EXCEPT !.allowClose = FALSE]
      BY <1>5 DEF Restored
    <3>3. /\ win'[v].closeRequestPending = told[v].closeRequestPending
          /\ win'[v].dialog = told[v].dialog /\ win'[v].renderer = told[v].renderer
      BY <3>1, <3>2 DEF WindowRecord
    <3>4. Stands(told[v]) /\ (told[v].closeRequestPending => v \in opened)
      BY <1>3
    <3> QED
      BY <1>5, <3>3, <3>4 DEF Stands, Lost
  <2>2. quit'.pc = "none"
    BY <1>5 DEF NoQuit
  <2> QED
    BY <2>1, <2>2 DEF Questions
<1>6. CASE Closed(w)
  BY <1>2, <1>6, CloseAsks
<1>7. CASE /\ win' = told /\ UNCHANGED <<opened, quit>>
           /\ ~(quit.pc = "asking" /\ quit.current = w)
  <2>1. \A v \in Windows : Stands(win[v])'
    BY <1>3, <1>7 DEF Stands, Lost
  <2>2. quit.pc = "asking" => win'[quit.current] = win[quit.current]
    BY <1>1, <1>7 DEF Questions
  <2> QED
    BY <1>3, <1>7, <2>1, <2>2 DEF Questions
<1> QED
  BY <1>2, <1>4, <1>5, <1>6, <1>7

\* A step that changes one window and leaves its question.
LEMMA WindowAsks ==
    ASSUME QuitTyped, Questions, NEW w \in Windows, UNCHANGED <<quit, session>>,
           crashes' \in Nat, crashes' <= crashes,
           NEW new \in WindowRecord, win' = [win EXCEPT ![w] = new],
           opened \subseteq opened', Stands(win[w])',
           new.closeRequestPending => w \in opened',
           win[w].closeRequestPending /\ IsOpen(w) => new.closeRequestPending
    PROVE  Questions'
<1>1. win'[w] = new /\ \A v \in Windows : v # w => win'[v] = win[v]
  BY DEF QuitTyped
<1>2. crashes <= session.crashes /\ session.crashes \in Nat /\ crashes \in Nat
  BY DEF Questions
<1>3. crashes' <= session.crashes /\ (Lost => Lost')
  BY <1>2 DEF Lost
<1>4. ASSUME NEW v \in Windows
      PROVE  Stands(win[v])' /\ (win'[v].closeRequestPending => v \in opened')
  <2>1. CASE v = w
    BY <1>1, <2>1
  <2>2. CASE v # w
    BY <1>1, <1>3, <2>2 DEF Questions, Stands
  <2> QED
    BY <2>1, <2>2
<1>5. quit.pc = "asking" => win'[quit.current].closeRequestPending
  <2>1. CASE quit.current = w
    BY <1>1, <2>1 DEF Questions, IsOpen
  <2>2. CASE quit.current # w
    BY <1>1, <2>2 DEF Questions
  <2> QED
    BY <2>1, <2>2
<1> QED
  BY <1>2, <1>3, <1>4, <1>5 DEF Questions

LEMMA StepAsks ==
    ASSUME QuitTyped, Questions, NEW w \in Windows, WindowStep(w) \/ Dialog(w), UNCHANGED session
    PROVE  Questions'
<1>1. /\ win[w] \in WindowRecord /\ Stands(win[w]) /\ (win[w].closeRequestPending => w \in opened)
      /\ crashes \in Nat /\ crashes <= crashes
  BY DEF QuitTyped, Questions
<1>2. CASE Open(w)
  <2>1. /\ Fresh \in WindowRecord /\ ~Fresh.closeRequestPending
        /\ Stands(Fresh)
    BY DEF Fresh, WindowRecord, Stands
  <2>2. /\ ~IsOpen(w) /\ opened' = opened \cup {w} /\ win' = [win EXCEPT ![w] = Fresh]
        /\ UNCHANGED <<quit, crashes>>
    BY <1>2 DEF Open
  <2>3. win'[w] = Fresh
    BY <2>2 DEF QuitTyped
  <2>4. Stands(win[w])'
    BY <2>1, <2>2, <2>3 DEF Stands, Lost
  <2> QED
    BY <1>1, <2>1, <2>2, <2>4, WindowAsks
<1>3. ASSUME NEW new \in WindowRecord, win' = [win EXCEPT ![w] = new],
             UNCHANGED <<quit, crashes, opened>>,
             new.closeRequestPending \/ new.closeRequestPending = win[w].closeRequestPending,
             new.closeRequestPending => w \in opened,
             Stands(new)
      PROVE  Questions'
  <2>1. win'[w] = new
    BY <1>3 DEF QuitTyped
  <2>2. Stands(win[w])'
    BY <1>3, <2>1 DEF Stands, Lost
  <2> QED
    BY <1>1, <1>3, <2>2, WindowAsks
<1>4. CASE Edit(w) \/ Save(w) \/ RendererLoaded(w) \/ Show(w) \/ Answer(w)
  <2>1. /\ UNCHANGED <<quit, crashes, opened>>
        /\ \/ \E dirty \in BOOLEAN : win' = [win EXCEPT ![w].isDirty = dirty]
           \/ win' = [win EXCEPT ![w].renderer = "up"]
           \/ \E dialog \in {"shown", "cancel", "discard"} :
                 win' = [win EXCEPT ![w].dialog = dialog] /\ win[w].dialog # "none"
    BY <1>4 DEF Edit, Save, RendererLoaded, Show, Answer
  <2>2. CASE \E dirty \in BOOLEAN : win' = [win EXCEPT ![w].isDirty = dirty]
    <3>1. PICK dirty \in BOOLEAN : win' = [win EXCEPT ![w].isDirty = dirty]
      BY <2>2
    <3> DEFINE new == [win[w] EXCEPT !.isDirty = dirty]
    <3>2. /\ new \in WindowRecord /\ new.closeRequestPending = win[w].closeRequestPending
          /\ new.dialog = win[w].dialog /\ new.renderer = win[w].renderer
          /\ win' = [win EXCEPT ![w] = new]
      BY <1>1, <3>1 DEF WindowRecord
    <3> HIDE DEF new
    <3>3. Stands(new)
      BY <1>1, <3>2 DEF Stands
    <3> QED
      BY <1>1, <1>3, <2>1, <3>2, <3>3
  <2>3. CASE win' = [win EXCEPT ![w].renderer = "up"]
    <3> DEFINE new == [win[w] EXCEPT !.renderer = "up"]
    <3>1. /\ new \in WindowRecord /\ new.closeRequestPending = win[w].closeRequestPending
          /\ new.dialog = win[w].dialog /\ new.renderer = "up"
          /\ win' = [win EXCEPT ![w] = new]
      BY <1>1, <2>3 DEF WindowRecord
    <3> HIDE DEF new
    <3>2. Stands(new)
      BY <1>1, <3>1 DEF Stands
    <3> QED
      BY <1>1, <1>3, <2>1, <3>1, <3>2
  <2>4. CASE \E dialog \in {"shown", "cancel", "discard"} :
                win' = [win EXCEPT ![w].dialog = dialog] /\ win[w].dialog # "none"
    <3>1. PICK dialog \in {"shown", "cancel", "discard"} :
             win' = [win EXCEPT ![w].dialog = dialog] /\ win[w].dialog # "none"
      BY <2>4
    <3> DEFINE new == [win[w] EXCEPT !.dialog = dialog]
    <3>2. /\ new \in WindowRecord /\ new.closeRequestPending = win[w].closeRequestPending
          /\ new.dialog = dialog /\ new.renderer = win[w].renderer
          /\ win' = [win EXCEPT ![w] = new]
      BY <1>1, <3>1 DEF WindowRecord
    <3> HIDE DEF new
    <3>3. Stands(new)
      BY <1>1, <3>1, <3>2 DEF Stands
    <3> QED
      BY <1>1, <1>3, <2>1, <3>2, <3>3
  <2> QED
    BY <2>1, <2>2, <2>3, <2>4
<1>5. CASE CloseButton(w)
  <2>1. CASE Closed(w)
    BY <1>5, <2>1, CloseAsks DEF CloseButton
  <2>2. CASE win' = [win EXCEPT ![w] = Asked(@)] /\ UNCHANGED <<opened, quit>>
    <3> DEFINE new == Asked(win[w])
    <3>1. new \in WindowRecord /\ Stands(new) /\ new.closeRequestPending
      BY <1>1, AskedRecord, AskedStands
    <3>2. win' = [win EXCEPT ![w] = new] /\ w \in opened /\ UNCHANGED crashes
      BY <1>5, <2>2 DEF CloseButton, IsOpen
    <3> HIDE DEF new
    <3> QED
      BY <1>3, <2>2, <3>1, <3>2
  <2> QED
    BY <1>5, <2>1, <2>2 DEF CloseButton
<1>6. CASE RendererGone(w)
  <2> DEFINE new == [win[w] EXCEPT !.renderer = "gone", !.dialog = "none"]
  <2>1. /\ new \in WindowRecord /\ new.closeRequestPending = win[w].closeRequestPending
        /\ new.dialog = "none" /\ win' = [win EXCEPT ![w] = new]
    BY <1>1, <1>6 DEF RendererGone, WindowRecord
  <2>2. /\ crashes' = crashes - 1 /\ crashes > 0 /\ UNCHANGED <<quit, opened>>
        /\ crashes <= session.crashes /\ session.crashes \in Nat
    BY <1>6 DEF RendererGone, Questions
  <2> HIDE DEF new
  <2>3. crashes' \in Nat /\ crashes' <= crashes /\ Lost'
    BY <1>1, <2>2 DEF Lost
  <2>4. win'[w] = new
    BY <2>1 DEF QuitTyped
  <2>5. Stands(win[w])'
    BY <2>1, <2>3, <2>4 DEF Stands
  <2> QED
    BY <1>1, <2>1, <2>2, <2>3, <2>5, WindowAsks
<1>7. CASE Resolve(w)
  <2>1. UNCHANGED crashes
    BY <1>7, Zenon DEF Resolve
  <2> QED
    BY <1>7, <2>1, ResolveAsks
<1> QED
  BY <1>2, <1>4, <1>5, <1>6, <1>7 DEF WindowStep, Dialog

\* The shutdown of the service and the last decision of a quit go together.
QuitFinal == quit.pc = "final" <=> Running /\ Quitting

LEMMA SavesStop ==
    ASSUME AgentTyped, StopStep("save")
    PROVE  stop'.quit.pc = stop.quit.pc
<1> stop \in [save : StopRecord, quit : StopRecord]
  BY DEF AgentTyped
<1> QED
  BY DEF StopStep, Answered, Unanswered, Ask, Kill, ChildGone, Goes, LeftRunning

LEMMA QuitStops ==
    ASSUME AgentTyped, StopStep("quit")
    PROVE  stop'.quit.pc \in Stopped
<1>1. stop \in [save : StopRecord, quit : StopRecord] /\ stop.quit \in StopRecord
  BY DEF AgentTyped
<1>2. CASE Answered("quit")
  BY <1>1, <1>2 DEF Answered, Stopped, StopRecord
<1>3. ASSUME LeftRunning("quit") PROVE stop'.quit.pc \in Stopped
  BY <1>1, <1>3 DEF LeftRunning, Stopped, StopRecord
<1>4. CASE Unanswered("quit")
  BY <1>1, <1>3, <1>4 DEF Unanswered, Stopped, StopRecord
<1>5. CASE Ask("quit")
  BY <1>1, <1>3, <1>5 DEF Ask, Goes, Stopped, StopRecord
<1>6. CASE Kill("quit") \/ ChildGone("quit")
  BY <1>1, <1>6 DEF Kill, ChildGone, Goes, Stopped, StopRecord
<1> QED
  BY <1>2, <1>4, <1>5, <1>6 DEF StopStep

LEMMA FinalKept ==
    ASSUME AgentTyped, QuitTyped, QuitFinal, [Next]_vars
    PROVE  QuitFinal'
<1>1. stop.quit \in StopRecord /\ stop \in [save : StopRecord, quit : StopRecord]
  BY DEF AgentTyped
<1>2. CASE UNCHANGED quit /\ stop'.quit.pc = stop.quit.pc
  BY <1>2 DEF QuitFinal, Running, Quitting
<1>3. CASE UNCHANGED quit /\ {stop.quit.pc, stop'.quit.pc} \subseteq Stopped \cup {"await"}
  BY <1>3 DEF QuitFinal, Running, Quitting, Stopped
<1>4. ASSUME ShutsDown, Running,
             quit.pc = "final" => quit'.pc = "final"
      PROVE  QuitFinal'
  <2>1. CASE quit.pc # "final" /\ quit'.pc = "final"
    <3>1. stop' = [stop EXCEPT !["quit"].pc = "await"]
      BY <1>4, <2>1 DEF ShutsDown, Quit, Goes
    <3>2. stop'.quit.pc = "await"
      BY <1>1, <3>1 DEF StopRecord
    <3> QED
      BY <2>1, <3>2 DEF QuitFinal, Running, Quitting
  <2>2. CASE ~(quit.pc # "final" /\ quit'.pc = "final")
    <3>1. UNCHANGED stop /\ (quit'.pc = "final" <=> quit.pc = "final")
      BY <1>4, <2>2 DEF ShutsDown
    <3> QED
      BY <3>1 DEF QuitFinal, Running, Quitting
  <2> QED
    BY <2>1, <2>2
<1>5. ASSUME NEW w, WindowStep(w) \/ Dialog(w) \/ Request
      PROVE  quit.pc = "final" => UNCHANGED quit
  BY <1>5
     DEF WindowStep, Dialog, Request, Open, Edit, Save, CloseButton, Closed, RemoveWindow,
         RendererGone, RendererLoaded, Show, Answer, Resolve
<1>6. CASE (\E w \in session.windows : Desk(w) \/ Asking(w)) \/ QuitRequested
  BY <1>4, <1>5, <1>6 DEF Desk, Asking, QuitRequested
<1>7. CASE \E p \in Pids : Process(p)
  <2>1. UNCHANGED <<quit, stop>>
    BY <1>7 DEF Process, ProcessStep, Boot, End, ExitNoticed, elsewhere, quitVars
  <2> QED
    BY <1>2, <2>1
<1>8. CASE Starting \/ Firing \/ Restarting \/ Elsewhere \/ Saving
  <2>1. UNCHANGED quit
    BY <1>8 DEF Starting, Firing, Restarting, Elsewhere, Saving, elsewhere, quitVars
  <2>2. \/ UNCHANGED stop
        \/ \E new : stop' = [stop EXCEPT !.save = new]
        \/ stop' = [stop EXCEPT !["save"].pc = "connect"]
    BY <1>8
       DEF Starting, Firing, Restarting, Elsewhere, Saving, StartStep, Begin, Probe, ProbeFails,
           TakeOver, Listen, Spawn, Booted, NotRecorded, Deadline, Killed, SettleStart,
           TimerFires, Restart, Connect, SaveBegins, SaveFails, SavePersists, Goes, Crash
  <2>3. stop'.quit = stop.quit
    BY <1>1, <2>2
  <2> QED
    BY <1>2, <2>1, <2>3
<1>9. CASE \E c \in Callers : Stopping(c)
  <2>1. PICK c \in Callers : StopStep(c)
    BY <1>9 DEF Stopping
  <2>2. UNCHANGED quit
    BY <1>9 DEF Stopping, elsewhere, quitVars
  <2>3. stop[c].pc \in Stopped
    BY <2>1 DEF StopStep, Answered, Unanswered, Ask, Kill, ChildGone, Stopped
  <2>4. CASE c = "save"
    BY <1>1, <1>2, <2>1, <2>2, <2>4, SavesStop
  <2>5. CASE c = "quit"
    BY <1>3, <2>1, <2>2, <2>3, <2>5, QuitStops
  <2> QED
    BY <2>4, <2>5 DEF Callers
<1>10. CASE Awaiting
  <2>1. /\ UNCHANGED quit /\ stop.quit.pc = "await"
        /\ stop' = [stop EXCEPT !.quit = [@ EXCEPT !.pc = "status", !.old = agent.settings]]
    BY <1>10 DEF Awaiting, Awaited, elsewhere, quitVars
  <2>2. stop'.quit.pc = "status"
    BY <1>1, <2>1 DEF StopRecord
  <2> QED
    BY <1>3, <2>1, <2>2 DEF Stopped
<1>11. CASE Quits \/ Dies
  <2>1. quit' = NoQuit /\ stop'.quit = [NoStop EXCEPT !.pc = "down"]
    BY <1>11 DEF Quits, Dies, Exit, QuitEnds, AppCrash, Left
  <2> QED
    BY <2>1 DEF NoQuit, NoStop, QuitFinal, Running
<1>12. CASE Launched
  <2>1. UNCHANGED quit /\ ~Running /\ stop' = [stop EXCEPT !.quit = NoStop]
    BY <1>12 DEF Launched, Launch, elsewhere, quitVars
  <2>2. stop'.quit.pc = "idle"
    BY <1>1, <2>1 DEF NoStop
  <2> QED
    BY <2>1, <2>2 DEF QuitFinal, Running, Quitting
<1>13. CASE UNCHANGED vars
  BY <1>2, <1>13 DEF vars, quitVars, agentVars
<1> QED
  BY <1>6, <1>7, <1>8, <1>9, <1>10, <1>11, <1>12, <1>13 DEF Next

LEMMA QuitAsks ==
    ASSUME QuitTyped, QuitInv, Questions, session \in Sessions, [Next]_vars
    PROVE  Questions'
<1>1. CASE UNCHANGED <<quitVars, session>>
  BY <1>1 DEF quitVars, Questions, Stands, Lost
<1>2. ASSUME NEW w \in session.windows, Desk(w) \/ Asking(w)
      PROVE  Questions'
  <2>1. w \in Windows
    BY <1>2, SessionsAssumption
  <2> QED
    BY <1>2, <2>1, StepAsks DEF Desk, Asking
<1>3. CASE QuitRequested
  <2>1. /\ RequestNextDecision(win, Listed, {}) /\ UNCHANGED <<opened, crashes, session>>
    BY <1>3 DEF QuitRequested, Request
  <2>2. /\ Listed \in SUBSET Windows /\ Listed \cup {} \subseteq opened'
        /\ opened' \subseteq Windows /\ {} \in SUBSET Windows /\ Listed \cap {} = {}
    BY <2>1 DEF QuitTyped, Listed
  <2>3. win \in [Windows -> WindowRecord]
    BY DEF QuitTyped
  <2>4. \A v \in Windows : Stands(win[v]) /\ (win[v].closeRequestPending => v \in opened')
    BY <2>1 DEF Questions
  <2> QED
    BY <2>1, <2>2, <2>3, <2>4, NextQuestion
<1>4. CASE Quits \/ Dies
  <2>1. Exit /\ UNCHANGED session
    BY <1>4 DEF Quits, Dies
  <2>2. Stands(Fresh) /\ ~Fresh.closeRequestPending /\ Fresh.dialog = "none"
        /\ Fresh.renderer = "up" /\ NoQuit.pc = "none"
    BY DEF Stands, Fresh, NoQuit
  <2>3. \A v \in Windows : win'[v] = Fresh
    BY <2>1 DEF Exit
  <2>4. \A v \in Windows : Stands(win[v])'
    BY <2>2, <2>3 DEF Stands
  <2> QED
    BY <2>1, <2>2, <2>3, <2>4 DEF Exit, Questions
<1> QED
  BY <1>1, <1>2, <1>3, <1>4
     DEF Next, vars, elsewhere, Process, Starting, Firing, Restarting, Stopping, Saving,
         Awaiting, Elsewhere, Launched

LEMMA Questioned == Spec => [](QuitInv /\ session \in Sessions /\ Questions)
<1> DEFINE QInv == QuitInv /\ session \in Sessions /\ Questions
<1>1. Init => QInv
  <2> SUFFICES ASSUME Init PROVE QInv
    OBVIOUS
  <2>1. QuitInv /\ session \in Sessions
    BY DEF Init, QuitInit, NoQuit, Fresh, QuitInv, QuitTyped, QuitRecord, WindowRecord, Asks,
           ChangesAsked, IsOpen
  <2>2. crashes = session.crashes /\ session.crashes \in Nat /\ quit.pc = "none"
        /\ \A v \in Windows : win[v] = Fresh
    BY <2>1, SessionsAssumption DEF Init, QuitInit, NoQuit
  <2>3. Stands(Fresh) /\ ~Fresh.closeRequestPending
    BY DEF Stands, Fresh
  <2> QED
    BY <2>1, <2>2, <2>3 DEF Questions
<1>2. QInv /\ [Next]_vars => QInv'
  <2> SUFFICES ASSUME QInv, [Next]_vars PROVE QInv'
    OBVIOUS
  <2>1. QuitInv' /\ session' \in Sessions
    BY QuitStays
  <2> QED
    BY <2>1, QuitAsks DEF QuitInv
<1> QED
  BY <1>1, <1>2, PTL DEF Spec

(* A quit never waits for nothing: whatever windows are opened, edited and *)
(* closed, dialogs answered and renderers reloaded meanwhile, its question *)
(* stands in an open window, unless a renderer crashed with it; and the    *)
(* last decision and the shutdown go together, so that no second shutdown  *)
(* or quit is in its way (ApplicationQuitCoordinator).                     *)
THEOREM QuestionOutstanding == Spec => []QuestionStands
<1>1. QuitInv /\ Questions /\ QuitFinal => QuestionStands
  BY DEF Questions, QuestionStands, Stands, Lost, IsOpen, QuitFinal
<1>2. Init => QuitFinal
  BY DEF Init, QuitInit, AgentInit, NoQuit, NoStop, QuitFinal, Running, Quitting
<1>3. AgentInv /\ QuitInv /\ QuitFinal /\ [Next]_vars => QuitFinal'
  BY FinalKept DEF AgentInv, QuitInv
<1> QED
  BY <1>1, <1>2, <1>3, AgentInvariant, Questioned, PTL DEF Spec
-----------------------------------------------------------------------------
(* What brings the service back                                            *)

\* What brings the service back: a restart that is due, or a child that nobody
\* is stopping, whose exit is still to be noticed when it has exited.
RestartDue == agent.timer \/ agent.waiting # "no" \/ agent.joined
Watched ==
    /\ agent.child # NoProcess /\ agent.child \notin agent.expected
    /\ procs[agent.child].st \in {"serving", "exited"}
    /\ start.pc \notin {"boot", "kill"}
Intervened == Exhausted \/ ~Enabled \/ \E c \in Callers : stop[c].pc # "idle"

(* A service is not lost from sight: the exit of a child that serves makes *)
(* a restart due, and a restart that is due, or waits for a start under    *)
(* way, or fails, is due until a child serves whose exit is looked for,    *)
(* unless the user intervenes or the policy gives up.  Only a start by     *)
(* another caller may replace a child before its exit is noticed.          *)
ServiceKept ==
    [][unguarded = {} /\ Running /\ (RestartDue \/ Watched) =>
         \/ RestartDue' \/ Watched' \/ Intervened'
         \/ (start'.pc = "boot" /\ procs[agent.child].st = "exited")]_vars

(* Whom the supervisor knows: its child, and those it stops, are processes *)
(* of this run.  Only one that has ended, or that a stop is about to ask,  *)
(* is expected to exit.  A start that takes over an orphan has no child;   *)
(* one that waits for its child has it.                                    *)
ChildMine == agent.child # NoProcess => procs[agent.child].mine
StopsMine ==
    \A c \in Callers : stop[c].child # NoProcess =>
        procs[stop[c].child].mine \/ procs[stop[c].child].st = "none"
ExpectedGone ==
    \A p \in agent.expected :
        /\ procs[p].mine
        /\ Up(p) => \E c \in Callers : stop[c].pc = "ask" /\ stop[c].child = p
StartsChild ==
    /\ start.pc = "ask" => agent.child = NoProcess
    /\ start.pc \in {"boot", "kill"} /\ ~start.failed =>
          /\ start.child \in Pids /\ procs[start.child].mine
          /\ procs[start.child].st \in {"booting", "serving", "exited"}
          /\ start.pc = "kill" => procs[start.child].st = "exited"
Known == ChildMine /\ StopsMine /\ ExpectedGone /\ StartsChild

Joins == agent.waiting = "start" \/ agent.joined => start.pc # "idle"

(* Processes go on or end: what belongs to this run still does, nothing is *)
(* born; what has exited waits to be noticed, and what is up may be ended. *)
Fades ==
    \A p \in Pids :
        /\ procs[p].mine => procs'[p].mine
        /\ procs[p].st = "none" => procs'[p].st = "none"
        /\ Up(p)' => Up(p)
Exits(p) ==
    /\ procs[p].mine /\ procs[p].st \in {"booting", "serving", "exited"} =>
          procs'[p].st \in {"booting", "serving", "exited"}
    /\ procs[p].mine /\ procs[p].st = "exited" => procs'[p].st = "exited"
    /\ procs[p].mine /\ procs[p].st = "serving" => procs'[p].st # "booting"

LEMMA EndedFades ==
    ASSUME AgentTyped, NEW p \in Pids, procs[p].st # "none",
           procs' = [procs EXCEPT ![p] = Ended(p)]
    PROVE  /\ Fades /\ \A q \in Pids : Exits(q)
           /\ ~Up(p)' /\ (procs[p].mine => procs'[p].st = "exited")
<1>1. procs[p].mine => Ended(p).mine /\ Ended(p).st = "exited"
  BY DEF Ended, AgentTyped, ProcessRecord
<1>2. ~procs[p].mine => Ended(p).st = "none"
  BY DEF Ended, Unborn
<1>3. procs'[p] = Ended(p) /\ \A q \in Pids : q # p => procs'[q] = procs[q]
  BY DEF AgentTyped
<1> QED
  BY <1>1, <1>2, <1>3 DEF Fades, Exits, Up

LEMMA ProcessFades ==
    ASSUME AgentTyped, NEW p \in Pids, Boot(p) \/ End(p) \/ Crash(p)
    PROVE  Fades /\ \A q \in Pids : Exits(q)
<1>1. CASE Boot(p)
  <2>1. CASE procs' = [procs EXCEPT ![p] = Ended(p)]
    BY <1>1, <2>1, EndedFades DEF Boot
  <2>2. CASE procs' = [procs EXCEPT ![p].st = "serving"]
    BY <1>1, <2>2 DEF Boot, Fades, Exits, Up, AgentTyped, ProcessRecord
  <2> QED
    BY <1>1, <2>1, <2>2 DEF Boot
<1>2. CASE End(p) \/ Crash(p)
  BY <1>2, EndedFades DEF End, Crash, Terminate
<1> QED
  BY <1>1, <1>2

(* What is known stays known while processes end, if the stops go on with  *)
(* the children they have, and whoever is expected from now on has ended.  *)
LEMMA FadesKnown ==
    ASSUME AgentTyped, ChildMine, StopsMine, ExpectedGone, Fades,
           agent' \in AgentRecord, agent'.child = agent.child,
           \A p \in agent'.expected : p \in agent.expected \/ (procs'[p].mine /\ ~Up(p)'),
           \A c \in Callers : stop'[c].child \in {stop[c].child, NoProcess},
           \A c \in Callers : stop[c].pc = "ask" =>
                 \/ stop'[c].pc = "ask" /\ stop'[c].child = stop[c].child
                 \/ \A p \in Pids : Up(p)' => p # stop[c].child
    PROVE  (ChildMine /\ StopsMine /\ ExpectedGone)'
<1>1. ChildMine'
  BY PidAssumption DEF ChildMine, Fades, AgentRecord
<1>2. StopsMine'
  <2>1. \A c \in Callers : stop[c].child \in Pids \cup {NoProcess}
    BY DEF AgentTyped, StopRecord, Callers
  <2> QED
    BY <2>1 DEF StopsMine, Fades
<1>3. ExpectedGone'
  <2> SUFFICES ASSUME NEW p \in agent'.expected
               PROVE  /\ procs'[p].mine
                      /\ Up(p)' => \E c \in Callers : stop'[c].pc = "ask" /\ stop'[c].child = p
    BY DEF ExpectedGone, Up
  <2>1. p \in Pids
    BY DEF AgentRecord
  <2>2. CASE p \in agent.expected
    BY <2>1, <2>2 DEF ExpectedGone, Fades
  <2> QED
    BY <2>2
<1> QED
  BY <1>1, <1>2, <1>3

(* What a crash that is counted, and a start that settles, leave alone.    *)
LEMMA ScheduledDue ==
    ASSUME NEW a \in AgentRecord, NEW b, b \in Scheduled(a)
    PROVE  /\ b.expected = a.expected /\ b.waiting = a.waiting /\ b.joined = a.joined
           /\ a.timer => b.timer
           /\ b.timer \/ Quitting \/ (b.crashes > MaxRestarts /\ ~b.timer)
<1>1. CASE a.timer \/ Quitting
  <2>1. b = a
    <3>1. Scheduled(a) = {a}
      BY <1>1, Zenon DEF Scheduled
    <3> QED
      BY <3>1
  <2> QED
    BY <1>1, <2>1
<1>2. CASE ~(a.timer \/ Quitting)
  <2>1. PICK n \in 1..(a.crashes + 1) :
          b = [a EXCEPT !.crashes = n, !.timer = n <= MaxRestarts]
    <3>1. Scheduled(a) = {[a EXCEPT !.crashes = n, !.timer = n <= MaxRestarts] :
                             n \in 1..(a.crashes + 1)}
      BY <1>2, Zenon DEF Scheduled
    <3> QED
      BY <3>1, Zenon
  <2>2. /\ b.crashes = n /\ b.timer = (n <= MaxRestarts)
        /\ b.expected = a.expected /\ b.waiting = a.waiting /\ b.joined = a.joined
    BY <2>1 DEF AgentRecord
  <2>3. n <= MaxRestarts \/ n > MaxRestarts
    BY BoundsAssumption DEF AgentRecord
  <2> QED
    BY <1>2, <2>2, <2>3
<1> QED
  BY <1>1, <1>2

Due(a) == a.timer \/ a.waiting # "no" \/ a.joined
GivenUp(a) == Quitting \/ (a.crashes > MaxRestarts /\ ~a.timer)

LEMMA SettlesDue ==
    ASSUME AgentTyped, NEW ok \in BOOLEAN, NEW a \in AgentRecord, SettleStart(ok, a)
    PROVE  /\ agent'.expected = a.expected /\ agent'.waiting # "start" /\ ~agent'.joined
           /\ Due(a) /\ ~ok => Due(agent') \/ GivenUp(agent')
<1> DEFINE others == [a EXCEPT !.ready = ok, !.joined = FALSE,
                               !.waiting = IF @ = "start" THEN "turn" ELSE @]
<1>1. /\ others \in AgentRecord /\ others.expected = a.expected /\ others.timer = a.timer
      /\ others.waiting # "start" /\ ~others.joined
      /\ a.waiting # "no" => others.waiting # "no"
  BY DEF AgentRecord
<1>2. agent' \in Scheduled(others) \/ (agent' = others /\ ~(~ok /\ a.joined))
  BY DEF SettleStart, Retried
<1> HIDE DEF others
<1>3. CASE agent' \in Scheduled(others)
  BY <1>1, <1>3, ScheduledDue DEF Due, GivenUp
<1>4. CASE agent' = others /\ ~(~ok /\ a.joined)
  BY <1>1, <1>4 DEF Due
<1> QED
  BY <1>2, <1>3, <1>4

(* A step keeps what is known, and the service in sight.                   *)
InSight == RestartDue \/ Watched
StaysInSight ==
    InSight => \/ InSight' \/ Intervened'
               \/ (start'.pc = "boot" /\ procs[agent.child].st = "exited")

LEMMA DueIs == RestartDue <=> Due(agent)
BY DEF RestartDue, Due

LEMMA GivesUp ==
    ASSUME stop'.quit = stop.quit, GivenUp(agent')
    PROVE  Intervened'
BY DEF GivenUp, Intervened, Exhausted, Quitting, Callers

(* Processes that are up are expected to exit only while a stop asks them, *)
(* which no start overlaps.                                                *)
LEMMA UpUnexpected ==
    ASSUME Held, ExpectedGone, start.pc # "idle", NEW p \in Pids, Up(p)
    PROVE  p \notin agent.expected
BY DEF Held, StartHeld, ExpectedGone, Callers

LEMMA SettlesKnown ==
    ASSUME AgentTyped, Held, Known, start.pc # "idle", UNCHANGED procs,
           NEW ok \in BOOLEAN, NEW a \in AgentRecord, SettleStart(ok, a),
           a.child = agent.child, a.expected = agent.expected, Due(a) <=> Due(agent),
           ok => agent.child # NoProcess /\ procs[agent.child].st = "serving"
    PROVE  Known' /\ Joins' /\ StaysInSight
<1>1. /\ agent' \in AgentRecord /\ agent'.child = agent.child
      /\ start' = NoStart /\ stop'.quit = stop.quit
      /\ stop'.save = IF stop.save.pc = "connect" THEN NoStop ELSE stop.save
  BY Settles DEF SameService
<1>2. /\ agent'.expected = agent.expected /\ agent'.waiting # "start" /\ ~agent'.joined
      /\ Due(agent) /\ ~ok => Due(agent') \/ GivenUp(agent')
  BY SettlesDue
<1>3. Fades
  BY DEF Fades, Up
<1>4. \A c \in Callers : /\ stop'[c].child \in {stop[c].child, NoProcess}
                         /\ stop[c].pc = "ask" => stop'[c] = stop[c]
  BY <1>1 DEF Callers, NoStop
<1>5. (ChildMine /\ StopsMine /\ ExpectedGone)'
  BY <1>1, <1>2, <1>3, <1>4, FadesKnown DEF Known
<1>6. start'.pc = "idle"
  BY <1>1 DEF NoStart
<1>7. StartsChild' /\ Joins'
  BY <1>2, <1>6 DEF StartsChild, Joins
<1>8. StaysInSight
  <2>1. CASE ok
    <3>1. agent.child \notin agent.expected
      BY <2>1, UpUnexpected DEF Known, AgentTyped, AgentRecord, Up
    <3>2. Watched'
      BY <1>1, <1>2, <1>6, <2>1, <3>1 DEF Watched
    <3> QED
      BY <3>2 DEF StaysInSight, InSight
  <2>2. CASE ~ok /\ RestartDue
    <3>1. Due(agent') \/ GivenUp(agent')
      BY <1>2, <2>2, DueIs
    <3>2. Due(agent') => RestartDue'
      BY DEF Due, RestartDue
    <3> QED
      BY <1>1, <3>1, <3>2, GivesUp DEF StaysInSight, InSight
  <2>3. CASE Watched
    BY <1>1, <1>2, <1>6, <2>3 DEF Watched, StaysInSight, InSight
  <2> QED
    BY <2>1, <2>2, <2>3 DEF StaysInSight, InSight
<1> QED
  BY <1>5, <1>7, <1>8 DEF Known

(* Whoever is managed is the child, if there is one.                       *)
LEMMA ManagedChild ==
    ASSUME AgentTyped, Held, NEW settings, Managed(settings), agent.child # NoProcess
    PROVE  endpoint = agent.child /\ procs[agent.child].st = "serving"
<1>1. endpoint \in Pids /\ Up(endpoint) /\ procs[endpoint].st = "serving"
  BY DEF Managed, Serving, Up
<1> QED
  BY <1>1 DEF Held, OneUp

LEMMA StartKnown ==
    ASSUME AgentTyped, AgentTyped', Held, Known, Joins, StartStep, unguarded = {}
    PROVE  Known' /\ Joins' /\ StaysInSight
<1>0. agent \in AgentRecord
  BY DEF AgentTyped
<1>1. ASSUME SettleStart(FALSE, agent), UNCHANGED procs, start.pc # "idle"
      PROVE  Known' /\ Joins' /\ StaysInSight
  BY <1>0, <1>1, SettlesKnown
<1>2. ASSUME UNCHANGED <<procs, agent, stop>>,
             start'.pc \notin {"idle", "boot", "kill"},
             start'.pc = "ask" => agent.child = NoProcess
      PROVE  Known' /\ Joins' /\ StaysInSight
  BY <1>2 DEF Known, ChildMine, StopsMine, ExpectedGone, StartsChild, Joins, Up, StaysInSight,
              InSight, RestartDue, Watched
<1>3. CASE Begin
  <2>1. CASE SettleStart(FALSE, agent)
    BY <1>1, <1>3, <2>1 DEF Begin
  <2>2. CASE start' = [start EXCEPT !.pc = "probe", !.settings = agent.settings]
             /\ UNCHANGED <<agent, stop>>
    BY <1>2, <1>3, <2>2 DEF Begin, AgentTyped, StartRecord
  <2> QED
    BY <1>3, <2>1, <2>2 DEF Begin
<1>4. CASE Probe
  <2>1. CASE agent.child # NoProcess
    <3>1. SettleStart(TRUE, agent) /\ UNCHANGED procs /\ start.pc # "idle"
      BY <1>4, <2>1 DEF Probe
    <3>2. procs[agent.child].st = "serving"
      BY <1>4, <2>1, ManagedChild DEF Probe
    <3> QED
      BY <1>0, <2>1, <3>1, <3>2, SettlesKnown
  <2>2. CASE agent.child = NoProcess
    BY <1>2, <1>4, <2>2 DEF Probe, AgentTyped, StartRecord
  <2> QED
    BY <2>1, <2>2
<1>5. CASE ProbeFails
  BY <1>2, <1>5 DEF ProbeFails, AgentTyped, StartRecord
<1>6. CASE TakeOver
  <2>1. CASE Refused /\ SettleStart(FALSE, agent)
    BY <1>1, <1>6, <2>1 DEF TakeOver, Refused
  <2>2. CASE Accepted /\ start' = [start EXCEPT !.pc = "listen"] /\ UNCHANGED <<agent, stop>>
    <3>1. agent.child = NoProcess /\ start'.pc = "listen"
      BY <1>6, <2>2 DEF TakeOver, Known, StartsChild, AgentTyped, StartRecord
    <3>2. Fades
      BY <2>2 DEF Accepted, Fades, Up, AgentTyped, ProcessRecord, Serving
    <3>3. StartsChild' /\ Joins'
      BY <2>2, <3>1 DEF StartsChild, Joins
    <3>4. agent' \in AgentRecord
      BY DEF AgentTyped
    <3>5. (ChildMine /\ StopsMine /\ ExpectedGone)'
      BY <2>2, <3>2, <3>4, FadesKnown DEF Known
    <3>6. StaysInSight
      BY <2>2, <3>1 DEF StaysInSight, InSight, RestartDue, Watched
    <3> QED
      BY <3>3, <3>5, <3>6 DEF Known
  <2> QED
    BY <1>6, <2>1, <2>2 DEF TakeOver
<1>7. CASE Listen
  BY <1>1, <1>7 DEF Listen
<1>8. CASE Spawn
  <2>1. PICK p \in Pids : /\ procs[p] = Unborn /\ Spawned(p) /\ UNCHANGED <<endpoint, stop>>
                          /\ p \notin {stop.save.child, stop.quit.child}
    BY <1>8, Spawns
  <2>2. /\ procs'[p].st = "booting" /\ procs'[p].mine
        /\ \A q \in Pids : q # p => procs'[q] = procs[q]
    BY <2>1 DEF Spawned, AgentTyped
  <2>3. /\ agent'.child = p /\ agent'.expected = agent.expected /\ agent'.timer = agent.timer
        /\ agent'.waiting = agent.waiting /\ agent'.joined = agent.joined
    BY <2>1 DEF Spawned, AgentTyped, AgentRecord
  <2>4. start.pc = "listen" /\ ~Listening(start.settings)
    BY <1>8, Spawns
  <2>5. start'.pc = "boot" /\ start'.child = p /\ start.pc = "listen"
    BY <2>1, <2>4 DEF Spawned, AgentTyped, StartRecord
  <2>6. ~procs[p].mine
    BY <2>1 DEF Unborn
  <2>7. ChildMine' /\ StartsChild' /\ Joins'
    BY <2>2, <2>3, <2>5 DEF ChildMine, StartsChild, Joins
  <2>8. StopsMine'
    <3> SUFFICES ASSUME NEW c \in Callers, stop[c].child # NoProcess
                 PROVE  procs'[stop[c].child].mine \/ procs'[stop[c].child].st = "none"
      BY <2>1 DEF StopsMine
    <3>1. stop[c].child \in Pids /\ stop[c].child # p
      BY <2>1 DEF Callers, AgentTyped, StopRecord
    <3> QED
      BY <2>2, <3>1 DEF Known, StopsMine
  <2>9. ExpectedGone'
    <3> SUFFICES ASSUME NEW q \in agent'.expected
                 PROVE  /\ procs'[q].mine
                        /\ Up(q)' => \E c \in Callers : stop'[c].pc = "ask" /\ stop'[c].child = q
      BY DEF ExpectedGone, Up
    <3>1. q \in Pids /\ q \in agent.expected /\ q # p
      BY <2>3, <2>6 DEF AgentTyped, AgentRecord, Known, ExpectedGone
    <3> QED
      BY <2>1, <2>2, <3>1 DEF Known, ExpectedGone, Up
  <2>10. StaysInSight
    <3>1. Watched => procs[agent.child].st = "exited"
      <4> SUFFICES ASSUME Watched, procs[agent.child].st = "serving" PROVE FALSE
        BY DEF Watched
      <4>1. /\ agent.child \in Pids /\ procs[agent.child].settings = agent.settings
            /\ start.settings = agent.settings
        BY <2>5 DEF Watched, AgentTyped, AgentRecord, Held, OneUp, Up, StartHeld
      <4>2. Listening(start.settings)
        BY <4>1 DEF Listening, Serving
      <4> QED
        BY <2>4, <4>2
    <3> QED
      BY <2>3, <2>5, <3>1 DEF StaysInSight, InSight, RestartDue
  <2> QED
    BY <2>7, <2>8, <2>9, <2>10 DEF Known
<1>9. CASE Booted
  <2>1. SettleStart(~start.failed, agent) /\ UNCHANGED procs /\ start.pc = "boot"
    BY <1>9 DEF Booted
  <2>2. ~start.failed => agent.child # NoProcess /\ procs[agent.child].st = "serving"
    <3> SUFFICES ASSUME ~start.failed
                 PROVE  agent.child # NoProcess /\ procs[agent.child].st = "serving"
      OBVIOUS
    <3>1. endpoint \in Pids /\ procs[endpoint].st = "serving" /\ Up(endpoint)
      BY <1>9 DEF Booted, Managed, Serving, Up
    <3>2. procs[endpoint].mine
      BY <2>1, <3>1 DEF Held, StartHeld
    <3> QED
      BY <3>1, <3>2, PidAssumption DEF Held, OneUp
  <2>3. (~start.failed) \in BOOLEAN
    OBVIOUS
  <2> QED
    BY <1>0, <2>1, <2>2, <2>3, SettlesKnown
<1>10. CASE NotRecorded
  BY <1>10 DEF NotRecorded
<1>11. CASE Deadline
  <2>1. PICK p \in Pids :
            /\ p = start.child /\ procs[p].mine /\ procs[p].st # "none" /\ start.pc = "boot"
            /\ Terminate(p) /\ UNCHANGED stop
    BY <1>11 DEF Deadline, Known, StartsChild
  <2>2. Fades /\ ~Up(p)' /\ procs'[p].st = "exited"
    BY <2>1, EndedFades DEF Terminate
  <2>3. /\ agent'.child = agent.child /\ agent'.expected = agent.expected \cup {p}
        /\ agent'.timer = agent.timer
        /\ agent'.waiting = agent.waiting /\ agent'.joined = agent.joined
        /\ start'.pc = "kill" /\ start'.child = p /\ agent' \in AgentRecord
    BY <1>11, <2>1 DEF Deadline, AgentTyped, AgentRecord, StartRecord
  <2>4. procs'[p].mine
    BY <2>1, <2>2 DEF Fades
  <2>5. (ChildMine /\ StopsMine /\ ExpectedGone)'
    BY <2>1, <2>2, <2>3, <2>4, FadesKnown DEF Known
  <2>6. StartsChild' /\ Joins'
    BY <2>1, <2>2, <2>3, <2>4 DEF StartsChild, Joins
  <2>7. StaysInSight
    BY <2>1, <2>3 DEF StaysInSight, InSight, RestartDue, Watched
  <2> QED
    BY <2>5, <2>6, <2>7 DEF Known
<1>12. CASE Killed
  <2> DEFINE a == [agent EXCEPT !.stored = start.settings]
  <2>1. SettleStart(FALSE, a) /\ UNCHANGED procs /\ start.pc # "idle"
    BY <1>12 DEF Killed
  <2>2. a \in AgentRecord /\ a.child = agent.child /\ a.expected = agent.expected
        /\ (Due(a) <=> Due(agent))
    BY DEF AgentTyped, AgentRecord, StartRecord, Due
  <2> HIDE DEF a
  <2> QED
    BY <2>1, <2>2, SettlesKnown
<1> QED
  BY <1>3, <1>4, <1>5, <1>6, <1>7, <1>8, <1>9, <1>10, <1>11, <1>12 DEF StartStep

LEMMA ProcessKnown ==
    ASSUME AgentTyped, AgentTyped', Held, Known, Joins, NEW p \in Pids, ProcessStep(p) \/ Crash(p)
    PROVE  Known' /\ Joins' /\ StaysInSight
<1>1. CASE Boot(p) \/ End(p) \/ Crash(p)
  <2>1. Fades /\ (\A q \in Pids : Exits(q)) /\ UNCHANGED <<agent, start, stop>>
    BY <1>1, ProcessFades DEF Boot, End, Crash
  <2>2. agent' \in AgentRecord
    BY DEF AgentTyped
  <2>3. (ChildMine /\ StopsMine /\ ExpectedGone)'
    BY <2>1, <2>2, FadesKnown DEF Known
  <2>4. StartsChild' /\ Joins'
    BY <2>1 DEF Known, StartsChild, Joins, Fades, Exits
  <2>5. Watched => Watched'
    <3> SUFFICES ASSUME Watched PROVE Watched'
      OBVIOUS
    <3>1. agent.child \in Pids /\ procs[agent.child].mine
      BY DEF Watched, Known, ChildMine, AgentTyped, AgentRecord
    <3> QED
      BY <2>1, <3>1 DEF Watched, Exits
  <2> QED
    BY <2>1, <2>3, <2>4, <2>5 DEF Known, StaysInSight, InSight, RestartDue
<1>2. CASE ExitNoticed(p)
  <2> DEFINE told == [agent EXCEPT !.expected = @ \ {p},
                                   !.child = IF @ = p THEN NoProcess ELSE @]
  <2>1. /\ told \in AgentRecord /\ told.expected = agent.expected \ {p}
        /\ told.child = IF agent.child = p THEN NoProcess ELSE agent.child
        /\ told.timer = agent.timer /\ told.waiting = agent.waiting
        /\ told.joined = agent.joined /\ told.settings = agent.settings
    BY DEF AgentTyped, AgentRecord
  <2>2. /\ agent' \in IF Enabled /\ agent.child = p /\ p \notin agent.expected
                      THEN Scheduled(told) ELSE {told}
        /\ procs' = [procs EXCEPT ![p] = Unborn] /\ procs[p].st = "exited"
        /\ start' = [start EXCEPT !.failed = @ \/ start.child = p] /\ UNCHANGED stop
    BY <1>2 DEF ExitNoticed
  <2> HIDE DEF told
  <2>3. /\ agent'.expected = told.expected /\ agent'.waiting = told.waiting
        /\ agent'.joined = told.joined /\ (told.timer => agent'.timer)
        /\ agent'.child = told.child /\ agent'.settings = told.settings
    BY <2>1, <2>2, ScheduledDue, ScheduledRecord DEF SameService
  <2>4. /\ procs'[p].st = "none" /\ \A q \in Pids : q # p => procs'[q] = procs[q]
        /\ start'.pc = start.pc /\ start'.child = start.child
        /\ ~start'.failed => ~start.failed /\ start.child # p
    BY <2>2 DEF AgentTyped, StartRecord, Unborn
  <2>5. ChildMine'
    BY <2>1, <2>3, <2>4 DEF Known, ChildMine, AgentTyped, AgentRecord
  <2>6. StopsMine'
    <3> SUFFICES ASSUME NEW c \in Callers, stop[c].child # NoProcess
                 PROVE  procs'[stop[c].child].mine \/ procs'[stop[c].child].st = "none"
      BY <2>2 DEF StopsMine
    <3>1. stop[c].child \in Pids
      BY DEF Callers, AgentTyped, StopRecord
    <3> QED
      BY <2>4, <3>1 DEF Known, StopsMine
  <2>7. ExpectedGone'
    <3> SUFFICES ASSUME NEW q \in agent'.expected
                 PROVE  /\ procs'[q].mine
                        /\ Up(q)' => \E c \in Callers : stop'[c].pc = "ask" /\ stop'[c].child = q
      BY DEF ExpectedGone, Up
    <3>1. q \in Pids /\ q \in agent.expected /\ q # p
      BY <2>1, <2>3 DEF AgentTyped, AgentRecord
    <3> QED
      BY <2>2, <2>4, <3>1 DEF Known, ExpectedGone, Up
  <2>8. StartsChild' /\ Joins'
    BY <2>1, <2>3, <2>4 DEF Known, StartsChild, Joins
  <2>9. StaysInSight
    <3>1. CASE RestartDue
      BY <2>1, <2>3, <3>1 DEF RestartDue, StaysInSight, InSight
    <3>2. CASE Watched /\ agent.child # p
      BY <2>1, <2>3, <2>4, <3>2 DEF Watched, StaysInSight, InSight, AgentTyped, AgentRecord
    <3>3. CASE Watched /\ agent.child = p
      <4>1. CASE Enabled
        <5>1. agent' \in Scheduled(told)
          BY <2>2, <3>3, <4>1 DEF Watched
        <5>2. agent'.timer \/ GivenUp(agent')
          BY <2>1, <5>1, ScheduledDue DEF GivenUp
        <5> QED
          BY <2>2, <5>2, GivesUp DEF StaysInSight, InSight, RestartDue
      <4>2. CASE ~Enabled
        BY <2>1, <2>3, <4>2 DEF StaysInSight, Intervened, Enabled
      <4> QED
        BY <4>1, <4>2
    <3> QED
      BY <3>1, <3>2, <3>3 DEF StaysInSight, InSight
  <2> QED
    BY <2>5, <2>6, <2>7, <2>8, <2>9 DEF Known
<1> QED
  BY <1>1, <1>2 DEF ProcessStep

(* A step that leaves the processes, the child and whom to expect alone,   *)
(* and stops nobody it has not stopped before.                             *)
LEMMA QuietKnown ==
    ASSUME AgentTyped, AgentTyped', Known, UNCHANGED procs, agent'.child = agent.child,
           agent'.expected = agent.expected,
           \A c \in Callers : /\ stop'[c].child \in {stop[c].child, NoProcess}
                              /\ stop[c].pc = "ask" => stop'[c] = stop[c]
    PROVE  (ChildMine /\ StopsMine /\ ExpectedGone)'
<1>1. Fades /\ agent' \in AgentRecord
  BY DEF Fades, Up, AgentTyped
<1> QED
  BY <1>1, FadesKnown DEF Known

LEMMA RestartKnown ==
    ASSUME AgentTyped, AgentTyped', Known, Joins, Connect \/ Restart \/ TimerFires
    PROVE  Known' /\ Joins' /\ StaysInSight
<1>1. /\ UNCHANGED <<procs, stop>> /\ agent'.child = agent.child
      /\ agent'.expected = agent.expected /\ agent'.settings = agent.settings
  BY DEF Connect, Restart, TimerFires, AgentTyped, AgentRecord
<1>2. start' = start \/ start'.pc = "begin"
  BY DEF Connect, Restart, TimerFires, NoStart
<1>3. (ChildMine /\ StopsMine /\ ExpectedGone)'
  BY <1>1, QuietKnown
<1>4. StartsChild'
  BY <1>1, <1>2 DEF Known, StartsChild
<1>5. Watched => Watched'
  BY <1>1, <1>2 DEF Watched
<1>6. CASE Connect
  BY <1>3, <1>4, <1>5, <1>6
     DEF Connect, NoStart, Known, Joins, StaysInSight, InSight, RestartDue
<1>7. CASE Restart
  <2>1. /\ agent'.waiting = "no" /\ agent'.joined = ~Quitting /\ agent'.timer = agent.timer
        /\ start'.pc # "idle" \/ Quitting
    BY <1>7 DEF Restart, AgentTyped, AgentRecord, NoStart
  <2>2. Joins'
    BY <2>1 DEF Joins
  <2>3. StaysInSight
    BY <1>1, <2>1 DEF StaysInSight, InSight, RestartDue, Intervened, Quitting, Callers
  <2> QED
    BY <1>3, <1>4, <2>2, <2>3 DEF Known
<1>8. CASE TimerFires
  <2>1. /\ agent'.waiting = IF ~Enabled THEN "no" ELSE IF start.pc = "idle" THEN "turn" ELSE "start"
        /\ agent'.joined = agent.joined /\ UNCHANGED start
    BY <1>8 DEF TimerFires, AgentTyped, AgentRecord
  <2>2. Joins'
    BY <2>1 DEF Joins
  <2>3. StaysInSight
    BY <1>1, <2>1 DEF StaysInSight, InSight, RestartDue, Intervened, Enabled
  <2> QED
    BY <1>3, <1>4, <2>2, <2>3 DEF Known
<1> QED
  BY <1>6, <1>7, <1>8

LEMMA SaveKnown ==
    ASSUME AgentTyped, AgentTyped', Held, Known, Joins,
           SaveBegins \/ SavePersists \/ SaveFails \/ Quit \/ Awaited
    PROVE  Known' /\ Joins' /\ StaysInSight
<1>1. /\ UNCHANGED procs /\ agent'.child = agent.child /\ agent'.expected = agent.expected
      /\ agent'.waiting = agent.waiting /\ agent'.joined = agent.joined
  BY DEF SaveBegins, SavePersists, SaveFails, Quit, Awaited, AgentTyped, AgentRecord
<1>2. start' = start \/ (start.pc = "idle" /\ start'.pc = "begin")
  BY DEF SaveBegins, SavePersists, SaveFails, Quit, Awaited, NoStart
<1>3. \A c \in Callers : /\ stop'[c].child \in {stop[c].child, NoProcess}
                         /\ stop[c].pc = "ask" => stop'[c] = stop[c]
  <2>1. /\ stop'.quit.child = stop.quit.child
        /\ stop.quit.pc = "ask" => stop'.quit = stop.quit
    <3>1. stop'.quit = stop.quit
          \/ (stop.quit.pc \in {"idle", "await"} /\ stop'.quit.child = stop.quit.child)
      <4>1. CASE SaveBegins \/ SavePersists \/ SaveFails
        BY <4>1 DEF SaveBegins, SavePersists, SaveFails, Goes, AgentTyped
      <4>2. CASE Quit
        <5>1. stop' = [stop EXCEPT !["quit"].pc = "await"] /\ stop.quit.pc = "idle"
          BY <4>2 DEF Quit, Quitting, Goes
        <5> QED
          BY <5>1 DEF AgentTyped, StopRecord
      <4>3. CASE Awaited
        <5>1. /\ stop.quit.pc = "await"
              /\ stop'.quit = [stop.quit EXCEPT !.pc = "status", !.old = agent.settings]
          BY <4>3 DEF Awaited, AgentTyped
        <5>2. stop.quit \in StopRecord
          BY DEF AgentTyped
        <5> QED
          BY <5>1, <5>2 DEF StopRecord
      <4> QED
        BY <4>1, <4>2, <4>3
    <3> QED
      BY <3>1
  <2>2. /\ stop'.save.child \in {stop.save.child, NoProcess}
        /\ stop.save.pc = "ask" => stop'.save = stop.save
    <3>1. stop'.save = stop.save \/ (stop.save.pc \in {"idle", "stopped"}
             /\ stop'.save.child \in {stop.save.child, NoProcess})
      <4>1. CASE SaveBegins
        BY <4>1 DEF SaveBegins, AgentTyped
      <4>2. CASE SavePersists \/ SaveFails
        BY <4>2 DEF SavePersists, SaveFails, Goes, AgentTyped, StopRecord, NoStop
      <4>3. CASE Quit \/ Awaited
        BY <4>3 DEF Quit, Awaited, Goes, AgentTyped
      <4> QED
        BY <4>1, <4>2, <4>3
    <3> QED
      BY <3>1
  <2> QED
    BY <2>1, <2>2 DEF Callers
<1>4. (ChildMine /\ StopsMine /\ ExpectedGone)'
  BY <1>1, <1>3, QuietKnown
<1>5. StartsChild' /\ Joins'
  BY <1>1, <1>2 DEF Known, StartsChild, Joins
<1>6. Watched => Watched'
  BY <1>1, <1>2 DEF Watched
<1>7. (RestartDue => RestartDue') \/ Intervened'
  <2>1. CASE SaveBegins
    <3>1. agent' = agent \/ stop'.save.pc = "status"
      BY <2>1 DEF SaveBegins, AgentTyped
    <3> QED
      BY <3>1 DEF RestartDue, Intervened, Callers
  <2>2. CASE Quit
    BY <2>2 DEF Quit, Goes, Intervened, Callers, AgentTyped
  <2>3. CASE SavePersists \/ SaveFails \/ Awaited
    BY <1>1, <2>3 DEF SavePersists, SaveFails, Awaited, RestartDue, AgentTyped, AgentRecord
  <2> QED
    BY <2>1, <2>2, <2>3
<1> QED
  BY <1>4, <1>5, <1>6, <1>7 DEF Known, StaysInSight, InSight

(* A stop begins with no start under way, and none begins meanwhile.       *)
LEMMA StopKnown ==
    ASSUME AgentTyped, AgentTyped', Held, Known, Joins, NEW c \in Callers, StopStep(c)
    PROVE  Known' /\ Joins' /\ StaysInSight
<1>1. UNCHANGED start /\ start.pc = "idle" /\ stop[c].pc \in Stopped
  BY DEF StopStep, Answered, Unanswered, Ask, Kill, ChildGone, Callers, Stopped, Held, StartHeld
<1>2. /\ agent' \in AgentRecord /\ agent'.child = agent.child /\ agent'.timer = agent.timer
      /\ agent'.waiting = agent.waiting /\ agent'.joined = agent.joined
  BY DEF StopStep, Answered, Unanswered, Ask, Kill, ChildGone, LeftRunning, AgentTyped,
         AgentRecord
<1>3. StartsChild' /\ Joins' /\ (RestartDue => RestartDue')
  BY <1>1, <1>2 DEF Known, StartsChild, Joins, RestartDue
<1>4. stop[c] \in StopRecord /\ stop'[c] \in StopRecord
  BY DEF AgentTyped, Callers
<1>5. \A pc \in Stopped : Goes(c, pc) =>
        /\ stop'[c].pc = pc /\ stop'[c].child = stop[c].child
        /\ \A d \in Callers : d # c => stop'[d] = stop[d]
  BY DEF Goes, AgentTyped, StopRecord, Callers
<1>6. LeftRunning(c) =>
        /\ stop'[c].pc = IF c = "save" THEN "idle" ELSE "stopped"
        /\ stop'[c].child \in {stop[c].child, NoProcess}
        /\ agent'.expected = agent.expected
        /\ \A d \in Callers : d # c => stop'[d] = stop[d]
  <2>1. LeftRunning(c) => agent'.expected = agent.expected
    BY DEF LeftRunning, AgentTyped, AgentRecord
  <2>2. c = "save" /\ LeftRunning(c) => stop' = [stop EXCEPT !.save = NoStop]
    BY DEF LeftRunning
  <2>3. c = "quit" /\ LeftRunning(c) => stop' = [stop EXCEPT !.quit.pc = "stopped"]
    BY DEF LeftRunning
  <2> QED
    BY <2>1, <2>2, <2>3 DEF AgentTyped, StopRecord, NoStop, Callers
<1>7. stop'[c].pc # "idle" => StaysInSight
  BY DEF StaysInSight, Intervened
<1>8. CASE Answered(c)
  <2>1. /\ stop'[c].pc = "ask" /\ stop'[c].child = agent.child /\ stop[c].pc = "status"
        /\ UNCHANGED procs
        /\ \A d \in Callers : d # c => stop'[d] = stop[d]
        /\ agent'.expected = agent.expected \cup ({agent.child} \ {NoProcess})
    BY <1>8 DEF Answered, AgentTyped, StopRecord, AgentRecord, Callers
  <2>2. ChildMine' /\ StopsMine'
    BY <1>2, <2>1 DEF Known, ChildMine, StopsMine
  <2>3. ExpectedGone'
    <3> SUFFICES ASSUME NEW q \in agent'.expected
                 PROVE  /\ procs'[q].mine
                        /\ Up(q)' => \E d \in Callers : stop'[d].pc = "ask" /\ stop'[d].child = q
      BY DEF ExpectedGone, Up
    <3>1. CASE q = agent.child /\ q # NoProcess
      BY <2>1, <3>1 DEF Known, ChildMine
    <3>2. CASE q \in agent.expected
      <4>1. procs[q].mine /\ (Up(q) => \E d \in Callers : stop[d].pc = "ask" /\ stop[d].child = q)
        BY <3>2 DEF Known, ExpectedGone
      <4>2. Up(q)' => Up(q)
        BY <2>1 DEF Up
      <4> QED
        BY <2>1, <4>1, <4>2
    <3> QED
      BY <2>1, <3>1, <3>2
  <2> QED
    BY <1>3, <1>7, <2>1, <2>2, <2>3 DEF Known
<1>9. CASE Unanswered(c)
  <2>1. UNCHANGED procs /\ stop[c].pc = "status"
    BY <1>9 DEF Unanswered
  <2>2. CASE agent.child = NoProcess /\ LeftRunning(c)
    <3>1. (ChildMine /\ StopsMine /\ ExpectedGone)'
      BY <1>2, <1>6, <2>1, <2>2, QuietKnown
    <3>2. StaysInSight
      BY <1>3, <2>2 DEF StaysInSight, InSight, Watched
    <3> QED
      BY <1>3, <3>1, <3>2 DEF Known
  <2>3. CASE stop' = [stop EXCEPT ![c].pc = "exit", ![c].child = agent.child] /\ UNCHANGED agent
    <3>1. /\ stop'[c].pc = "exit" /\ stop'[c].child = agent.child
          /\ \A d \in Callers : d # c => stop'[d] = stop[d]
      BY <1>4, <2>3 DEF AgentTyped, StopRecord, Callers
    <3>2. ChildMine' /\ StopsMine'
      BY <2>1, <2>3, <3>1 DEF Known, ChildMine, StopsMine
    <3>3. ExpectedGone'
      <4> SUFFICES ASSUME NEW q \in agent'.expected
                   PROVE  /\ procs'[q].mine
                          /\ Up(q)' => \E d \in Callers : stop'[d].pc = "ask" /\ stop'[d].child = q
        BY DEF ExpectedGone, Up
      <4>1. procs[q].mine /\ (Up(q) => \E d \in Callers : stop[d].pc = "ask" /\ stop[d].child = q)
        BY <2>3 DEF Known, ExpectedGone
      <4>2. Up(q)' => Up(q)
        BY <2>1 DEF Up
      <4> QED
        BY <2>1, <3>1, <4>1, <4>2
    <3> QED
      BY <1>3, <1>7, <3>1, <3>2, <3>3 DEF Known
  <2> QED
    BY <1>9, <2>2, <2>3 DEF Unanswered
<1>10. CASE Ask(c)
  <2>1. "exit" \in Stopped /\ "stopped" \in Stopped /\ stop[c].pc = "ask"
    BY <1>10 DEF Ask, Stopped
  <2>2. CASE Accepted /\ Goes(c, "exit") /\ UNCHANGED agent
    <3>1. NoneUp' /\ Fades
      BY <2>2, Accepts DEF Accepted, Fades, Up, AgentTyped, ProcessRecord, Serving
    <3>2. (ChildMine /\ StopsMine /\ ExpectedGone)'
      BY <1>2, <1>5, <2>1, <2>2, <3>1, FadesKnown DEF Known, NoneUp
    <3> QED
      BY <1>3, <1>5, <1>7, <2>1, <2>2, <3>2 DEF Known
  <2>3. CASE /\ Remains(stop[c].child) /\ Terminate(stop[c].child)
             /\ Goes(c, "exit") /\ UNCHANGED agent
    <3>1. stop[c].child \in Pids /\ procs[stop[c].child].st # "none"
      BY <1>4, <2>3 DEF Remains, StopRecord
    <3>2. NoneUp'
      BY <2>1, <2>3, <3>1, StopKills
    <3>3. Fades
      BY <2>3, <3>1, EndedFades DEF Terminate
    <3>4. (ChildMine /\ StopsMine /\ ExpectedGone)'
      BY <1>2, <1>5, <2>1, <2>3, <3>2, <3>3, FadesKnown DEF Known, NoneUp
    <3> QED
      BY <1>3, <1>5, <1>7, <2>1, <2>3, <3>4 DEF Known
  <2>4. CASE ~Remains(stop[c].child) /\ LeftRunning(c) /\ UNCHANGED procs
    <3>1. Fades
      BY <2>4 DEF Fades, Up
    <3>2. \A p \in Pids : Up(p)' => p # stop[c].child
      BY <2>4, PidAssumption DEF Remains, Up
    <3>3. (ChildMine /\ StopsMine /\ ExpectedGone)'
      BY <1>2, <1>6, <2>4, <3>1, <3>2, FadesKnown DEF Known
    <3>4. Watched => Watched'
      BY <1>1, <1>2, <1>6, <2>4 DEF Watched
    <3> QED
      BY <1>3, <3>3, <3>4 DEF Known, StaysInSight, InSight
  <2> QED
    BY <1>10, <2>2, <2>3, <2>4 DEF Ask
<1>11. CASE Kill(c)
  <2>1. PICK p \in Pids :
            /\ p = stop[c].child /\ procs[p].st # "none" /\ Terminate(p) /\ UNCHANGED stop
            /\ stop[c].pc = "exit"
    BY <1>4, <1>11 DEF Kill, Alive, StopRecord
  <2>2. agent'.expected = agent.expected \cup {p}
    BY <1>11, <2>1 DEF Kill, AgentTyped, AgentRecord
  <2>3. procs[p].mine
    BY <2>1, PidAssumption DEF Known, StopsMine
  <2>4. Fades /\ ~Up(p)'
    BY <2>1, EndedFades DEF Terminate
  <2>5. procs'[p].mine
    BY <2>3, <2>4 DEF Fades
  <2>6. (ChildMine /\ StopsMine /\ ExpectedGone)'
    BY <1>2, <2>1, <2>2, <2>4, <2>5, FadesKnown DEF Known
  <2> QED
    BY <1>3, <1>7, <2>1, <2>6 DEF Known
<1>12. CASE ChildGone(c)
  <2>1. "stopped" \in Stopped /\ stop[c].pc = "exit" /\ Goes(c, "stopped")
        /\ UNCHANGED <<procs, agent>>
    BY <1>12 DEF ChildGone, Stopped
  <2>2. (ChildMine /\ StopsMine /\ ExpectedGone)'
    BY <1>5, <2>1, QuietKnown
  <2> QED
    BY <1>3, <1>5, <1>7, <2>1, <2>2 DEF Known
<1> QED
  BY <1>8, <1>9, <1>10, <1>11, <1>12 DEF StopStep

(* The application ends, and another run of it knows nobody yet.           *)
LEMMA EndKnown ==
    ASSUME AgentTyped, AgentTyped', Held, Known, Joins, QuitEnds \/ AppCrash \/ Launch
    PROVE  Known' /\ Joins' /\ (Running => StaysInSight)
<1>1. ASSUME NEW settings, NEW left, Left(left), agent' = Agent(settings)
      PROVE  Known' /\ Joins' /\ StaysInSight
  <2>1. /\ agent'.child = NoProcess /\ agent'.expected = {} /\ agent'.waiting = "no"
        /\ ~agent'.joined /\ start'.pc = "idle" /\ stop'.quit.pc = "down"
        /\ stop'.save.child = NoProcess /\ stop'.quit.child = NoProcess
    BY <1>1 DEF Left, Agent, NoStart, NoStop
  <2> QED
    BY <2>1 DEF Known, ChildMine, StopsMine, ExpectedGone, StartsChild, Joins, StaysInSight,
                Intervened, Callers
<1>2. CASE QuitEnds \/ AppCrash
  BY <1>1, <1>2 DEF QuitEnds, AppCrash
<1>3. CASE Launch
  <2>1. /\ UNCHANGED <<procs, agent>> /\ start'.pc = "begin" /\ ~Running
        /\ stop'.save = stop.save /\ stop'.quit = NoStop /\ stop.quit.pc = "down"
    BY <1>3 DEF Launch, NoStart, AgentTyped, Running
  <2>2. \A c \in Callers : /\ stop'[c].child \in {stop[c].child, NoProcess}
                           /\ stop[c].pc = "ask" => stop'[c] = stop[c]
    BY <2>1 DEF Callers, NoStop
  <2>3. (ChildMine /\ StopsMine /\ ExpectedGone)'
    BY <2>1, <2>2, QuietKnown
  <2>4. StartsChild' /\ Joins'
    BY <2>1 DEF StartsChild, Joins
  <2> QED
    BY <2>1, <2>3, <2>4 DEF Known
<1> QED
  BY <1>2, <1>3

-----------------------------------------------------------------------------
(* The theorems of the restarts                                            *)

SeenInv == AgentInv /\ (unguarded = {} => Known /\ Joins)

LEMMA StepSeen ==
    ASSUME SeenInv, [Next]_vars, unguarded = {}
    PROVE  Known' /\ Joins' /\ (Running => StaysInSight)
<1>1. AgentTyped /\ Held /\ Known /\ Joins
  BY DEF SeenInv, AgentInv
<1>2. CASE UNCHANGED agentVars
  BY <1>1, <1>2 DEF agentVars, Known, ChildMine, StopsMine, ExpectedGone, StartsChild, Joins, Up,
                    StaysInSight, InSight, RestartDue, Watched
<1>3. CASE AgentStep
  <2>1. AgentTyped'
    BY <1>3, NextAgentStep, AgentStepHolds DEF SeenInv, AgentInv
  <2> QED
    BY <1>1, <1>3, <2>1, ProcessKnown, StartKnown, RestartKnown, StopKnown, SaveKnown, EndKnown
       DEF AgentStep
<1> QED
  BY <1>2, <1>3, NextAgentStep

LEMMA Seen == Spec => []SeenInv
<1>1. Init => (unguarded = {} => Known /\ Joins)
  <2> SUFFICES ASSUME Init PROVE Known /\ Joins
    OBVIOUS
  <2>1. /\ agent.child = NoProcess /\ agent.expected = {} /\ agent.waiting = "no"
        /\ ~agent.joined /\ start.pc = "begin"
        /\ \A c \in Callers : stop[c].child = NoProcess
    BY DEF Init, AgentInit, Agent, NoStart, NoStop, Callers
  <2> QED
    BY <2>1 DEF Known, ChildMine, StopsMine, ExpectedGone, StartsChild, Joins
<1>2. AgentInv /\ (unguarded = {} => Known /\ Joins) /\ [Next]_vars
         => (unguarded = {} => Known /\ Joins)'
  BY StepSeen, NextAgentStep DEF SeenInv
<1> QED
  BY <1>1, <1>2, AgentInvariant, PTL DEF Spec, SeenInv

(* The service is never lost from sight, for any processes, limits and     *)
(* faults: what brings it back after a crash - a restart that is due, or   *)
(* a child whose exit is looked for - is there until the user intervenes   *)
(* or the policy gives up, whichever starts, saves, restarts and exits     *)
(* overlap (handleTermination, #scheduleRestart, #restartAfterCrash).      *)
THEOREM RestartsKept == Spec => ServiceKept
<1>1. SeenInv /\ [Next]_vars =>
        [unguarded = {} /\ Running /\ (RestartDue \/ Watched) =>
            \/ RestartDue' \/ Watched' \/ Intervened'
            \/ (start'.pc = "boot" /\ procs[agent.child].st = "exited")]_vars
  BY StepSeen DEF StaysInSight, InSight
<1> QED
  BY <1>1, Seen, PTL DEF Spec, ServiceKept

(* A start is never stuck: one that waits for its child has a child that   *)
(* boots, or answers the polls, or whose exit will be noticed; and a       *)
(* restart that waits for a start, or has joined one, has one under way.   *)
StartAttended ==
    unguarded = {} =>
        /\ agent.waiting = "start" \/ agent.joined => start.pc # "idle"
        /\ start.pc \in {"boot", "kill"} /\ ~start.failed =>
              \/ procs[start.child].st = "exited"
              \/ /\ start.pc = "boot"
                 /\ procs[start.child].st = "booting" \/ Managed(start.settings)

(* So nobody waits for a start that cannot settle, nor for a child that    *)
(* nobody watches, whatever exits, restarts and deadlines meet             *)
(* (#ensureStarted, #restartAfterCrash, SingleFlight).                     *)
THEOREM StartsAttended == Spec => []StartAttended
<1>1. SeenInv => StartAttended
  <2> SUFFICES ASSUME SeenInv, unguarded = {},
                      start.pc \in {"boot", "kill"}, ~start.failed,
                      procs[start.child].st # "exited"
               PROVE  /\ start.pc = "boot"
                      /\ procs[start.child].st = "booting" \/ Managed(start.settings)
    BY DEF SeenInv, Joins, StartAttended
  <2>1. AgentTyped /\ Held /\ Known
    BY DEF SeenInv, AgentInv
  <2>2. /\ start.pc = "boot" /\ start.child \in Pids
        /\ procs[start.child].st \in {"booting", "serving"}
    BY <2>1 DEF Known, StartsChild
  <2>3. CASE procs[start.child].st = "serving"
    <3>1. /\ Up(start.child) /\ start.child = endpoint
          /\ procs[start.child].settings = start.settings
      BY <2>1, <2>2, <2>3 DEF Held, OneUp, StartHeld, Up
    <3> QED
      BY <2>2, <2>3, <3>1 DEF Managed, Serving
  <2> QED
    BY <2>2, <2>3
<1> QED
  BY <1>1, Seen, PTL
=============================================================================
