------------------------ MODULE DocumentScopeProofs ------------------------
(***************************************************************************)
(* Theorems about DocumentScope, for any number of documents opened and of *)
(* commands, in flight together in any order.  The one about commands is   *)
(* about documents that are opened: one that is shown before the host      *)
(* stores it is met by commands that were given for it too soon.  The one  *)
(* about handoffs is about both kinds.                                     *)
(***************************************************************************)
EXTENDS DocumentScope, FiniteSetTheorems, TLAPS

PromiseRecord == [state : {"pending", "failed", "resolved"}, gen : Nat]
JobRecord ==
    [pc : {"unborn", "queued", "fetching", "sent", "answered", "done"},
     promise : Nat, atHost : BOOLEAN, ok : BOOLEAN, gen : Nat]
CmdRecord ==
    [pc : {"idle", "captured", "waiting", "sent", "answered", "page"},
     available : BOOLEAN, epoch : Nat, promise : Nat, doc : Docs, on : Docs \cup {NoDoc}]

Typed ==
    /\ hostGen \in Nat /\ hostDoc \in Docs /\ shown \in Docs
    /\ epoch \in Nat /\ handoffs \in Int /\ replacing \in BOOLEAN
    /\ promises \in Seq(PromiseRecord)
    /\ generation \in 0..Len(promises) /\ displayed \in 0..Len(promises)
    /\ scheduled \subseteq Jobs /\ queue \in Seq(Jobs)
    /\ job \in [Jobs -> JobRecord] /\ cmd \in [Cmds -> CmdRecord]

(* One replacement at a time is at the host, the head of the queue, and it *)
(* goes by the promise that the next one would take.                       *)
Running(j) == job[j].pc \in {"fetching", "sent", "answered"}
OneRuns ==
    /\ \A j \in Jobs : Running(j) =>
          queue # <<>> /\ Head(queue) = j /\ generation # 0 /\ job[j].promise = generation
    /\ \A j \in Jobs : job[j].pc \in {"unborn", "queued", "fetching"} => ~job[j].atHost
    /\ \A j \in Jobs : job[j].ok => ~job[j].atHost /\ job[j].pc \in {"answered", "done"}
    /\ (\E j \in Jobs : job[j].pc \in {"sent", "answered"}) => promises[generation] # Pending

(* Every handoff that is open is that of one replacement.                  *)
Counted ==
    \/ scheduled = {} /\ handoffs = Len(queue)
    \/ (\E j \in Jobs : scheduled = {j}) /\ handoffs = Len(queue) + 1

(* A promise of a generation is one for the document that has it: once it  *)
(* is known, and while it is not, whatever the host stores by then.        *)
Active(c) == cmd[c].pc # "idle"
Known(p) == promises[p] # Pending
Binds(p, doc) == ~Known(p) \/ promises[p].gen = hostGen => hostDoc = doc

Promised ==
    /\ \A p \in DOMAIN promises : promises[p].gen <= hostGen /\ (~Known(p) => p = generation)
    /\ displayed = 0 =>
          /\ generation = 0 /\ hostDoc = shown
          /\ \A j \in Jobs : job[j].pc = "unborn"
          /\ \A c \in Cmds : ~Active(c)
    /\ displayed # 0 => Binds(displayed, shown)
    /\ \A c \in Cmds : Active(c) =>
          cmd[c].promise \in DOMAIN promises /\ Binds(cmd[c].promise, cmd[c].doc)

(* Before a restore is sent, every promise that counts is known; so what   *)
(* it stores has a generation that no command goes by.                     *)
Settled ==
    (\E j \in Jobs : job[j].pc \in {"sent", "answered", "done"}) =>
        /\ displayed # 0 => Known(displayed)
        /\ \A c \in Cmds : Active(c) => Known(cmd[c].promise)

(* What was restored and is not shown yet is newer than what is shown.     *)
Restored ==
    \A j \in Jobs : (job[j].pc = "answered" /\ job[j].ok) \/ j \in scheduled =>
        /\ job[j].gen <= hostGen /\ (job[j].gen = hostGen => hostDoc = j)
        /\ promises[displayed].gen < job[j].gen
Scheduled ==
    \A j \in scheduled :
        /\ job[j].pc = "done" /\ job[j].ok
        /\ generation # 0 /\ Known(generation) /\ promises[generation].gen = job[j].gen

Commands ==
    \A c \in Cmds :
        /\ cmd[c].epoch <= epoch
        /\ Active(c) /\ cmd[c].available /\ cmd[c].epoch = epoch =>
              handoffs = 0 /\ cmd[c].doc = shown
        /\ cmd[c].pc = "sent" => Known(cmd[c].promise)
        /\ cmd[c].pc \notin {"answered", "page"} => cmd[c].on = NoDoc

Inv == /\ Typed /\ OneRuns /\ Counted /\ Promised /\ Settled /\ Restored /\ Scheduled
       /\ Commands /\ AppliedToDisplayed

-----------------------------------------------------------------------------
(* Promises are only added                                                 *)

Kept == /\ promises' \in Seq(PromiseRecord) /\ Len(promises) <= Len(promises')
        /\ \A p \in DOMAIN promises : p \in DOMAIN promises' /\ promises'[p] = promises[p]

LEMMA Generations ==
    ASSUME Typed
    PROVE  \A p \in DOMAIN promises : promises[p] \in PromiseRecord /\ promises[p].gen \in Nat
<1>1. \A p \in DOMAIN promises : promises[p] \in PromiseRecord
  BY DEF Typed
<1> QED
  BY <1>1 DEF PromiseRecord

LEMMA Appends ==
    ASSUME promises \in Seq(PromiseRecord), NEW r \in PromiseRecord,
           promises' = Append(promises, r)
    PROVE  /\ Kept /\ Len(promises') = Len(promises) + 1
           /\ DOMAIN promises' = 1..(Len(promises) + 1)
           /\ promises'[Len(promises) + 1] = r
BY DEF Kept

LEMMA MakesPromises ==
    ASSUME Inv, MakePromises
    PROVE  /\ Kept
           /\ generation' \in DOMAIN promises' /\ displayed' \in DOMAIN promises'
           /\ generation # 0 => generation' = generation /\ promises' = promises
           /\ displayed # 0 => displayed' = displayed
           /\ \A p \in DOMAIN promises' :
                promises'[p].gen <= hostGen /\ (promises'[p] = Pending => p = generation')
           /\ promises'[displayed'] = Pending \/ promises'[displayed'].gen = hostGen =>
                hostDoc = shown
<1> USE DEF Inv, Typed, Promised
<1>1. CASE generation = 0
  <2>1. Pending \in PromiseRecord /\ Pending.gen = 0
    BY DEF Pending, PromiseRecord
  <2>2. promises' = Append(promises, Pending) /\ generation' = Len(promises) + 1
    BY <1>1 DEF MakePromises
  <2>3. /\ Kept /\ Len(promises') = Len(promises) + 1
        /\ DOMAIN promises' = 1..(Len(promises) + 1)
        /\ promises'[Len(promises) + 1] = Pending
    BY <2>1, <2>2, Appends
  <2>4. \A p \in DOMAIN promises' : p = Len(promises) + 1 \/ p \in DOMAIN promises
    BY <2>3
  <2>5. \A p \in DOMAIN promises' :
          promises'[p].gen <= hostGen /\ (promises'[p] = Pending => p = generation')
    BY <1>1, <2>1, <2>2, <2>3, <2>4 DEF Kept, Known
  <2>6. CASE displayed = 0
    BY <1>1, <2>2, <2>3, <2>5, <2>6 DEF MakePromises
  <2>7. CASE displayed # 0
    BY <1>1, <2>2, <2>3, <2>5, <2>7 DEF MakePromises, Kept, Binds, Known
  <2> QED
    BY <2>6, <2>7
<1>2. CASE generation # 0
  BY <1>2 DEF MakePromises, Kept, Binds, Known
<1> QED
  BY <1>1, <1>2

(* Making promises disturbs nothing that is known of the earlier ones.     *)
LEMMA Growth ==
    ASSUME Inv, MakePromises, UNCHANGED <<hostVars, shown, scheduled>>,
           \A c \in Cmds : Active(c)' =>
              \/ Active(c) /\ cmd'[c] = cmd[c]
              \/ cmd'[c].promise = displayed' /\ cmd'[c].doc = shown,
           \A j \in Jobs : \/ job'[j] = job[j]
                           \/ /\ job[j].pc \in {"unborn", "queued"}
                              /\ job'[j].pc \in {"queued", "fetching"}
    PROVE  Promised' /\ Settled' /\ Restored' /\ Scheduled'
<1> USE DEF Inv
<1>1. Promised'
  BY MakesPromises DEF Promised, Known, Binds, Kept, hostVars
<1>2. Settled'
  <2> SUFFICES ASSUME NEW j \in Jobs, job[j].pc \in {"sent", "answered", "done"}
               PROVE  /\ Known(displayed)'
                      /\ \A c \in Cmds : Active(c)' => Known(cmd[c].promise)'
    BY DEF Settled
  <2>1. displayed # 0 /\ Known(displayed) /\ \A c \in Cmds : Active(c) => Known(cmd[c].promise)
    BY DEF Settled, Promised
  <2>2. Known(displayed)'
    BY <2>1, MakesPromises DEF Known, Kept, Typed
  <2> QED
    BY <2>1, <2>2, MakesPromises DEF Known, Kept, Promised
<1>3. Restored'
  <2> SUFFICES ASSUME NEW j \in Jobs, (job[j].pc = "answered" /\ job[j].ok) \/ j \in scheduled
               PROVE  job'[j] = job[j] /\ promises'[displayed'].gen < job[j].gen
    BY DEF Restored, hostVars, Scheduled
  <2>1. displayed # 0 /\ job'[j] = job[j]
    BY DEF Scheduled, Promised
  <2> QED
    BY <2>1, MakesPromises DEF Restored, Kept, Typed
<1>4. Scheduled'
  <2> SUFFICES ASSUME NEW j \in scheduled
               PROVE  /\ job'[j] = job[j] /\ generation' = generation
                      /\ promises'[generation] = promises[generation]
    BY DEF Scheduled, Known
  <2>1. j \in Jobs /\ job[j].pc = "done" /\ generation # 0
    BY DEF Scheduled, Typed
  <2> QED
    BY <2>1, MakesPromises
<1> QED
  BY <1>1, <1>2, <1>3, <1>4

-----------------------------------------------------------------------------
(* The steps of a command                                                  *)

LEMMA Captures ==
    ASSUME Inv, NEW c \in Cmds, Capture(c)
    PROVE  Inv'
<1> USE DEF Inv
<1>1. MakePromises /\ UNCHANGED <<hostVars, shown, epoch, replacing, handoffs, syncVars>>
  BY DEF Capture
<1>2. /\ cmd'[c].pc = "captured" /\ cmd'[c].available = Available /\ cmd'[c].epoch = epoch
      /\ cmd'[c].promise = displayed' /\ cmd'[c].doc = shown /\ cmd'[c].on = NoDoc
      /\ \A d \in Cmds : d # c => cmd'[d] = cmd[d]
  BY DEF Capture, Typed, CmdRecord, IdleCmd, OrdinaryPromise
<1>3. displayed' \in Nat /\ displayed' \in 1..Len(promises') /\ Available \in BOOLEAN
  BY <1>1, MakesPromises DEF Kept, Available, Typed
<1>4. cmd' \in [Cmds -> CmdRecord]
  BY <1>1, <1>3 DEF Capture, Typed, CmdRecord, IdleCmd, OrdinaryPromise
<1>5. Typed'
  BY <1>1, <1>4, MakesPromises DEF Typed, Kept, hostVars, syncVars
<1>6. OneRuns' /\ Counted'
  BY <1>1, MakesPromises DEF OneRuns, Counted, Running, syncVars
<1>7. Promised' /\ Settled' /\ Restored' /\ Scheduled'
  BY <1>1, <1>2, Growth DEF Active, syncVars
<1>8. Commands'
  <2> SUFFICES ASSUME NEW d \in Cmds
               PROVE  /\ cmd'[d].epoch <= epoch
                      /\ Active(d)' /\ cmd'[d].available /\ cmd'[d].epoch = epoch =>
                            handoffs = 0 /\ cmd'[d].doc = shown
                      /\ cmd'[d].pc = "sent" => Known(cmd[d].promise)'
                      /\ cmd'[d].pc \notin {"answered", "page"} => cmd'[d].on = NoDoc
    BY <1>1 DEF Commands
  <2>1. CASE d = c
    <3>1. epoch <= epoch
      BY DEF Typed
    <3> QED
      BY <1>2, <2>1, <3>1 DEF Available
  <2>2. CASE d # c
    <3>1. cmd'[d] = cmd[d] /\ (Active(d)' <=> Active(d))
      BY <1>2, <2>2 DEF Active
    <3>2. cmd[d].pc = "sent" => Known(cmd[d].promise)'
      BY <3>1, <1>1, MakesPromises DEF Commands, Promised, Active, Known, Kept
    <3> QED
      BY <3>1, <3>2 DEF Commands
  <2> QED
    BY <2>1, <2>2
<1>9. AppliedToDisplayed'
  BY <1>2 DEF AppliedToDisplayed
<1> QED
  BY <1>5, <1>6, <1>7, <1>8, <1>9

(* What only the command itself changes.                                   *)
LEMMA CommandGoesOn ==
    ASSUME Inv, NEW c \in Cmds, cmd' \in [Cmds -> CmdRecord],
           UNCHANGED <<hostVars, shown, scopeVars, syncVars>>,
           \A d \in Cmds : d # c => cmd'[d] = cmd[d],
           \/ cmd'[c].pc = "idle" /\ cmd'[c].epoch <= epoch
           \/ /\ Active(c) /\ cmd'[c].available = cmd[c].available
              /\ cmd'[c].epoch = cmd[c].epoch /\ cmd'[c].promise = cmd[c].promise
              /\ cmd'[c].doc = cmd[c].doc,
           cmd'[c].pc = "sent" => Known(cmd[c].promise),
           cmd'[c].pc \notin {"answered", "page"} => cmd'[c].on = NoDoc,
           cmd'[c].on # NoDoc => cmd'[c].on = cmd'[c].doc
    PROVE  Inv'
<1> USE DEF Inv, hostVars, scopeVars, syncVars
<1>1. Typed' /\ OneRuns' /\ Counted' /\ Restored' /\ Scheduled'
  BY DEF Typed, OneRuns, Counted, Running, Restored, Scheduled, Known
<1>2. \A d \in Cmds : Active(d)' =>
        /\ Active(d) /\ cmd'[d].available = cmd[d].available
        /\ cmd'[d].epoch = cmd[d].epoch /\ cmd'[d].promise = cmd[d].promise
        /\ cmd'[d].doc = cmd[d].doc
  BY DEF Active
<1>3. Promised'
  BY <1>2 DEF Promised, Known, Binds, Active
<1>4. Settled'
  BY <1>2 DEF Settled, Known
<1>5. Commands'
  BY <1>2 DEF Commands, Active, Known, Typed
<1>6. AppliedToDisplayed'
  BY DEF AppliedToDisplayed
<1> QED
  BY <1>1, <1>3, <1>4, <1>5, <1>6

LEMMA CommandSteps ==
    ASSUME Inv, NEW c \in Cmds, CommandStep(c)
    PROVE  Inv'
<1>1. /\ cmd \in [Cmds -> CmdRecord] /\ cmd[c] \in CmdRecord /\ IdleCmd \in CmdRecord
      /\ IdleCmd.pc = "idle" /\ IdleCmd.epoch = 0 /\ IdleCmd.on = NoDoc /\ 0 <= epoch
  BY DEF Inv, Typed, IdleCmd, CmdRecord, Docs
<1>2. /\ cmd[c].pc \notin {"answered", "page"} => cmd[c].on = NoDoc
      /\ cmd[c].on # NoDoc => cmd[c].on = cmd[c].doc
      /\ cmd[c].on \in Docs \cup {NoDoc}
  BY <1>1 DEF Inv, Commands, AppliedToDisplayed, CmdRecord
<1>3. CASE Capture(c)
  BY <1>3, Captures
<1>4. ASSUME cmd' = [cmd EXCEPT ![c] = IdleCmd],
             UNCHANGED <<hostVars, shown, scopeVars, syncVars>>
      PROVE  Inv'
  <2>1. /\ cmd' \in [Cmds -> CmdRecord] /\ cmd'[c] = IdleCmd
        /\ \A d \in Cmds : d # c => cmd'[d] = cmd[d]
    BY <1>1, <1>4
  <2> QED
    BY <1>1, <1>4, <2>1, CommandGoesOn
<1>5. ASSUME NEW r \in CmdRecord, cmd' = [cmd EXCEPT ![c] = r], Active(c),
             UNCHANGED <<hostVars, shown, scopeVars, syncVars>>,
             r.available = cmd[c].available, r.epoch = cmd[c].epoch,
             r.promise = cmd[c].promise, r.doc = cmd[c].doc,
             r.pc = "sent" => Known(cmd[c].promise),
             r.pc \notin {"answered", "page"} => r.on = NoDoc, r.on # NoDoc => r.on = cmd[c].doc
      PROVE  Inv'
  <2>1. cmd' \in [Cmds -> CmdRecord] /\ cmd'[c] = r /\ \A d \in Cmds : d # c => cmd'[d] = cmd[d]
    BY <1>1, <1>5
  <2> QED
    BY <1>5, <2>1, CommandGoesOn
<1>6. CASE Request(c)
  <2>1. CASE ScopeCurrent(c)
    <3> DEFINE r == [cmd[c] EXCEPT !.pc = "waiting"]
    <3>1. /\ r \in CmdRecord /\ r.pc = "waiting" /\ r.available = cmd[c].available
          /\ r.epoch = cmd[c].epoch /\ r.promise = cmd[c].promise
          /\ r.doc = cmd[c].doc /\ r.on = cmd[c].on
      BY <1>1 DEF CmdRecord
    <3>2. /\ cmd' = [cmd EXCEPT ![c] = r] /\ cmd[c].pc = "captured"
          /\ UNCHANGED <<hostVars, shown, scopeVars, syncVars>>
      BY <1>6, <2>1 DEF Request
    <3> HIDE DEF r
    <3> QED
      BY <1>2, <1>5, <3>1, <3>2 DEF Active
  <2>2. CASE ~ScopeCurrent(c)
    BY <1>4, <1>6, <2>2 DEF Request
  <2> QED
    BY <2>1, <2>2
<1>7. CASE Send(c)
  <2>1. CASE promises[cmd[c].promise] # Failed /\ ScopeCurrent(c)
    <3> DEFINE r == [cmd[c] EXCEPT !.pc = "sent"]
    <3>1. /\ r \in CmdRecord /\ r.pc = "sent" /\ r.available = cmd[c].available
          /\ r.epoch = cmd[c].epoch /\ r.promise = cmd[c].promise
          /\ r.doc = cmd[c].doc /\ r.on = cmd[c].on
      BY <1>1 DEF CmdRecord
    <3>2. /\ cmd' = [cmd EXCEPT ![c] = r] /\ cmd[c].pc = "waiting" /\ Known(cmd[c].promise)
          /\ UNCHANGED <<hostVars, shown, scopeVars, syncVars>>
      BY <1>7, <2>1 DEF Send, Known
    <3> HIDE DEF r
    <3> QED
      BY <1>2, <1>5, <3>1, <3>2 DEF Active
  <2>2. CASE ~(promises[cmd[c].promise] # Failed /\ ScopeCurrent(c))
    BY <1>4, <1>7, <2>2 DEF Send
  <2> QED
    BY <2>1, <2>2
<1>8. CASE HostExecute(c)
  <2> DEFINE on == IF promises[cmd[c].promise].gen = hostGen THEN hostDoc ELSE NoDoc
             r == [cmd[c] EXCEPT !.pc = "answered", !.on = on]
  <2>1. on \in Docs \cup {NoDoc} /\ (on # NoDoc => on = cmd[c].doc)
    BY <1>8 DEF HostExecute, Inv, Typed, Commands, Promised, Binds, Active
  <2>2. /\ cmd' = [cmd EXCEPT ![c] = r] /\ cmd[c].pc = "sent"
        /\ UNCHANGED <<hostVars, shown, scopeVars, syncVars>>
    BY <1>8 DEF HostExecute
  <2> HIDE DEF on
  <2>3. /\ r \in CmdRecord /\ r.pc = "answered" /\ r.available = cmd[c].available
        /\ r.epoch = cmd[c].epoch /\ r.promise = cmd[c].promise
        /\ r.doc = cmd[c].doc /\ r.on = on
    BY <1>1, <2>1 DEF CmdRecord
  <2> HIDE DEF r
  <2> QED
    BY <1>5, <2>1, <2>2, <2>3 DEF Active
<1>9. CASE Deliver(c)
  <2> DEFINE r == [cmd[c] EXCEPT !.pc = "page"]
  <2>1. /\ r \in CmdRecord /\ r.pc = "page" /\ r.available = cmd[c].available
        /\ r.epoch = cmd[c].epoch /\ r.promise = cmd[c].promise
        /\ r.doc = cmd[c].doc /\ r.on = cmd[c].on
    BY <1>1 DEF CmdRecord
  <2>2. /\ cmd' = [cmd EXCEPT ![c] = r] /\ cmd[c].pc = "answered"
        /\ UNCHANGED <<hostVars, shown, scopeVars, syncVars>>
    BY <1>9 DEF Deliver
  <2> HIDE DEF r
  <2> QED
    BY <1>2, <1>5, <2>1, <2>2 DEF Active
<1>10. CASE Discard(c) \/ LastPage(c)
  BY <1>4, <1>10 DEF Discard, LastPage
<1>11. CASE NextPage(c)
  <2> DEFINE r == [cmd[c] EXCEPT !.pc = "captured", !.on = NoDoc]
  <2>1. /\ r \in CmdRecord /\ r.pc = "captured" /\ r.available = cmd[c].available
        /\ r.epoch = cmd[c].epoch /\ r.promise = cmd[c].promise
        /\ r.doc = cmd[c].doc /\ r.on = NoDoc
    BY <1>1 DEF CmdRecord
  <2>2. /\ cmd' = [cmd EXCEPT ![c] = r] /\ cmd[c].pc = "page"
        /\ UNCHANGED <<hostVars, shown, scopeVars, syncVars>>
    BY <1>11 DEF NextPage
  <2> HIDE DEF r
  <2> QED
    BY <1>5, <2>1, <2>2 DEF Active
<1> QED
  BY <1>3, <1>6, <1>7, <1>8, <1>9, <1>10, <1>11 DEF CommandStep

-----------------------------------------------------------------------------
(* The steps of a replacement                                              *)

LEMMA Begins ==
    ASSUME Inv, NewJobs = {}, NEW j \in Jobs, Begin(j)
    PROVE  Inv'
<1> USE DEF Inv
<1>1. /\ MakePromises /\ UNCHANGED <<hostVars, shown, replacing, scheduled, cmd>>
      /\ job[j].pc = "unborn" /\ handoffs' = handoffs + 1 /\ epoch' = epoch + 1
      /\ queue' = Append(queue, j)
  BY DEF Begin
<1>2. /\ job' \in [Jobs -> JobRecord] /\ job'[j].pc = "queued" /\ job'[j].atHost = job[j].atHost
      /\ job'[j].ok = job[j].ok /\ \A k \in Jobs : k # j => job'[k] = job[k]
  BY DEF Begin, Typed, JobRecord
<1>3. queue' \in Seq(Jobs) /\ Len(queue') = Len(queue) + 1 /\ queue' # <<>>
      /\ (queue # <<>> => Head(queue') = Head(queue))
  BY <1>1 DEF Typed
<1>4. Typed'
  <2>1. /\ promises' \in Seq(PromiseRecord) /\ generation' \in 0..Len(promises')
        /\ displayed' \in 0..Len(promises')
    BY <1>1, MakesPromises DEF Kept
  <2>2. epoch' \in Nat /\ handoffs' \in Int /\ replacing' \in BOOLEAN
    BY <1>1 DEF Typed
  <2> QED
    BY <1>1, <1>2, <1>3, <2>1, <2>2 DEF Typed, hostVars
<1>5. OneRuns'
  <2>1. \A k \in Jobs : Running(k)' => k # j /\ Running(k) /\ job'[k] = job[k]
    BY <1>2 DEF Running
  <2>2. \A k \in Jobs : Running(k)' =>
          /\ queue' # <<>> /\ Head(queue') = k
          /\ generation' # 0 /\ job'[k].promise = generation'
    BY <1>1, <1>3, <2>1, MakesPromises DEF OneRuns
  <2>3. (\E k \in Jobs : job'[k].pc \in {"sent", "answered"}) => promises'[generation'] # Pending
    BY <1>1, <2>1, MakesPromises DEF OneRuns, Running
  <2> QED
    BY <1>1, <1>2, <2>2, <2>3 DEF OneRuns
<1>6. Counted'
  BY <1>1, <1>3 DEF Counted, Typed
<1>7. Promised' /\ Settled' /\ Restored' /\ Scheduled'
  <2>1. \A k \in Jobs : \/ job'[k] = job[k]
                       \/ /\ job[k].pc \in {"unborn", "queued"}
                          /\ job'[k].pc \in {"queued", "fetching"}
    BY <1>1, <1>2
  <2>2. \A c \in Cmds : Active(c)' => Active(c) /\ cmd'[c] = cmd[c]
    BY <1>1 DEF Active
  <2> QED
    BY <1>1, <2>1, <2>2, Growth
<1>8. Commands'
  BY <1>1, MakesPromises DEF Commands, Promised, Active, Known, Kept, Typed, CmdRecord
<1>9. AppliedToDisplayed'
  BY <1>1 DEF AppliedToDisplayed
<1> QED
  BY <1>4, <1>5, <1>6, <1>7, <1>8, <1>9

LEMMA Starts ==
    ASSUME Inv, NEW j \in Jobs, Start(j)
    PROVE  Inv'
<1> USE DEF Inv
<1>1. /\ MakePromises /\ UNCHANGED <<hostVars, shown, handoffs, scheduled, queue, cmd>>
      /\ job[j].pc = "queued" /\ epoch' = epoch + 1 /\ replacing' = TRUE
      /\ queue # <<>> /\ Head(queue) = j
  BY DEF Start
<1>2. generation' \in Nat /\ generation' # 0
  BY <1>1, MakesPromises DEF Kept
<1>3. /\ job' \in [Jobs -> JobRecord] /\ job'[j].pc = "fetching" /\ job'[j].atHost = job[j].atHost
      /\ job'[j].ok = job[j].ok /\ job'[j].promise = generation'
      /\ \A k \in Jobs : k # j => job'[k] = job[k]
  <2> DEFINE r == [job[j] EXCEPT !.pc = "fetching", !.promise = generation']
  <2>1. job[j] \in JobRecord /\ job \in [Jobs -> JobRecord]
    BY DEF Typed
  <2>2. /\ r \in JobRecord /\ r.pc = "fetching" /\ r.atHost = job[j].atHost
        /\ r.ok = job[j].ok /\ r.promise = generation'
    BY <1>2, <2>1 DEF JobRecord
  <2>3. job' = [job EXCEPT ![j] = r]
    BY <2>1 DEF Start, JobRecord
  <2> HIDE DEF r
  <2> QED
    BY <2>1, <2>2, <2>3
<1>4. Typed'
  <2>1. /\ promises' \in Seq(PromiseRecord) /\ generation' \in 0..Len(promises')
        /\ displayed' \in 0..Len(promises')
    BY <1>1, MakesPromises DEF Kept
  <2>2. epoch' \in Nat /\ handoffs' \in Int /\ replacing' \in BOOLEAN
    BY <1>1 DEF Typed
  <2> QED
    BY <1>1, <1>3, <2>1, <2>2 DEF Typed, hostVars
<1>5. OneRuns'
  <2>1. \A k \in Jobs : k # j => ~Running(k) /\ ~Running(k)'
    BY <1>1, <1>3 DEF OneRuns, Running
  <2> QED
    BY <1>1, <1>2, <1>3, <2>1 DEF OneRuns, Running
<1>6. Counted'
  BY <1>1 DEF Counted
<1>7. Promised' /\ Settled' /\ Restored' /\ Scheduled'
  <2>1. \A k \in Jobs : \/ job'[k] = job[k]
                       \/ /\ job[k].pc \in {"unborn", "queued"}
                          /\ job'[k].pc \in {"queued", "fetching"}
    BY <1>1, <1>3
  <2>2. \A c \in Cmds : Active(c)' => Active(c) /\ cmd'[c] = cmd[c]
    BY <1>1 DEF Active
  <2> QED
    BY <1>1, <2>1, <2>2, Growth
<1>8. Commands'
  BY <1>1, MakesPromises DEF Commands, Promised, Active, Known, Kept, Typed, CmdRecord
<1>9. AppliedToDisplayed'
  BY <1>1 DEF AppliedToDisplayed
<1> QED
  BY <1>4, <1>5, <1>6, <1>7, <1>8, <1>9

(* What is done at the host, or given up, changes no promise.              *)
LEMMA Sends ==
    ASSUME Inv, NEW j \in Jobs, SendRestore(j) \/ TimeOut(j)
    PROVE  Inv'
<1> USE DEF Inv
<1>1. UNCHANGED <<hostVars, shown, scopeVars, scheduled, queue, latest, cmd>>
  BY DEF SendRestore, TimeOut
<1>2. /\ job[j].pc \in {"fetching", "sent"} /\ job'[j].pc \in {"sent", "answered"}
      /\ job' \in [Jobs -> JobRecord] /\ job'[j].ok = job[j].ok /\ job'[j].promise = job[j].promise
      /\ promises[job[j].promise] # Pending
      /\ \A k \in Jobs : k # j => job'[k] = job[k]
  <2>1. CASE SendRestore(j)
    BY <2>1 DEF SendRestore, Typed, JobRecord
  <2>2. CASE TimeOut(j)
    BY <2>2 DEF TimeOut, Typed, JobRecord, OneRuns, Running
  <2> QED
    BY <2>1, <2>2
<1>3. ~job[j].ok /\ ~job'[j].ok /\ j \notin scheduled
  BY <1>2 DEF OneRuns, Scheduled
<1>4. generation # 0 /\ Known(generation)
  BY <1>2 DEF OneRuns, Running, Known
<1>5. Typed' /\ Counted' /\ AppliedToDisplayed' /\ Commands'
  <2>1. Typed'
    BY <1>1, <1>2 DEF Typed, hostVars, scopeVars
  <2>2. Counted' /\ AppliedToDisplayed' /\ Commands'
    BY <1>1 DEF Counted, AppliedToDisplayed, Commands, Active, Known, scopeVars
  <2> QED
    BY <2>1, <2>2
<1>6. OneRuns'
  <2>1. \A k \in Jobs : Running(k)' => Running(k)
    BY <1>2 DEF Running
  <2> QED
    BY <1>1, <1>2, <1>3, <1>4, <2>1 DEF OneRuns, Known, scopeVars
<1>7. displayed # 0 /\ \A p \in DOMAIN promises : Known(p)
  BY <1>2, <1>4 DEF Promised
<1>8. Promised'
  BY <1>1, <1>7 DEF Promised, Known, Binds, Active, hostVars, scopeVars
<1>9. Settled'
  BY <1>1, <1>7 DEF Settled, Promised, Known, Active, Typed, scopeVars
<1>10. Restored' /\ Scheduled'
  <2>1. \A k \in Jobs : (job'[k].pc = "answered" /\ job'[k].ok) \/ k \in scheduled => job'[k] = job[k]
    BY <1>2, <1>3
  <2>2. scheduled \subseteq Jobs
    BY DEF Typed
  <2>3. Restored'
    BY <1>1, <2>1 DEF Restored, hostVars, scopeVars
  <2>4. Scheduled'
    BY <1>1, <2>1, <2>2 DEF Scheduled, Known, scopeVars
  <2> QED
    BY <2>3, <2>4
<1> QED
  BY <1>5, <1>6, <1>8, <1>9, <1>10

(* A restore makes a generation that no command goes by.                   *)
LEMMA HostRestores ==
    ASSUME Inv, NEW j \in Jobs, HostRestore(j)
    PROVE  Inv'
<1> USE DEF Inv
<1>1. /\ UNCHANGED <<shown, scopeVars, scheduled, queue, latest, cmd>>
      /\ job[j].atHost /\ ~job[j].ok
  BY DEF HostRestore, OneRuns
<1>2. job[j].pc \in {"sent", "answered", "done"} /\ j \notin scheduled
  BY <1>1 DEF OneRuns, Scheduled, Typed, JobRecord
<1>3. displayed # 0 /\ Known(displayed) /\ \A c \in Cmds : Active(c) => Known(cmd[c].promise)
  BY <1>2 DEF Settled, Promised
<1>4. ASSUME NEW ok \in BOOLEAN, NEW g \in Nat, g <= hostGen',
             hostGen' \in Nat, hostDoc' \in Docs,
             ok => g = hostGen' /\ hostDoc' = j /\ hostGen < g,
             UNCHANGED hostVars \/ hostGen < hostGen',
             Answered(j, ok, g)
      PROVE  Inv'
  <2> DEFINE r == [job[j] EXCEPT
                      !.atHost = FALSE, !.gen = g,
                      !.pc = IF job[j].pc = "sent" THEN "answered" ELSE job[j].pc,
                      !.ok = IF job[j].pc = "sent" THEN ok ELSE FALSE]
  <2>1. job[j] \in JobRecord /\ job \in [Jobs -> JobRecord]
    BY DEF Typed
  <2>2. r.pc = IF job[j].pc = "sent" THEN "answered" ELSE job[j].pc
    BY <2>1 DEF JobRecord
  <2>3. r \in JobRecord /\ ~r.atHost /\ r.gen = g /\ r.promise = job[j].promise
    BY <1>4, <2>1 DEF JobRecord
  <2>4. r.ok => ok /\ job[j].pc = "sent"
    BY <2>1 DEF JobRecord
  <2>5. job' = [job EXCEPT ![j] = r]
    BY <1>4 DEF Answered
  <2> HIDE DEF r
  <2>6. job' \in [Jobs -> JobRecord] /\ job'[j] = r /\ \A k \in Jobs : k # j => job'[k] = job[k]
    BY <2>1, <2>3, <2>5
  <2>7. /\ job' \in [Jobs -> JobRecord] /\ ~job'[j].atHost
        /\ job'[j].pc = IF job[j].pc = "sent" THEN "answered" ELSE job[j].pc
        /\ job'[j].gen = g /\ job'[j].promise = job[j].promise
        /\ \A k \in Jobs : k # j => job'[k] = job[k]
    BY <2>2, <2>3, <2>6
  <2>8. job'[j].ok => ok /\ job[j].pc = "sent"
    BY <2>4, <2>6
  <2>9. Typed'
    BY <1>1, <1>4, <2>7 DEF Typed, scopeVars
  <2>10. OneRuns'
    <3>1. \A k \in Jobs : (Running(k)' <=> Running(k)) /\ job'[k].promise = job[k].promise
      BY <2>7 DEF Running
    <3>2. (\E k \in Jobs : job'[k].pc \in {"sent", "answered"})
             => \E k \in Jobs : job[k].pc \in {"sent", "answered"}
      BY <2>7
    <3>3. \A k \in Jobs : /\ job'[k].pc \in {"unborn", "queued", "fetching"} => ~job'[k].atHost
                          /\ job'[k].ok => ~job'[k].atHost /\ job'[k].pc \in {"answered", "done"}
      BY <2>8, <2>7 DEF OneRuns
    <3> QED
      BY <1>1, <3>1, <3>2, <3>3 DEF OneRuns, scopeVars
  <2>11. Counted' /\ AppliedToDisplayed' /\ Commands'
    BY <1>1 DEF Counted, AppliedToDisplayed, Commands, Active, Known, scopeVars
  <2>12. Promised'
    <3>1. \A p \in DOMAIN promises : promises[p].gen \in Nat /\ promises[p].gen <= hostGen
      BY Generations DEF Promised
    <3>2. hostGen \in Nat
      BY DEF Typed
    <3>3. \A p \in DOMAIN promises : promises[p].gen <= hostGen'
      BY <1>4, <3>1, <3>2 DEF hostVars
    <3>4. \A p \in DOMAIN promises, d \in Docs : Known(p) /\ Binds(p, d) => Binds(p, d)'
      BY <1>1, <1>4, <3>1, <3>2 DEF Binds, Known, hostVars, scopeVars
    <3>5. displayed \in DOMAIN promises /\ shown \in Docs /\ \A c \in Cmds : cmd[c].doc \in Docs
      BY <1>3 DEF Typed, CmdRecord
    <3>6. Binds(displayed, shown)'
      BY <1>1, <1>3, <3>4, <3>5 DEF Promised, scopeVars
    <3>7. \A c \in Cmds : Active(c)' =>
            cmd'[c].promise \in DOMAIN promises' /\ Binds(cmd[c].promise, cmd[c].doc)'
      BY <1>1, <1>3, <3>4, <3>5 DEF Promised, Active, scopeVars
    <3> QED
      BY <1>1, <1>3, <3>3, <3>6, <3>7 DEF Promised, Known, scopeVars
  <2>13. Settled'
    BY <1>1, <1>3 DEF Settled, Known, Active, scopeVars
  <2>14. Restored'
    <3>1. promises[displayed].gen <= hostGen /\ promises[displayed].gen \in Nat /\ hostGen \in Nat
      BY <1>3, Generations DEF Promised, Typed
    <3>2. ASSUME NEW k \in Jobs, (job'[k].pc = "answered" /\ job'[k].ok) \/ k \in scheduled'
          PROVE  /\ job'[k].gen <= hostGen' /\ (job'[k].gen = hostGen' => hostDoc' = k)
                 /\ promises[displayed].gen < job'[k].gen
      <4>1. CASE k = j
        BY <1>2, <1>1, <1>4, <2>8, <2>7, <3>1, <3>2, <4>1 DEF scopeVars
      <4>2. CASE k # j
        <5>1. /\ job'[k] = job[k] /\ job[k].gen \in Nat /\ job[k].gen <= hostGen
              /\ (job[k].gen = hostGen => hostDoc = k) /\ promises[displayed].gen < job[k].gen
          BY <1>1, <2>7, <3>2, <4>2 DEF Restored, Typed, JobRecord
        <5> QED
          BY <1>4, <3>1, <5>1 DEF hostVars
      <4> QED
        BY <4>1, <4>2
    <3> QED
      BY <1>1, <3>2 DEF Restored, scopeVars
  <2>15. Scheduled'
    BY <1>2, <1>1, <2>7 DEF Scheduled, Known, Typed, scopeVars
  <2> QED
    BY <2>9, <2>10, <2>11, <2>12, <2>13, <2>14, <2>15
<1>5. CASE \E ok \in BOOLEAN : hostGen' = hostGen + 1 /\ hostDoc' = j /\ Answered(j, ok, hostGen + 1)
  <2>1. PICK ok \in BOOLEAN : Answered(j, ok, hostGen + 1)
    BY <1>5
  <2>2. /\ hostGen + 1 \in Nat /\ hostGen + 1 <= hostGen' /\ hostGen' \in Nat /\ hostDoc' \in Docs
        /\ hostGen + 1 = hostGen' /\ hostGen < hostGen + 1 /\ hostGen < hostGen' /\ hostDoc' = j
    BY <1>5 DEF Typed, Docs
  <2> QED
    BY <1>4, <2>1, <2>2
<1>6. CASE Answered(j, FALSE, 0) /\ UNCHANGED hostVars
  <2>1. 0 \in Nat /\ 0 <= hostGen' /\ hostGen' \in Nat /\ hostDoc' \in Docs
    BY <1>6 DEF Typed, hostVars
  <2> QED
    BY <1>4, <1>6, <2>1
<1> QED
  BY <1>5, <1>6 DEF HostRestore

(* The answer of a restore is taken up with its handoff still open, so no  *)
(* command of the current epoch is available until it is on the screen.    *)
LEMMA Settles ==
    ASSUME Inv, NEW j \in Jobs, Settle(j)
    PROVE  Inv'
<1> USE DEF Inv
<1>1. /\ job[j].pc = "answered" /\ scheduled = {} /\ replacing' = FALSE
      /\ queue # <<>> /\ Head(queue) = j /\ queue' = Tail(queue)
      /\ handoffs = Len(queue) /\ Len(queue) \in Nat /\ Len(queue) >= 1
      /\ UNCHANGED <<hostVars, shown, epoch, latest, cmd>>
  BY DEF Settle, Rebind, OneRuns, Running, Counted, Typed
<1>2. /\ job' \in [Jobs -> JobRecord] /\ job'[j].pc = "done" /\ job'[j].atHost = job[j].atHost
      /\ job'[j].ok = job[j].ok /\ job'[j].gen = job[j].gen
      /\ \A k \in Jobs : k # j => job'[k] = job[k]
  BY DEF Settle, Typed, JobRecord
<1>3. \A k \in Jobs : ~Running(k)'
  BY <1>1, <1>2 DEF OneRuns, Running
<1>4. /\ displayed # 0 /\ Known(displayed) /\ \A c \in Cmds : Active(c) => Known(cmd[c].promise)
      /\ \A p \in DOMAIN promises : Known(p)
  BY <1>1 DEF Settled, Promised, OneRuns, Known
<1>5. /\ Kept /\ displayed' = displayed
      /\ \A p \in DOMAIN promises' : promises'[p].gen <= hostGen /\ promises'[p] # Pending
      /\ generation' \in 0..Len(promises')
      /\ job[j].ok => /\ generation' \in DOMAIN promises'
                      /\ promises'[generation'].gen = job[j].gen
  <2>1. CASE job[j].ok
    <3>1. /\ promises' = Append(promises, Resolved(job[j].gen)) /\ generation' = Len(promises) + 1
          /\ displayed' = displayed
      BY <1>1, <2>1 DEF Settle, Rebind
    <3>2. /\ Resolved(job[j].gen) \in PromiseRecord /\ Resolved(job[j].gen).gen = job[j].gen
          /\ Resolved(job[j].gen) # Pending
      BY DEF Resolved, Pending, PromiseRecord, Typed, JobRecord
    <3>3. /\ Kept /\ Len(promises') = Len(promises) + 1
          /\ DOMAIN promises' = 1..(Len(promises) + 1)
          /\ promises'[Len(promises) + 1] = Resolved(job[j].gen)
      BY <3>1, <3>2, Appends DEF Typed
    <3>4. \A p \in DOMAIN promises' : p = Len(promises) + 1 \/ p \in DOMAIN promises
      BY <3>3 DEF Typed
    <3>5. job[j].gen <= hostGen
      BY <1>1, <2>1 DEF Restored
    <3> QED
      BY <1>4, <3>1, <3>2, <3>3, <3>4, <3>5 DEF Kept, Promised, Known, Typed
  <2>2. CASE ~job[j].ok
    <3>1. promises' = promises /\ generation' = 0 /\ displayed' = displayed
      BY <2>2 DEF Settle, Rebind
    <3> QED
      BY <1>4, <2>2, <3>1 DEF Kept, Promised, Known, Typed
  <2> QED
    BY <2>1, <2>2
<1>6. /\ scheduled' \subseteq {j} /\ (scheduled' # {} => job[j].ok)
      /\ \/ scheduled' = {} /\ handoffs' = handoffs - 1
         \/ scheduled' = {j} /\ handoffs' = handoffs
  BY DEF Settle, KeepsHandoff
<1>7. Typed'
  <2>1. queue' \in Seq(Jobs) /\ handoffs' \in Int
    BY <1>1, <1>6 DEF Typed
  <2>2. displayed' \in 0..Len(promises') /\ promises' \in Seq(PromiseRecord)
    BY <1>5 DEF Typed, Kept
  <2> QED
    BY <1>1, <1>2, <1>5, <1>6, <2>1, <2>2 DEF Typed, hostVars
<1>8. OneRuns'
  <2>1. \A k \in Jobs : job'[k].pc \in {"unborn", "queued", "fetching"} => ~job'[k].atHost
    BY <1>2 DEF OneRuns
  <2>2. \A k \in Jobs : job'[k].ok => ~job'[k].atHost /\ job'[k].pc \in {"answered", "done"}
    BY <1>2 DEF OneRuns
  <2> QED
    BY <1>3, <2>1, <2>2 DEF OneRuns, Running
<1>9. Counted'
  <2>1. Len(queue') = Len(queue) - 1
    BY <1>1 DEF Typed
  <2> QED
    BY <1>1, <1>6, <2>1 DEF Counted
<1>10. Promised'
  BY <1>1, <1>4, <1>5 DEF Promised, Known, Binds, Active, Kept, Typed, hostVars
<1>11. Settled'
  BY <1>1, <1>4, <1>5 DEF Settled, Known, Active, Promised, Kept, Typed
<1>12. Restored'
  <2> SUFFICES ASSUME NEW k \in Jobs, (job'[k].pc = "answered" /\ job'[k].ok) \/ k \in scheduled'
               PROVE  /\ job'[k].gen <= hostGen /\ (job'[k].gen = hostGen => hostDoc = k)
                      /\ promises'[displayed'].gen < job'[k].gen
    BY <1>1 DEF Restored, hostVars
  <2>1. k = j /\ job[j].ok
    BY <1>3, <1>6 DEF Running
  <2>2. promises'[displayed'] = promises[displayed]
    BY <1>4, <1>5 DEF Kept, Typed
  <2> QED
    BY <1>1, <1>2, <2>1, <2>2 DEF Restored
<1>13. Scheduled'
  BY <1>2, <1>5, <1>6 DEF Scheduled, Known
<1>14. Commands'
  <2>1. \A c \in Cmds : cmd[c].pc = "sent" => Known(cmd[c].promise)'
    <3>1. \A c \in Cmds : cmd[c].pc = "sent" =>
            cmd[c].promise \in DOMAIN promises /\ Known(cmd[c].promise)
      BY <1>4 DEF Promised, Active
    <3> QED
      BY <1>1, <1>5, <3>1 DEF Known, Kept
  <2>2. \A c \in Cmds : ~(Active(c) /\ cmd[c].available /\ cmd[c].epoch = epoch)
    BY <1>1 DEF Commands
  <2> QED
    BY <1>1, <2>1, <2>2 DEF Commands, Active
<1>15. AppliedToDisplayed'
  BY <1>1 DEF AppliedToDisplayed
<1> QED
  BY <1>7, <1>8, <1>9, <1>10, <1>11, <1>12, <1>13, <1>14, <1>15

(* What reaches the screen has the newest generation of those that bind,   *)
(* or one that is newer than every generation commands go by.              *)
LEMMA Commits ==
    ASSUME Inv, NewJobs = {}, Commit
    PROVE  Inv'
<1> USE DEF Inv
<1>1. PICK j \in scheduled :
        /\ scheduled' = {} /\ handoffs' = handoffs - 1
        /\ shown' = IF \E i \in DOMAIN queue : queue[i] \in NewJobs THEN shown ELSE j
        /\ displayed' = IF handoffs = 1 /\ generation # 0 THEN generation ELSE displayed
        /\ UNCHANGED <<hostVars, epoch, replacing, promises, generation, queue, latest, job, cmd>>
  BY DEF Commit
<1>2. /\ shown' = j /\ j \in Jobs /\ scheduled = {j} /\ handoffs = Len(queue) + 1
      /\ Len(queue) \in Nat
  BY <1>1 DEF Counted, Typed
<1>3. /\ job[j].pc = "done" /\ job[j].ok /\ generation # 0 /\ Known(generation)
      /\ promises[generation].gen = job[j].gen /\ job[j].gen <= hostGen
      /\ (job[j].gen = hostGen => hostDoc = j) /\ promises[displayed].gen < job[j].gen
      /\ displayed # 0 /\ Known(displayed) /\ \A c \in Cmds : Active(c) => Known(cmd[c].promise)
  BY <1>1, <1>2 DEF Scheduled, Restored, Settled, Promised
<1>4. \/ displayed' = generation /\ queue = <<>>
      \/ displayed' = displayed
  BY <1>1, <1>2 DEF Typed
<1>5. Known(displayed') /\ displayed' # 0 /\ Binds(displayed', j)
  <2>1. promises[displayed].gen # hostGen
    <3>1. /\ promises[displayed].gen \in Nat /\ job[j].gen \in Nat /\ hostGen \in Nat
      BY <1>2, <1>3, Generations DEF Typed, JobRecord
    <3> QED
      BY <1>3, <3>1
  <2> QED
    BY <1>3, <1>4, <2>1 DEF Binds
<1>6. Typed'
  BY <1>1, <1>2, <1>4 DEF Typed, Docs, hostVars
<1>7. OneRuns' /\ AppliedToDisplayed' /\ Scheduled'
  BY <1>1 DEF OneRuns, Running, AppliedToDisplayed, Scheduled
<1>8. Counted'
  BY <1>1, <1>2 DEF Counted
<1>9. Promised'
  BY <1>1, <1>2, <1>5 DEF Promised, Known, Binds, Active, hostVars
<1>10. Settled'
  BY <1>1, <1>3, <1>5 DEF Settled, Known, Active
<1>11. Restored'
  <2>1. \A k \in Jobs : job[k].pc = "answered" => displayed' = displayed
    BY <1>4 DEF OneRuns, Running
  <2> QED
    BY <1>1, <2>1 DEF Restored, hostVars
<1>12. Commands'
  <2>1. \A c \in Cmds : ~(Active(c) /\ cmd[c].available /\ cmd[c].epoch = epoch)
    BY <1>2 DEF Commands
  <2> QED
    BY <1>1, <2>1 DEF Commands, Active, Known
<1> QED
  BY <1>6, <1>7, <1>8, <1>9, <1>10, <1>11, <1>12

(* The number the host answers is that of the document it stores then.     *)
LEMMA Resolves ==
    ASSUME Inv, ResolvePromise
    PROVE  Inv'
<1> USE DEF Inv
<1>1. PICK p \in DOMAIN promises, r \in {Resolved(hostGen), Failed} :
        /\ promises[p] = Pending /\ promises' = [promises EXCEPT ![p] = r]
        /\ UNCHANGED <<hostVars, shown, epoch, replacing, handoffs, generation,
                       displayed, syncVars, cmd>>
  BY DEF ResolvePromise
<1>2. r \in PromiseRecord /\ r # Pending /\ r.gen <= hostGen
  <2>1. CASE r = Failed
    BY <2>1 DEF Failed, Pending, PromiseRecord, Typed
  <2>2. CASE r = Resolved(hostGen)
    BY <2>2 DEF Resolved, Pending, PromiseRecord, Typed
  <2> QED
    BY <2>1, <2>2
<1>3. /\ promises' \in Seq(PromiseRecord) /\ DOMAIN promises' = DOMAIN promises
      /\ Len(promises') = Len(promises) /\ promises'[p] = r
      /\ \A q \in DOMAIN promises : q # p => promises'[q] = promises[q]
  BY <1>1, <1>2 DEF Typed
<1>4. p = generation /\ \A q \in DOMAIN promises' : promises'[q] # Pending
  BY <1>1, <1>2, <1>3 DEF Promised, Known
<1>5. Typed' /\ Counted' /\ AppliedToDisplayed'
  BY <1>1, <1>3 DEF Typed, Counted, AppliedToDisplayed, hostVars, syncVars
<1>6. OneRuns'
  <2>1. (\E j \in Jobs : job[j].pc \in {"sent", "answered"}) => promises'[generation'] # Pending
    BY <1>1, <1>3, <1>4 DEF Typed
  <2> QED
    BY <1>1, <2>1 DEF OneRuns, Running, syncVars
<1>7. \A q \in DOMAIN promises, d \in Docs : Binds(q, d) => Binds(q, d)'
  BY <1>1, <1>2, <1>3 DEF Binds, Known, hostVars
<1>8. Promised'
  <2>1. \A q \in DOMAIN promises' : promises'[q].gen <= hostGen /\ promises'[q] # Pending
    BY <1>2, <1>3, <1>4 DEF Promised
  <2>2. displayed # 0 => Binds(displayed, shown)'
    BY <1>1, <1>7 DEF Promised, Typed
  <2>3. \A c \in Cmds : Active(c) => cmd[c].doc \in Docs
    BY DEF Typed, CmdRecord
  <2>4. \A c \in Cmds : Active(c) =>
          cmd[c].promise \in DOMAIN promises' /\ Binds(cmd[c].promise, cmd[c].doc)'
    BY <1>1, <1>3, <1>7, <2>3 DEF Promised
  <2> QED
    BY <1>1, <2>1, <2>2, <2>4 DEF Promised, Known, Active, Binds, hostVars, syncVars
<1>9. Settled'
  BY <1>1, <1>3, <1>4 DEF Settled, Known, Active, Promised, Typed, syncVars
<1>10. Restored' /\ Scheduled'
  <2>1. scheduled = {}
    BY <1>1, <1>4 DEF Scheduled, Known
  <2>2. \A j \in Jobs : job[j].pc = "answered" => displayed # p /\ displayed # 0
    BY <1>1 DEF Settled, Promised, Known
  <2> QED
    BY <1>1, <1>3, <2>1, <2>2 DEF Restored, Scheduled, Typed, hostVars, syncVars
<1>11. Commands'
  <2>1. \A c \in Cmds : cmd[c].pc = "sent" => Known(cmd[c].promise)'
    BY <1>1, <1>3, <1>4 DEF Active, Known, Promised
  <2> QED
    BY <1>1, <2>1 DEF Commands, Active
<1> QED
  BY <1>5, <1>6, <1>8, <1>9, <1>10, <1>11

-----------------------------------------------------------------------------
LEMMA Initially ==
    Init => Inv
<1> SUFFICES ASSUME Init PROVE Inv
  OBVIOUS
<1>1. promises = <<>> /\ Len(promises) = 0 /\ DOMAIN promises = {} /\ promises \in Seq(PromiseRecord)
  BY DEF Init
<1>2. queue = <<>> /\ Len(queue) = 0 /\ queue \in Seq(Jobs)
  BY DEF Init
<1>3. /\ job = [j \in Jobs |-> UnbornJob] /\ UnbornJob \in JobRecord
      /\ UnbornJob.pc = "unborn" /\ ~UnbornJob.ok /\ ~UnbornJob.atHost
  BY DEF Init, UnbornJob, JobRecord
<1>4. /\ cmd = [c \in Cmds |-> IdleCmd] /\ IdleCmd \in CmdRecord
      /\ IdleCmd.pc = "idle" /\ IdleCmd.epoch = 0 /\ IdleCmd.on = NoDoc
  BY DEF Init, IdleCmd, CmdRecord, Docs
<1>5. Typed
  <2>1. job \in [Jobs -> JobRecord] /\ cmd \in [Cmds -> CmdRecord]
    BY <1>3, <1>4
  <2>2. generation \in 0..Len(promises) /\ displayed \in 0..Len(promises)
    BY <1>1 DEF Init
  <2>3. hostDoc \in Docs /\ shown \in Docs /\ hostGen \in Nat /\ epoch \in Nat
    BY DEF Init, Docs
  <2>4. handoffs \in Int /\ scheduled \subseteq Jobs
    BY DEF Init
  <2>5. replacing \in BOOLEAN
    BY Zenon DEF Init
  <2> QED
    BY <1>1, <1>2, <2>1, <2>2, <2>3, <2>4, <2>5 DEF Typed
<1>6. OneRuns /\ Counted /\ Settled
  BY <1>2, <1>3 DEF Init, OneRuns, Running, Counted, Settled
<1>7. Promised
  <2>1. \A j \in Jobs : job[j].pc = "unborn"
    BY <1>3
  <2>2. \A c \in Cmds : ~Active(c)
    BY <1>4 DEF Active
  <2>3. hostDoc = shown /\ generation = 0 /\ displayed = 0
    BY DEF Init
  <2> QED
    BY <1>1, <2>1, <2>2, <2>3 DEF Promised
<1>8. Restored /\ Scheduled
  <2>1. scheduled = {} /\ \A j \in Jobs : ~job[j].ok
    BY <1>3 DEF Init
  <2> QED
    BY <2>1 DEF Restored, Scheduled
<1>9. Commands /\ AppliedToDisplayed
  BY <1>4 DEF Init, Commands, Active, AppliedToDisplayed
<1> QED
  BY <1>5, <1>6, <1>7, <1>8, <1>9 DEF Inv

LEMMA Inductive ==
    ASSUME Inv, NewJobs = {}, [Next]_vars
    PROVE  Inv'
<1>1. ASSUME NEW c \in Cmds, CommandStep(c) PROVE Inv'
  BY <1>1, CommandSteps
<1>2. ASSUME NEW j \in Jobs, Begin(j) PROVE Inv'
  BY <1>2, Begins
<1>3. ASSUME NEW j \in Jobs, ReplacementStep(j) PROVE Inv'
  <2>1. CASE Start(j)
    BY <2>1, Starts
  <2>2. CASE SendRestore(j) \/ TimeOut(j)
    BY <2>2, Sends
  <2>3. CASE HostRestore(j)
    BY <2>3, HostRestores
  <2>4. CASE Settle(j)
    BY <2>4, Settles
  <2> QED
    BY <1>3, <2>1, <2>2, <2>3, <2>4 DEF ReplacementStep
<1>4. CASE ResolvePromise
  BY <1>4, Resolves
<1>5. CASE Commit
  BY <1>5, Commits
<1>6. CASE UNCHANGED vars
  BY <1>6 DEF Inv, Typed, OneRuns, Running, Counted, Active, Known, Binds, Promised, Settled,
              Restored, Scheduled, Commands, AppliedToDisplayed, vars, hostVars, scopeVars, syncVars
<1> QED
  BY <1>1, <1>2, <1>3, <1>4, <1>5, <1>6 DEF Next

LEMMA OthersStay ==
    ASSUME cmd \in [Cmds -> CmdRecord], NEW c \in Cmds, NEW d \in Cmds, CommandStep(d), d # c
    PROVE  cmd'[c] = cmd[c]
<1>1. \E r : cmd' = [cmd EXCEPT ![d] = r]
  <2>1. CASE Capture(d)
    BY <2>1, Zenon DEF Capture
  <2>2. CASE Request(d)
    BY <2>2, Zenon DEF Request
  <2>3. CASE Send(d)
    BY <2>3, Zenon DEF Send
  <2>4. CASE HostExecute(d)
    BY <2>4, Zenon DEF HostExecute
  <2>5. CASE Deliver(d) \/ Discard(d) \/ NextPage(d) \/ LastPage(d)
    BY <2>5, Zenon DEF Deliver, Discard, NextPage, LastPage
  <2> QED
    BY <2>1, <2>2, <2>3, <2>4, <2>5 DEF CommandStep
<1> QED
  BY <1>1

(* While every replacement is of a document that is opened - stored first, *)
(* shown afterwards - a command takes effect only on the document it was   *)
(* given for, and no answer is handed to the interface under another one   *)
(* (document-scope.ts: scopeIsCurrent, requestScopedWorkspace; main.rs:    *)
(* bind_document_generation).                                              *)
THEOREM DisplayedOnly ==
    ASSUME NewJobs = {}
    PROVE  Spec => OnDisplayedOnly
<1> DEFINE Handed == /\ AppliedToDisplayed'
                     /\ \A c \in Cmds : cmd[c].pc = "answered" /\ cmd'[c].pc = "page"
                                             => cmd[c].on = shown
<1>1. Init => Inv
  BY Initially
<1>2. Inv /\ [Next]_vars => Inv'
  BY Inductive
<1>3. Inv /\ [Next]_vars => [Handed]_vars
  <2> SUFFICES ASSUME Inv, Next PROVE Handed
    BY DEF vars
  <2>1. AppliedToDisplayed'
    BY Inductive DEF Inv
  <2>2. ASSUME NEW c \in Cmds, cmd[c].pc = "answered", cmd'[c].pc = "page"
        PROVE  cmd[c].on = shown
    <3>1. Deliver(c)
      <4>1. /\ cmd \in [Cmds -> CmdRecord] /\ IdleCmd.pc = "idle"
            /\ \A d \in Cmds : CommandStep(d) /\ d # c => cmd'[c] = cmd[c]
        BY OthersStay DEF Inv, Typed, IdleCmd
      <4>2. CommandStep(c)
        BY <2>2, <4>1 DEF Next, Begin, ReplacementStep, Start, SendRestore, HostRestore,
               TimeOut, Settle, ResolvePromise, Commit, syncVars
      <4>3. ~Discard(c)
        BY <2>2, <4>1 DEF Discard
      <4> QED
        BY <2>2, <4>2, <4>3 DEF CommandStep, Capture, Request, Send, HostExecute, NextPage, LastPage
    <3>2. cmd[c].on # NoDoc /\ cmd[c].available /\ cmd[c].epoch = epoch
      BY <3>1 DEF Deliver, Accepted, ScopeCurrent
    <3>3. cmd[c].doc = shown
      BY <2>2, <3>2 DEF Inv, Commands, Active
    <3> QED
      BY <3>2, <3>3 DEF Inv, AppliedToDisplayed
  <2> QED
    BY <2>1, <2>2
<1> QED
  BY <1>1, <1>2, <1>3, PTL DEF Spec, OnDisplayedOnly

-----------------------------------------------------------------------------
(* The handoffs, new documents included                                    *)

InHand == {"queued", "fetching", "sent", "answered"}
Lined ==
    /\ \A i \in DOMAIN queue : job[queue[i]].pc \in InHand
    /\ \A i, k \in DOMAIN queue : queue[i] = queue[k] => i = k
    /\ \A i \in DOMAIN queue : i # 1 => job[queue[i]].pc = "queued"
    /\ \A j \in Jobs : job[j].pc \in InHand => \E i \in DOMAIN queue : queue[i] = j

Flow == Typed /\ OneRuns /\ Counted /\ Lined

(* An open handoff is that of one replacement that is not at its end yet,  *)
(* and the one whose turn it is waits for nothing but an answer: that of   *)
(* the promise, that of the host, which may be given up, or React's.       *)
CanGoOn(j) ==
    \/ job[j].pc \in {"queued", "sent", "answered"}
    \/ job[j].pc = "fetching" /\ job[j].promise \in DOMAIN promises
HandoffsHeld ==
    /\ handoffs = Len(queue) + Cardinality(scheduled)
    /\ \A j \in Jobs : job[j].pc \in InHand => handoffs > 0
    /\ handoffs > 0 => scheduled # {} \/ CanGoOn(Head(queue))

LEMMA PromisesMade ==
    ASSUME Typed, MakePromises
    PROVE  /\ promises' \in Seq(PromiseRecord)
           /\ generation' \in 1..Len(promises') /\ displayed' \in 0..Len(promises')
           /\ generation # 0 => generation' = generation /\ promises' = promises
<1>1. CASE generation = 0
  <2>1. Pending \in PromiseRecord
    BY DEF Pending, PromiseRecord
  <2>2. promises' = Append(promises, Pending) /\ generation' = Len(promises) + 1
    BY <1>1 DEF MakePromises
  <2>3. promises' \in Seq(PromiseRecord) /\ Len(promises') = Len(promises) + 1
    BY <2>1, <2>2 DEF Typed
  <2> QED
    BY <1>1, <2>2, <2>3 DEF MakePromises, Typed
<1>2. CASE generation # 0
  BY <1>2 DEF MakePromises, Typed
<1> QED
  BY <1>1, <1>2

(* Steps that leave the replacements alone.                                *)
LEMMA LineUntouched ==
    ASSUME Flow, Typed', UNCHANGED <<scheduled, queue, job, handoffs>>,
           generation # 0 => /\ generation' = generation
                             /\ promises[generation] # Pending =>
                                   promises'[generation] # Pending
    PROVE  Flow'
<1>1. Counted' /\ Lined'
  BY DEF Flow, Counted, Lined
<1>2. OneRuns'
  <2>1. \A j \in Jobs : Running(j)' <=> Running(j)
    BY DEF Running
  <2>2. (\E j \in Jobs : job[j].pc \in {"sent", "answered"}) => generation # 0
    BY DEF Flow, OneRuns, Running
  <2> QED
    BY <2>1, <2>2 DEF Flow, OneRuns
<1> QED
  BY <1>1, <1>2 DEF Flow

LEMMA CommandTyped ==
    ASSUME Typed, NEW c \in Cmds, CommandStep(c)
    PROVE  /\ Typed' /\ UNCHANGED <<scheduled, queue, job, handoffs>>
           /\ generation # 0 => generation' = generation /\ promises' = promises
<1>1. /\ cmd \in [Cmds -> CmdRecord] /\ cmd[c] \in CmdRecord /\ IdleCmd \in CmdRecord
  BY DEF Typed, IdleCmd, CmdRecord, Docs
<1>2. CASE Capture(c)
  <2>1. MakePromises /\ UNCHANGED <<hostVars, shown, epoch, replacing, handoffs, syncVars>>
    BY <1>2 DEF Capture
  <2>2. /\ promises' \in Seq(PromiseRecord)
        /\ generation' \in 1..Len(promises') /\ displayed' \in 0..Len(promises')
        /\ generation # 0 => generation' = generation /\ promises' = promises
    BY <2>1, PromisesMade
  <2>3. displayed' \in Nat /\ Available \in BOOLEAN /\ generation' \in 0..Len(promises')
    BY <2>2 DEF Available, Typed
  <2>4. cmd' \in [Cmds -> CmdRecord]
    BY <1>2, <2>3 DEF Capture, Typed, CmdRecord, IdleCmd, OrdinaryPromise
  <2> QED
    BY <2>1, <2>2, <2>3, <2>4 DEF Typed, hostVars, syncVars
<1>3. CASE ~Capture(c)
  <2>1. UNCHANGED <<hostVars, shown, scopeVars, syncVars>>
    BY <1>3 DEF CommandStep, Request, Send, HostExecute, Deliver, Discard, NextPage, LastPage
  <2>2. cmd' \in [Cmds -> CmdRecord]
    <3>1. CASE Request(c) \/ Send(c)
      BY <1>1, <3>1 DEF Request, Send, CmdRecord
    <3>2. CASE HostExecute(c)
      <4>1. (IF promises[cmd[c].promise].gen = hostGen THEN hostDoc ELSE NoDoc)
               \in Docs \cup {NoDoc}
        BY DEF Typed
      <4> QED
        BY <1>1, <3>2, <4>1 DEF HostExecute, CmdRecord
    <3>3. CASE Deliver(c)
      BY <1>1, <3>3 DEF Deliver, CmdRecord
    <3>4. CASE Discard(c) \/ LastPage(c)
      BY <1>1, <3>4 DEF Discard, LastPage
    <3>5. CASE NextPage(c)
      BY <1>1, <3>5 DEF NextPage, CmdRecord
    <3> QED
      BY <1>3, <3>1, <3>2, <3>3, <3>4, <3>5 DEF CommandStep
  <2> QED
    BY <2>1, <2>2 DEF Typed, hostVars, scopeVars, syncVars
<1> QED
  BY <1>2, <1>3

LEMMA ResolveTyped ==
    ASSUME Typed, ResolvePromise
    PROVE  /\ Typed' /\ UNCHANGED <<scheduled, queue, job, handoffs, generation>>
           /\ \A q \in DOMAIN promises : promises[q] # Pending => promises'[q] # Pending
<1>1. PICK p \in DOMAIN promises, r \in {Resolved(hostGen), Failed} :
        /\ promises[p] = Pending /\ promises' = [promises EXCEPT ![p] = r]
        /\ UNCHANGED <<hostVars, shown, epoch, replacing, handoffs, generation,
                       displayed, syncVars, cmd>>
  BY DEF ResolvePromise
<1>2. r \in PromiseRecord
  BY DEF Resolved, Failed, PromiseRecord, Typed
<1>3. /\ promises' \in Seq(PromiseRecord) /\ DOMAIN promises' = DOMAIN promises
      /\ Len(promises') = Len(promises)
      /\ \A q \in DOMAIN promises : q # p => promises'[q] = promises[q]
  BY <1>1, <1>2 DEF Typed
<1>4. Typed'
  BY <1>1, <1>3 DEF Typed, hostVars, syncVars
<1> QED
  BY <1>1, <1>3, <1>4 DEF syncVars

LEMMA BeginFlows ==
    ASSUME Flow, NEW j \in Jobs, Begin(j)
    PROVE  Flow'
<1>1. /\ MakePromises /\ UNCHANGED <<hostVars, replacing, scheduled, cmd>>
      /\ job[j].pc = "unborn" /\ handoffs' = handoffs + 1 /\ epoch' = epoch + 1
      /\ queue' = Append(queue, j) /\ shown' \in {shown, j}
  BY DEF Begin
<1>2. /\ job' \in [Jobs -> JobRecord] /\ job'[j].pc = "queued" /\ job'[j].atHost = job[j].atHost
      /\ job'[j].ok = job[j].ok /\ \A k \in Jobs : k # j => job'[k] = job[k]
  BY DEF Begin, Flow, Typed, JobRecord
<1>3. /\ queue' \in Seq(Jobs) /\ Len(queue) \in Nat /\ Len(queue') = Len(queue) + 1
      /\ queue' # <<>> /\ (queue # <<>> => Head(queue') = Head(queue))
      /\ DOMAIN queue = 1..Len(queue) /\ DOMAIN queue' = 1..(Len(queue) + 1)
      /\ queue'[Len(queue) + 1] = j /\ \A i \in DOMAIN queue : queue'[i] = queue[i] /\ queue[i] \in Jobs
  BY <1>1 DEF Flow, Typed
<1>4. /\ promises' \in Seq(PromiseRecord)
      /\ generation' \in 1..Len(promises') /\ displayed' \in 0..Len(promises')
      /\ generation # 0 => generation' = generation /\ promises' = promises
  BY <1>1, PromisesMade DEF Flow
<1>5. Typed'
  <2>1. epoch' \in Nat /\ handoffs' \in Int /\ replacing' \in BOOLEAN /\ shown' \in Docs
    BY <1>1 DEF Flow, Typed, Docs
  <2>2. generation' \in 0..Len(promises')
    BY <1>4
  <2> QED
    BY <1>1, <1>2, <1>3, <1>4, <2>1, <2>2 DEF Flow, Typed, hostVars
<1>6. OneRuns'
  <2>1. \A k \in Jobs : Running(k)' => k # j /\ Running(k) /\ job'[k] = job[k]
    BY <1>2 DEF Running
  <2>2. \A k \in Jobs : Running(k)' =>
          /\ queue' # <<>> /\ Head(queue') = k
          /\ generation' # 0 /\ job'[k].promise = generation'
    BY <1>1, <1>3, <1>4, <2>1 DEF Flow, OneRuns
  <2>3. (\E k \in Jobs : job'[k].pc \in {"sent", "answered"}) => promises'[generation'] # Pending
    BY <1>1, <1>4, <2>1 DEF Flow, OneRuns, Running
  <2> QED
    BY <1>1, <1>2, <2>2, <2>3 DEF Flow, OneRuns
<1>7. Counted'
  <2>1. /\ handoffs' = handoffs + 1 /\ Len(queue') = Len(queue) + 1 /\ scheduled' = scheduled
        /\ handoffs \in Int /\ Len(queue) \in Nat
    BY <1>1, <1>3 DEF Flow, Typed
  <2> QED
    BY <2>1 DEF Flow, Counted
<1>8. Lined'
  <2> DEFINE n == Len(queue) + 1
  <2>1. /\ n \in DOMAIN queue' /\ queue'[n] = j
        /\ \A i \in DOMAIN queue' : i = n \/ (i \in DOMAIN queue /\ queue'[i] = queue[i])
        /\ \A i \in DOMAIN queue : i \in DOMAIN queue' /\ queue'[i] = queue[i]
    BY <1>3
  <2> HIDE DEF n
  <2>2. \A i \in DOMAIN queue : queue[i] # j /\ job'[queue[i]] = job[queue[i]] /\ queue[i] \in Jobs
    BY <1>1, <1>2, <1>3 DEF Flow, Lined, InHand
  <2>3. \A i \in DOMAIN queue' : job'[queue'[i]].pc \in InHand
    BY <1>2, <2>1, <2>2 DEF Flow, Lined, InHand
  <2>4. \A i, k \in DOMAIN queue' : queue'[i] = queue'[k] => i = k
    BY <2>1, <2>2 DEF Flow, Lined
  <2>5. \A i \in DOMAIN queue' : i # 1 => job'[queue'[i]].pc = "queued"
    BY <1>2, <2>1, <2>2 DEF Flow, Lined
  <2>6. \A k \in Jobs : job'[k].pc \in InHand => \E i \in DOMAIN queue' : queue'[i] = k
    BY <1>2, <2>1 DEF Flow, Lined
  <2> QED
    BY <2>3, <2>4, <2>5, <2>6 DEF Lined
<1> QED
  BY <1>5, <1>6, <1>7, <1>8 DEF Flow

(* The one at the head goes on and keeps its place.                        *)
LEMMA HeadGoesOn ==
    ASSUME Flow, Typed', NEW j \in Jobs, UNCHANGED <<queue, scheduled, handoffs>>,
           queue # <<>>, Head(queue) = j, job[j].pc \in InHand,
           job'[j].pc \in {"fetching", "sent", "answered"},
           \A k \in Jobs : k # j => job'[k] = job[k],
           job'[j].pc = "fetching" => ~job'[j].atHost,
           job'[j].ok => ~job'[j].atHost /\ job'[j].pc = "answered",
           generation' # 0, job'[j].promise = generation',
           job'[j].pc \in {"sent", "answered"} => promises'[generation'] # Pending
    PROVE  Flow'
<1>1. /\ DOMAIN queue = 1..Len(queue) /\ Len(queue) \in Nat /\ 1 \in DOMAIN queue /\ queue[1] = j
      /\ \A i \in DOMAIN queue : queue[i] \in Jobs
  BY DEF Flow, Typed
<1>2. \A k \in Jobs : k # j => ~Running(k) /\ ~Running(k)'
  BY DEF Flow, OneRuns, Running
<1>3. OneRuns'
  BY <1>2 DEF Flow, OneRuns, Running
<1>4. Counted'
  BY DEF Flow, Counted
<1>5. Lined'
  <2>1. \A i \in DOMAIN queue : i # 1 => queue[i] # j /\ job'[queue[i]] = job[queue[i]]
    BY <1>1 DEF Flow, Lined
  <2>2. \A i \in DOMAIN queue : job'[queue[i]].pc \in InHand
    BY <1>1, <2>1 DEF Flow, Lined, InHand
  <2>3. \A i \in DOMAIN queue : i # 1 => job'[queue[i]].pc = "queued"
    BY <1>1, <2>1 DEF Flow, Lined
  <2>4. \A k \in Jobs : job'[k].pc \in InHand => \E i \in DOMAIN queue : queue[i] = k
    BY <1>1 DEF Flow, Lined
  <2> QED
    BY <2>2, <2>3, <2>4 DEF Flow, Lined
<1> QED
  BY <1>3, <1>4, <1>5 DEF Flow

LEMMA StartFlows ==
    ASSUME Flow, NEW j \in Jobs, Start(j)
    PROVE  Flow'
<1>1. /\ MakePromises /\ UNCHANGED <<hostVars, shown, handoffs, scheduled, queue, cmd>>
      /\ job[j].pc = "queued" /\ epoch' = epoch + 1 /\ replacing' = TRUE
      /\ queue # <<>> /\ Head(queue) = j
  BY DEF Start
<1>2. /\ promises' \in Seq(PromiseRecord)
      /\ generation' \in 1..Len(promises') /\ displayed' \in 0..Len(promises')
  BY <1>1, PromisesMade DEF Flow
<1>3. generation' \in Nat /\ generation' # 0 /\ generation' \in 0..Len(promises')
  BY <1>2
<1>4. /\ job' \in [Jobs -> JobRecord] /\ job'[j].pc = "fetching" /\ job'[j].atHost = job[j].atHost
      /\ job'[j].ok = job[j].ok /\ job'[j].promise = generation'
      /\ \A k \in Jobs : k # j => job'[k] = job[k]
  <2> DEFINE r == [job[j] EXCEPT !.pc = "fetching", !.promise = generation']
  <2>1. job[j] \in JobRecord /\ job \in [Jobs -> JobRecord]
    BY DEF Flow, Typed
  <2>2. /\ r \in JobRecord /\ r.pc = "fetching" /\ r.atHost = job[j].atHost
        /\ r.ok = job[j].ok /\ r.promise = generation'
    BY <1>3, <2>1 DEF JobRecord
  <2>3. job' = [job EXCEPT ![j] = r]
    BY <2>1 DEF Start, JobRecord
  <2> HIDE DEF r
  <2> QED
    BY <2>1, <2>2, <2>3
<1>5. Typed'
  BY <1>1, <1>2, <1>3, <1>4 DEF Flow, Typed, hostVars
<1>6. ~job[j].atHost /\ ~job[j].ok /\ job[j].pc \in InHand
  BY <1>1 DEF Flow, OneRuns, InHand
<1> QED
  BY <1>1, <1>3, <1>4, <1>5, <1>6, HeadGoesOn

LEMMA SendFlows ==
    ASSUME Flow, NEW j \in Jobs, SendRestore(j) \/ TimeOut(j)
    PROVE  Flow'
<1>1. UNCHANGED <<hostVars, shown, scopeVars, scheduled, queue, latest, cmd>>
  BY DEF SendRestore, TimeOut
<1>2. /\ job[j].pc \in {"fetching", "sent"} /\ job'[j].pc \in {"sent", "answered"}
      /\ job' \in [Jobs -> JobRecord] /\ job'[j].ok = job[j].ok /\ job'[j].promise = job[j].promise
      /\ promises[job[j].promise] # Pending
      /\ \A k \in Jobs : k # j => job'[k] = job[k]
  <2>1. CASE SendRestore(j)
    BY <2>1 DEF SendRestore, Flow, Typed, JobRecord
  <2>2. CASE TimeOut(j)
    BY <2>2 DEF TimeOut, Flow, Typed, JobRecord, OneRuns, Running
  <2> QED
    BY <2>1, <2>2
<1>3. /\ ~job'[j].ok /\ queue # <<>> /\ Head(queue) = j /\ generation # 0
      /\ job[j].promise = generation
  BY <1>2 DEF Flow, OneRuns, Running
<1>4. Typed'
  BY <1>1, <1>2 DEF Flow, Typed, hostVars, scopeVars
<1> QED
  BY <1>1, <1>2, <1>3, <1>4, HeadGoesOn DEF InHand, scopeVars

LEMMA RestoreFlows ==
    ASSUME Flow, NEW j \in Jobs, HostRestore(j)
    PROVE  Flow'
<1>1. UNCHANGED <<shown, scopeVars, scheduled, queue, latest, cmd>> /\ job[j].atHost
  BY DEF HostRestore
<1>2. hostGen' \in Nat /\ hostDoc' \in Docs /\ \E ok \in BOOLEAN, g \in Nat : Answered(j, ok, g)
  <2>1. hostGen \in Nat /\ hostDoc \in Docs /\ j \in Docs /\ hostGen + 1 \in Nat
    BY DEF Flow, Typed, Docs
  <2>2. CASE hostGen' = hostGen + 1 /\ hostDoc' = j /\ \E ok \in BOOLEAN : Answered(j, ok, hostGen + 1)
    BY <2>1, <2>2
  <2>3. CASE Answered(j, FALSE, 0) /\ UNCHANGED hostVars
    <3>1. FALSE \in BOOLEAN /\ 0 \in Nat
      OBVIOUS
    <3> QED
      BY <2>1, <2>3, <3>1, Zenon DEF hostVars
  <2> QED
    BY <2>2, <2>3 DEF HostRestore
<1>3. PICK ok \in BOOLEAN, g \in Nat : Answered(j, ok, g)
  BY <1>2
<1>4. job[j] \in JobRecord /\ job \in [Jobs -> JobRecord]
  BY DEF Flow, Typed
<1>5. /\ job' \in [Jobs -> JobRecord] /\ ~job'[j].atHost
      /\ job'[j].pc = (IF job[j].pc = "sent" THEN "answered" ELSE job[j].pc)
      /\ job'[j].promise = job[j].promise
      /\ job'[j].ok => job[j].pc = "sent"
      /\ \A k \in Jobs : k # j => job'[k] = job[k]
  <2> DEFINE r == [job[j] EXCEPT
                      !.atHost = FALSE, !.gen = g,
                      !.pc = IF job[j].pc = "sent" THEN "answered" ELSE job[j].pc,
                      !.ok = IF job[j].pc = "sent" THEN ok ELSE FALSE]
  <2>1. r.pc = IF job[j].pc = "sent" THEN "answered" ELSE job[j].pc
    BY <1>4 DEF JobRecord
  <2>2. r \in JobRecord /\ ~r.atHost /\ r.promise = job[j].promise
    BY <1>4 DEF JobRecord
  <2>3. r.ok => job[j].pc = "sent"
    BY <1>4 DEF JobRecord
  <2>4. job' = [job EXCEPT ![j] = r]
    BY <1>3 DEF Answered
  <2> HIDE DEF r
  <2> QED
    BY <1>4, <2>1, <2>2, <2>3, <2>4
<1>6. Typed'
  BY <1>1, <1>2, <1>5 DEF Flow, Typed, scopeVars
<1>7. job[j].pc \in {"sent", "answered", "done"}
  BY <1>1, <1>4 DEF Flow, OneRuns, JobRecord
<1>8. CASE job[j].pc \in {"sent", "answered"}
  <2>1. /\ queue # <<>> /\ Head(queue) = j /\ generation # 0 /\ job[j].promise = generation
        /\ promises[generation] # Pending
    BY <1>8 DEF Flow, OneRuns, Running
  <2> QED
    BY <1>1, <1>5, <1>6, <1>8, <2>1, HeadGoesOn DEF InHand, scopeVars
<1>9. CASE job[j].pc = "done"
  <2>1. job'[j].pc = "done" /\ ~job'[j].ok /\ \A k \in Jobs : job'[k].pc = job[k].pc
    BY <1>5, <1>9
  <2>2. \A k \in Jobs : (Running(k)' <=> Running(k)) /\ job'[k].promise = job[k].promise
    BY <1>5, <2>1 DEF Running
  <2>3. OneRuns'
    BY <1>1, <1>5, <2>1, <2>2 DEF Flow, OneRuns, scopeVars
  <2>4. Counted'
    BY <1>1 DEF Flow, Counted, scopeVars
  <2>5. \A i \in DOMAIN queue : queue[i] \in Jobs
    BY DEF Flow, Typed
  <2>6. Lined'
    BY <1>1, <2>1, <2>5 DEF Flow, Lined
  <2> QED
    BY <1>6, <2>3, <2>4, <2>6 DEF Flow
<1> QED
  BY <1>7, <1>8, <1>9

LEMMA SettleFlows ==
    ASSUME Flow, NEW j \in Jobs, Settle(j)
    PROVE  Flow'
<1>1. /\ job[j].pc = "answered" /\ scheduled = {} /\ replacing' = FALSE
      /\ queue # <<>> /\ Head(queue) = j /\ queue' = Tail(queue)
      /\ handoffs = Len(queue) /\ Len(queue) \in Nat /\ Len(queue) >= 1
      /\ UNCHANGED <<hostVars, shown, epoch, latest, cmd>>
  BY DEF Settle, Rebind, Flow, OneRuns, Running, Counted, Typed
<1>2. /\ job' \in [Jobs -> JobRecord] /\ job'[j].pc = "done" /\ job'[j].atHost = job[j].atHost
      /\ job'[j].ok = job[j].ok /\ \A k \in Jobs : k # j => job'[k] = job[k]
  BY DEF Settle, Flow, Typed, JobRecord
<1>3. /\ promises' \in Seq(PromiseRecord)
      /\ generation' \in 0..Len(promises') /\ displayed' \in 0..Len(promises')
  <2>1. CASE job[j].ok
    <3>1. /\ promises' = Append(promises, Resolved(job[j].gen)) /\ generation' = Len(promises) + 1
          /\ displayed' \in {displayed, generation'}
      BY <2>1 DEF Settle, Rebind
    <3>2. Resolved(job[j].gen) \in PromiseRecord
      BY DEF Resolved, PromiseRecord, Flow, Typed, JobRecord
    <3>3. promises' \in Seq(PromiseRecord) /\ Len(promises') = Len(promises) + 1
      BY <3>1, <3>2 DEF Flow, Typed
    <3> QED
      BY <3>1, <3>3 DEF Flow, Typed
  <2>2. CASE ~job[j].ok
    BY <2>2 DEF Settle, Rebind, Flow, Typed
  <2> QED
    BY <2>1, <2>2
<1>4. \/ scheduled' = {} /\ handoffs' = handoffs - 1
      \/ scheduled' = {j} /\ handoffs' = handoffs
  BY DEF Settle, KeepsHandoff
<1>5. /\ queue' \in Seq(Jobs) /\ Len(queue') = Len(queue) - 1
      /\ DOMAIN queue = 1..Len(queue) /\ DOMAIN queue' = 1..(Len(queue) - 1)
      /\ queue[1] = j /\ \A i \in DOMAIN queue' : queue'[i] = queue[i + 1]
      /\ \A i \in DOMAIN queue : queue[i] \in Jobs
  BY <1>1 DEF Flow, Typed
<1>6. Typed'
  <2>1. handoffs' \in Int /\ scheduled' \subseteq Jobs
    BY <1>1, <1>4
  <2> QED
    BY <1>1, <1>2, <1>3, <1>5, <2>1 DEF Flow, Typed, hostVars
<1>7. OneRuns'
  <2>1. \A k \in Jobs : ~Running(k)'
    BY <1>1, <1>2 DEF Flow, OneRuns, Running
  <2>2. \A k \in Jobs : job'[k].pc \in {"unborn", "queued", "fetching"} => ~job'[k].atHost
    BY <1>2 DEF Flow, OneRuns
  <2>3. \A k \in Jobs : job'[k].ok => ~job'[k].atHost /\ job'[k].pc \in {"answered", "done"}
    BY <1>2 DEF Flow, OneRuns
  <2> QED
    BY <2>1, <2>2, <2>3 DEF OneRuns, Running
<1>8. Counted'
  BY <1>1, <1>4, <1>5 DEF Counted
<1>9. Lined'
  <2>1. /\ \A i \in DOMAIN queue' :
              i + 1 \in DOMAIN queue /\ i + 1 # 1 /\ queue'[i] = queue[i + 1] /\ i \in Int
        /\ \A i \in DOMAIN queue : i # 1 => i - 1 \in DOMAIN queue' /\ queue'[i - 1] = queue[i]
    BY <1>1, <1>5
  <2>2. 1 \in DOMAIN queue
    BY <1>1, <1>5
  <2>3. \A i \in DOMAIN queue : i # 1 => queue[i] # j /\ job'[queue[i]] = job[queue[i]]
    BY <1>2, <1>5, <2>2 DEF Flow, Lined
  <2>4. \A i \in DOMAIN queue' : job'[queue'[i]].pc = "queued"
    BY <2>1, <2>3 DEF Flow, Lined
  <2>5. \A i, k \in DOMAIN queue' : queue'[i] = queue'[k] => i = k
    <3> SUFFICES ASSUME NEW i \in DOMAIN queue', NEW k \in DOMAIN queue', queue'[i] = queue'[k]
                 PROVE  i = k
      OBVIOUS
    <3>1. i + 1 \in DOMAIN queue /\ k + 1 \in DOMAIN queue /\ queue[i + 1] = queue[k + 1]
      BY <2>1
    <3>2. i + 1 = k + 1
      BY <3>1 DEF Flow, Lined
    <3> QED
      BY <2>1, <3>2
  <2>6. \A k \in Jobs : job'[k].pc \in InHand => \E i \in DOMAIN queue' : queue'[i] = k
    <3> SUFFICES ASSUME NEW k \in Jobs, job'[k].pc \in InHand
                 PROVE  \E i \in DOMAIN queue' : queue'[i] = k
      OBVIOUS
    <3>1. k # j /\ job[k].pc \in InHand
      BY <1>2 DEF InHand
    <3>2. PICK i \in DOMAIN queue : queue[i] = k
      BY <3>1 DEF Flow, Lined
    <3> QED
      BY <1>5, <2>1, <3>1, <3>2
  <2> QED
    BY <2>4, <2>5, <2>6 DEF Lined, InHand
<1> QED
  BY <1>6, <1>7, <1>8, <1>9 DEF Flow

LEMMA CommitFlows ==
    ASSUME Flow, Commit
    PROVE  Flow'
<1>1. PICK j \in scheduled :
        /\ scheduled' = {} /\ handoffs' = handoffs - 1 /\ shown' \in {shown, j}
        /\ displayed' \in {generation, displayed}
        /\ UNCHANGED <<hostVars, epoch, replacing, promises, generation, queue, latest, job, cmd>>
  BY DEF Commit
<1>2. scheduled = {j} /\ handoffs = Len(queue) + 1 /\ Len(queue) \in Nat /\ j \in Jobs
  BY <1>1 DEF Flow, Counted, Typed
<1>3. Typed'
  BY <1>1, <1>2 DEF Flow, Typed, Docs, hostVars
<1>4. OneRuns'
  BY <1>1 DEF Flow, OneRuns, Running
<1>5. Counted'
  BY <1>1, <1>2 DEF Counted
<1>6. Lined'
  BY <1>1 DEF Flow, Lined
<1> QED
  BY <1>3, <1>4, <1>5, <1>6 DEF Flow

LEMMA FlowInitially == Init => Flow
<1>1. ASSUME Init PROVE Flow
  <2>1. Inv
    BY <1>1, Initially
  <2>2. queue = <<>> /\ DOMAIN queue = {} /\ \A j \in Jobs : job[j].pc = "unborn"
    BY <1>1 DEF Init, UnbornJob
  <2> QED
    BY <2>1, <2>2 DEF Inv, Flow, Lined, InHand
<1> QED
  BY <1>1

LEMMA FlowStep ==
    ASSUME Flow, [Next]_vars
    PROVE  Flow'
<1>1. ASSUME NEW c \in Cmds, CommandStep(c) PROVE Flow'
  <2>1. /\ Typed' /\ UNCHANGED <<scheduled, queue, job, handoffs>>
        /\ generation # 0 => generation' = generation /\ promises' = promises
    BY <1>1, CommandTyped DEF Flow
  <2> QED
    BY <2>1, LineUntouched
<1>2. ASSUME NEW j \in Jobs, Begin(j) PROVE Flow'
  BY <1>2, BeginFlows
<1>3. ASSUME NEW j \in Jobs, ReplacementStep(j) PROVE Flow'
  BY <1>3, StartFlows, SendFlows, RestoreFlows, SettleFlows DEF ReplacementStep
<1>4. CASE ResolvePromise
  <2>1. /\ Typed' /\ UNCHANGED <<scheduled, queue, job, handoffs, generation>>
        /\ \A q \in DOMAIN promises : promises[q] # Pending => promises'[q] # Pending
    BY <1>4, ResolveTyped DEF Flow
  <2>2. generation # 0 => generation \in DOMAIN promises
    BY DEF Flow, Typed
  <2> QED
    BY <2>1, <2>2, LineUntouched
<1>5. CASE Commit
  BY <1>5, CommitFlows
<1>6. CASE UNCHANGED vars
  BY <1>6 DEF Flow, Typed, OneRuns, Running, Counted, Lined, vars, hostVars, scopeVars, syncVars
<1> QED
  BY <1>1, <1>2, <1>3, <1>4, <1>5, <1>6 DEF Next

LEMMA FlowHolds == Flow => HandoffsHeld
<1> SUFFICES ASSUME Flow PROVE HandoffsHeld
  OBVIOUS
<1>1. queue \in Seq(Jobs) /\ Len(queue) \in Nat /\ DOMAIN queue = 1..Len(queue)
  BY DEF Flow, Typed
<1>2. handoffs = Len(queue) + Cardinality(scheduled) /\ handoffs >= Len(queue)
      /\ (handoffs > Len(queue) => scheduled # {})
  <2>1. Cardinality({}) = 0 /\ \A j \in Jobs : Cardinality({j}) = 1
    BY FS_EmptySet, FS_Singleton
  <2> QED
    BY <1>1, <2>1 DEF Flow, Counted
<1>3. \A j \in Jobs : job[j].pc \in InHand => handoffs > 0
  <2> SUFFICES ASSUME NEW j \in Jobs, job[j].pc \in InHand PROVE handoffs > 0
    OBVIOUS
  <2>1. PICK i \in DOMAIN queue : queue[i] = j
    BY DEF Flow, Lined
  <2>2. Len(queue) >= 1
    BY <1>1, <2>1
  <2>3. handoffs \in Int
    BY DEF Flow, Typed
  <2> QED
    BY <1>1, <1>2, <2>2, <2>3
<1>4. ASSUME handoffs > 0, scheduled = {} PROVE CanGoOn(Head(queue))
  <2>1. queue # <<>> /\ 1 \in DOMAIN queue /\ Head(queue) = queue[1] /\ queue[1] \in Jobs
    BY <1>1, <1>2, <1>4 DEF Flow, Counted
  <2>2. job[queue[1]].pc \in InHand
    BY <2>1 DEF Flow, Lined
  <2>3. job[queue[1]].pc = "fetching" => job[queue[1]].promise \in DOMAIN promises
    BY <2>1 DEF Flow, OneRuns, Running, Typed
  <2> QED
    BY <2>1, <2>2, <2>3 DEF CanGoOn, InHand
<1> QED
  BY <1>2, <1>3, <1>4 DEF HandoffsHeld

(* Commands are blocked while a replacement is under way, and only then,   *)
(* new documents included: the handoffs that are open are those of the     *)
(* replacements in the queue and of the one that waits for React, whatever *)
(* failed, was given up or overlapped; and while one is open, whatever is  *)
(* next waits for an answer, never for a promise nobody asked for or for   *)
(* another replacement (engine-sync.ts, the coordinator's run;             *)
(* useWorkspaceDocumentController.ts, the layout effect).                  *)
THEOREM HandoffsAgree == Spec => []HandoffsHeld
<1>1. Init => Flow
  BY FlowInitially
<1>2. Flow /\ [Next]_vars => Flow'
  BY FlowStep
<1> QED
  BY <1>1, <1>2, FlowHolds, PTL DEF Spec
=============================================================================
