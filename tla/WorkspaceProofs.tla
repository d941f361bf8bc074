-------------------------- MODULE WorkspaceProofs --------------------------
(***************************************************************************)
(* Theorems about Workspace, for any sheets, jobs, sources, documents and  *)
(* drafts, any number of commands, cancellations, refused writes and       *)
(* deaths of the process, and any number of previews.                      *)
(***************************************************************************)
EXTENDS Workspace, WellFoundedInduction, FiniteSetTheorems, SequenceTheorems, TLAPS

-----------------------------------------------------------------------------
(* The places of a list                                                    *)

LEMMA Least ==
    ASSUME NEW S \in SUBSET Nat, S # {}
    PROVE  Min(S) \in S /\ \A n \in S : Min(S) <= n
<1>1. \E n \in S : \A m \in S : n <= m
  <2>1. PICK n \in S : \A m \in S : ~(<<m, n>> \in OpToRel(<, Nat))
    BY NatLessThanWellFounded, WFMin, Zenon
  <2>2. \A m \in S : ~(m < n)
    BY <2>1 DEF OpToRel
  <2> QED BY <2>2
<1> QED BY <1>1 DEF Min

LEMMA FinitePlaces ==
    ASSUME NEW n \in Nat, NEW I \in SUBSET (1..n)
    PROVE  IsFiniteSet(I) /\ Cardinality(I) \in Nat
<1>1. IsFiniteSet(1..n)
  BY FS_Interval
<1>2. IsFiniteSet(I)
  BY <1>1, FS_Subset
<1> QED BY <1>2, FS_CardinalityType

(* The k-th of some places is one of them: going up, the least place up to *)
(* which there are k of them.                                              *)
LEMMA NthIn ==
    ASSUME NEW n \in Nat, NEW I \in SUBSET (1..n), NEW k \in 1..Cardinality(I)
    PROVE  Nth(I, k) \in I /\ Cardinality({m \in I : m <= Nth(I, k)}) = k
<1> DEFINE Upto(p) == {m \in I : m <= p}
           P == {p \in Nat : Cardinality(Upto(p)) >= k}
           least == Min(P)
<1>1. \A p : IsFiniteSet(Upto(p)) /\ Cardinality(Upto(p)) \in Nat
  BY FinitePlaces
<1>0. \A m \in I : m \in Nat /\ m > 0 /\ m <= n
  OBVIOUS
<1>2. Upto(n) = I /\ Upto(0) = {} /\ k \in Nat /\ k > 0
  <2>1. Cardinality(I) \in Nat
    BY FinitePlaces
  <2>2. k \in Nat /\ k > 0
    BY <2>1
  <2>3. (\A m \in I : m <= n) /\ \A m \in I : ~(m <= 0)
    BY <1>0
  <2> QED BY <2>2, <2>3
<1>3. n \in P /\ P \in SUBSET Nat
  BY <1>2, FinitePlaces
<1>4. least \in P /\ \A p \in P : least <= p
  BY <1>3, Least
<1>5. least \in Nat /\ Cardinality(Upto(least)) >= k
  BY <1>4, Zenon
<1>6. \A p \in Nat : p < least => Cardinality(Upto(p)) < k
  <2>1. \A p \in Nat : Cardinality(Upto(p)) >= k => least <= p
    BY <1>4, Zenon
  <2> HIDE DEF least, Upto
  <2> QED BY <1>1, <1>2, <1>5, <2>1
<1> HIDE DEF least
<1>8. least # 0
  BY <1>2, <1>5, FS_EmptySet
<1>7. least \in I /\ Cardinality(Upto(least)) = k
  <2>1. CASE least \in I
    <3>1. Upto(least) = Upto(least - 1) \cup {least} /\ least \notin Upto(least - 1)
      <4>1. \A m \in I : m <= least <=> m <= least - 1 \/ m = least
        BY <1>0, <1>5
      <4>2. ~(least <= least - 1)
        BY <1>5
      <4> QED BY <2>1, <4>1, <4>2, Zenon
    <3>2. Cardinality(Upto(least)) = Cardinality(Upto(least - 1)) + 1
      BY <1>1, <3>1, FS_AddElement
    <3> HIDE DEF Upto
    <3> QED BY <1>1, <1>2, <1>5, <1>6, <1>8, <2>1, <3>2
  <2>2. CASE least \notin I
    <3>1. Upto(least) = Upto(least - 1)
      <4>1. \A m \in I : m <= least <=> m <= least - 1
        BY <1>0, <1>5, <2>2
      <4> QED BY <4>1, Zenon
    <3> HIDE DEF Upto
    <3> QED BY <1>1, <1>2, <1>5, <1>6, <1>8, <3>1
  <2> QED BY <2>1, <2>2
<1> QED BY <1>7 DEF Nth

LEMMA SelectedSeq ==
    ASSUME NEW S, NEW list \in Seq(S), NEW I \in SUBSET DOMAIN list
    PROVE  /\ Selected(list, I) \in Seq(S) /\ Len(Selected(list, I)) = Cardinality(I)
           /\ DOMAIN Selected(list, I) = 1..Cardinality(I)
           /\ \A k \in 1..Cardinality(I) : /\ Nth(I, k) \in I
                                           /\ Selected(list, I)[k] = list[Nth(I, k)]
<1>1. Len(list) \in Nat /\ DOMAIN list = 1..Len(list) /\ \A n \in DOMAIN list : list[n] \in S
  OBVIOUS
<1>2. Cardinality(I) \in Nat /\ \A k \in 1..Cardinality(I) : Nth(I, k) \in I
  BY <1>1, NthIn, FinitePlaces
<1>3. \A k \in 1..Cardinality(I) : list[Nth(I, k)] \in S
  BY <1>1, <1>2
<1>4. Selected(list, I) = [k \in 1..Cardinality(I) |-> list[Nth(I, k)]]
  BY DEF Selected
<1>5. Selected(list, I) \in [1..Cardinality(I) -> S]
  BY <1>3, <1>4
<1> QED BY <1>2, <1>4, <1>5, IsASeq, LenProperties

LEMMA DistinctSeq ==
    ASSUME NEW S, NEW list \in Seq(S)
    PROVE  Distinct(list) \in Seq(S)
<1> DEFINE I == {n \in DOMAIN list : \A m \in 1..(n - 1) : list[m] # list[n]}
<1>1. I \in SUBSET DOMAIN list
  OBVIOUS
<1> HIDE DEF I
<1>2. Selected(list, I) \in Seq(S)
  BY <1>1, SelectedSeq
<1> QED BY <1>2 DEF Distinct, I

-----------------------------------------------------------------------------
(* The invariant of the jobs                                               *)

Good(job, list) ==
    /\ job \in Job /\ list \in Seq(Item)
    /\ job.total = Len(list) /\ job.success = Count(list, {"succeeded"})
    /\ job.failed + job.pending = Count(list, {"failed", "pending", "running"})
    /\ job.status = "completed" => With(list, {"succeeded"}) = DOMAIN list
    /\ job.status = "cancelled" => With(list, {"running"}) = {}
    /\ \A n \in DOMAIN list : AttemptsMatch(list[n])

JobsGood ==
    /\ DOMAIN jobs \subseteq Jobs /\ DOMAIN items = DOMAIN jobs
    /\ \A j \in DOMAIN jobs : Good(jobs[j], items[j])

(* No attempt of an item is running: of those that were interrupted, and   *)
(* of the one that is claimed.                                             *)
Resting(item) == \A k \in DOMAIN item.attempts : item.attempts[k] # "running"

EngineInv ==
    /\ engine.pc \in {"up", "down", "attempts", "items", "counts"}
    /\ engine \in [pc : {"up", "down", "attempts", "items", "counts"}, left : SUBSET DOMAIN jobs]
    /\ engine.pc # "counts" => engine.left = {}
    /\ engine.pc # "up" => runner = IdleRunner
    /\ engine.pc = "items" => \A j \in DOMAIN jobs : \A n \in DOMAIN items[j] : Resting(items[j][n])

(* A run knows its job; what it requeues has failed, and what it works on  *)
(* is an item of the job, whatever other connections cancel.               *)
RunPoints == {"requeue", "claim", "start", "fetch", "finish"}
RunRecord == [pc : RunPoints, job : Jobs, item : Nat, left : SUBSET Nat,
              found : {NotFound} \cup Seq(Sources) \cup Seq(Shown)]
Works(run, list) ==
    /\ run.pc = "requeue" => run.left \subseteq With(list, {"failed"})
    /\ run.pc \in {"start", "fetch", "finish"} => run.item \in DOMAIN list
    /\ run.pc = "start" => Resting(list[run.item])
    /\ run.pc \in {"fetch", "finish"} => list[run.item].count > 0
    /\ run.pc = "finish" =>
          \/ run.found = NotFound
          \/ run.found \in IF list[run.item].kind = "manifest" THEN Seq(Sources) ELSE Seq(Shown)
RunInv ==
    \/ runner = IdleRunner
    \/ runner \in RunRecord /\ runner.job \in DOMAIN jobs /\ Works(runner, items[runner.job])

JobsInv == JobsGood /\ EngineInv /\ RunInv

LEMMA GoodConsistent == JobsInv => JobsConsistent
BY DEF JobsInv, JobsGood, Good, EngineInv, JobsConsistent, JobsTypeOK, CountsAddUp, StatusHonest

-----------------------------------------------------------------------------
(* Counting                                                                *)

LEMMA Counted ==
    ASSUME NEW list \in Seq(Item), NEW S
    PROVE  /\ With(list, S) \subseteq DOMAIN list /\ IsFiniteSet(With(list, S))
           /\ Count(list, S) \in Nat
<1>1. With(list, S) \in SUBSET (1..Len(list)) /\ Len(list) \in Nat /\ DOMAIN list = 1..Len(list)
  BY DEF With
<1> QED BY <1>1, FinitePlaces DEF Count

LEMMA CountBoth ==
    ASSUME NEW list \in Seq(Item), NEW S, NEW T, S \cap T = {}
    PROVE  Count(list, S \cup T) = Count(list, S) + Count(list, T)
<1>1. /\ With(list, S \cup T) = With(list, S) \cup With(list, T)
      /\ With(list, S) \cap With(list, T) = {}
  BY DEF With
<1>2. IsFiniteSet(With(list, S)) /\ IsFiniteSet(With(list, T))
  BY Counted
<1>3. /\ Cardinality(With(list, S) \cup With(list, T))
           = Cardinality(With(list, S)) + Cardinality(With(list, T))
             - Cardinality(With(list, S) \cap With(list, T))
  BY <1>2, FS_Union
<1>4. Cardinality(With(list, S)) \in Nat /\ Cardinality(With(list, T)) \in Nat
  BY <1>2, FS_CardinalityType
<1>5. Cardinality(With(list, S) \cap With(list, T)) = 0
  BY <1>1, FS_EmptySet
<1>6. Cardinality(With(list, S) \cup With(list, T))
          = Cardinality(With(list, S)) + Cardinality(With(list, T))
  BY <1>3, <1>4, <1>5
<1> QED BY <1>1, <1>6 DEF Count

LEMMA ItemStatuses ==
    ASSUME NEW list \in Seq(Item), NEW n \in DOMAIN list
    PROVE  list[n] \in Item /\ list[n].status \in ItemStatus
<1>1. list[n] \in Item
  OBVIOUS
<1> QED BY <1>1 DEF Item

(* Whatever a job was, it agrees with its items after they are counted.    *)
LEMMA Recounting ==
    ASSUME NEW list \in Seq(Item), NEW job \in Job,
           job.status = "cancelled" => With(list, {"running"}) = {},
           \A n \in DOMAIN list : AttemptsMatch(list[n])
    PROVE  /\ Good(Recomputed(job, list), list)
           /\ Recomputed(job, list).sheet = job.sheet
<1> DEFINE new == Recomputed(job, list)
           succeeded == Count(list, {"succeeded"})
           failed == Count(list, {"failed"})
           pending == Count(list, {"pending", "running"})
           status == StatusOf(job, list)
<1>1. succeeded \in Nat /\ failed \in Nat /\ pending \in Nat /\ Len(list) \in Nat
  BY Counted
<1>2. /\ status \in JobStatus
      /\ status = "cancelled" => job.status = "cancelled"
      /\ status = "completed" => With(list, {"succeeded"}) = DOMAIN list
  BY DEF StatusOf, JobStatus
<1>3. failed + pending = Count(list, {"failed", "pending", "running"})
  <2>1. /\ {"failed"} \cup {"pending", "running"} = {"failed", "pending", "running"}
        /\ {"failed"} \cap {"pending", "running"} = {}
    OBVIOUS
  <2> QED BY <2>1, CountBoth
<1>4. new = [sheet |-> job.sheet, status |-> status, total |-> Len(list),
             success |-> succeeded, failed |-> failed, pending |-> pending]
  <2> HIDE DEF succeeded, failed, pending, status
  <2>1. new = [job EXCEPT !.total = Len(list), !.success = succeeded, !.failed = failed,
                          !.pending = pending, !.status = status]
    BY DEF Recomputed, succeeded, failed, pending, status
  <2>2. job = [sheet |-> job.sheet, status |-> job.status, total |-> job.total,
               success |-> job.success, failed |-> job.failed, pending |-> job.pending]
    BY DEF Job
  <2> HIDE DEF new
  <2> QED BY <2>1, <2>2
<1> HIDE DEF new, succeeded, failed, pending, status
<1>5. new \in Job
  BY <1>1, <1>2, <1>4 DEF Job
<1>6. Good(new, list)
  BY <1>2, <1>3, <1>4, <1>5 DEF Good, succeeded
<1> QED BY <1>4, <1>6 DEF new

(* Items that only move between failed, pending and running keep the       *)
(* counts true.                                                            *)
LEMMA StillCounted ==
    ASSUME NEW job, NEW list, NEW new \in Seq(Item), Good(job, list),
           Len(new) = Len(list),
           \A n \in DOMAIN list :
              /\ new[n].status = "succeeded" <=> list[n].status = "succeeded"
              /\ new[n].status = "cancelled" <=> list[n].status = "cancelled"
              /\ new[n].status = "running" => list[n].status = "running"
              /\ AttemptsMatch(new[n])
    PROVE  Good(job, new)
<1>1. /\ list \in Seq(Item) /\ DOMAIN list = 1..Len(list) /\ DOMAIN new = 1..Len(new)
      /\ DOMAIN new = DOMAIN list
  BY DEF Good
<1>2. \A n \in DOMAIN list : list[n].status \in ItemStatus /\ new[n].status \in ItemStatus
  BY <1>1, ItemStatuses
<1>3. /\ With(new, {"succeeded"}) = With(list, {"succeeded"})
      /\ With(new, {"failed", "pending", "running"}) = With(list, {"failed", "pending", "running"})
      /\ With(new, {"running"}) \subseteq With(list, {"running"})
  BY <1>1, <1>2 DEF With, ItemStatus
<1> QED BY <1>1, <1>3 DEF Good, Count

-----------------------------------------------------------------------------
(* One job at a time                                                       *)

LEMMA GoodJob ==
    ASSUME JobsGood, NEW j \in DOMAIN jobs
    PROVE  /\ jobs[j] \in Job /\ items[j] \in Seq(Item) /\ j \in DOMAIN items
           /\ \A n \in DOMAIN items[j] : items[j][n] \in Item /\ AttemptsMatch(items[j][n])
<1>1. /\ jobs[j] \in Job /\ items[j] \in Seq(Item) /\ j \in DOMAIN items
      /\ \A n \in DOMAIN items[j] : AttemptsMatch(items[j][n])
  BY DEF JobsGood, Good
<1> QED BY <1>1, ItemStatuses

LEMMA OneJob ==
    ASSUME JobsGood, NEW j \in DOMAIN jobs, NEW list,
           DOMAIN jobs' = DOMAIN jobs, ItemsOnly(j, list), Good(jobs'[j], list),
           \A i \in DOMAIN jobs \ {j} : jobs'[i] = jobs[i]
    PROVE  JobsGood' /\ items'[j] = list
<1>1. /\ DOMAIN items' = DOMAIN items /\ items'[j] = list
      /\ \A i \in DOMAIN jobs \ {j} : items'[i] = items[i]
  BY DEF ItemsOnly, JobsGood
<1>2. \A i \in DOMAIN jobs : Good(jobs'[i], items'[i])
  <2> TAKE i \in DOMAIN jobs
  <2>1. CASE i = j
    BY <1>1, <2>1
  <2>2. CASE i # j
    <3>1. jobs'[i] = jobs[i] /\ items'[i] = items[i] /\ Good(jobs[i], items[i])
      BY <1>1, <2>2 DEF JobsGood
    <3> QED BY <3>1
  <2> QED BY <2>1, <2>2
<1> QED BY <1>1, <1>2 DEF JobsGood

LEMMA RecountedJob ==
    ASSUME JobsGood, NEW j \in DOMAIN jobs, NEW list \in Seq(Item), Recounts(j, list),
           jobs[j].status = "cancelled" => With(list, {"running"}) = {},
           \A n \in DOMAIN list : AttemptsMatch(list[n])
    PROVE  JobsGood' /\ items'[j] = list /\ DOMAIN jobs' = DOMAIN jobs
<1>1. jobs[j] \in Job
  BY GoodJob
<1>2. Good(Recomputed(jobs[j], list), list)
  BY <1>1, Recounting
<1>3. /\ DOMAIN jobs' = DOMAIN jobs /\ jobs'[j] = Recomputed(jobs[j], list)
      /\ \A i \in DOMAIN jobs \ {j} : jobs'[i] = jobs[i]
  BY DEF Recounts
<1> QED BY <1>2, <1>3, OneJob DEF Recounts

LEMMA Put ==
    ASSUME NEW list \in Seq(Item), NEW n \in DOMAIN list, NEW item \in Item,
           NEW new, new = [list EXCEPT ![n] = item]
    PROVE  /\ new \in Seq(Item) /\ Len(new) = Len(list) /\ DOMAIN new = DOMAIN list
           /\ new[n] = item /\ \A m \in DOMAIN list \ {n} : new[m] = list[m]
<1>1. Len(list) \in Nat /\ DOMAIN list = 1..Len(list) /\ \A m \in DOMAIN list : list[m] \in Item
  OBVIOUS
<1>2. new \in [1..Len(list) -> Item]
  BY <1>1
<1> QED BY <1>1, <1>2, IsASeq, LenProperties

(* A run goes on only while the engine is up.                              *)
LEMMA EngineBusy ==
    ASSUME JobsInv, runner # IdleRunner, UNCHANGED engine, DOMAIN jobs' = DOMAIN jobs
    PROVE  EngineInv' /\ engine.pc = "up"
BY DEF JobsInv, EngineInv

LEMMA RunnerKnown ==
    ASSUME RunInv, runner.pc \in RunPoints
    PROVE  /\ runner \in RunRecord /\ runner # IdleRunner
           /\ runner.job \in DOMAIN jobs /\ Works(runner, itsItems)
BY DEF RunInv, IdleRunner, RunPoints, itsItems

LEMMA RunEnds ==
    ASSUME JobsInv, runner.pc \in RunPoints, Fails, UNCHANGED <<jobs, items, engine>>
    PROVE  JobsInv'
<1>1. runner # IdleRunner
  BY RunnerKnown DEF JobsInv
<1>2. EngineInv'
  BY <1>1, EngineBusy
<1> QED BY <1>2 DEF JobsInv, JobsGood, RunInv, Fails

-----------------------------------------------------------------------------
(* The steps of a run                                                      *)

LEMMA RequeueStep == JobsInv /\ Requeue => JobsInv'
<1> SUFFICES ASSUME JobsInv, Requeue PROVE JobsInv'
  OBVIOUS
<1> DEFINE j == runner.job
           n == Min(runner.left)
           new == [itsItems EXCEPT ![n] = Requeued(itsItems[n])]
<1>1. /\ runner \in RunRecord /\ j \in DOMAIN jobs /\ runner # IdleRunner
      /\ runner.left \subseteq With(itsItems, {"failed"}) /\ JobsGood
  BY RunnerKnown DEF JobsInv, Requeue, At, RunPoints, Works
<1>2. /\ itsItems \in Seq(Item)
      /\ \A m \in DOMAIN itsItems : itsItems[m] \in Item /\ AttemptsMatch(itsItems[m])
  BY <1>1, GoodJob DEF itsItems
<1>3. n \in runner.left /\ n \in DOMAIN itsItems /\ itsItems[n].status = "failed"
  <2>1. runner.left \in SUBSET Nat /\ runner.left # {}
    BY <1>1 DEF RunRecord, Requeue
  <2>2. n \in runner.left
    BY <2>1, Least
  <2> QED BY <1>1, <2>2 DEF With
<1> HIDE DEF n
<1>4. /\ Requeued(itsItems[n]) \in Item /\ Requeued(itsItems[n]).status = "pending"
      /\ AttemptsMatch(Requeued(itsItems[n]))
  <2>1. itsItems[n] \in Item /\ AttemptsMatch(itsItems[n]) /\ itsItems[n].status = "failed"
    BY <1>2, <1>3
  <2> QED BY <2>1 DEF Requeued, Item, ItemStatus, AttemptsMatch
<1>5. /\ new \in Seq(Item) /\ Len(new) = Len(itsItems) /\ DOMAIN new = DOMAIN itsItems
      /\ new[n] = Requeued(itsItems[n]) /\ \A m \in DOMAIN itsItems \ {n} : new[m] = itsItems[m]
  BY <1>2, <1>3, <1>4, Put
<1>6. /\ ItemsOnly(j, new) /\ runner' = [runner EXCEPT !.left = runner.left \ {n}]
      /\ UNCHANGED <<jobs, engine>>
  BY DEF Requeue, n
<1> HIDE DEF new
<1>7. Good(jobs[j], new)
  <2>1. Good(jobs[j], itsItems)
    BY <1>1 DEF JobsGood, itsItems
  <2>2. \A m \in DOMAIN itsItems :
              /\ new[m].status = "succeeded" <=> itsItems[m].status = "succeeded"
              /\ new[m].status = "cancelled" <=> itsItems[m].status = "cancelled"
              /\ new[m].status = "running" => itsItems[m].status = "running"
              /\ AttemptsMatch(new[m])
    BY <1>2, <1>3, <1>4, <1>5
  <2> QED BY <1>5, <2>1, <2>2, StillCounted
<1>8. JobsGood' /\ items'[j] = new
  BY <1>1, <1>6, <1>7, OneJob
<1>9. EngineInv'
  BY <1>1, <1>6, EngineBusy
<1>10. RunInv'
  <2>1. /\ runner' \in RunRecord /\ runner'.pc = "requeue" /\ runner'.job = j
        /\ runner'.left = runner.left \ {n}
    BY <1>1, <1>6 DEF RunRecord, Requeue, At
  <2>2. runner'.left \subseteq With(new, {"failed"})
    BY <1>1, <1>5, <2>1 DEF With
  <2>3. Works(runner', new)
    BY <2>1, <2>2 DEF Works
  <2> QED BY <1>1, <1>6, <1>8, <2>1, <2>3 DEF RunInv
<1> QED BY <1>8, <1>9, <1>10 DEF JobsInv

LEMMA RecountStep == JobsInv /\ Recount => JobsInv'
<1> SUFFICES ASSUME JobsInv, Recount PROVE JobsInv'
  OBVIOUS
<1> DEFINE j == runner.job
<1>1. runner \in RunRecord /\ j \in DOMAIN jobs /\ runner # IdleRunner /\ JobsGood
  BY RunnerKnown DEF JobsInv, Recount, At, RunPoints
<1>2. /\ itsItems \in Seq(Item) /\ Good(jobs[j], itsItems)
      /\ \A m \in DOMAIN itsItems : AttemptsMatch(itsItems[m])
  BY <1>1, GoodJob DEF itsItems, JobsGood
<1>3. JobsGood' /\ items'[j] = itsItems /\ DOMAIN jobs' = DOMAIN jobs
  <2>1. Recounts(j, itsItems) /\ (jobs[j].status = "cancelled" => With(itsItems, {"running"}) = {})
    BY <1>2 DEF Recount, Good
  <2> QED BY <1>1, <1>2, <2>1, RecountedJob
<1>4. EngineInv'
  BY <1>1, <1>3, EngineBusy DEF Recount
<1>5. RunInv'
  <2>1. runner' \in RunRecord /\ runner'.pc = "claim" /\ runner'.job = j
    BY <1>1 DEF Recount, Goes, RunRecord, RunPoints
  <2> QED BY <1>1, <1>3, <2>1 DEF RunInv, Works
<1> QED BY <1>3, <1>4, <1>5 DEF JobsInv

LEMMA ClaimStep == JobsInv /\ Claim => JobsInv'
<1> SUFFICES ASSUME JobsInv, Claim PROVE JobsInv'
  OBVIOUS
<1> DEFINE j == runner.job
           n == Min(Claimable)
           item == [itsItems[n] EXCEPT !.status = "running"]
           new == [itsItems EXCEPT ![n] = item]
<1>1. runner \in RunRecord /\ j \in DOMAIN jobs /\ runner # IdleRunner /\ JobsGood
  BY RunnerKnown DEF JobsInv, Claim, At, RunPoints
<1>2. /\ itsItems \in Seq(Item)
      /\ \A m \in DOMAIN itsItems : itsItems[m] \in Item /\ AttemptsMatch(itsItems[m])
  BY <1>1, GoodJob DEF itsItems
<1>3. CASE Claimable = {}
  <2>1. runner.pc \in RunPoints /\ Fails /\ UNCHANGED <<jobs, items, engine>>
    BY <1>3 DEF Claim, At, RunPoints
  <2> QED BY <2>1, RunEnds
<1>4. CASE Claimable # {}
  <2>1. /\ jobs[j].status # "cancelled" /\ n \in DOMAIN itsItems
        /\ itsItems[n].status = "pending"
    <3>1. Claimable \in SUBSET DOMAIN itsItems /\ DOMAIN itsItems \subseteq Nat
      BY <1>2 DEF Claimable, With
    <3>2. n \in Claimable
      BY <1>4, <3>1, Least
    <3> HIDE DEF n
    <3> QED BY <3>2 DEF Claimable, With
  <2>2. /\ Recounts(j, [itsItems EXCEPT ![n].status = "running"])
        /\ runner' = [runner EXCEPT !.pc = "start", !.item = n]
    BY <1>4 DEF Claim
  <2> HIDE DEF n
  <2>3. /\ item \in Item /\ AttemptsMatch(item) /\ item.status = "running" /\ Resting(item)
    <3>1. itsItems[n] \in Item /\ AttemptsMatch(itsItems[n]) /\ itsItems[n].status = "pending"
      BY <1>2, <2>1
    <3> QED BY <3>1 DEF Item, ItemStatus, AttemptsMatch, Resting
  <2>4. Recounts(j, new)
    BY <2>2
  <2> HIDE DEF item
  <2>5. /\ new \in Seq(Item) /\ Len(new) = Len(itsItems) /\ DOMAIN new = DOMAIN itsItems
        /\ new[n] = item /\ \A m \in DOMAIN itsItems \ {n} : new[m] = itsItems[m]
    BY <1>2, <2>1, <2>3, Put
  <2> HIDE DEF new
  <2>6. \A m \in DOMAIN new : AttemptsMatch(new[m])
    BY <1>2, <2>3, <2>5
  <2>7. JobsGood' /\ items'[j] = new /\ DOMAIN jobs' = DOMAIN jobs
    BY <1>1, <2>1, <2>4, <2>5, <2>6, RecountedJob
  <2>8. EngineInv'
    BY <1>1, <2>7, EngineBusy DEF Claim
  <2>9. RunInv'
    <3>1. n \in Nat
      BY <1>2, <2>1
    <3>2. /\ runner' \in RunRecord /\ runner'.pc = "start" /\ runner'.job = j /\ runner'.item = n
      BY <1>1, <2>2, <3>1 DEF RunRecord, RunPoints
    <3>3. Works(runner', new)
      BY <2>1, <2>3, <2>5, <3>2 DEF Works
    <3> QED BY <1>1, <2>7, <3>2, <3>3 DEF RunInv
  <2> QED BY <2>7, <2>8, <2>9 DEF JobsInv
<1> QED BY <1>3, <1>4

LEMMA StartStep == JobsInv /\ StartAttempt => JobsInv'
<1> SUFFICES ASSUME JobsInv, StartAttempt PROVE JobsInv'
  OBVIOUS
<1> DEFINE j == runner.job
           n == runner.item
           item == [mine EXCEPT !.count = mine.count + 1,
                                !.attempts = Append(mine.attempts, "running")]
           new == [itsItems EXCEPT ![n] = item]
<1>1. /\ runner \in RunRecord /\ j \in DOMAIN jobs /\ runner # IdleRunner /\ JobsGood
      /\ n \in DOMAIN itsItems /\ Resting(mine)
  BY RunnerKnown DEF JobsInv, StartAttempt, At, RunPoints, Works, mine
<1>2. /\ itsItems \in Seq(Item) /\ mine \in Item /\ AttemptsMatch(mine)
      /\ \A m \in DOMAIN itsItems : itsItems[m] \in Item /\ AttemptsMatch(itsItems[m])
  BY <1>1, GoodJob DEF itsItems, mine
<1>3. CASE mine.status # "running" \/ mine.count < Len(mine.attempts)
  <2>1. runner.pc \in RunPoints /\ Fails /\ UNCHANGED <<jobs, items, engine>>
    BY <1>3 DEF StartAttempt, At, RunPoints
  <2> QED BY <2>1, RunEnds
<1>4. CASE ~(mine.status # "running" \/ mine.count < Len(mine.attempts))
  <2>1. /\ Recounts(j, new) /\ Goes("fetch") /\ mine.status = "running"
    BY <1>4 DEF StartAttempt, Replaced
  <2>2. /\ item \in Item /\ AttemptsMatch(item) /\ item.count > 0 /\ item.status = "running"
    <3> DEFINE attempts == Append(mine.attempts, "running")
    <3>1. /\ mine.attempts \in Seq(AttemptStatus) /\ mine.count \in Nat
          /\ mine.count = Len(mine.attempts) /\ "running" \in AttemptStatus
      BY <1>2 DEF Item, AttemptsMatch, AttemptStatus
    <3>2. /\ attempts \in Seq(AttemptStatus) /\ Len(attempts) = mine.count + 1
          /\ \A k \in 1..mine.count : attempts[k] = mine.attempts[k]
          /\ DOMAIN attempts = 1..(mine.count + 1)
      BY <3>1, AppendProperties
    <3>3. \A k \in 1..mine.count : mine.attempts[k] # "running"
      BY <1>1, <3>1 DEF Resting
    <3> HIDE DEF attempts
    <3>4. /\ item \in Item /\ item.count = mine.count + 1 /\ item.attempts = attempts
          /\ item.status = "running"
      <4>1. mine \in Item /\ mine.status = "running" /\ mine.count + 1 \in Nat
        BY <1>2, <1>4, <3>1
      <4>2. item = [mine EXCEPT !.count = mine.count + 1, !.attempts = attempts]
        BY DEF attempts
      <4> HIDE DEF item
      <4> QED BY <4>1, <4>2, <3>2 DEF Item
    <3> HIDE DEF item
    <3> QED BY <3>1, <3>2, <3>3, <3>4 DEF AttemptsMatch
  <2> HIDE DEF item
  <2>5. /\ new \in Seq(Item) /\ Len(new) = Len(itsItems) /\ DOMAIN new = DOMAIN itsItems
        /\ new[n] = item /\ \A m \in DOMAIN itsItems \ {n} : new[m] = itsItems[m]
    BY <1>1, <1>2, <2>2, Put
  <2> HIDE DEF new
  <2>6. \A m \in DOMAIN new : AttemptsMatch(new[m])
    BY <1>2, <2>2, <2>5
  <2>7. JobsGood' /\ items'[j] = new /\ DOMAIN jobs' = DOMAIN jobs
    <3>1. jobs[j].status # "cancelled"
      BY <1>1, <2>1 DEF JobsGood, Good, With, itsItems, mine
    <3> QED BY <1>1, <2>1, <2>5, <2>6, <3>1, RecountedJob
  <2>8. EngineInv'
    BY <1>1, <2>7, EngineBusy DEF StartAttempt
  <2>9. RunInv'
    <3>2. /\ runner' \in RunRecord /\ runner'.pc = "fetch" /\ runner'.job = j /\ runner'.item = n
      BY <1>1, <2>1 DEF RunRecord, RunPoints, Goes
    <3>3. Works(runner', new)
      BY <1>1, <2>2, <2>5, <3>2 DEF Works
    <3> QED BY <1>1, <2>7, <3>2, <3>3 DEF RunInv
  <2> QED BY <2>7, <2>8, <2>9 DEF JobsInv
<1> QED BY <1>3, <1>4

LEMMA FetchStep == JobsInv /\ Fetch => JobsInv'
<1> SUFFICES ASSUME JobsInv, Fetch PROVE JobsInv'
  OBVIOUS
<1>1. /\ runner \in RunRecord /\ runner.job \in DOMAIN jobs /\ runner # IdleRunner /\ JobsGood
      /\ runner.item \in DOMAIN itsItems /\ mine.count > 0
  BY RunnerKnown DEF JobsInv, Fetch, At, RunPoints, Works, mine
<1>2. mine.source \in Sources
  <2>1. mine \in Item
    BY <1>1, GoodJob DEF itsItems, mine
  <2> QED BY <2>1 DEF Item
<1>3. PICK found \in {NotFound} \cup (IF mine.kind = "manifest" THEN ManifestAnswers[mine.source]
                                      ELSE BagAnswers[mine.source]) :
          runner' = [runner EXCEPT !.pc = "finish", !.found = found]
  BY Zenon DEF Fetch
<1>4. found = NotFound \/ found \in IF mine.kind = "manifest" THEN Seq(Sources) ELSE Seq(Shown)
  <2>1. ManifestAnswers[mine.source] \subseteq Seq(Sources) /\ BagAnswers[mine.source] \subseteq Seq(Shown)
    <3>1. /\ ManifestAnswers \in [Sources -> SUBSET Seq(Sources)]
          /\ BagAnswers \in [Sources -> SUBSET Seq(Shown)]
      BY ImportAssumption, Zenon
    <3> QED BY <1>2, <3>1
  <2> QED BY <1>3, <2>1, Zenon
<1>5. /\ runner' \in RunRecord /\ runner'.pc = "finish" /\ runner'.job = runner.job
      /\ runner'.item = runner.item /\ runner'.found = found
  BY <1>1, <1>3, <1>4 DEF RunRecord, RunPoints
<1>6. JobsGood' /\ EngineInv'
  BY <1>1, EngineBusy DEF Fetch, JobsGood
<1>7. Works(runner', itsItems)
  BY <1>1, <1>4, <1>5 DEF Works, mine
<1>8. RunInv'
  BY <1>1, <1>5, <1>7 DEF RunInv, Fetch, itsItems
<1> QED BY <1>6, <1>8 DEF JobsInv

LEMMA SettledItem ==
    ASSUME NEW item \in Item, AttemptsMatch(item), item.count > 0,
           NEW status \in {"succeeded", "failed"}
    PROVE  /\ Settled(item, status) \in Item /\ AttemptsMatch(Settled(item, status))
           /\ Settled(item, status).status = status
<1> DEFINE attempts == LastAttempt(item, status)
           new == Settled(item, status)
           last == item.count
<1>1. /\ item.attempts \in Seq(AttemptStatus) /\ last = Len(item.attempts) /\ last \in Nat
      /\ last > 0 /\ status \in AttemptStatus /\ status \in ItemStatus /\ status # "running"
      /\ \A k \in 1..last : item.attempts[k] = "running" => k = last
  BY DEF Item, AttemptsMatch, AttemptStatus, ItemStatus
<1>2. /\ attempts \in Seq(AttemptStatus) /\ Len(attempts) = last /\ DOMAIN attempts = 1..last
      /\ attempts[last] = status /\ \A k \in 1..last : k # last => attempts[k] = item.attempts[k]
  <2>1. attempts = [item.attempts EXCEPT ![last] = status]
    BY <1>1 DEF LastAttempt
  <2>2. attempts \in [1..last -> AttemptStatus]
    BY <1>1, <2>1
  <2>3. attempts \in Seq(AttemptStatus) /\ Len(attempts) = last
    BY <1>1, <2>2, IsASeq, LenProperties
  <2> QED BY <1>1, <2>1, <2>2, <2>3
<1>3. new = [item EXCEPT !.status = status, !.attempts = attempts]
  BY DEF Settled
<1> HIDE DEF attempts, new
<1>4. /\ new \in Item /\ new.status = status /\ new.attempts = attempts /\ new.count = last
  BY <1>1, <1>2, <1>3 DEF Item
<1>5. AttemptsMatch(new)
  BY <1>1, <1>2, <1>4 DEF AttemptsMatch
<1> QED BY <1>4, <1>5 DEF new

LEMMA FreshItem ==
    ASSUME NEW x \in Sources, NEW kind \in {"bag", "manifest", "manifest_bag"}
    PROVE  /\ NewItem(x, kind) \in Item /\ AttemptsMatch(NewItem(x, kind))
           /\ NewItem(x, kind).status = "pending"
<1>1. <<>> \in Seq(AttemptStatus) /\ Len(<<>>) = 0 /\ DOMAIN <<>> = {}
  OBVIOUS
<1> QED BY <1>1 DEF NewItem, Item, ItemStatus, AttemptsMatch

(* The sources of an answer that the job does not have yet join its items. *)
LEMMA NewItemsJoin ==
    ASSUME NEW list \in Seq(Item), \A n \in DOMAIN list : AttemptsMatch(list[n]),
           NEW sources \in Seq(Sources), NEW kind \in {"bag", "manifest", "manifest_bag"}
    PROVE  /\ NewItems(list, sources, kind) \in Seq(Item)
           /\ \A n \in DOMAIN NewItems(list, sources, kind) : AttemptsMatch(NewItems(list, sources, kind)[n])
           /\ \A n \in DOMAIN list : NewItems(list, sources, kind)[n] = list[n]
<1> DEFINE I == {n \in DOMAIN sources :
                    sources[n] \notin {list[m].source : m \in {i \in DOMAIN list : list[i].kind = kind}}}
           chosen == Selected(sources, I)
           added == [k \in DOMAIN chosen |-> NewItem(chosen[k], kind)]
           new == list \o added
<1>1. chosen \in Seq(Sources) /\ DOMAIN chosen = 1..Len(chosen) /\ Len(chosen) \in Nat
  <2>1. I \in SUBSET DOMAIN sources
    OBVIOUS
  <2> HIDE DEF I
  <2>2. chosen \in Seq(Sources)
    BY <2>1, SelectedSeq
  <2> QED BY <2>2, LenProperties
<1>2. NewItems(list, sources, kind) = new
  BY DEF NewItems
<1> HIDE DEF chosen
<1>3. \A k \in DOMAIN chosen : NewItem(chosen[k], kind) \in Item /\ AttemptsMatch(NewItem(chosen[k], kind))
  <2>1. \A k \in DOMAIN chosen : chosen[k] \in Sources
    BY <1>1
  <2> QED BY <2>1, FreshItem
<1>4. added \in [1..Len(chosen) -> Item]
  BY <1>1, <1>3
<1>5. added \in Seq(Item) /\ Len(added) = Len(chosen) /\ \A k \in 1..Len(chosen) : AttemptsMatch(added[k])
  <2>1. added \in Seq(Item) /\ Len(added) = Len(chosen)
    BY <1>1, <1>4, IsASeq, LenProperties
  <2> QED BY <1>1, <1>3, <2>1
<1> HIDE DEF added
<1>6. /\ new \in Seq(Item) /\ Len(new) = Len(list) + Len(added)
      /\ \A n \in 1..Len(new) : new[n] = IF n <= Len(list) THEN list[n] ELSE added[n - Len(list)]
  BY <1>5, ConcatProperties
<1>7. \A n \in 1..Len(new) : AttemptsMatch(new[n])
  <2> TAKE n \in 1..Len(new)
  <2>1. Len(list) \in Nat /\ Len(added) \in Nat /\ DOMAIN list = 1..Len(list)
    BY <1>5
  <2>2. CASE n <= Len(list)
    <3>1. new[n] = list[n] /\ n \in DOMAIN list
      BY <1>6, <2>1, <2>2
    <3> QED BY <3>1
  <2>3. CASE ~(n <= Len(list))
    <3>1. new[n] = added[n - Len(list)] /\ n - Len(list) \in 1..Len(chosen)
      BY <1>5, <1>6, <2>1, <2>3
    <3> QED BY <1>5, <3>1
  <2> QED BY <2>2, <2>3
<1>8. \A n \in DOMAIN list : new[n] = list[n]
  <2>1. Len(list) \in Nat /\ Len(added) \in Nat /\ DOMAIN list = 1..Len(list)
    BY <1>5
  <2> QED BY <1>6, <2>1
<1> QED BY <1>2, <1>6, <1>7, <1>8, LenProperties

LEMMA FinishStep == JobsInv /\ Finish => JobsInv'
<1> SUFFICES ASSUME JobsInv, Finish PROVE JobsInv'
  OBVIOUS
<1> DEFINE j == runner.job
           n == runner.item
           Ended(status) == Replaced(Settled(mine, status))
<1>1. /\ runner \in RunRecord /\ j \in DOMAIN jobs /\ runner # IdleRunner /\ JobsGood
      /\ n \in DOMAIN itsItems /\ mine.count > 0
      /\ \/ runner.found = NotFound
         \/ runner.found \in IF mine.kind = "manifest" THEN Seq(Sources) ELSE Seq(Shown)
  BY RunnerKnown DEF JobsInv, Finish, At, RunPoints, Works, mine
<1>2. /\ itsItems \in Seq(Item) /\ mine \in Item /\ AttemptsMatch(mine)
      /\ \A m \in DOMAIN itsItems : itsItems[m] \in Item /\ AttemptsMatch(itsItems[m])
  BY <1>1, GoodJob DEF itsItems, mine
<1>3. ASSUME NEW status \in {"succeeded", "failed"}
      PROVE  Ended(status) \in Seq(Item) /\ \A m \in DOMAIN Ended(status) : AttemptsMatch(Ended(status)[m])
  <2> DEFINE item == Settled(mine, status)
             new == Ended(status)
  <2>1. item \in Item /\ AttemptsMatch(item)
    BY <1>1, <1>2, SettledItem
  <2> HIDE DEF item
  <2>2. new = [itsItems EXCEPT ![n] = item]
    BY DEF Replaced, item
  <2> HIDE DEF new
  <2>3. /\ new \in Seq(Item) /\ DOMAIN new = DOMAIN itsItems
        /\ new[n] = item /\ \A m \in DOMAIN itsItems \ {n} : new[m] = itsItems[m]
    BY <1>1, <1>2, <2>1, <2>2, Put
  <2>4. \A m \in DOMAIN new : AttemptsMatch(new[m])
    BY <1>2, <2>1, <2>3
  <2> QED BY <2>3, <2>4 DEF new
<1>4. JobsGood' /\ DOMAIN jobs' = DOMAIN jobs
  <2>1. CASE ~AttemptRunning
    BY <1>1, <2>1 DEF Finish, JobsGood
  <2>2. ASSUME AttemptRunning, NEW list \in Seq(Item), Recounts(j, list),
               \A m \in DOMAIN list : AttemptsMatch(list[m])
        PROVE  JobsGood' /\ DOMAIN jobs' = DOMAIN jobs
    <3>1. jobs[j].status # "cancelled"
      BY <2>2 DEF AttemptRunning
    <3> QED BY <1>1, <2>2, <3>1, RecountedJob
  <2> HIDE DEF Ended
  <2>3. CASE AttemptRunning /\ FinishFailed
    <3>1. Recounts(j, Ended("failed"))
      BY <2>3 DEF FinishFailed, Ended
    <3> QED BY <1>3, <2>2, <2>3, <3>1
  <2>4. CASE AttemptRunning /\ FinishBag
    <3>1. Recounts(j, Ended("succeeded"))
      BY <2>4, Zenon DEF FinishBag, Ended
    <3> QED BY <1>3, <2>2, <2>4, <3>1
  <2>5. CASE AttemptRunning /\ FinishManifest
    <3>1. /\ Recounts(j, NewItems(Ended("succeeded"), Distinct(runner.found), "manifest_bag"))
          /\ mine.kind = "manifest" /\ runner.found # NotFound
      BY <2>5 DEF FinishManifest, Ended
    <3>2. Distinct(runner.found) \in Seq(Sources)
      <4>1. runner.found \in Seq(Sources)
        BY <1>1, <3>1
      <4> QED BY <4>1, DistinctSeq
    <3> HIDE DEF j
    <3> QED BY <1>3, <2>2, <2>5, <3>1, <3>2, NewItemsJoin
  <2> QED BY <2>1, <2>3, <2>4, <2>5, Zenon DEF Finish
<1>5. UNCHANGED engine /\ Goes("claim")
  BY Zenon DEF Finish
<1>6. EngineInv'
  BY <1>1, <1>4, <1>5, EngineBusy
<1>7. RunInv'
  <2>1. runner' \in RunRecord /\ runner'.pc = "claim" /\ runner'.job = j
    BY <1>1, <1>5 DEF Goes, RunRecord, RunPoints
  <2> QED BY <1>1, <1>4, <2>1 DEF RunInv, Works
<1> QED BY <1>4, <1>6, <1>7 DEF JobsInv

(* The store refuses a write of the run.                                   *)
LEMMA RefusalStep == JobsInv /\ StoreFails => JobsInv'
<1> SUFFICES ASSUME JobsInv, StoreFails PROVE JobsInv'
  OBVIOUS
<1>1. runner.pc \in RunPoints /\ Fails /\ UNCHANGED <<jobs, items, engine>>
  BY DEF StoreFails, RunPoints
<1> QED BY <1>1, RunEnds

-----------------------------------------------------------------------------
(* The steps of an engine that opens                                       *)

LEMMA CrashStep == JobsInv /\ Crash => JobsInv'
<1> SUFFICES ASSUME JobsInv, Crash PROVE JobsInv'
  OBVIOUS
<1>1. JobsGood' /\ RunInv'
  BY DEF JobsInv, JobsGood, RunInv, Crash
<1>2. EngineInv'
  BY DEF EngineInv, Crash
<1> QED BY <1>1, <1>2 DEF JobsInv

LEMMA OpenStep == JobsInv /\ Open => JobsInv'
<1> SUFFICES ASSUME JobsInv, Open PROVE JobsInv'
  OBVIOUS
<1>1. JobsGood' /\ RunInv'
  BY DEF JobsInv, JobsGood, RunInv, Open
<1>2. EngineInv'
  BY DEF JobsInv, EngineInv, Open, EngineAt, EngineGoes
<1> QED BY <1>1, <1>2 DEF JobsInv

LEMMA Renewed ==
    ASSUME NEW list \in Seq(Item), NEW new, new = [n \in DOMAIN list |-> new[n]],
           \A n \in DOMAIN list : new[n] \in Item
    PROVE  new \in Seq(Item) /\ Len(new) = Len(list) /\ DOMAIN new = DOMAIN list
<1>1. Len(list) \in Nat /\ DOMAIN list = 1..Len(list)
  OBVIOUS
<1>2. new \in [1..Len(list) -> Item]
  BY <1>1
<1> QED BY <1>1, <1>2, IsASeq, LenProperties

LEMMA AllJobs ==
    ASSUME JobsGood, UNCHANGED jobs, DOMAIN items' = DOMAIN items,
           \A j \in DOMAIN jobs : Good(jobs[j], items'[j])
    PROVE  JobsGood'
BY DEF JobsGood

LEMMA InterruptedItem ==
    ASSUME NEW item \in Item, AttemptsMatch(item)
    PROVE  /\ Interrupted(item) \in Item /\ AttemptsMatch(Interrupted(item))
           /\ Resting(Interrupted(item)) /\ Interrupted(item).status = item.status
<1> DEFINE attempts == [k \in DOMAIN item.attempts |->
               IF item.attempts[k] = "running" THEN "interrupted" ELSE item.attempts[k]]
           new == Interrupted(item)
<1>1. /\ item.attempts \in Seq(AttemptStatus) /\ item.count = Len(item.attempts)
      /\ item.count \in Nat /\ DOMAIN item.attempts = 1..item.count
      /\ item.status \in {"succeeded", "failed"} =>
            item.count > 0 /\ item.attempts[item.count] = item.status
  BY DEF Item, AttemptsMatch
<1>2. /\ attempts \in Seq(AttemptStatus) /\ Len(attempts) = item.count
      /\ \A k \in 1..item.count : attempts[k] # "running"
      /\ \A k \in 1..item.count : item.attempts[k] # "running" => attempts[k] = item.attempts[k]
      /\ DOMAIN attempts = 1..item.count
  <2>1. attempts \in [1..item.count -> AttemptStatus]
    BY <1>1 DEF AttemptStatus
  <2> QED BY <1>1, <2>1, IsASeq, LenProperties
<1>3. new = [item EXCEPT !.attempts = attempts]
  BY DEF Interrupted
<1> HIDE DEF attempts, new
<1>4. new \in Item /\ new.attempts = attempts /\ new.count = item.count /\ new.status = item.status
  BY <1>2, <1>3 DEF Item
<1>5. AttemptsMatch(new) /\ Resting(new)
  BY <1>1, <1>2, <1>4 DEF AttemptsMatch, Resting
<1> QED BY <1>4, <1>5 DEF new

LEMMA AttemptsStep == JobsInv /\ RecoverAttempts => JobsInv'
<1> SUFFICES ASSUME JobsInv, RecoverAttempts PROVE JobsInv'
  OBVIOUS
<1>1. /\ UNCHANGED <<jobs, runner>> /\ JobsGood /\ runner = IdleRunner
      /\ engine' = [engine EXCEPT !.pc = "items"] /\ engine.pc = "attempts"
      /\ items' = [j \in DOMAIN items |-> [n \in DOMAIN items[j] |-> Interrupted(items[j][n])]]
  BY DEF RecoverAttempts, JobsInv, EngineInv, EngineAt, EngineGoes, Changed
<1>2. ASSUME NEW j \in DOMAIN jobs
      PROVE  /\ Good(jobs[j], items'[j])
             /\ \A n \in DOMAIN items'[j] : Resting(items'[j][n])
  <2> DEFINE new == items'[j]
  <2>1. /\ Good(jobs[j], items[j]) /\ items[j] \in Seq(Item) /\ j \in DOMAIN items
        /\ \A n \in DOMAIN items[j] : items[j][n] \in Item /\ AttemptsMatch(items[j][n])
    BY <1>1, GoodJob DEF JobsGood
  <2>2. new = [n \in DOMAIN items[j] |-> Interrupted(items[j][n])]
    BY <1>1, <2>1
  <2> HIDE DEF new
  <2>3. \A n \in DOMAIN items[j] :
           /\ new[n] \in Item /\ AttemptsMatch(new[n]) /\ Resting(new[n])
           /\ new[n].status = items[j][n].status
    BY <2>1, <2>2, InterruptedItem
  <2>4. new = [n \in DOMAIN items[j] |-> new[n]]
    BY <2>2
  <2>5. new \in Seq(Item) /\ Len(new) = Len(items[j]) /\ DOMAIN new = DOMAIN items[j]
    BY <2>1, <2>3, <2>4, Renewed
  <2>6. Good(jobs[j], new)
    BY <2>1, <2>3, <2>5, StillCounted
  <2> QED BY <2>3, <2>5, <2>6 DEF new
<1>3. JobsGood'
  BY <1>1, <1>2, AllJobs
<1>4. EngineInv'
  <2>1. /\ engine' \in [pc : {"up", "down", "attempts", "items", "counts"}, left : SUBSET DOMAIN jobs]
        /\ engine'.left = {} /\ engine'.pc = "items"
    BY <1>1 DEF JobsInv, EngineInv
  <2> QED BY <1>1, <1>2, <2>1 DEF EngineInv
<1> QED BY <1>1, <1>3, <1>4 DEF JobsInv, RunInv

LEMMA RecoveredItem ==
    ASSUME NEW item \in Item, AttemptsMatch(item), Resting(item)
    PROVE  /\ Recovered(item) \in Item /\ AttemptsMatch(Recovered(item))
           /\ Recovered(item).status = IF item.status = "running" THEN "pending" ELSE item.status
<1>1. CASE item.status # "running"
  BY <1>1 DEF Recovered
<1>2. CASE item.status = "running"
  <2> DEFINE new == [item EXCEPT !.status = "pending"]
  <2>1. /\ new \in Item /\ new.status = "pending" /\ new.count = item.count
        /\ new.attempts = item.attempts
    BY DEF Item, ItemStatus
  <2>2. Recovered(item) = new
    BY <1>2 DEF Recovered
  <2> HIDE DEF new
  <2> QED BY <1>2, <2>1, <2>2 DEF AttemptsMatch, Resting
<1> QED BY <1>1, <1>2

LEMMA ItemsStep == JobsInv /\ RecoverItems => JobsInv'
<1> SUFFICES ASSUME JobsInv, RecoverItems PROVE JobsInv'
  OBVIOUS
<1>1. /\ UNCHANGED <<jobs, runner>> /\ JobsGood /\ runner = IdleRunner
      /\ engine' = [pc |-> "counts", left |-> {j \in DOMAIN jobs : With(items[j], {"running"}) # {}}]
      /\ items' = [j \in DOMAIN items |-> [n \in DOMAIN items[j] |-> Recovered(items[j][n])]]
      /\ \A j \in DOMAIN jobs : \A n \in DOMAIN items[j] : Resting(items[j][n])
  BY DEF RecoverItems, JobsInv, EngineInv, EngineAt, Changed
<1>2. ASSUME NEW j \in DOMAIN jobs
      PROVE  Good(jobs[j], items'[j])
  <2> DEFINE new == items'[j]
  <2>1. /\ Good(jobs[j], items[j]) /\ items[j] \in Seq(Item) /\ j \in DOMAIN items
        /\ \A n \in DOMAIN items[j] : items[j][n] \in Item /\ AttemptsMatch(items[j][n])
    BY <1>1, GoodJob DEF JobsGood
  <2>2. new = [n \in DOMAIN items[j] |-> Recovered(items[j][n])]
    BY <1>1, <2>1
  <2> HIDE DEF new
  <2>3. \A n \in DOMAIN items[j] :
           /\ new[n] \in Item /\ AttemptsMatch(new[n])
           /\ new[n].status = IF items[j][n].status = "running" THEN "pending" ELSE items[j][n].status
    BY <1>1, <2>1, <2>2, RecoveredItem
  <2>4. new = [n \in DOMAIN items[j] |-> new[n]]
    BY <2>2
  <2>5. new \in Seq(Item) /\ Len(new) = Len(items[j]) /\ DOMAIN new = DOMAIN items[j]
    BY <2>1, <2>3, <2>4, Renewed
  <2> QED BY <2>1, <2>3, <2>5, StillCounted DEF new
<1>3. JobsGood'
  BY <1>1, <1>2, AllJobs
<1>4. EngineInv'
  BY <1>1 DEF EngineInv
<1> QED BY <1>1, <1>3, <1>4 DEF JobsInv, RunInv

LEMMA CountsStep == JobsInv /\ RecoverCounts => JobsInv'
<1> SUFFICES ASSUME JobsInv, RecoverCounts PROVE JobsInv'
  OBVIOUS
<1>1. UNCHANGED <<items, runner>> /\ JobsGood /\ EngineInv /\ engine.pc = "counts" /\ runner = IdleRunner
  BY DEF RecoverCounts, JobsInv, EngineInv, EngineAt
<1>2. CASE engine.left = {}
  <2>1. engine' = Up /\ UNCHANGED jobs
    BY <1>2 DEF RecoverCounts
  <2> QED BY <1>1, <2>1 DEF JobsInv, JobsGood, RunInv, EngineInv, Up
<1>3. CASE engine.left # {}
  <2>1. PICK j \in engine.left :
           /\ engine' = [engine EXCEPT !.left = engine.left \ {j}]
           /\ jobs' = [jobs EXCEPT ![j] = Recomputed(jobs[j], items[j])]
    BY <1>3 DEF RecoverCounts
  <2>2. j \in DOMAIN jobs
    BY <1>1 DEF EngineInv
  <2>3. Good(Recomputed(jobs[j], items[j]), items[j])
    <3>1. /\ jobs[j] \in Job /\ items[j] \in Seq(Item)
          /\ \A n \in DOMAIN items[j] : AttemptsMatch(items[j][n])
      BY <1>1, <2>2, GoodJob
    <3>2. jobs[j].status = "cancelled" => With(items[j], {"running"}) = {}
      BY <1>1, <2>2 DEF JobsGood, Good
    <3> QED BY <3>1, <3>2, Recounting
  <2>4. /\ DOMAIN jobs' = DOMAIN jobs /\ jobs'[j] = Recomputed(jobs[j], items[j])
        /\ \A i \in DOMAIN jobs \ {j} : jobs'[i] = jobs[i]
    BY <2>1, <2>2
  <2>5. \A i \in DOMAIN jobs : Good(jobs'[i], items[i])
    <3> TAKE i \in DOMAIN jobs
    <3>1. CASE i = j
      BY <2>3, <2>4, <3>1
    <3>2. CASE i # j
      <4>1. jobs'[i] = jobs[i] /\ Good(jobs[i], items[i])
        BY <1>1, <2>4, <3>2 DEF JobsGood
      <4> QED BY <4>1
    <3> QED BY <3>1, <3>2
  <2>6. JobsGood'
    BY <1>1, <2>4, <2>5 DEF JobsGood
  <2>7. EngineInv'
    BY <1>1, <2>1, <2>4 DEF EngineInv
  <2> QED BY <1>1, <2>6, <2>7 DEF JobsInv, RunInv
<1> QED BY <1>2, <1>3

-----------------------------------------------------------------------------
(* The commands of the jobs and of other connections                       *)

(* While the engine is free, no run goes on and nothing is being recovered.*)
LEMMA FreeEngine ==
    ASSUME JobsInv, EngineFree
    PROVE  runner = IdleRunner /\ engine.pc = "up" /\ engine.left = {} /\ JobsGood
BY DEF JobsInv, RunInv, EngineInv, EngineFree, EngineAt, At, RunRecord, RunPoints

LEMMA CreateStep ==
    ASSUME JobsInv, EngineFree, NEW j \in Jobs, NEW s \in Sheets, NEW q \in Requests,
           NEW replace \in BOOLEAN, CreateJob(j, s, q.kind, q.sources, replace)
    PROVE  JobsInv'
<1> DEFINE list == NewItems(<<>>, Distinct(q.sources), q.kind)
           empty == [sheet |-> s, status |-> "pending", total |-> 0, success |-> 0,
                     failed |-> 0, pending |-> 0]
           job == Recomputed(empty, list)
<1>1. runner = IdleRunner /\ engine.pc = "up" /\ engine.left = {} /\ JobsGood
  BY FreeEngine
<1>2. list \in Seq(Item) /\ \A n \in DOMAIN list : AttemptsMatch(list[n])
  <2>1. q.kind \in {"bag", "manifest"} /\ q.sources \in Seq(Sources)
    BY ImportAssumption, Zenon
  <2>2. Distinct(q.sources) \in Seq(Sources) /\ q.kind \in {"bag", "manifest", "manifest_bag"}
    BY <2>1, DistinctSeq
  <2>3. <<>> \in Seq(Item) /\ \A n \in DOMAIN <<>> : AttemptsMatch(<<>>[n])
    OBVIOUS
  <2> QED BY <2>2, <2>3, NewItemsJoin
<1>3. CASE Len(q.sources) > MaxSources
  <2>1. UNCHANGED <<jobs, items, runner, engine>>
    BY <1>3 DEF CreateJob
  <2> QED BY <2>1 DEF JobsInv, JobsGood, RunInv, EngineInv
<1>4. CASE ~(Len(q.sources) > MaxSources)
  <2>1. /\ j \notin DOMAIN jobs /\ UNCHANGED <<runner, engine>>
        /\ jobs' = Inserting(jobs, j, job) /\ items' = Inserting(items, j, list)
    BY <1>4 DEF CreateJob
  <2> HIDE DEF list
  <2>2. Good(job, list)
    <3>1. empty \in Job /\ empty.status # "cancelled"
      BY DEF Job, JobStatus
    <3> HIDE DEF empty
    <3> QED BY <1>2, <3>1, Recounting
  <2> HIDE DEF job
  <2>3. /\ DOMAIN jobs' = DOMAIN jobs \cup {j} /\ DOMAIN items' = DOMAIN jobs'
        /\ jobs'[j] = job /\ items'[j] = list
        /\ \A i \in DOMAIN jobs : jobs'[i] = jobs[i] /\ items'[i] = items[i]
    BY <1>1, <2>1 DEF JobsGood, Inserting
  <2>4. JobsGood'
    BY <1>1, <2>2, <2>3 DEF JobsGood
  <2> QED BY <1>1, <2>1, <2>4 DEF JobsInv, RunInv, EngineInv
<1> QED BY <1>3, <1>4

LEMMA StayStep ==
    ASSUME JobsInv, EngineFree, NEW S, JobsStay(S)
    PROVE  JobsInv'
<1>1. runner = IdleRunner /\ engine.pc = "up" /\ engine.left = {} /\ JobsGood
  BY FreeEngine
<1>2. /\ DOMAIN jobs' = DOMAIN jobs \ JobsOf(S) /\ DOMAIN items' = DOMAIN items \ JobsOf(S)
      /\ \A j \in DOMAIN jobs' : jobs'[j] = jobs[j]
      /\ \A j \in DOMAIN items' : items'[j] = items[j]
      /\ UNCHANGED <<runner, engine>>
  BY DEF JobsStay, Restrict
<1>3. JobsGood'
  BY <1>1, <1>2 DEF JobsGood
<1> QED BY <1>1, <1>2, <1>3 DEF JobsInv, RunInv, EngineInv

LEMMA RunCommand ==
    ASSUME JobsInv, EngineFree, NEW j \in DOMAIN jobs, RunJob(j) \/ RetryJob(j)
    PROVE  JobsInv'
<1>1. /\ runner = IdleRunner /\ engine.pc = "up" /\ engine.left = {} /\ JobsGood /\ j \in Jobs
      /\ items[j] \in Seq(Item) /\ UNCHANGED <<jobs, items, engine>>
  BY FreeEngine, GoodJob DEF JobsGood, RunJob, RetryJob
<1>2. runner' \in RunRecord /\ runner'.job = j /\ Works(runner', items[j])
  <2>1. CASE RunJob(j)
    <3>1. runner' = [pc |-> "claim", job |-> j, item |-> 0, left |-> {}, found |-> NotFound]
      BY <2>1 DEF RunJob, Running
    <3> QED BY <1>1, <3>1 DEF RunRecord, RunPoints, Works
  <2>2. CASE RetryJob(j)
    <3> DEFINE left == {n \in DOMAIN items[j] : items[j][n].status = "failed"
                                                /\ items[j][n].count < MaxAttempts}
    <3>1. left \subseteq With(items[j], {"failed"}) /\ left \in SUBSET Nat
      BY <1>1 DEF With
    <3>2. runner' = [[pc |-> "requeue", job |-> j, item |-> 0, left |-> {}, found |-> NotFound]
                        EXCEPT !.left = left]
      BY <2>2 DEF RetryJob, Running
    <3> HIDE DEF left
    <3>3. runner' = [pc |-> "requeue", job |-> j, item |-> 0, left |-> left, found |-> NotFound]
      BY <3>2
    <3> QED BY <1>1, <3>1, <3>3 DEF RunRecord, RunPoints, Works
  <2> QED BY <2>1, <2>2
<1>3. JobsGood' /\ EngineInv'
  BY <1>1 DEF JobsInv, JobsGood, EngineInv
<1> QED BY <1>1, <1>2, <1>3 DEF JobsInv, RunInv

LEMMA ItemCancelled ==
    ASSUME NEW item \in Item, AttemptsMatch(item)
    PROVE  LET new == CancelledItem(item) IN
           /\ new \in Item /\ AttemptsMatch(new) /\ new.kind = item.kind /\ new.count = item.count
           /\ new.status = IF item.status \in {"pending", "running"} THEN "cancelled" ELSE item.status
           /\ Resting(item) => Resting(new)
<1> DEFINE attempts == [k \in DOMAIN item.attempts |->
               IF item.attempts[k] = "running" THEN "cancelled" ELSE item.attempts[k]]
           new == CancelledItem(item)
<1>1. CASE item.status \notin {"pending", "running"}
  BY <1>1 DEF CancelledItem
<1>2. CASE item.status \in {"pending", "running"}
  <2>1. /\ item.attempts \in Seq(AttemptStatus) /\ item.count = Len(item.attempts)
        /\ item.count \in Nat /\ DOMAIN item.attempts = 1..item.count
    BY DEF Item, AttemptsMatch
  <2>2. /\ attempts \in Seq(AttemptStatus) /\ Len(attempts) = item.count
        /\ \A k \in 1..item.count : attempts[k] # "running"
        /\ DOMAIN attempts = 1..item.count
    <3>1. attempts \in [1..item.count -> AttemptStatus]
      BY <2>1 DEF AttemptStatus
    <3> QED BY <2>1, <3>1, IsASeq, LenProperties
  <2>3. new = [item EXCEPT !.status = "cancelled", !.attempts = attempts]
    BY <1>2 DEF CancelledItem
  <2> HIDE DEF attempts, new
  <2>4. /\ new \in Item /\ new.attempts = attempts /\ new.count = item.count
        /\ new.status = "cancelled" /\ new.kind = item.kind
    BY <2>2, <2>3 DEF Item, ItemStatus
  <2>5. AttemptsMatch(new) /\ Resting(new)
    BY <2>1, <2>2, <2>4 DEF AttemptsMatch, Resting
  <2> QED BY <1>2, <2>4, <2>5 DEF new
<1> QED BY <1>1, <1>2

LEMMA CancelStep ==
    ASSUME JobsInv, NEW j \in DOMAIN jobs, CancelJob(j)
    PROVE  JobsInv'
<1> DEFINE list == items[j]
           new == [n \in DOMAIN list |-> CancelledItem(list[n])]
           job == [jobs[j] EXCEPT !.status = "cancelled", !.pending = 0,
                                  !.success = Count(new, {"succeeded"}),
                                  !.failed = Count(new, {"failed"})]
<1>1. /\ JobsGood /\ jobs[j] \in Job /\ list \in Seq(Item) /\ Good(jobs[j], list)
      /\ \A n \in DOMAIN list : list[n] \in Item /\ AttemptsMatch(list[n])
  BY GoodJob DEF JobsInv, JobsGood
<1>2. /\ ItemsOnly(j, new) /\ UNCHANGED <<runner, engine>> /\ jobs' = [jobs EXCEPT ![j] = job]
  BY DEF CancelJob
<1>3. \A n \in DOMAIN list :
         /\ new[n] \in Item /\ AttemptsMatch(new[n])
         /\ new[n].kind = list[n].kind /\ new[n].count = list[n].count
         /\ new[n].status = IF list[n].status \in {"pending", "running"} THEN "cancelled" ELSE list[n].status
         /\ Resting(list[n]) => Resting(new[n])
  BY <1>1, ItemCancelled
<1>4. new \in Seq(Item) /\ Len(new) = Len(list) /\ DOMAIN new = DOMAIN list
  BY <1>1, <1>3, Renewed
<1> HIDE DEF new
<1>5. Good(job, new)
  <2>1. /\ With(new, {"failed", "pending", "running"}) = With(new, {"failed"})
        /\ With(new, {"running"}) = {}
    BY <1>3, <1>4 DEF With
  <2>2. Count(new, {"succeeded"}) \in Nat /\ Count(new, {"failed"}) \in Nat
    BY <1>4, Counted
  <2>3. jobs[j].total = Len(list)
    BY <1>1 DEF Good
  <2> DEFINE succeeded == Count(new, {"succeeded"})
             failed == Count(new, {"failed"})
  <2>4. failed = Count(new, {"failed", "pending", "running"})
    BY <2>1 DEF Count
  <2> HIDE DEF succeeded, failed
  <2>5. job = [jobs[j] EXCEPT !.status = "cancelled", !.pending = 0, !.success = succeeded,
                              !.failed = failed]
    BY DEF succeeded, failed
  <2>6. succeeded \in Nat /\ failed \in Nat
    BY <2>2 DEF succeeded, failed
  <2> HIDE DEF job
  <2>7. /\ job \in Job /\ job.total = jobs[j].total /\ job.status = "cancelled" /\ job.pending = 0
        /\ job.success = succeeded /\ job.failed = failed
    BY <1>1, <2>5, <2>6 DEF Job, JobStatus
  <2>8. \A n \in DOMAIN new : AttemptsMatch(new[n])
    BY <1>3, <1>4
  <2> QED BY <1>4, <2>1, <2>3, <2>4, <2>6, <2>7, <2>8 DEF Good, succeeded
<1>6. JobsGood' /\ items'[j] = new /\ DOMAIN jobs' = DOMAIN jobs
  <2>1. /\ DOMAIN jobs' = DOMAIN jobs /\ jobs'[j] = job
        /\ \A i \in DOMAIN jobs \ {j} : jobs'[i] = jobs[i]
    <3> HIDE DEF job
    <3> QED BY <1>2
  <2> QED BY <1>1, <1>2, <1>5, <2>1, OneJob
<1>7. /\ j \in DOMAIN items /\ DOMAIN items = DOMAIN jobs
      /\ \A i \in DOMAIN jobs \ {j} : items'[i] = items[i]
  BY <1>1, <1>2 DEF JobsGood, ItemsOnly
<1>8. EngineInv'
  <2>1. engine.pc = "items" => \A i \in DOMAIN jobs : \A n \in DOMAIN items'[i] : Resting(items'[i][n])
    <3> SUFFICES ASSUME engine.pc = "items", NEW i \in DOMAIN jobs, NEW n \in DOMAIN items'[i]
                 PROVE  Resting(items'[i][n])
      OBVIOUS
    <3>1. \A m \in DOMAIN items[i] : Resting(items[i][m])
      BY DEF JobsInv, EngineInv
    <3>2. CASE i = j
      BY <1>3, <1>4, <1>6, <3>1, <3>2
    <3>3. CASE i # j
      BY <1>7, <3>1, <3>3
    <3> QED BY <3>2, <3>3
  <2> QED BY <1>2, <1>6, <2>1 DEF JobsInv, EngineInv
<1>9. RunInv'
  <2>1. CASE runner = IdleRunner
    BY <1>2, <2>1 DEF RunInv
  <2>2. CASE runner # IdleRunner
    <3>1. runner \in RunRecord /\ runner.job \in DOMAIN jobs /\ Works(runner, items[runner.job])
      BY <2>2 DEF JobsInv, RunInv
    <3>2. Works(runner, items'[runner.job])
      <4>1. CASE runner.job # j
        BY <1>7, <3>1, <4>1
      <4>2. CASE runner.job = j
        <5>1. Works(runner, list)
          BY <3>1, <4>2
        <5>2. With(list, {"failed"}) \subseteq With(new, {"failed"})
          BY <1>3, <1>4 DEF With
        <5>3. Works(runner, new)
          BY <1>3, <1>4, <5>1, <5>2 DEF Works
        <5> QED BY <1>6, <4>2, <5>3
      <4> QED BY <4>1, <4>2
    <3> QED BY <1>2, <1>6, <3>1, <3>2 DEF RunInv
  <2> QED BY <2>1, <2>2
<1> QED BY <1>6, <1>8, <1>9 DEF JobsInv

-----------------------------------------------------------------------------

LEMMA JobsUnchanged == JobsInv /\ UNCHANGED jobVars => JobsInv'
BY DEF JobsInv, JobsGood, RunInv, EngineInv, jobVars

LEMMA JobsInit == Init => JobsInv
<1> SUFFICES ASSUME Init PROVE JobsInv
  OBVIOUS
<1>1. jobs = <<>> /\ items = <<>> /\ runner = IdleRunner /\ engine = Up
  BY DEF Init
<1> QED BY <1>1 DEF JobsInv, JobsGood, RunInv, EngineInv, Up

LEMMA JobsStep == JobsInv /\ [Next]_vars => JobsInv'
<1> SUFFICES ASSUME JobsInv, [Next]_vars PROVE JobsInv'
  OBVIOUS
<1>1. CASE HandleCommand
  <2>1. EngineFree
    BY <1>1 DEF HandleCommand
  <2>2. CASE SheetCommand
    BY <2>1, <2>2, StayStep DEF SheetCommand
  <2>3. CASE JobCommand
    BY <2>1, <2>3, CreateStep, RunCommand DEF JobCommand
  <2> QED BY <1>1, <2>2, <2>3 DEF HandleCommand
<1>2. CASE OtherConnection
  BY <1>2, CancelStep, JobsUnchanged DEF OtherConnection
<1>3. CASE RunGoesOn
  BY <1>3, RequeueStep, RecountStep, ClaimStep, StartStep, FetchStep, FinishStep
     DEF RunGoesOn, RunStep
<1>4. CASE EngineOpens
  BY <1>4, OpenStep, AttemptsStep, ItemsStep, CountsStep DEF EngineOpens, RecoverStep
<1>5. CASE WriteRefused
  BY <1>5, RefusalStep DEF WriteRefused
<1>6. CASE ProcessDies
  BY <1>6, CrashStep DEF ProcessDies
<1>7. CASE UserPreviews
  BY <1>7, JobsUnchanged DEF UserPreviews
<1>8. CASE PreviewGoesOn
  BY <1>8, JobsUnchanged DEF PreviewGoesOn
<1>9. CASE UNCHANGED vars
  BY <1>9, JobsUnchanged DEF vars
<1> QED BY <1>1, <1>2, <1>3, <1>4, <1>5, <1>6, <1>7, <1>8, <1>9, Zenon DEF Next

(* In every state between two commits the counts, the status and the       *)
(* attempts of each job agree with its items, whatever runs, cancellations *)
(* of other connections, refused writes, deaths and recoveries came before *)
(* (recompute_import_job_counts_on, recover_interrupted_import_jobs).      *)
THEOREM JobsAgree == Spec => []JobsConsistent
<1>1. Init => JobsInv
  BY JobsInit
<1>2. JobsInv /\ [Next]_vars => JobsInv'
  BY JobsStep
<1>3. JobsInv => JobsConsistent
  BY GoodConsistent
<1> QED BY <1>1, <1>2, <1>3, PTL DEF Spec

-----------------------------------------------------------------------------
(* The invariant of the previews: what the screen shows, what its lookup   *)
(* has still to ask and what was asked for it are sources of its draft.    *)

IsList(list) == list \in Seq(Range(list))
ScreenFields == {"draft", "key", "loading", "item"}
ScreenInv ==
    /\ DOMAIN screen = Scopes
    /\ \A s \in Scopes :
          /\ DOMAIN screen[s] = ScreenFields /\ IsList(screen[s].draft)
          /\ DOMAIN screen[s].item \subseteq Range(screen[s].draft)
          /\ screen[s].key # NoKey =>
                /\ screen[s].key \in Keys /\ lookup[screen[s].key].pc # "none"
                /\ Range(lookup[screen[s].key].todo) \subseteq Range(screen[s].draft)
LookupInv ==
    /\ DOMAIN lookup = Keys
    /\ \A k \in Keys :
          /\ DOMAIN lookup[k] = {"todo", "pc"} /\ IsList(lookup[k].todo)
          /\ lookup[k].pc = "none" => lookup[k].todo = <<>>
RequestInv ==
    \A r \in DOMAIN request :
       /\ Scope(r) \in Scopes /\ Key(r) \in Keys /\ lookup[Key(r)].pc # "none"
       /\ screen[Scope(r)].key = Key(r) => SourcesOf(r) \subseteq Range(screen[Scope(r)].draft)
PreviewInv == ScreenInv /\ LookupInv /\ RequestInv

LEMMA ListOf ==
    ASSUME NEW S, NEW list \in Seq(S)
    PROVE  IsList(list) /\ Range(list) \subseteq S
<1>1. Len(list) \in Nat /\ DOMAIN list = 1..Len(list) /\ \A n \in DOMAIN list : list[n] \in S
  OBVIOUS
<1>2. list \in [1..Len(list) -> Range(list)]
  BY <1>1 DEF Range
<1> QED BY <1>1, <1>2, IsASeq DEF IsList, Range

LEMMA Cut ==
    ASSUME NEW list, IsList(list), NEW m \in Nat, m > 0, NEW n \in Nat, n <= Len(list)
    PROVE  LET part == SubSeq(list, m, n) IN
           IsList(part) /\ Range(part) \subseteq Range(list) /\ Len(part) \in Nat
<1>1. Len(list) \in Nat /\ DOMAIN list = 1..Len(list) /\ \A i \in 1..Len(list) : list[i] \in Range(list)
  BY DEF IsList
<1>2. \A i \in m..n : list[i] \in Range(list)
  BY <1>1
<1>3. SubSeq(list, m, n) \in Seq(Range(list))
  BY <1>2, SubSeqProperties
<1> HIDE DEF IsList
<1> QED BY <1>3, ListOf, LenProperties

-----------------------------------------------------------------------------
(* The steps of the previews                                               *)

(* What the host does, to a request that was sent.                         *)
LEMMA HostSide ==
    ASSUME PreviewInv, UNCHANGED <<screen, lookup>>, DOMAIN request' = DOMAIN request
    PROVE  PreviewInv'
BY DEF PreviewInv, ScreenInv, LookupInv, RequestInv

(* A scope whose screen belongs to no lookup any more.                     *)
LEMMA Leaves ==
    ASSUME PreviewInv, NEW s \in Scopes, UNCHANGED <<lookup, request>>,
           DOMAIN screen' = Scopes, \A i \in Scopes \ {s} : screen'[i] = screen[i],
           DOMAIN screen'[s] = ScreenFields, screen'[s].key = NoKey, IsList(screen'[s].draft),
           DOMAIN screen'[s].item \subseteq Range(screen'[s].draft)
    PROVE  PreviewInv'
<1>1. ScreenInv'
  <2> SUFFICES ASSUME NEW i \in Scopes
               PROVE  /\ DOMAIN screen'[i] = ScreenFields /\ IsList(screen'[i].draft)
                      /\ DOMAIN screen'[i].item \subseteq Range(screen'[i].draft)
                      /\ screen'[i].key # NoKey =>
                            /\ screen'[i].key \in Keys /\ lookup[screen'[i].key].pc # "none"
                            /\ Range(lookup[screen'[i].key].todo) \subseteq Range(screen'[i].draft)
    BY DEF ScreenInv
  <2>1. CASE i = s
    BY <2>1
  <2>2. CASE i # s
    <3>1. screen'[i] = screen[i]
      BY <2>2
    <3> QED BY <3>1 DEF PreviewInv, ScreenInv
  <2> QED BY <2>1, <2>2
<1>2. RequestInv'
  <2> SUFFICES ASSUME NEW r \in DOMAIN request
               PROVE  /\ Scope(r) \in Scopes /\ Key(r) \in Keys /\ lookup[Key(r)].pc # "none"
                      /\ screen'[Scope(r)].key = Key(r) =>
                            SourcesOf(r) \subseteq Range(screen'[Scope(r)].draft)
    BY DEF RequestInv
  <2>1. /\ Scope(r) \in Scopes /\ Key(r) \in Keys /\ lookup[Key(r)].pc # "none"
        /\ screen[Scope(r)].key = Key(r) => SourcesOf(r) \subseteq Range(screen[Scope(r)].draft)
    BY DEF PreviewInv, RequestInv
  <2>2. Key(r) # NoKey
    BY <2>1, PreviewAssumption
  <2> QED BY <2>1, <2>2
<1> QED BY <1>1, <1>2 DEF PreviewInv, LookupInv

(* A scope that starts a lookup or hears of one.  A key that was not used  *)
(* is of no other scope and of no request; a key that was used keeps its   *)
(* scope and asks for nothing new.                                         *)
LEMMA LookupMoves ==
    ASSUME PreviewInv, NEW s \in Scopes, NEW k \in Keys,
           DOMAIN lookup' = Keys, \A i \in Keys \ {k} : lookup'[i] = lookup[i],
           DOMAIN lookup'[k] = {"todo", "pc"}, IsList(lookup'[k].todo), lookup'[k].pc # "none",
           DOMAIN screen' = Scopes, \A i \in Scopes \ {s} : screen'[i] = screen[i],
           DOMAIN screen'[s] = ScreenFields, screen'[s].draft = screen[s].draft,
           DOMAIN screen'[s].item \subseteq Range(screen[s].draft),
           screen'[s].key = k \/ screen'[s].key = screen[s].key,
           screen'[s].key = k => Range(lookup'[k].todo) \subseteq Range(screen[s].draft),
           \/ lookup[k].pc = "none"
           \/ /\ Range(lookup'[k].todo) \subseteq Range(lookup[k].todo)
              /\ screen'[s].key = screen[s].key,
           \A r \in DOMAIN request' \ DOMAIN request :
              /\ Scope(r) = s /\ Key(r) = k
              /\ screen'[s].key = k => SourcesOf(r) \subseteq Range(screen[s].draft)
    PROVE  PreviewInv'
<1>1. LookupInv'
  <2> SUFFICES ASSUME NEW i \in Keys
               PROVE  /\ DOMAIN lookup'[i] = {"todo", "pc"} /\ IsList(lookup'[i].todo)
                      /\ lookup'[i].pc = "none" => lookup'[i].todo = <<>>
    BY DEF LookupInv
  <2>1. CASE i = k
    BY <2>1
  <2>2. CASE i # k
    <3>1. lookup'[i] = lookup[i]
      BY <2>2
    <3> QED BY <3>1 DEF PreviewInv, LookupInv
  <2> QED BY <2>1, <2>2
<1>2. \A i \in Keys : lookup[i].pc # "none" => lookup'[i].pc # "none"
  OBVIOUS
<1>3. ScreenInv'
  <2> SUFFICES ASSUME NEW i \in Scopes
               PROVE  /\ DOMAIN screen'[i] = ScreenFields /\ IsList(screen'[i].draft)
                      /\ DOMAIN screen'[i].item \subseteq Range(screen'[i].draft)
                      /\ screen'[i].key # NoKey =>
                            /\ screen'[i].key \in Keys /\ lookup'[screen'[i].key].pc # "none"
                            /\ Range(lookup'[screen'[i].key].todo) \subseteq Range(screen'[i].draft)
    BY DEF ScreenInv
  <2>1. /\ DOMAIN screen[i] = ScreenFields /\ IsList(screen[i].draft)
        /\ DOMAIN screen[i].item \subseteq Range(screen[i].draft)
        /\ screen[i].key # NoKey =>
              /\ screen[i].key \in Keys /\ lookup[screen[i].key].pc # "none"
              /\ Range(lookup[screen[i].key].todo) \subseteq Range(screen[i].draft)
    BY DEF PreviewInv, ScreenInv
  <2>2. screen[i].key \in Keys =>
           screen[i].key = k \/ lookup'[screen[i].key] = lookup[screen[i].key]
    OBVIOUS
  <2>3. CASE i # s
    <3>1. screen'[i] = screen[i]
      BY <2>3
    <3> QED BY <1>2, <2>1, <2>2, <3>1
  <2>4. CASE i = s
    <3>1. CASE screen'[s].key = k
      BY <2>1, <2>4, <3>1
    <3>2. CASE screen'[s].key # k
      BY <1>2, <2>1, <2>2, <2>4, <3>2
    <3> QED BY <3>1, <3>2
  <2> QED BY <2>3, <2>4
<1>4. RequestInv'
  <2> SUFFICES ASSUME NEW r \in DOMAIN request'
               PROVE  /\ Scope(r) \in Scopes /\ Key(r) \in Keys /\ lookup'[Key(r)].pc # "none"
                      /\ screen'[Scope(r)].key = Key(r) =>
                            SourcesOf(r) \subseteq Range(screen'[Scope(r)].draft)
    BY DEF RequestInv
  <2>1. CASE r \notin DOMAIN request
    BY <2>1
  <2>2. CASE r \in DOMAIN request
    <3>1. /\ Scope(r) \in Scopes /\ Key(r) \in Keys /\ lookup[Key(r)].pc # "none"
          /\ screen[Scope(r)].key = Key(r) => SourcesOf(r) \subseteq Range(screen[Scope(r)].draft)
      BY <2>2 DEF PreviewInv, RequestInv
    <3>2. CASE Scope(r) # s
      <4>1. screen'[Scope(r)] = screen[Scope(r)]
        BY <3>1, <3>2
      <4> QED BY <1>2, <3>1, <4>1
    <3>3. CASE Scope(r) = s
      BY <1>2, <3>1, <3>3
    <3> QED BY <3>2, <3>3
  <2> QED BY <2>1, <2>2
<1> QED BY <1>1, <1>3, <1>4 DEF PreviewInv

LEMMA ScreenOf ==
    ASSUME PreviewInv, NEW s \in Scopes
    PROVE  /\ DOMAIN screen = Scopes /\ DOMAIN screen[s] = ScreenFields /\ IsList(screen[s].draft)
           /\ DOMAIN screen[s].item \subseteq Range(screen[s].draft)
           /\ screen[s].key # NoKey =>
                 Range(lookup[screen[s].key].todo) \subseteq Range(screen[s].draft)
BY DEF PreviewInv, ScreenInv

LEMMA LookupOf ==
    ASSUME PreviewInv, NEW k \in Keys
    PROVE  /\ DOMAIN lookup = Keys /\ DOMAIN lookup[k] = {"todo", "pc"} /\ IsList(lookup[k].todo)
           /\ lookup[k].pc = "none" => lookup[k].todo = <<>>
BY DEF PreviewInv, LookupInv

LEMMA RequestOf ==
    ASSUME PreviewInv, NEW r \in DOMAIN request
    PROVE  /\ Scope(r) \in Scopes /\ Key(r) \in Keys /\ lookup[Key(r)].pc # "none"
           /\ screen[Scope(r)].key = Key(r) => SourcesOf(r) \subseteq Range(screen[Scope(r)].draft)
BY DEF PreviewInv, RequestInv

(* The screen of one scope changes.                                        *)
LEMMA ScreenChanges ==
    ASSUME PreviewInv, NEW s \in Scopes, NEW key, NEW loading, NEW item,
           Shows(s, key, loading, item)
    PROVE  /\ DOMAIN screen' = Scopes /\ \A i \in Scopes \ {s} : screen'[i] = screen[i]
           /\ DOMAIN screen'[s] = ScreenFields /\ screen'[s].draft = screen[s].draft
           /\ screen'[s].key = key /\ screen'[s].loading = loading /\ screen'[s].item = item
<1> DEFINE view == [screen[s] EXCEPT !.key = key, !.loading = loading, !.item = item]
<1>1. DOMAIN screen = Scopes /\ DOMAIN screen[s] = ScreenFields
  BY ScreenOf
<1>2. screen' = [screen EXCEPT ![s] = view]
  BY DEF Shows
<1>3. /\ DOMAIN view = ScreenFields /\ view.draft = screen[s].draft
      /\ view.key = key /\ view.loading = loading /\ view.item = item
  BY <1>1 DEF ScreenFields
<1> HIDE DEF view
<1> QED BY <1>1, <1>2, <1>3

LEMMA EditStep ==
    ASSUME PreviewInv, NEW s \in Scopes, NEW draft \in Drafts[s], EditDraft(s, draft)
    PROVE  PreviewInv'
<1> DEFINE view == [ScreenState EXCEPT !.draft = draft]
<1>1. screen' = [screen EXCEPT ![s] = view] /\ UNCHANGED <<lookup, request>>
  BY DEF EditDraft
<1>2. IsList(draft)
  BY PreviewAssumption DEF IsList
<1>3. /\ DOMAIN view = ScreenFields /\ view.key = NoKey /\ view.draft = draft
      /\ view.item = <<>>
  BY DEF ScreenState, ScreenFields
<1> HIDE DEF view, IsList
<1>4. /\ DOMAIN screen' = Scopes /\ \A i \in Scopes \ {s} : screen'[i] = screen[i]
      /\ screen'[s] = view
  BY <1>1, ScreenOf
<1>5. DOMAIN screen'[s].item \subseteq Range(screen'[s].draft)
  BY <1>3, <1>4
<1> QED BY <1>1, <1>2, <1>3, <1>4, <1>5, Leaves

LEMMA CloseStep ==
    ASSUME PreviewInv, NEW s \in Scopes, CloseModal(s)
    PROVE  PreviewInv'
<1>1. Shows(s, NoKey, FALSE, screen[s].item) /\ UNCHANGED <<lookup, request>>
  BY DEF CloseModal
<1>2. IsList(screen[s].draft) /\ DOMAIN screen[s].item \subseteq Range(screen[s].draft)
  BY ScreenOf
<1> HIDE DEF IsList
<1>3. /\ DOMAIN screen' = Scopes /\ \A i \in Scopes \ {s} : screen'[i] = screen[i]
      /\ DOMAIN screen'[s] = ScreenFields /\ screen'[s].draft = screen[s].draft
      /\ screen'[s].key = NoKey /\ screen'[s].item = screen[s].item
  BY <1>1, ScreenChanges
<1>4. IsList(screen'[s].draft) /\ DOMAIN screen'[s].item \subseteq Range(screen'[s].draft)
  BY <1>2, <1>3
<1> QED BY <1>1, <1>3, <1>4, Leaves

LEMMA LookupStep ==
    ASSUME PreviewInv, NEW s \in Scopes, NEW k \in Keys, StartLookup(s, k)
    PROVE  PreviewInv'
<1> DEFINE draft == screen[s].draft
           least == Min({Workers, Len(draft)})
           first == SubSeq(draft, 1, least)
           rest == SubSeq(draft, Len(first) + 1, Len(draft))
           item == [x \in Range(draft) |-> "loading"]
<1>1. /\ lookup[k].pc = "none" /\ Shows(s, k, TRUE, item)
      /\ lookup' = [lookup EXCEPT ![k] = [todo |-> rest, pc |-> "running"]]
      /\ request' = Sent(Asked(s, k, first), request)
  BY DEF StartLookup, Asks
<1>2. IsList(draft) /\ DOMAIN lookup = Keys
  BY ScreenOf, LookupOf
<1>3. least \in Nat /\ least <= Len(draft)
  <2>1. Len(draft) \in Nat /\ Workers \in Nat
    BY <1>2, PreviewAssumption DEF IsList
  <2>2. {Workers, Len(draft)} \in SUBSET Nat /\ {Workers, Len(draft)} # {}
    BY <2>1
  <2>3. least \in {Workers, Len(draft)} /\ \A n \in {Workers, Len(draft)} : least <= n
    BY <2>2, Least
  <2> HIDE DEF least
  <2> QED BY <2>1, <2>3
<1> HIDE DEF least
<1>4. Range(first) \subseteq Range(draft) /\ Len(first) \in Nat
  BY <1>2, <1>3, Cut
<1>5. IsList(rest) /\ Range(rest) \subseteq Range(draft)
  <2>1. Len(draft) \in Nat
    BY <1>2 DEF IsList
  <2> HIDE DEF draft, first
  <2> QED BY <1>2, <1>4, <2>1, Cut
<1> HIDE DEF draft, first, rest, item, IsList
<1>6. \A r \in DOMAIN request' \ DOMAIN request :
         Scope(r) = s /\ Key(r) = k /\ SourcesOf(r) \subseteq Range(draft)
  BY <1>1, <1>4 DEF Sent, Asked, Scope, Key, SourcesOf
<1>7. DOMAIN item = Range(draft)
  BY DEF item
<1>8. /\ DOMAIN lookup' = Keys /\ \A i \in Keys \ {k} : lookup'[i] = lookup[i]
      /\ DOMAIN lookup'[k] = {"todo", "pc"} /\ lookup'[k].todo = rest /\ lookup'[k].pc # "none"
  BY <1>1, <1>2
<1>9. /\ DOMAIN screen' = Scopes /\ \A i \in Scopes \ {s} : screen'[i] = screen[i]
      /\ DOMAIN screen'[s] = ScreenFields /\ screen'[s].draft = screen[s].draft
      /\ screen'[s].key = k /\ screen'[s].item = item
  BY <1>1, ScreenChanges
<1> QED BY <1>1, <1>5, <1>6, <1>7, <1>8, <1>9, LookupMoves DEF draft

LEMMA RetryStep ==
    ASSUME PreviewInv, NEW s \in Scopes, NEW k \in Keys, StartRetry(s, k)
    PROVE  PreviewInv'
<1> DEFINE failed == {x \in DOMAIN screen[s].item : screen[s].item[x] = "failed"}
           item == [x \in DOMAIN screen[s].item |->
                       IF x \in failed THEN "loading" ELSE screen[s].item[x]]
<1>1. /\ lookup[k].pc = "none" /\ Shows(s, k, screen[s].loading, item)
      /\ lookup' = [lookup EXCEPT ![k].pc = "retrying"]
      /\ request' = Sent({<<s, k, failed>>}, request)
  BY DEF StartRetry
<1>2. /\ DOMAIN lookup = Keys /\ DOMAIN lookup[k] = {"todo", "pc"} /\ IsList(lookup[k].todo)
      /\ lookup[k].todo = <<>> /\ DOMAIN screen[s].item \subseteq Range(screen[s].draft)
  BY <1>1, ScreenOf, LookupOf
<1>3. failed \subseteq DOMAIN screen[s].item /\ DOMAIN item = DOMAIN screen[s].item
  OBVIOUS
<1> HIDE DEF failed, item, IsList
<1>4. \A r \in DOMAIN request' \ DOMAIN request :
         Scope(r) = s /\ Key(r) = k /\ SourcesOf(r) \subseteq Range(screen[s].draft)
  BY <1>1, <1>2, <1>3 DEF Sent, Scope, Key, SourcesOf
<1>5. /\ DOMAIN lookup' = Keys /\ \A i \in Keys \ {k} : lookup'[i] = lookup[i]
      /\ DOMAIN lookup'[k] = {"todo", "pc"} /\ lookup'[k].todo = lookup[k].todo
      /\ lookup'[k].pc # "none"
  BY <1>1, <1>2
<1>6. Range(lookup[k].todo) = {}
  BY <1>2 DEF Range
<1>7. /\ DOMAIN screen' = Scopes /\ \A i \in Scopes \ {s} : screen'[i] = screen[i]
      /\ DOMAIN screen'[s] = ScreenFields /\ screen'[s].draft = screen[s].draft
      /\ screen'[s].key = k /\ screen'[s].item = item
  BY <1>1, ScreenChanges
<1>8. /\ IsList(lookup'[k].todo) /\ Range(lookup'[k].todo) \subseteq Range(screen[s].draft)
      /\ DOMAIN screen'[s].item \subseteq Range(screen[s].draft)
  BY <1>2, <1>3, <1>5, <1>6, <1>7
<1>9. lookup[k].pc = "none"
  BY <1>1
<1> QED BY <1>4, <1>5, <1>7, <1>8, <1>9, LookupMoves

(* What is merged into a screen that still shows the lookup.               *)
LEMMA MergedShown ==
    ASSUME PreviewInv, NEW r \in DOMAIN request, Current(Scope(r), Key(r)), NEW answer
    PROVE  DOMAIN Merged(Scope(r), r, answer) \subseteq Range(screen[Scope(r)].draft)
<1>1. DOMAIN Merged(Scope(r), r, answer) = DOMAIN screen[Scope(r)].item \cup SourcesOf(r)
  BY DEF Merged
<1> QED BY <1>1, RequestOf, ScreenOf DEF Current

LEMMA AnswerStep ==
    ASSUME PreviewInv, NEW r \in DOMAIN request, ReceivePreview(r)
    PROVE  PreviewInv'
<1> DEFINE s == Scope(r)
           k == Key(r)
           item == Merged(s, r, request[r].answer)
           todo == lookup[k].todo
           next == IF todo = <<>> THEN <<>> ELSE <<Head(todo)>>
           rest == SubSeq(todo, Len(next) + 1, Len(todo))
           loading == \E x \in DOMAIN item : item[x] = "loading"
<1>1. /\ lookup[k].pc = "running"
      /\ IF Current(s, k) THEN Shows(s, k, loading, item)
         ELSE UNCHANGED screen
      /\ lookup' = [lookup EXCEPT ![k].todo = rest]
      /\ request' = Sent(Asked(s, k, next), [request EXCEPT ![r].state = "received"])
  BY Zenon DEF ReceivePreview, Asks
<1>2. /\ s \in Scopes /\ k \in Keys /\ DOMAIN lookup = Keys /\ DOMAIN lookup[k] = {"todo", "pc"}
      /\ IsList(todo) /\ DOMAIN screen = Scopes /\ DOMAIN screen[s] = ScreenFields
      /\ DOMAIN screen[s].item \subseteq Range(screen[s].draft)
      /\ screen[s].key = k => Range(todo) \subseteq Range(screen[s].draft)
  <2>1. s \in Scopes /\ k \in Keys
    BY RequestOf
  <2>2. k # NoKey
    BY <2>1, PreviewAssumption
  <2> QED BY <2>1, <2>2, ScreenOf, LookupOf
<1>3. Len(next) \in Nat /\ Range(next) \subseteq Range(todo)
  <2>1. CASE todo = <<>>
    <3>1. next = <<>> /\ Range(next) = {}
      BY <2>1 DEF Range
    <3> QED BY <3>1
  <2>2. CASE todo # <<>>
    <3>1. Len(todo) \in Nat /\ DOMAIN todo = 1..Len(todo) /\ Len(todo) # 0 /\ Head(todo) = todo[1]
      BY <1>2, <2>2, EmptySeq DEF IsList
    <3>2. Head(todo) \in Range(todo)
      BY <3>1 DEF Range
    <3>3. next = <<Head(todo)>> /\ Range(next) = {Head(todo)}
      BY <2>2 DEF Range
    <3> QED BY <3>2, <3>3
  <2> QED BY <2>1, <2>2
<1>4. IsList(rest) /\ Range(rest) \subseteq Range(todo)
  <2>1. Len(todo) \in Nat
    BY <1>2 DEF IsList
  <2> HIDE DEF todo, next
  <2> QED BY <1>2, <1>3, <2>1, Cut
<1>5. Current(s, k) => DOMAIN item \subseteq Range(screen[s].draft)
  BY MergedShown
<1> HIDE DEF next, rest, item, loading, IsList
<1>6. \A q \in DOMAIN request' \ DOMAIN request :
         Scope(q) = s /\ Key(q) = k /\ SourcesOf(q) \subseteq Range(todo)
  <2>1. DOMAIN [request EXCEPT ![r].state = "received"] = DOMAIN request
    OBVIOUS
  <2>2. DOMAIN request' = DOMAIN request \cup Asked(s, k, next)
    BY <1>1, <2>1 DEF Sent
  <2> QED BY <1>3, <2>2 DEF Asked, Scope, Key, SourcesOf
<1>7. /\ DOMAIN lookup' = Keys /\ \A i \in Keys \ {k} : lookup'[i] = lookup[i]
      /\ DOMAIN lookup'[k] = {"todo", "pc"} /\ lookup'[k].todo = rest
      /\ lookup'[k].pc # "none"
  BY <1>1, <1>2
<1>8. /\ DOMAIN screen' = Scopes /\ \A i \in Scopes \ {s} : screen'[i] = screen[i]
      /\ DOMAIN screen'[s] = ScreenFields /\ screen'[s].draft = screen[s].draft
      /\ screen'[s].key = screen[s].key
      /\ DOMAIN screen'[s].item \subseteq Range(screen[s].draft)
  <2>1. CASE Current(s, k)
    <3>1. Shows(s, k, loading, item) /\ screen[s].key = k
      BY <1>1, <2>1 DEF Current
    <3> HIDE DEF s, k
    <3>2. /\ DOMAIN screen' = Scopes /\ \A i \in Scopes \ {s} : screen'[i] = screen[i]
          /\ DOMAIN screen'[s] = ScreenFields /\ screen'[s].draft = screen[s].draft
          /\ screen'[s].key = k /\ screen'[s].item = item
      BY <1>2, <3>1, ScreenChanges
    <3> QED BY <1>5, <2>1, <3>1, <3>2
  <2>2. CASE ~Current(s, k)
    BY <1>1, <1>2, <2>2
  <2> QED BY <2>1, <2>2
<1> HIDE DEF s, k
<1> QED BY <1>2, <1>4, <1>6, <1>7, <1>8, LookupMoves

LEMMA RetryAnswerStep ==
    ASSUME PreviewInv, NEW r \in DOMAIN request, ReceiveRetry(r)
    PROVE  PreviewInv'
<1> DEFINE s == Scope(r)
           k == Key(r)
           refused == request[r].answer \notin {"found", "failed"}
           item == IF refused THEN screen[s].item ELSE Merged(s, r, request[r].answer)
           pc == IF refused THEN "refused" ELSE "done"
           loading == FALSE
<1>1. /\ lookup' = [lookup EXCEPT ![k].pc = pc]
      /\ IF Current(s, k) THEN Shows(s, k, loading, item) ELSE UNCHANGED screen
      /\ request' = [request EXCEPT ![r].state = "received"] /\ pc # "none"
      /\ lookup[k].pc = "retrying"
  BY Zenon DEF ReceiveRetry, Received
<1>2. /\ s \in Scopes /\ k \in Keys /\ DOMAIN lookup = Keys /\ DOMAIN lookup[k] = {"todo", "pc"}
      /\ IsList(lookup[k].todo) /\ DOMAIN screen = Scopes /\ DOMAIN screen[s] = ScreenFields
      /\ DOMAIN screen[s].item \subseteq Range(screen[s].draft)
      /\ screen[s].key = k => Range(lookup[k].todo) \subseteq Range(screen[s].draft)
  <2>1. s \in Scopes /\ k \in Keys
    BY RequestOf
  <2>2. k # NoKey
    BY <2>1, PreviewAssumption
  <2> QED BY <2>1, <2>2, ScreenOf, LookupOf
<1>5. Current(s, k) => DOMAIN item \subseteq Range(screen[s].draft)
  <2>1. Current(s, k) => DOMAIN Merged(s, r, request[r].answer) \subseteq Range(screen[s].draft)
    BY MergedShown
  <2> QED BY <1>2, <2>1
<1> HIDE DEF refused, item, pc, loading, IsList
<1>6. DOMAIN request' = DOMAIN request
  BY <1>1
<1>7. /\ DOMAIN lookup' = Keys /\ \A i \in Keys \ {k} : lookup'[i] = lookup[i]
      /\ DOMAIN lookup'[k] = {"todo", "pc"} /\ lookup'[k].todo = lookup[k].todo
      /\ lookup'[k].pc # "none"
  BY <1>1, <1>2
<1>8. /\ DOMAIN screen' = Scopes /\ \A i \in Scopes \ {s} : screen'[i] = screen[i]
      /\ DOMAIN screen'[s] = ScreenFields /\ screen'[s].draft = screen[s].draft
      /\ screen'[s].key = screen[s].key
      /\ DOMAIN screen'[s].item \subseteq Range(screen[s].draft)
  <2>1. CASE Current(s, k)
    <3>1. Shows(s, k, loading, item) /\ screen[s].key = k
      BY <1>1, <2>1 DEF Current
    <3> HIDE DEF s, k
    <3>2. /\ DOMAIN screen' = Scopes /\ \A i \in Scopes \ {s} : screen'[i] = screen[i]
          /\ DOMAIN screen'[s] = ScreenFields /\ screen'[s].draft = screen[s].draft
          /\ screen'[s].key = k /\ screen'[s].item = item
      BY <1>2, <3>1, ScreenChanges
    <3> QED BY <1>5, <2>1, <3>1, <3>2
  <2>2. CASE ~Current(s, k)
    BY <1>1, <1>2, <2>2
  <2> QED BY <2>1, <2>2
<1> HIDE DEF s, k
<1> QED BY <1>2, <1>6, <1>7, <1>8, LookupMoves

(* The host moves requests that were sent and sends none.                  *)
LEMMA HostKeeps ==
    HostStep \/ HostDies => UNCHANGED <<screen, lookup>> /\ DOMAIN request' = DOMAIN request
<1>1. \A table, S : DOMAIN Signalled(table, S) = DOMAIN table
  BY DEF Signalled
<1>2. CASE HostReads
  <2>1. CASE "preview" \in DOMAIN Head(inbox)
    <3> DEFINE r == Head(inbox).preview
    <3>1. HostPreviews(r) /\ UNCHANGED <<screen, lookup>>
      BY <1>2, <2>1 DEF HostReads
    <3> HIDE DEF r
    <3>2. DOMAIN request' = DOMAIN request
      BY <1>1, <3>1, Zenon DEF HostPreviews
    <3> QED BY <3>1, <3>2
  <2>2. CASE "preview" \notin DOMAIN Head(inbox)
    <3>1. HostCancels(Head(inbox).cancel, Head(inbox).key) /\ UNCHANGED <<screen, lookup>>
      BY <1>2, <2>2 DEF HostReads
    <3> QED BY <1>1, <3>1 DEF HostCancels
  <2> QED BY <2>1, <2>2
<1>3. ASSUME NEW r, NEW answer, Completes(r, answer)
      PROVE  DOMAIN request' = DOMAIN request
  <2> DEFINE answered == [request EXCEPT ![r] = [state |-> "answered", answer |-> answer]]
             run == registry[Scope(r)]
  <2>1. request' = answered \/ request' = Signalled(answered, run.members)
    BY <1>3, Zenon DEF Completes
  <2>2. DOMAIN answered = DOMAIN request
    OBVIOUS
  <2> HIDE DEF answered, run
  <2> QED BY <1>1, <2>1, <2>2
<1>4. ASSUME NEW r, Execute(r) \/ PreviewCancelled(r) \/ PreviewDone(r)
      PROVE  UNCHANGED <<screen, lookup>> /\ DOMAIN request' = DOMAIN request
  <2>1. CASE Execute(r)
    BY <2>1 DEF Execute
  <2>2. CASE PreviewCancelled(r)
    BY <1>3, <2>2 DEF PreviewCancelled
  <2>3. CASE PreviewDone(r)
    BY <1>3, <2>3 DEF PreviewDone
  <2> QED BY <1>4, <2>1, <2>2, <2>3
<1>5. CASE HostDies
  BY <1>5 DEF HostDies
<1> QED BY <1>2, <1>4, <1>5 DEF HostStep

LEMMA PreviewsUnchanged == PreviewInv /\ UNCHANGED previewVars => PreviewInv'
BY HostSide DEF previewVars

LEMMA PreviewsInit == Init => PreviewInv
<1> SUFFICES ASSUME Init PROVE PreviewInv
  OBVIOUS
<1>1. /\ screen = [s \in Scopes |-> ScreenState] /\ lookup = [k \in Keys |-> NoLookup]
      /\ request = <<>>
  BY DEF Init, PreviewInit
<1>2. IsList(<<>>)
  BY DEF IsList
<1>3. /\ DOMAIN ScreenState = ScreenFields /\ ScreenState.draft = <<>>
      /\ ScreenState.item = <<>> /\ ScreenState.key = NoKey
      /\ DOMAIN NoLookup = {"todo", "pc"} /\ NoLookup.todo = <<>>
  BY DEF ScreenState, ScreenFields, NoLookup
<1> HIDE DEF IsList
<1> QED BY <1>1, <1>2, <1>3 DEF PreviewInv, ScreenInv, LookupInv, RequestInv

LEMMA PreviewsStep == PreviewInv /\ [Next]_vars => PreviewInv'
<1> SUFFICES ASSUME PreviewInv, [Next]_vars PROVE PreviewInv'
  OBVIOUS
<1>1. CASE UserPreviews
  <2>1. PICK s \in Scopes :
           \/ \E draft \in Drafts[s] : EditDraft(s, draft)
           \/ \E k \in Keys : StartLookup(s, k) \/ StartRetry(s, k)
           \/ CloseModal(s)
    BY <1>1 DEF UserPreviews
  <2> QED BY <2>1, EditStep, LookupStep, RetryStep, CloseStep
<1>2. CASE PreviewGoesOn
  <2>1. CASE RendererStep
    BY <2>1, AnswerStep, RetryAnswerStep DEF RendererStep
  <2>2. CASE HostStep
    BY <2>2, HostKeeps, HostSide
  <2> QED BY <1>2, <2>1, <2>2 DEF PreviewGoesOn
<1>3. CASE ProcessDies
  BY <1>3, HostKeeps, HostSide DEF ProcessDies
<1>4. CASE HandleCommand \/ OtherConnection \/ RunGoesOn \/ EngineOpens \/ WriteRefused
  BY <1>4, PreviewsUnchanged, Zenon
     DEF HandleCommand, OtherConnection, RunGoesOn, EngineOpens, WriteRefused
<1>5. CASE UNCHANGED vars
  BY <1>5, PreviewsUnchanged DEF vars
<1> QED BY <1>1, <1>2, <1>3, <1>4, <1>5, Zenon DEF Next

(* The screen shows answers only for sources of the draft it has now,      *)
(* whatever is edited, closed, retried, cancelled or answered late         *)
(* (applyPreviewProgress).                                                 *)
THEOREM NothingForeignShown == Spec => []NothingForeign
<1>1. Init => PreviewInv
  BY PreviewsInit
<1>2. PreviewInv /\ [Next]_vars => PreviewInv'
  BY PreviewsStep
<1>3. PreviewInv => NothingForeign
  BY DEF PreviewInv, ScreenInv, NothingForeign
<1> QED BY <1>1, <1>2, <1>3, PTL DEF Spec

-----------------------------------------------------------------------------
(* Numbers of a finite set                                                 *)

LEMMA Greatest ==
    ASSUME NEW S \in SUBSET Int, IsFiniteSet(S), S # {}
    PROVE  Max(S) \in S /\ \A n \in S : n <= Max(S)
<1> DEFINE Topped(U) == \E m \in U : \A k \in U : k <= m
           N == {n \in Nat : \E U \in SUBSET S : Cardinality(U) = n /\ U # {} /\ ~Topped(U)}
<1>1. Topped(S)
  <2> SUFFICES ASSUME ~Topped(S) PROVE FALSE
    OBVIOUS
  <2>1. N # {}
    BY FS_CardinalityType
  <2> DEFINE least == Min(N)
  <2>2. least \in N /\ \A n \in N : least <= n
    <3>1. N \in SUBSET Nat
      OBVIOUS
    <3> HIDE DEF N
    <3> QED BY <2>1, <3>1, Least
  <2> HIDE DEF least
  <2>3. PICK U \in SUBSET S : Cardinality(U) = least /\ U # {} /\ ~Topped(U)
    BY <2>2
  <2>4. PICK u : u \in U
    BY <2>3
  <2> DEFINE V == U \ {u}
  <2>5. IsFiniteSet(U) /\ IsFiniteSet(V) /\ Cardinality(V) = Cardinality(U) - 1
    BY <2>3, <2>4, FS_Subset, FS_RemoveElement
  <2>6. Cardinality(V) \in Nat /\ Cardinality(V) \notin N
    <3>1. Cardinality(V) \in Nat /\ Cardinality(U) \in Nat
      BY <2>5, FS_CardinalityType
    <3>2. Cardinality(V) < least
      BY <2>3, <2>5, <3>1
    <3>3. N \subseteq Nat /\ least \in Nat
      BY <2>2
    <3> HIDE DEF N, V
    <3> QED BY <2>2, <3>1, <3>2, <3>3
  <2>7. V = {} \/ Topped(V)
    BY <2>3, <2>6
  <2>8. Topped(U)
    <3>1. u \in Int /\ U \subseteq Int /\ U = V \cup {u}
      BY <2>3, <2>4
    <3>2. CASE V = {}
      BY <3>1, <3>2
    <3>3. CASE Topped(V)
      <4>1. PICK m \in V : \A k \in V : k <= m
        BY <3>3
      <4>2. m \in Int /\ V \subseteq Int
        BY <3>1
      <4>3. CASE m <= u
        BY <2>4, <3>1, <4>1, <4>2, <4>3
      <4>4. CASE u <= m
        BY <3>1, <4>1, <4>4
      <4> HIDE DEF V
      <4> QED BY <3>1, <4>2, <4>3, <4>4
    <3> QED BY <2>7, <3>2, <3>3
  <2> QED BY <2>3, <2>8
<1> QED BY <1>1 DEF Max

-----------------------------------------------------------------------------
(* Folds over lists                                                        *)

LEMMA LastPlace ==
    ASSUME NEW n \in Nat, NEW S \in SUBSET (1..n), S # {}
    PROVE  Max(S) \in 1..n /\ S \ {Max(S)} \in SUBSET (1..n)
<1>1. S \in SUBSET Int
  OBVIOUS
<1>2. IsFiniteSet(S)
  BY FinitePlaces
<1> QED BY <1>1, <1>2, Greatest

LEMMA Prefix ==
    ASSUME NEW m \in Nat \ {0}
    PROVE  Max(1..m) = m /\ (1..m) \ {Max(1..m)} = 1..(m - 1) /\ 1..m # {}
<1>1. 1..m \in SUBSET Int /\ IsFiniteSet(1..m) /\ m \in 1..m
  BY FS_Interval
<1>2. Max(1..m) \in 1..m /\ m <= Max(1..m)
  BY <1>1, Greatest
<1>3. Max(1..m) = m
  BY <1>2
<1> QED BY <1>1, <1>3

(* A step on a set of states, taken for one element of a list after        *)
(* another, has a function that says where each prefix leads.              *)
Follows(g, step, base, list) ==
    \A S \in SUBSET DOMAIN list :
        g[S] = IF S = {} THEN base ELSE step[<<g[S \ {Max(S)}], list[Max(S)]>>]

LEMMA FoldExists ==
    ASSUME NEW T, NEW X, NEW step \in [T \X X -> T], NEW base \in T, NEW list \in Seq(X)
    PROVE  \E g \in [SUBSET DOMAIN list -> T] : Follows(g, step, base, list)
<1> DEFINE Solves(g, n) ==
              \A S \in SUBSET (1..n) :
                  g[S] = IF S = {} THEN base ELSE step[<<g[S \ {Max(S)}], list[Max(S)]>>]
           Solved(n) == \E g \in [SUBSET (1..n) -> T] : Solves(g, n)
           Unsolved == {n \in 0..Len(list) : ~Solved(n)}
<1>1. Len(list) \in Nat /\ DOMAIN list = 1..Len(list) /\ \A n \in 1..Len(list) : list[n] \in X
  OBVIOUS
<1>2. Unsolved = {}
  <2> SUFFICES ASSUME Unsolved # {} PROVE FALSE
    OBVIOUS
  <2> DEFINE n == Min(Unsolved)
  <2>1. n \in Unsolved /\ \A m \in Unsolved : n <= m
    <3>1. Unsolved \in SUBSET Nat
      BY <1>1
    <3> HIDE DEF Unsolved
    <3> QED BY <3>1, Least
  <2> HIDE DEF n
  <2>2. n \in 0..Len(list) /\ ~Solved(n)
    <3> HIDE DEF Solved
    <3> QED BY <2>1
  <2>3. CASE n = 0
    <3> DEFINE g == [S \in SUBSET (1..n) |-> base]
    <3>1. \A S \in SUBSET (1..n) : S = {}
      BY <2>3
    <3>2. g \in [SUBSET (1..n) -> T] /\ Solves(g, n)
      BY <3>1
    <3> QED BY <2>2, <3>2
  <2>4. CASE n # 0
    <3>1. n \in 1..Len(list) /\ Solved(n - 1)
      <4> HIDE DEF Solved
      <4> QED BY <1>1, <2>1, <2>2, <2>4
    <3>2. PICK g \in [SUBSET (1..(n - 1)) -> T] : Solves(g, n - 1)
      BY <3>1
    <3> DEFINE h == [S \in SUBSET (1..n) |->
                        IF n \notin S THEN g[S] ELSE step[<<g[S \ {n}], list[n]>>]]
    <3>3. ASSUME NEW S \in SUBSET (1..n)
          PROVE  h[S] \in T /\ h[S] = IF S = {} THEN base ELSE step[<<h[S \ {Max(S)}], list[Max(S)]>>]
      <4>1. h[S] = IF n \notin S THEN g[S] ELSE step[<<g[S \ {n}], list[n]>>]
        OBVIOUS
      <4>2. CASE n \notin S
        <5>1. S \in SUBSET (1..(n - 1))
          BY <3>1, <4>2
        <5>2. h[S] = g[S] /\ g[S] \in T
          BY <4>1, <4>2, <5>1
        <5>3. g[S] = IF S = {} THEN base ELSE step[<<g[S \ {Max(S)}], list[Max(S)]>>]
          BY <3>2, <5>1
        <5>4. S \ {Max(S)} \in SUBSET (1..n) /\ n \notin S \ {Max(S)}
          BY <4>2
        <5>5. h[S \ {Max(S)}] = g[S \ {Max(S)}]
          <6> DEFINE R == S \ {Max(S)}
          <6>1. R \in SUBSET (1..n) /\ n \notin R
            BY <5>4
          <6> HIDE DEF R
          <6>2. h[R] = g[R]
            BY <6>1
          <6> QED BY <6>2 DEF R
        <5> HIDE DEF h
        <5> QED BY <5>2, <5>3, <5>5
      <4>3. CASE n \in S
        <5>1. Max(S) = n
          <6>1. S \in SUBSET Int /\ \A m \in S : m <= n
            BY <3>1
          <6>2. Max(S) \in S /\ \A m \in S : m <= Max(S)
            <7>1. n \in Nat
              BY <1>1, <3>1
            <7>2. IsFiniteSet(S)
              BY <7>1, FinitePlaces
            <7> QED BY <4>3, <6>1, <7>2, Greatest
          <6>3. Max(S) \in Int /\ n \in Int /\ n <= Max(S) /\ Max(S) <= n
            BY <3>1, <4>3, <6>1, <6>2
          <6> QED BY <6>3
        <5> DEFINE R == S \ {n}
        <5>2. R \in SUBSET (1..n) /\ n \notin R /\ R \in SUBSET (1..(n - 1))
          BY <3>1
        <5> HIDE DEF R
        <5>3. h[R] = g[R] /\ g[R] \in T
          BY <5>2
        <5>4. h[S] = step[<<g[R], list[n]>>]
          BY <4>1, <4>3 DEF R
        <5>5. list[n] \in X
          BY <1>1, <3>1
        <5> HIDE DEF h
        <5>6. h[S] \in T
          BY <5>3, <5>4, <5>5
        <5> QED BY <4>3, <5>1, <5>3, <5>4, <5>6 DEF R
      <4> QED BY <4>2, <4>3
    <3>4. h \in [SUBSET (1..n) -> T]
      <4>1. \A S \in SUBSET (1..n) : h[S] \in T
        BY <3>3
      <4> QED BY <4>1
    <3>5. Solves(h, n)
      <4> HIDE DEF h
      <4> QED BY <3>3
    <3> HIDE DEF h
    <3> QED BY <2>2, <3>4, <3>5
  <2> QED BY <2>3, <2>4
<1>3. Solved(Len(list))
  <2> HIDE DEF Solved
  <2> QED BY <1>1, <1>2
<1> QED BY <1>1, <1>3 DEF Follows

(* What each step carries over from one prefix of the list to the next,    *)
(* the whole fold has.                                                     *)
LEMMA FoldStays ==
    ASSUME NEW n \in Nat, NEW F, NEW h, h[{}] \in F[0],
           \A m \in 1..n : h[(1..m) \ {Max(1..m)}] \in F[m - 1] => h[1..m] \in F[m]
    PROVE  h[1..n] \in F[n]
<1> DEFINE Strays == {m \in 0..n : h[1..m] \notin F[m]}
<1>1. Strays = {}
  <2> SUFFICES ASSUME Strays # {} PROVE FALSE
    OBVIOUS
  <2> DEFINE m == Min(Strays)
  <2>1. m \in Strays /\ \A k \in Strays : m <= k
    <3>1. Strays \in SUBSET Nat
      OBVIOUS
    <3> HIDE DEF Strays
    <3> QED BY <3>1, Least
  <2> HIDE DEF m
  <2>2. m \in 0..n /\ h[1..m] \notin F[m]
    BY <2>1
  <2>3. m # 0
    <3>1. 1..0 = {}
      OBVIOUS
    <3> QED BY <2>2, <3>1
  <2>4. m - 1 \in 0..n /\ m - 1 \notin Strays
    BY <2>1, <2>2, <2>3
  <2>5. h[1..(m - 1)] \in F[m - 1]
    BY <2>4
  <2>6. m \in 1..n /\ (1..m) \ {Max(1..m)} = 1..(m - 1)
    BY <2>2, <2>3, Prefix
  <2> QED BY <2>2, <2>5, <2>6
<1> QED BY <1>1

-----------------------------------------------------------------------------
(* Statements on a table                                                   *)

Tables == {t \in UNION {[D -> Row] : D \in SUBSET RowIds} : Table(t) /\ Distinguished(t)}
Outcomes == Tables \cup {Refused}

LEMMA TableIn == \A t : t \in Tables <=> Table(t) /\ Distinguished(t)
BY DEF Tables, Table

LEMMA NoTable == Refused \notin Tables
<1>1. DOMAIN Refused = {NoRow}
  BY DEF Refused
<1> QED BY <1>1, TableIn, SheetRowsAssumption DEF Table

LEMMA NoRows == <<>> \in Tables
<1>1. DOMAIN <<>> = {} /\ <<>> \in [{} -> Row]
  OBVIOUS
<1>2. Table(<<>>) /\ Distinguished(<<>>)
  BY <1>1, FS_EmptySet DEF Table, Distinguished
<1> QED BY <1>2, TableIn

LEMMA RowsOut ==
    ASSUME NEW t \in Tables, NEW R
    PROVE  /\ Without(t, R) \in Tables /\ DOMAIN Without(t, R) = DOMAIN t \ R
           /\ \A q \in DOMAIN t \ R : Without(t, R)[q] = t[q]
<1> DEFINE u == Without(t, R)
<1>1. Table(t) /\ Distinguished(t)
  BY TableIn
<1>2. DOMAIN u = DOMAIN t \ R /\ \A q \in DOMAIN u : u[q] = t[q]
  BY DEF Without, Restrict
<1>3. u \in [DOMAIN u -> Row]
  BY <1>1 DEF Table, Without, Restrict
<1>4. IsFiniteSet(DOMAIN u)
  BY <1>1, <1>2, FS_Difference DEF Table
<1> HIDE DEF u
<1>5. Table(u) /\ Distinguished(u)
  BY <1>1, <1>2, <1>3, <1>4 DEF Table, Distinguished
<1> QED BY <1>2, <1>5, TableIn DEF u

(* No other row is at the place of this one.                               *)
Placed(t, r, row) ==
    \A q \in DOMAIN t \ {r} : t[q].sheet # row.sheet \/ t[q].position # row.position

LEMMA RowIn ==
    ASSUME NEW t \in Tables, NEW r \in RowIds, NEW row \in Row, Placed(t, r, row)
    PROVE  /\ Inserting(t, r, row) \in Tables /\ DOMAIN Inserting(t, r, row) = DOMAIN t \cup {r}
           /\ Inserting(t, r, row)[r] = row
           /\ \A q \in DOMAIN t \ {r} : Inserting(t, r, row)[q] = t[q]
<1> DEFINE u == Inserting(t, r, row)
<1>1. Table(t) /\ Distinguished(t)
  BY TableIn
<1>2. /\ DOMAIN u = DOMAIN t \cup {r} /\ u[r] = row
      /\ \A q \in DOMAIN t \ {r} : u[q] = t[q]
  BY DEF Inserting
<1>3. u \in [DOMAIN u -> Row]
  BY <1>1 DEF Table, Inserting
<1>4. IsFiniteSet(DOMAIN u)
  BY <1>1, <1>2, FS_AddElement DEF Table
<1> HIDE DEF u
<1>5. Table(u) /\ Distinguished(u)
  BY <1>1, <1>2, <1>3, <1>4 DEF Table, Distinguished, Placed
<1> QED BY <1>2, <1>5, TableIn DEF u

LEMMA RowFields ==
    ASSUME NEW t \in Tables, NEW r \in DOMAIN t
    PROVE  /\ t[r] \in Row /\ r \in RowIds /\ t[r].sheet \in Sheets /\ t[r].position \in Nat
           /\ t[r].shown \in Shown /\ t[r].record \in Range(Lookup) \cup {NoRecord}
           /\ t \in [DOMAIN t -> Row]
<1>1. t[r] \in Row /\ r \in RowIds /\ t \in [DOMAIN t -> Row]
  BY TableIn DEF Table
<1> QED BY <1>1 DEF Row

(* upsert_sheet_row_with_mode writes its row or is refused: the row leaves *)
(* its old place and whichever row had the new one goes.                   *)
RecordKept(t, x) == IF x.row \in DOMAIN t THEN RecordAfter(t, x) ELSE NoRecord
Wrote(t, s, x, record, u) ==
    /\ u \in Tables
    /\ x.row \in DOMAIN t => t[x.row].sheet = s
    /\ DOMAIN u = (DOMAIN t \ {q \in RowsOf(t, s) : t[q].position = x.position}) \cup {x.row}
    /\ u[x.row] = [sheet |-> s, position |-> x.position, shown |-> x.shown,
                   record |-> record]
    /\ \A q \in DOMAIN u \ {x.row} : u[q] = t[q]

LEMMA UpsertedTable ==
    ASSUME NEW t \in Tables, NEW s \in Sheets, NEW x, x.row \in RowIds, x.position \in Nat,
           x.shown \in Shown, Upserted(t, s, x) # Refused
    PROVE  Wrote(t, s, x, RecordKept(t, x), Upserted(t, s, x))
<1> DEFINE others == {r \in RowsOf(t, s) \ {x.row} : t[r].position = x.position}
           row(record) == [sheet |-> s, position |-> x.position, shown |-> x.shown,
                           record |-> record]
           record == IF x.row \in DOMAIN t THEN RecordAfter(t, x) ELSE NoRecord
           new == row(record)
           u == Without(t, others)
           after == Inserting(u, x.row, new)
<1>1. /\ u \in Tables /\ DOMAIN u = DOMAIN t \ others
      /\ \A q \in DOMAIN t \ others : u[q] = t[q]
  BY RowsOut
<1>2. \A q \in DOMAIN u \ {x.row} : u[q].sheet # s \/ u[q].position # x.position
  BY <1>1 DEF RowsOf
<1>3. x.row \notin others
  OBVIOUS
<1>4. record \in {NoRecord, Lookup[x.shown]} /\ record \in Range(Lookup) \cup {NoRecord}
  <2>1. Lookup[x.shown] \in Range(Lookup)
    BY DEF Shown, Range
  <2>2. CASE x.row \in DOMAIN t
    <3>1. t[x.row].record \in {NoRecord, Lookup[t[x.row].shown]}
      <4>1. t[x.row] \in Row
        BY <2>2, RowFields
      <4> QED BY <4>1 DEF Row
    <3> QED BY <2>1, <2>2, <3>1 DEF RecordAfter
  <2> QED BY <2>1, <2>2
<1>5. x.row \in DOMAIN t => t[x.row].sheet = s
  BY DEF Upserted
<1>6. Upserted(t, s, x) = after
  <2>1. CASE x.row \notin DOMAIN t
    BY <2>1 DEF Upserted
  <2>2. CASE x.row \in DOMAIN t
    <3>1. Upserted(t, s, x) = [u EXCEPT ![x.row] = new]
      BY <2>2, <1>5 DEF Upserted
    <3>2. x.row \in DOMAIN u /\ u \in [DOMAIN u -> Row]
      BY <1>1, <1>3, <2>2, TableIn DEF Table
    <3> HIDE DEF new, u
    <3>3. [u EXCEPT ![x.row] = new] = after
      BY <3>2 DEF Inserting
    <3> QED BY <3>1, <3>3
  <2> QED BY <2>1, <2>2
<1> HIDE DEF u, record
<1>7. new \in Row /\ new.sheet = s /\ new.position = x.position
  BY <1>4 DEF Row
<1> DEFINE r == x.row
<1>8. r \in RowIds
  OBVIOUS
<1>9. Placed(u, r, new)
  BY <1>2, <1>7 DEF Placed
<1> HIDE DEF new, others
<1>10. /\ after \in Tables /\ DOMAIN after = DOMAIN u \cup {x.row} /\ after[x.row] = new
       /\ \A q \in DOMAIN u \ {x.row} : after[q] = u[q]
  <2> HIDE DEF r
  <2>1. /\ Inserting(u, r, new) \in Tables /\ DOMAIN Inserting(u, r, new) = DOMAIN u \cup {r}
        /\ Inserting(u, r, new)[r] = new
        /\ \A q \in DOMAIN u \ {r} : Inserting(u, r, new)[q] = u[q]
    BY <1>1, <1>7, <1>8, <1>9, RowIn
  <2> QED BY <2>1 DEF r
<1> HIDE DEF after
<1>11. DOMAIN after = (DOMAIN t \ {q \in RowsOf(t, s) : t[q].position = x.position}) \cup {x.row}
  BY <1>1, <1>10 DEF others
<1> QED BY <1>1, <1>5, <1>6, <1>10, <1>11 DEF Wrote, RecordKept, new, record

(* The places of a sheet have an end.                                      *)
LEMMA NextPlace ==
    ASSUME NEW t \in Tables, NEW s
    PROVE  /\ NextPosition(t, s) \in Nat
           /\ \A r \in RowsOf(t, s) : t[r].position < NextPosition(t, s)
<1> DEFINE R == RowsOf(t, s)
           places == {t[r].position : r \in R}
           f == [r \in R |-> t[r].position]
<1>1. R \subseteq DOMAIN t /\ \A r \in R : t[r].position \in Nat
  BY RowFields DEF RowsOf
<1>2. IsFiniteSet(R)
  BY <1>1, TableIn, FS_Subset DEF Table
<1>3. IsFiniteSet(places)
  <2>1. f \in Surjection(R, places)
    BY DEF Surjection
  <2> HIDE DEF f, places, R
  <2> QED BY <1>2, <2>1, FS_Surjection
<1> DEFINE P == {-1} \cup places
<1>4. IsFiniteSet(P) /\ P \in SUBSET Int /\ P # {}
  <2>1. places \subseteq Int
    BY <1>1
  <2> HIDE DEF places
  <2> QED BY <1>3, <2>1, FS_AddElement
<1>5. Max(P) \in P /\ \A n \in P : n <= Max(P)
  <2> HIDE DEF P
  <2> QED BY <1>4, Greatest
<1>6. -1 \in P /\ \A r \in R : t[r].position \in P
  OBVIOUS
<1>7. NextPosition(t, s) = 1 + Max(P)
  BY DEF NextPosition
<1> HIDE DEF P, R
<1>8. Max(P) \in Int /\ -1 <= Max(P)
  BY <1>4, <1>5, <1>6
<1> QED BY <1>1, <1>5, <1>6, <1>7, <1>8 DEF R

(* A name that no row has is found among one more than there are rows.     *)
LEMMA FreshId ==
    ASSUME NEW t \in Tables, NEW s \in Sheets, NEW p \in Nat
    PROVE  /\ GeneratedId(t, s, p) \in RowIds /\ GeneratedId(t, s, p) \notin DOMAIN t
           /\ GeneratedId(t, s, p)[2] = p
<1> DEFINE n == Cardinality(DOMAIN t)
           free == {k \in 0..n : <<s, p, k>> \notin DOMAIN t}
<1>1. IsFiniteSet(DOMAIN t)
  BY TableIn DEF Table
<1>2. n \in Nat
  BY <1>1, FS_CardinalityType
<1>3. free # {}
  <2> SUFFICES ASSUME free = {} PROVE FALSE
    OBVIOUS
  <2> DEFINE f == [k \in 0..n |-> <<s, p, k>>]
  <2>1. f \in [0..n -> DOMAIN t]
    OBVIOUS
  <2>2. IsFiniteSet(0..n) /\ n < Cardinality(0..n)
    <3> HIDE DEF n
    <3> QED BY <1>2, FS_Interval
  <2>3. \A k, m \in 0..n : f[k] = f[m] => k = m
    OBVIOUS
  <2> DEFINE I == 0..n
             D == DOMAIN t
  <2>4. f \in [I -> D] /\ IsFiniteSet(I) /\ IsFiniteSet(D) /\ Cardinality(D) < Cardinality(I)
    BY <1>1, <2>1, <2>2
  <2>5. \A k, m \in I : f[k] = f[m] => k = m
    BY <2>3
  <2> HIDE DEF f, I, D
  <2> QED BY <2>4, <2>5, FS_PigeonHole
<1>4. Min(free) \in free
  <2>1. free \in SUBSET Nat
    OBVIOUS
  <2> HIDE DEF free
  <2> QED BY <1>3, <2>1, Least
<1>5. GeneratedId(t, s, p) = <<s, p, Min(free)>>
  BY DEF GeneratedId
<1>6. Min(free) \in Nat /\ <<s, p, Min(free)>> \notin DOMAIN t
  BY <1>4
<1> HIDE DEF free
<1> QED BY <1>5, <1>6 DEF RowIds, GeneratedRows

(* transfer_sheet_rows copies a row to the end of the target, and refuses  *)
(* what the indexes refuse.                                                *)
LEMMA CopiedTable ==
    ASSUME NEW t \in Tables, NEW s \in Sheets, NEW target \in Sheets, NEW r
    PROVE  Copied(s, target, t, r) \in Outcomes
<1> DEFINE position == NextPosition(t, target)
           id == GeneratedId(t, target, position)
           row == [t[r] EXCEPT !.sheet = target, !.position = position]
<1>1. CASE r \notin RowsOf(t, s)
  BY <1>1 DEF Copied, Outcomes
<1>2. CASE r \in RowsOf(t, s)
  <2>1. position \in Nat /\ t[r] \in Row
    BY <1>2, NextPlace, RowFields DEF RowsOf
  <2>2. id \in RowIds
    <3> HIDE DEF position
    <3> QED BY <2>1, FreshId
  <2>3. Copied(s, target, t, r) = Inserted(t, id, row)
    BY <1>2 DEF Copied
  <2>4. row \in Row
    <3> HIDE DEF position
    <3> QED BY <2>1 DEF Row
  <2> HIDE DEF id, row
  <2>5. CASE id \in DOMAIN t \/ \E q \in RowsOf(t, row.sheet) : t[q].position = row.position
    BY <2>3, <2>5 DEF Inserted, Outcomes
  <2>6. CASE ~(id \in DOMAIN t \/ \E q \in RowsOf(t, row.sheet) : t[q].position = row.position)
    <3>1. Placed(t, id, row)
      BY <2>6 DEF Placed, RowsOf
    <3>2. Inserted(t, id, row) = Inserting(t, id, row)
      BY <2>6 DEF Inserted
    <3>3. Inserting(t, id, row) \in Tables
      BY <2>2, <2>4, <3>1, RowIn
    <3> QED BY <2>3, <3>2, <3>3 DEF Outcomes
  <2> QED BY <2>5, <2>6
<1> QED BY <1>1, <1>2

(* Rows at different places have different numbers of rows before them.    *)
LEMMA Ranks ==
    ASSUME NEW t \in Tables, NEW s
    PROVE  /\ RowsOf(t, s) \subseteq DOMAIN t /\ IsFiniteSet(RowsOf(t, s))
           /\ \A r \in DOMAIN t : /\ Cardinality(Before(t, s, r)) \in Nat
                                 /\ Cardinality(Before(t, s, r)) <= Cardinality(RowsOf(t, s))
           /\ \A q, r \in RowsOf(t, s) : t[q].position < t[r].position =>
                 Cardinality(Before(t, s, q)) < Cardinality(Before(t, s, r))
           /\ \A r \in RowsOf(t, s) : Cardinality(Before(t, s, r)) < Cardinality(RowsOf(t, s))
<1> DEFINE R == RowsOf(t, s)
           B(r) == Before(t, s, r)
<1>1. R \in SUBSET DOMAIN t /\ \A x \in R : t[x].position \in Nat
  BY RowFields DEF RowsOf
<1>2. IsFiniteSet(R)
  BY <1>1, TableIn, FS_Subset DEF Table
<1>3. \A r : B(r) \in SUBSET R
  BY DEF Before
<1>4. \A q, r \in R : t[q].position < t[r].position => B(q) \in SUBSET B(r) /\ q \in B(r)
  BY <1>1 DEF Before
<1>5. \A r \in R : r \notin B(r)
  BY <1>1 DEF Before
<1> HIDE DEF R, B
<1>6. \A r : IsFiniteSet(B(r)) /\ Cardinality(B(r)) \in Nat /\ Cardinality(B(r)) <= Cardinality(R)
  BY <1>2, <1>3, FS_Subset, FS_CardinalityType
<1>7. \A r \in R : Cardinality(B(r)) < Cardinality(R)
  <2> SUFFICES ASSUME NEW r \in R PROVE Cardinality(B(r)) < Cardinality(R)
    OBVIOUS
  <2>1. B(r) # R
    BY <1>5
  <2>2. Cardinality(B(r)) # Cardinality(R) /\ Cardinality(R) \in Nat
    BY <1>2, <1>3, <2>1, FS_Subset, FS_CardinalityType
  <2> QED BY <1>6, <2>2
<1>8. \A q, r \in R : t[q].position < t[r].position => Cardinality(B(q)) < Cardinality(B(r))
  <2> SUFFICES ASSUME NEW q \in R, NEW r \in R, t[q].position < t[r].position
               PROVE  Cardinality(B(q)) < Cardinality(B(r))
    OBVIOUS
  <2>1. B(q) \in SUBSET B(r) /\ B(q) # B(r)
    BY <1>4, <1>5
  <2>2. Cardinality(B(q)) <= Cardinality(B(r)) /\ Cardinality(B(q)) # Cardinality(B(r))
    BY <1>6, <2>1, FS_Subset
  <2> QED BY <1>6, <2>2
<1> QED BY <1>1, <1>2, <1>6, <1>7, <1>8 DEF R, B

Place(t, s, r) == Cardinality(Before(t, s, r)) + 1

(* The rows of a sheet in their order: each is at its place.               *)
LEMMA Order ==
    ASSUME NEW t \in Tables, NEW s
    PROVE  /\ Cardinality(RowsOf(t, s)) \in Nat /\ IsFiniteSet(RowsOf(t, s))
           /\ DOMAIN InOrder(t, s) = 1..Cardinality(RowsOf(t, s))
           /\ \A k \in DOMAIN InOrder(t, s) :
                 /\ InOrder(t, s)[k] \in RowsOf(t, s) /\ Place(t, s, InOrder(t, s)[k]) = k
           /\ \A r \in RowsOf(t, s) :
                 Place(t, s, r) \in DOMAIN InOrder(t, s) /\ InOrder(t, s)[Place(t, s, r)] = r
           /\ \A q, r \in RowsOf(t, s) :
                 Place(t, s, q) < Place(t, s, r) <=> t[q].position < t[r].position
<1> DEFINE R == RowsOf(t, s)
           n == Cardinality(R)
           rank(r) == Place(t, s, r)
           f == [r \in R |-> rank(r)]
<1>1. n \in Nat /\ IsFiniteSet(R) /\ IsFiniteSet(1..n) /\ Cardinality(1..n) = n
  <2>1. IsFiniteSet(R) /\ n \in Nat
    BY Ranks, FS_CardinalityType
  <2> HIDE DEF n, R
  <2> QED BY <2>1, FS_Interval
<1>2. \A r \in R : rank(r) \in 1..n
  BY <1>1, Ranks DEF Place
<1>3. \A r \in R : r \in DOMAIN t /\ t[r].sheet = s /\ t[r].position \in Nat
  BY RowFields DEF RowsOf
<1>4. \A q, r \in R : t[q].position = t[r].position => q = r
  BY <1>3, TableIn DEF Distinguished
<1>5. \A q, r \in R : t[q].position < t[r].position => rank(q) < rank(r)
  BY <1>3, Ranks DEF Place
<1> HIDE DEF rank, n, R
<1>6. \A q, r \in R : rank(q) < rank(r) <=> t[q].position < t[r].position
  BY <1>2, <1>3, <1>4, <1>5
<1>7. \A q, r \in R : rank(q) = rank(r) => q = r
  BY <1>2, <1>3, <1>4, <1>5
<1>8. f \in Injection(R, 1..n)
  BY <1>2, <1>7 DEF Injection, IsInjective
<1>9. f \in Surjection(R, 1..n)
  <2> DEFINE I == 1..n
  <2>1. Cardinality(R) = Cardinality(I) /\ IsFiniteSet(I) /\ f \in Injection(R, I)
    BY <1>1, <1>8 DEF n
  <2> HIDE DEF f, I
  <2>2. f \in Surjection(R, I)
    BY <2>1, FS_Injection
  <2> QED BY <2>2 DEF I
<1>10. \A k \in 1..n : \E r \in R : rank(r) = k
  BY <1>9 DEF Surjection
<1>11. InOrder(t, s) = [k \in 1..n |-> CHOOSE r \in R : Cardinality(Before(t, s, r)) = k - 1]
  BY DEF InOrder, n, R
<1>12. ASSUME NEW k \in 1..n
       PROVE  InOrder(t, s)[k] \in R /\ rank(InOrder(t, s)[k]) = k
  <2>1. \A r \in R : rank(r) = k <=> Cardinality(Before(t, s, r)) = k - 1
    <3>1. \A r \in R : Cardinality(Before(t, s, r)) \in Nat
      BY Ranks DEF R
    <3> QED BY <1>1, <3>1 DEF rank, Place
  <2>2. \E r \in R : Cardinality(Before(t, s, r)) = k - 1
    BY <1>10, <2>1
  <2>3. InOrder(t, s)[k] = CHOOSE r \in R : Cardinality(Before(t, s, r)) = k - 1
    BY <1>11
  <2> DEFINE C == CHOOSE r \in R : Cardinality(Before(t, s, r)) = k - 1
  <2>4. C \in R /\ Cardinality(Before(t, s, C)) = k - 1
    BY <2>2
  <2> HIDE DEF C
  <2>5. InOrder(t, s)[k] = C
    BY <2>3 DEF C
  <2> QED BY <2>1, <2>4, <2>5
<1>13. DOMAIN InOrder(t, s) = 1..n
  BY <1>11
<1>14. ASSUME NEW r \in R
       PROVE  rank(r) \in 1..n /\ InOrder(t, s)[rank(r)] = r
  BY <1>2, <1>7, <1>12
<1> QED BY <1>1, <1>6, <1>12, <1>13, <1>14 DEF rank, n, R

(* The rows of a sheet in their order are a list of them.                  *)
LEMMA OrderedRows ==
    ASSUME NEW t \in Tables, NEW s
    PROVE  InOrder(t, s) \in Seq(RowsOf(t, s))
<1>1. InOrder(t, s) = [k \in DOMAIN InOrder(t, s) |-> InOrder(t, s)[k]]
  BY DEF InOrder
<1> QED BY <1>1, Order

(* compact_sheet_row_positions gives each row of the sheet the number of   *)
(* rows before it: rows at different places stay at different places.      *)
LEMMA CompactedTable ==
    ASSUME NEW t \in Tables, NEW s \in Sheets
    PROVE  Compacted(t, s) \in Tables
<1> DEFINE place(r) == Cardinality(Before(t, s, r))
           u == Compacted(t, s)
<1>1. Table(t) /\ Distinguished(t) /\ t \in [DOMAIN t -> Row]
  BY TableIn DEF Table
<1>2. \A r \in DOMAIN t : place(r) \in Nat
  BY Ranks
<1>3. \A q, r \in RowsOf(t, s) : t[q].position < t[r].position => place(q) < place(r)
  BY Ranks
<1>4. RowsOf(t, s) \subseteq DOMAIN t
  BY DEF RowsOf
<1>5. /\ DOMAIN u = DOMAIN t
      /\ \A r \in DOMAIN t : u[r] = IF t[r].sheet = s THEN [t[r] EXCEPT !.position = place(r)] ELSE t[r]
  BY DEF Compacted
<1> HIDE DEF place
<1>6. \A r \in DOMAIN t : u[r] \in Row /\ u[r].sheet = t[r].sheet
                          /\ u[r].position = IF t[r].sheet = s THEN place(r) ELSE t[r].position
  <2> SUFFICES ASSUME NEW r \in DOMAIN t
               PROVE  u[r] \in Row /\ u[r].sheet = t[r].sheet
                      /\ u[r].position = IF t[r].sheet = s THEN place(r) ELSE t[r].position
    OBVIOUS
  <2>1. t[r] \in Row /\ place(r) \in Nat
    BY <1>1, <1>2
  <2> HIDE DEF u
  <2> QED BY <1>5, <2>1 DEF Row
<1>7. u = [r \in DOMAIN u |-> u[r]]
  BY DEF Compacted
<1> HIDE DEF u
<1>8. Table(u)
  <2>1. u \in [DOMAIN u -> Row]
    BY <1>5, <1>6, <1>7
  <2> QED BY <1>1, <1>5, <2>1 DEF Table
<1>9. Distinguished(u)
  <2> SUFFICES ASSUME NEW q \in DOMAIN t, NEW r \in DOMAIN t, u[q].sheet = u[r].sheet,
                      u[q].position = u[r].position
               PROVE  q = r
    BY <1>5 DEF Distinguished
  <2>1. t[q].sheet = t[r].sheet /\ t[q].position \in Nat /\ t[r].position \in Nat
    BY <1>6, RowFields
  <2>2. CASE t[q].sheet # s
    BY <1>1, <1>6, <2>1, <2>2 DEF Distinguished
  <2>3. CASE t[q].sheet = s
    <3>1. q \in RowsOf(t, s) /\ r \in RowsOf(t, s) /\ place(q) = place(r)
      BY <1>6, <2>1, <2>3 DEF RowsOf
    <3>2. ~(place(q) < place(r)) /\ ~(place(r) < place(q))
      BY <1>2, <1>4, <3>1
    <3>3. ~(t[q].position < t[r].position) /\ ~(t[r].position < t[q].position)
      BY <1>3, <3>1, <3>2
    <3>4. t[q].position = t[r].position
      BY <2>1, <3>3
    <3> QED BY <1>1, <2>1, <3>4 DEF Distinguished
  <2> QED BY <2>2, <2>3
<1> QED BY <1>8, <1>9, TableIn DEF u

(* The compaction writes one row after another, from the first place to    *)
(* the last: no statement of it meets a row of the sheet, neither those    *)
(* that moved nor those that wait (compact_sheet_row_positions, under      *)
(* UNIQUE(sheet_id, position)).                                            *)
THEOREM CompactionMeetsNone ==
    ASSUME NEW t \in Tables, NEW s \in Sheets,
           NEW q \in RowsOf(t, s), NEW r \in RowsOf(t, s), q # r
    PROVE  Compacted(t, s)[r].position #
              IF t[q].position < t[r].position THEN Compacted(t, s)[q].position
              ELSE t[q].position
<1> DEFINE B == Before(t, s, r)
           p == t[r].position
           u == Compacted(t, s)
<1>1. /\ q \in DOMAIN t /\ r \in DOMAIN t /\ t[q].sheet = s /\ t[r].sheet = s
      /\ t[q].position \in Nat /\ p \in Nat /\ t[q].position # p
  <2>1. q \in DOMAIN t /\ r \in DOMAIN t /\ t[q].sheet = s /\ t[r].sheet = s
    BY DEF RowsOf
  <2> QED BY <2>1, RowFields, TableIn DEF Distinguished
<1>2. Cardinality(B) <= p /\ Cardinality(B) \in Nat
  <2> DEFINE f == [x \in B |-> t[x].position]
             P == {n \in Nat : n < p}
  <2>1. \A x \in B : t[x].position \in Nat /\ t[x].position < p /\ x \in DOMAIN t /\ t[x].sheet = s
    BY RowFields DEF Before, RowsOf
  <2>2. \A x, y \in B : f[x] = f[y] => x = y
    BY <2>1, TableIn DEF Distinguished
  <2>3. P = 0..(p - 1) /\ IsFiniteSet(P) /\ Cardinality(P) = p
    <3>0. p \in Nat
      BY <1>1
    <3> HIDE DEF p
    <3>1. P = 0..(p - 1)
      BY <3>0
    <3>2. IsFiniteSet(0..(p - 1)) /\ Cardinality(0..(p - 1)) = p
      BY <3>0, FS_Interval
    <3> QED BY <3>1, <3>2
  <2>4. f \in Injection(B, P)
    BY <2>1, <2>2 DEF Injection, IsInjective
  <2> HIDE DEF f, B, P
  <2>5. Cardinality(B) <= Cardinality(P)
    BY <2>3, <2>4, FS_Injection
  <2>6. Cardinality(B) \in Nat
    BY <1>1, Ranks DEF B
  <2> QED BY <2>3, <2>5, <2>6
<1>3. u[r].position = Cardinality(B) /\ u[q].position = Cardinality(Before(t, s, q))
  <2>1. t[q] \in Row /\ t[r] \in Row
    BY <1>1, RowFields
  <2>2. /\ u[q] = [t[q] EXCEPT !.position = Cardinality(Before(t, s, q))]
        /\ u[r] = [t[r] EXCEPT !.position = Cardinality(B)]
    BY <1>1 DEF Compacted
  <2> HIDE DEF u, B
  <2> QED BY <2>1, <2>2 DEF Row
<1>4. Cardinality(Before(t, s, q)) \in Nat
      /\ (t[q].position < p => Cardinality(Before(t, s, q)) < Cardinality(B))
  BY <1>1, Ranks
<1> HIDE DEF B, u, p
<1>5. CASE t[q].position < p
  BY <1>2, <1>3, <1>4, <1>5 DEF u, p
<1>6. CASE ~(t[q].position < p)
  BY <1>1, <1>2, <1>3, <1>6 DEF u, p
<1> QED BY <1>5, <1>6

(* A row gets a record; nothing else of the table changes.                 *)
LEMMA RecordedTable ==
    ASSUME NEW t \in Tables, NEW r \in DOMAIN t, NEW x \in Shown, t[r].shown = x
    PROVE  LET u == [t EXCEPT ![r].record = Lookup[x]] IN
           /\ u \in Tables /\ DOMAIN u = DOMAIN t
           /\ u[r] = [t[r] EXCEPT !.record = Lookup[x]]
           /\ \A q \in DOMAIN t \ {r} : u[q] = t[q]
<1> DEFINE row == [t[r] EXCEPT !.record = Lookup[x]]
           u == [t EXCEPT ![r] = row]
<1>1. Table(t) /\ Distinguished(t) /\ t \in [DOMAIN t -> Row] /\ t[r] \in Row
  BY TableIn DEF Table
<1>2. Lookup[x] \in Range(Lookup)
  BY DEF Shown, Range
<1>3. row \in Row /\ row.sheet = t[r].sheet /\ row.position = t[r].position
  BY <1>1, <1>2 DEF Row
<1> HIDE DEF row
<1>4. /\ u \in [DOMAIN t -> Row] /\ DOMAIN u = DOMAIN t /\ u[r] = row
      /\ \A q \in DOMAIN t \ {r} : u[q] = t[q]
  BY <1>1, <1>3
<1> HIDE DEF u
<1>5. Table(u)
  BY <1>1, <1>4 DEF Table
<1>6. \A q \in DOMAIN t : u[q].sheet = t[q].sheet /\ u[q].position = t[q].position
  BY <1>3, <1>4
<1>7. Distinguished(u)
  BY <1>1, <1>4, <1>6 DEF Distinguished
<1>8. u \in Tables
  BY <1>5, <1>7, TableIn
<1>9. u = [t EXCEPT ![r].record = Lookup[x]]
  BY DEF u, row
<1> QED BY <1>4, <1>8, <1>9 DEF row

(* A line of a document is written as an edit is, and gets its record.     *)
LineRecord(t, x) == IF x.shipment THEN Lookup[x.shown] ELSE RecordKept(t, x)

LEMMA RestoredTable ==
    ASSUME NEW t \in Tables, NEW s \in Sheets, NEW x \in Lines, RestoredRow(s, t, x) # Refused
    PROVE  Wrote(t, s, x, LineRecord(t, x), RestoredRow(s, t, x))
<1> DEFINE written == Upserted(t, s, x)
           row == x.row
           shown == x.shown
<1>1. row \in RowIds /\ x.position \in Nat /\ shown \in Shown
  BY DEF Lines
<1>2. written # Refused
  BY DEF RestoredRow
<1>3. /\ Wrote(t, s, x, RecordKept(t, x), written) /\ written \in Tables /\ row \in DOMAIN written
      /\ written[row].shown = shown
  <2>1. Wrote(t, s, x, RecordKept(t, x), written)
    BY <1>1, <1>2, UpsertedTable
  <2> QED BY <2>1 DEF Wrote
<1>4. CASE ~x.shipment
  <2>1. RestoredRow(s, t, x) = written
    BY <1>4 DEF RestoredRow
  <2> HIDE DEF written
  <2> QED BY <1>3, <1>4, <2>1 DEF LineRecord, Wrote
<1>5. CASE x.shipment
  <2> DEFINE u == [written EXCEPT ![row].record = Lookup[shown]]
  <2>1. RestoredRow(s, t, x) = u
    BY <1>2, <1>5 DEF RestoredRow
  <2> HIDE DEF written, row, shown
  <2>2. /\ u \in Tables /\ DOMAIN u = DOMAIN written
        /\ u[row] = [written[row] EXCEPT !.record = Lookup[shown]]
        /\ \A q \in DOMAIN written \ {row} : u[q] = written[q]
    BY <1>1, <1>3, RecordedTable
  <2> HIDE DEF u
  <2> QED BY <1>3, <1>5, <2>1, <2>2 DEF LineRecord, Wrote, row, shown
<1> QED BY <1>4, <1>5

-----------------------------------------------------------------------------
(* Commands on the sheets                                                  *)

LEMMA EditedTable ==
    ASSUME NEW s \in Sheets, NEW t \in Outcomes, NEW list \in Seq(Inputs(RowIds)),
           NEW F, t \in F[0],
           \A m \in 1..Len(list) :
              /\ Refused \in F[m - 1] => Refused \in F[m]
              /\ \A u \in Tables : u \in F[m - 1] => Upserted(u, s, list[m]) \in F[m]
    PROVE  Edited(s, t, list) \in Outcomes /\ Edited(s, t, list) \in F[Len(list)]
<1> DEFINE Do(u, x) == IF u = Refused THEN u ELSE Upserted(u, s, x)
           Folds(g) == g = [S \in SUBSET DOMAIN list |->
                               IF S = {} THEN t ELSE Do(g[S \ {Max(S)}], list[Max(S)])]
           step == [p \in Outcomes \X Inputs(RowIds) |-> Do(p[1], p[2])]
<1>1. /\ Len(list) \in Nat /\ DOMAIN list = 1..Len(list)
      /\ \A n \in DOMAIN list : list[n] \in Inputs(RowIds)
      /\ t \in Outcomes /\ t \in F[0]
  OBVIOUS
<1>2. ASSUME NEW u \in Outcomes, NEW x \in Inputs(RowIds)
      PROVE  Do(u, x) \in Outcomes
  <2>1. x.row \in RowIds /\ x.position \in Nat /\ x.shown \in Shown
    BY DEF Inputs
  <2> QED BY <2>1, UpsertedTable DEF Outcomes, Wrote
<1> HIDE DEF Do
<1>3. step \in [Outcomes \X Inputs(RowIds) -> Outcomes]
  BY <1>2
<1>4. \A u \in Outcomes, x \in Inputs(RowIds) : step[<<u, x>>] = Do(u, x)
  OBVIOUS
<1> HIDE DEF step
<1>5. \E g : Folds(g)
  <2>1. PICK g \in [SUBSET DOMAIN list -> Outcomes] : Follows(g, step, t, list)
    BY <1>1, <1>3, FoldExists
  <2>2. ASSUME NEW S \in SUBSET DOMAIN list, S # {}
        PROVE  g[S] = Do(g[S \ {Max(S)}], list[Max(S)])
    <3>1. Max(S) \in DOMAIN list /\ S \ {Max(S)} \in SUBSET DOMAIN list
      BY <1>1, <2>2, LastPlace
    <3>2. g[S] = step[<<g[S \ {Max(S)}], list[Max(S)]>>]
      BY <2>1, <2>2 DEF Follows
    <3> QED BY <1>1, <1>4, <3>1, <3>2
  <2>3. g[{}] = t
    BY <2>1 DEF Follows
  <2>4. g = [S \in SUBSET DOMAIN list |->
                IF S = {} THEN t ELSE Do(g[S \ {Max(S)}], list[Max(S)])]
    BY <2>2, <2>3
  <2> QED BY <2>4
<1> DEFINE h == CHOOSE g : Folds(g)
<1>6. Edited(s, t, list) = h[DOMAIN list]
  BY DEF Edited, Statements, FoldLeft, MapThenFoldSet, Do
<1>7. Folds(h)
  <2> HIDE DEF Folds
  <2> QED BY <1>5
<1> HIDE DEF h
<1> DEFINE G == [m \in 0..Len(list) |-> Outcomes \cap F[m]]
<1>8. h[{}] \in G[0]
  BY <1>1, <1>7
<1>9. ASSUME NEW m \in 1..Len(list), h[(1..m) \ {Max(1..m)}] \in G[m - 1]
      PROVE  h[1..m] \in G[m]
  <2> DEFINE u == h[(1..m) \ {Max(1..m)}]
  <2>1. Max(1..m) = m /\ 1..m # {} /\ 1..m \in SUBSET DOMAIN list
    BY <1>1, Prefix
  <2>2. h[1..m] = Do(u, list[m])
    BY <1>7, <2>1
  <2>3. u \in Outcomes /\ u \in F[m - 1]
    BY <1>1, <1>9
  <2> HIDE DEF u
  <2>4. Do(u, list[m]) \in Outcomes /\ Do(u, list[m]) \in F[m]
    <3>1. list[m] \in Inputs(RowIds)
      BY <1>1
    <3> QED BY <1>2, <2>3, <3>1 DEF Do, Outcomes
  <2> QED BY <1>1, <2>2, <2>4
<1>10. h[1..Len(list)] \in G[Len(list)]
  <2> HIDE DEF G
  <2> QED BY <1>1, <1>8, <1>9, FoldStays
<1>11. h[DOMAIN list] \in Outcomes /\ h[DOMAIN list] \in F[Len(list)]
  BY <1>1, <1>10
<1> QED BY <1>6, <1>11, Zenon

LEMMA EditedOutcome ==
    ASSUME NEW s \in Sheets, NEW t \in Outcomes, NEW list \in Seq(Inputs(RowIds))
    PROVE  Edited(s, t, list) \in Outcomes
<1> DEFINE F == [m \in 0..Len(list) |-> Outcomes]
<1>1. Len(list) \in Nat /\ t \in F[0]
  OBVIOUS
<1>2. ASSUME NEW m \in 1..Len(list)
      PROVE  /\ Refused \in F[m - 1] => Refused \in F[m]
             /\ \A u \in Tables : u \in F[m - 1] => Upserted(u, s, list[m]) \in F[m]
  <2> DEFINE x == list[m]
  <2>1. x.row \in RowIds /\ x.position \in Nat /\ x.shown \in Shown /\ F[m] = Outcomes
    <3>1. x \in Inputs(RowIds)
      BY <1>1
    <3> QED BY <1>1, <3>1 DEF Inputs
  <2> HIDE DEF F, x
  <2>2. \A u \in Tables : Upserted(u, s, x) \in Outcomes
    BY <2>1, UpsertedTable DEF Outcomes, Wrote
  <2> QED BY <2>1, <2>2 DEF Outcomes, x
<1> HIDE DEF F
<1> QED BY <1>1, <1>2, EditedTable

Appending == [table : Outcomes, index : Nat]
LEMMA AppendedOne ==
    ASSUME NEW s \in Sheets, NEW start \in Nat, NEW acc \in Appending, NEW x \in Inputs(RowIds)
    PROVE  AppendOne(s, start, acc, x) \in Appending
<1> DEFINE new == [x EXCEPT !.position = start + acc.index]
<1>1. acc.table \in Outcomes /\ acc.index \in Nat
  BY DEF Appending
<1>2. new.row = x.row /\ new.row \in RowIds /\ new.position \in Nat /\ new.shown \in Shown
  BY <1>1 DEF Inputs
<1> HIDE DEF new
<1>3. CASE acc.table = Refused \/ x.row \in DOMAIN acc.table
  <2>1. AppendOne(s, start, acc, x) = [acc EXCEPT !.table = Refused]
    BY <1>3 DEF AppendOne
  <2> QED BY <2>1 DEF Appending, Outcomes
<1>4. CASE ~(acc.table = Refused \/ x.row \in DOMAIN acc.table)
  <2>1. AppendOne(s, start, acc, x) = [table |-> Upserted(acc.table, s, new), index |-> acc.index + 1]
    BY <1>4 DEF AppendOne, new
  <2>2. acc.table \in Tables
    BY <1>1, <1>4 DEF Outcomes
  <2>3. Upserted(acc.table, s, new) \in Outcomes
    BY <1>2, <2>2, UpsertedTable DEF Outcomes, Wrote
  <2> QED BY <1>1, <2>1, <2>3 DEF Appending
<1> QED BY <1>3, <1>4

LEMMA AppendedTable ==
    ASSUME NEW s \in Sheets, NEW t \in Outcomes, NEW start \in Nat, NEW list \in Seq(Inputs(RowIds)),
           NEW F, [table |-> t, index |-> 0] \in F[0],
           \A m \in 1..Len(list) : \A acc \in Appending :
              acc \in F[m - 1] => AppendOne(s, start, acc, list[m]) \in F[m]
    PROVE  /\ Appended(s, start, t, list) \in Appending
           /\ Appended(s, start, t, list) \in F[Len(list)]
<1> DEFINE first == [table |-> t, index |-> 0]
           Do(acc, x) == AppendOne(s, start, acc, x)
           Folds(g) == g = [S \in SUBSET DOMAIN list |->
                               IF S = {} THEN first ELSE Do(g[S \ {Max(S)}], list[Max(S)])]
           step == [p \in Appending \X Inputs(RowIds) |-> Do(p[1], p[2])]
<1>1. /\ Len(list) \in Nat /\ DOMAIN list = 1..Len(list)
      /\ \A n \in DOMAIN list : list[n] \in Inputs(RowIds)
      /\ first \in Appending /\ first \in F[0]
  BY DEF Appending
<1>2. ASSUME NEW acc \in Appending, NEW x \in Inputs(RowIds)
      PROVE  Do(acc, x) \in Appending
  BY AppendedOne
<1> HIDE DEF Do
<1>3. step \in [Appending \X Inputs(RowIds) -> Appending]
  BY <1>2
<1>4. \A u \in Appending, x \in Inputs(RowIds) : step[<<u, x>>] = Do(u, x)
  OBVIOUS
<1> HIDE DEF step
<1>5. \E g : Folds(g)
  <2>1. PICK g \in [SUBSET DOMAIN list -> Appending] : Follows(g, step, first, list)
    BY <1>1, <1>3, FoldExists
  <2>2. ASSUME NEW S \in SUBSET DOMAIN list, S # {}
        PROVE  g[S] = Do(g[S \ {Max(S)}], list[Max(S)])
    <3>1. Max(S) \in DOMAIN list /\ S \ {Max(S)} \in SUBSET DOMAIN list
      BY <1>1, <2>2, LastPlace
    <3>2. g[S] = step[<<g[S \ {Max(S)}], list[Max(S)]>>]
      BY <2>1, <2>2 DEF Follows
    <3> QED BY <1>1, <1>4, <3>1, <3>2
  <2>3. g[{}] = first
    BY <2>1 DEF Follows
  <2>4. g = [S \in SUBSET DOMAIN list |->
                IF S = {} THEN first ELSE Do(g[S \ {Max(S)}], list[Max(S)])]
    BY <2>2, <2>3
  <2> QED BY <2>4
<1> DEFINE h == CHOOSE g : Folds(g)
<1>6. Appended(s, start, t, list) = h[DOMAIN list]
  BY DEF Appended, FoldLeft, MapThenFoldSet, Do
<1>7. Folds(h)
  <2> HIDE DEF Folds
  <2> QED BY <1>5
<1> HIDE DEF h
<1> DEFINE G == [m \in 0..Len(list) |-> Appending \cap F[m]]
<1>8. h[{}] \in G[0]
  BY <1>1, <1>7
<1>9. ASSUME NEW m \in 1..Len(list), h[(1..m) \ {Max(1..m)}] \in G[m - 1]
      PROVE  h[1..m] \in G[m]
  <2> DEFINE u == h[(1..m) \ {Max(1..m)}]
  <2>1. Max(1..m) = m /\ 1..m # {} /\ 1..m \in SUBSET DOMAIN list
    BY <1>1, Prefix
  <2>2. h[1..m] = Do(u, list[m])
    BY <1>7, <2>1
  <2>3. u \in Appending /\ u \in F[m - 1]
    BY <1>1, <1>9
  <2> HIDE DEF u
  <2>4. Do(u, list[m]) \in Appending /\ Do(u, list[m]) \in F[m]
    <3>1. list[m] \in Inputs(RowIds)
      BY <1>1
    <3> QED BY <1>2, <2>3, <3>1 DEF Do
  <2> QED BY <1>1, <2>2, <2>4
<1>10. h[1..Len(list)] \in G[Len(list)]
  <2> HIDE DEF G
  <2> QED BY <1>1, <1>8, <1>9, FoldStays
<1>11. h[DOMAIN list] \in Appending /\ h[DOMAIN list] \in F[Len(list)]
  BY <1>1, <1>10
<1> QED BY <1>6, <1>11, Zenon

LEMMA AppendedOutcome ==
    ASSUME NEW s \in Sheets, NEW t \in Outcomes, NEW start \in Nat, NEW list \in Seq(Inputs(RowIds))
    PROVE  Appended(s, start, t, list) \in Appending
<1> DEFINE F == [m \in 0..Len(list) |-> Appending]
           first == [table |-> t, index |-> 0]
<1>1. Len(list) \in Nat /\ F[0] = Appending /\ first \in Appending
  <2>1. first \in Appending
    BY DEF Appending
  <2> HIDE DEF first
  <2> QED BY <2>1
<1>2. ASSUME NEW m \in 1..Len(list), NEW acc \in Appending, acc \in F[m - 1]
      PROVE  AppendOne(s, start, acc, list[m]) \in F[m]
  <2>1. list[m] \in Inputs(RowIds) /\ F[m] = Appending
    BY <1>1
  <2> HIDE DEF F
  <2> QED BY <2>1, AppendedOne
<1> HIDE DEF F
<1> QED BY <1>1, <1>2, AppendedTable

LEMMA TransferredTable ==
    ASSUME NEW s \in Sheets, NEW target \in Sheets, NEW t \in Outcomes, NEW list \in Seq(RowIds),
           NEW F, t \in F[0],
           \A m \in 1..Len(list) :
              /\ Refused \in F[m - 1] => Refused \in F[m]
              /\ \A u \in Tables : u \in F[m - 1] => Copied(s, target, u, list[m]) \in F[m]
    PROVE  /\ AllCopied(s, target, t, list) \in Outcomes
           /\ AllCopied(s, target, t, list) \in F[Len(list)]
<1> DEFINE Do(u, x) == IF u = Refused THEN u ELSE Copied(s, target, u, x)
           Folds(g) == g = [S \in SUBSET DOMAIN list |->
                               IF S = {} THEN t ELSE Do(g[S \ {Max(S)}], list[Max(S)])]
           step == [p \in Outcomes \X RowIds |-> Do(p[1], p[2])]
<1>1. /\ Len(list) \in Nat /\ DOMAIN list = 1..Len(list)
      /\ \A n \in DOMAIN list : list[n] \in RowIds
      /\ t \in Outcomes /\ t \in F[0]
  OBVIOUS
<1>2. ASSUME NEW u \in Outcomes, NEW x \in RowIds
      PROVE  Do(u, x) \in Outcomes
  BY CopiedTable DEF Outcomes
<1> HIDE DEF Do
<1>3. step \in [Outcomes \X RowIds -> Outcomes]
  BY <1>2
<1>4. \A u \in Outcomes, x \in RowIds : step[<<u, x>>] = Do(u, x)
  OBVIOUS
<1> HIDE DEF step
<1>5. \E g : Folds(g)
  <2>1. PICK g \in [SUBSET DOMAIN list -> Outcomes] : Follows(g, step, t, list)
    BY <1>1, <1>3, FoldExists
  <2>2. ASSUME NEW S \in SUBSET DOMAIN list, S # {}
        PROVE  g[S] = Do(g[S \ {Max(S)}], list[Max(S)])
    <3>1. Max(S) \in DOMAIN list /\ S \ {Max(S)} \in SUBSET DOMAIN list
      BY <1>1, <2>2, LastPlace
    <3>2. g[S] = step[<<g[S \ {Max(S)}], list[Max(S)]>>]
      BY <2>1, <2>2 DEF Follows
    <3> QED BY <1>1, <1>4, <3>1, <3>2
  <2>3. g[{}] = t
    BY <2>1 DEF Follows
  <2>4. g = [S \in SUBSET DOMAIN list |->
                IF S = {} THEN t ELSE Do(g[S \ {Max(S)}], list[Max(S)])]
    BY <2>2, <2>3
  <2> QED BY <2>4
<1> DEFINE h == CHOOSE g : Folds(g)
<1>6. AllCopied(s, target, t, list) = h[DOMAIN list]
  BY DEF AllCopied, Statements, FoldLeft, MapThenFoldSet, Do
<1>7. Folds(h)
  <2> HIDE DEF Folds
  <2> QED BY <1>5
<1> HIDE DEF h
<1> DEFINE G == [m \in 0..Len(list) |-> Outcomes \cap F[m]]
<1>8. h[{}] \in G[0]
  BY <1>1, <1>7
<1>9. ASSUME NEW m \in 1..Len(list), h[(1..m) \ {Max(1..m)}] \in G[m - 1]
      PROVE  h[1..m] \in G[m]
  <2> DEFINE u == h[(1..m) \ {Max(1..m)}]
  <2>1. Max(1..m) = m /\ 1..m # {} /\ 1..m \in SUBSET DOMAIN list
    BY <1>1, Prefix
  <2>2. h[1..m] = Do(u, list[m])
    BY <1>7, <2>1
  <2>3. u \in Outcomes /\ u \in F[m - 1]
    BY <1>1, <1>9
  <2> HIDE DEF u
  <2>4. Do(u, list[m]) \in Outcomes /\ Do(u, list[m]) \in F[m]
    <3>1. list[m] \in RowIds
      BY <1>1
    <3> QED BY <1>2, <2>3, <3>1 DEF Do, Outcomes
  <2> QED BY <1>1, <2>2, <2>4
<1>10. h[1..Len(list)] \in G[Len(list)]
  <2> HIDE DEF G
  <2> QED BY <1>1, <1>8, <1>9, FoldStays
<1>11. h[DOMAIN list] \in Outcomes /\ h[DOMAIN list] \in F[Len(list)]
  BY <1>1, <1>10
<1> QED BY <1>6, <1>11, Zenon

LEMMA TransferredOutcome ==
    ASSUME NEW s \in Sheets, NEW target \in Sheets, NEW t \in Outcomes, NEW list \in Seq(RowIds)
    PROVE  AllCopied(s, target, t, list) \in Outcomes
<1> DEFINE F == [m \in 0..Len(list) |-> Outcomes]
<1>1. Len(list) \in Nat /\ t \in F[0]
  OBVIOUS
<1>2. ASSUME NEW m \in 1..Len(list)
      PROVE  /\ Refused \in F[m - 1] => Refused \in F[m]
             /\ \A u \in Tables : u \in F[m - 1] => Copied(s, target, u, list[m]) \in F[m]
  <2>1. list[m] \in RowIds /\ F[m] = Outcomes
    BY <1>1
  <2> HIDE DEF F
  <2> QED BY <2>1, CopiedTable DEF Outcomes
<1> HIDE DEF F
<1> QED BY <1>1, <1>2, TransferredTable

LEMMA RestoredLines ==
    ASSUME NEW s \in Sheets, NEW t \in Outcomes, NEW list \in Seq(Lines),
           NEW F, t \in F[0],
           \A m \in 1..Len(list) :
              /\ Refused \in F[m - 1] => Refused \in F[m]
              /\ \A u \in Tables : u \in F[m - 1] => RestoredRow(s, u, list[m]) \in F[m]
    PROVE  AllRestored(s, t, list) \in Outcomes /\ AllRestored(s, t, list) \in F[Len(list)]
<1> DEFINE Do(u, x) == IF u = Refused THEN u ELSE RestoredRow(s, u, x)
           Folds(g) == g = [S \in SUBSET DOMAIN list |->
                               IF S = {} THEN t ELSE Do(g[S \ {Max(S)}], list[Max(S)])]
           step == [p \in Outcomes \X Lines |-> Do(p[1], p[2])]
<1>1. /\ Len(list) \in Nat /\ DOMAIN list = 1..Len(list)
      /\ \A n \in DOMAIN list : list[n] \in Lines
      /\ t \in Outcomes /\ t \in F[0]
  OBVIOUS
<1>2. ASSUME NEW u \in Outcomes, NEW x \in Lines
      PROVE  Do(u, x) \in Outcomes
  BY RestoredTable DEF Outcomes, Wrote
<1> HIDE DEF Do
<1>3. step \in [Outcomes \X Lines -> Outcomes]
  BY <1>2
<1>4. \A u \in Outcomes, x \in Lines : step[<<u, x>>] = Do(u, x)
  OBVIOUS
<1> HIDE DEF step
<1>5. \E g : Folds(g)
  <2>1. PICK g \in [SUBSET DOMAIN list -> Outcomes] : Follows(g, step, t, list)
    BY <1>1, <1>3, FoldExists
  <2>2. ASSUME NEW S \in SUBSET DOMAIN list, S # {}
        PROVE  g[S] = Do(g[S \ {Max(S)}], list[Max(S)])
    <3>1. Max(S) \in DOMAIN list /\ S \ {Max(S)} \in SUBSET DOMAIN list
      BY <1>1, <2>2, LastPlace
    <3>2. g[S] = step[<<g[S \ {Max(S)}], list[Max(S)]>>]
      BY <2>1, <2>2 DEF Follows
    <3> QED BY <1>1, <1>4, <3>1, <3>2
  <2>3. g[{}] = t
    BY <2>1 DEF Follows
  <2>4. g = [S \in SUBSET DOMAIN list |->
                IF S = {} THEN t ELSE Do(g[S \ {Max(S)}], list[Max(S)])]
    BY <2>2, <2>3
  <2> QED BY <2>4
<1> DEFINE h == CHOOSE g : Folds(g)
<1>6. AllRestored(s, t, list) = h[DOMAIN list]
  BY DEF AllRestored, Statements, FoldLeft, MapThenFoldSet, Do
<1>7. Folds(h)
  <2> HIDE DEF Folds
  <2> QED BY <1>5
<1> HIDE DEF h
<1> DEFINE G == [m \in 0..Len(list) |-> Outcomes \cap F[m]]
<1>8. h[{}] \in G[0]
  BY <1>1, <1>7
<1>9. ASSUME NEW m \in 1..Len(list), h[(1..m) \ {Max(1..m)}] \in G[m - 1]
      PROVE  h[1..m] \in G[m]
  <2> DEFINE u == h[(1..m) \ {Max(1..m)}]
  <2>1. Max(1..m) = m /\ 1..m # {} /\ 1..m \in SUBSET DOMAIN list
    BY <1>1, Prefix
  <2>2. h[1..m] = Do(u, list[m])
    BY <1>7, <2>1
  <2>3. u \in Outcomes /\ u \in F[m - 1]
    BY <1>1, <1>9
  <2> HIDE DEF u
  <2>4. Do(u, list[m]) \in Outcomes /\ Do(u, list[m]) \in F[m]
    <3>1. list[m] \in Lines
      BY <1>1
    <3> QED BY <1>2, <2>3, <3>1 DEF Do, Outcomes
  <2> QED BY <1>1, <2>2, <2>4
<1>10. h[1..Len(list)] \in G[Len(list)]
  <2> HIDE DEF G
  <2> QED BY <1>1, <1>8, <1>9, FoldStays
<1>11. h[DOMAIN list] \in Outcomes /\ h[DOMAIN list] \in F[Len(list)]
  BY <1>1, <1>10
<1> QED BY <1>6, <1>11, Zenon

LEMMA RestoredOutcome ==
    ASSUME NEW s \in Sheets, NEW t \in Outcomes, NEW list \in Seq(Lines)
    PROVE  AllRestored(s, t, list) \in Outcomes
<1> DEFINE F == [m \in 0..Len(list) |-> Outcomes]
<1>1. Len(list) \in Nat /\ t \in F[0]
  OBVIOUS
<1>2. ASSUME NEW m \in 1..Len(list)
      PROVE  /\ Refused \in F[m - 1] => Refused \in F[m]
             /\ \A u \in Tables : u \in F[m - 1] => RestoredRow(s, u, list[m]) \in F[m]
  <2>1. list[m] \in Lines /\ F[m] = Outcomes
    BY <1>1
  <2> HIDE DEF F
  <2> QED BY <2>1, RestoredTable DEF Outcomes, Wrote
<1> HIDE DEF F
<1> QED BY <1>1, <1>2, RestoredLines

Restoring == [table : Outcomes, used : SUBSET RowIds]
SheetContent == [sheet : Sheets, rows : Seq(Lines)]
LEMMA RestoredOne ==
    ASSUME NEW seed \in BOOLEAN, NEW acc \in Restoring, NEW x \in SheetContent
    PROVE  RestoredSheet(seed, acc, x) \in Restoring
<1> DEFINE named == [n \in DOMAIN x.rows |-> x.rows[n].row]
           after == AllRestored(x.sheet, acc.table, x.rows)
<1>1. acc.table \in Outcomes /\ acc.used \in SUBSET RowIds /\ x.sheet \in Sheets /\ x.rows \in Seq(Lines)
  BY DEF Restoring, SheetContent
<1>2. after \in Outcomes
  BY <1>1, RestoredOutcome
<1>3. Range(named) \in SUBSET RowIds
  <2>1. \A n \in DOMAIN x.rows : x.rows[n].row \in RowIds
    <3>1. \A n \in DOMAIN x.rows : x.rows[n] \in Lines
      BY <1>1
    <3> QED BY <3>1 DEF Lines
  <2> QED BY <2>1 DEF Range
<1> HIDE DEF named, after
<1>4. \/ RestoredSheet(seed, acc, x) = acc
      \/ RestoredSheet(seed, acc, x) = [acc EXCEPT !.table = Refused]
      \/ RestoredSheet(seed, acc, x) = [table |-> after, used |-> acc.used \cup Range(named)]
  BY Zenon DEF RestoredSheet, named, after
<1> QED BY <1>1, <1>2, <1>3, <1>4 DEF Restoring, Outcomes

LEMMA RestoredTables ==
    ASSUME NEW seed \in BOOLEAN, NEW t \in Outcomes, NEW list \in Seq(SheetContent),
           NEW F, [table |-> t, used |-> {}] \in F[0],
           \A m \in 1..Len(list) : \A acc \in Restoring :
              acc \in F[m - 1] => RestoredSheet(seed, acc, list[m]) \in F[m]
    PROVE  Restored(seed, t, list) \in Restoring /\ Restored(seed, t, list) \in F[Len(list)]
<1> DEFINE first == [table |-> t, used |-> {}]
           Do(acc, x) == RestoredSheet(seed, acc, x)
           Folds(g) == g = [S \in SUBSET DOMAIN list |->
                               IF S = {} THEN first ELSE Do(g[S \ {Max(S)}], list[Max(S)])]
           step == [p \in Restoring \X SheetContent |-> Do(p[1], p[2])]
<1>1. /\ Len(list) \in Nat /\ DOMAIN list = 1..Len(list)
      /\ \A n \in DOMAIN list : list[n] \in SheetContent
      /\ first \in Restoring /\ first \in F[0]
  BY DEF Restoring
<1>2. ASSUME NEW acc \in Restoring, NEW x \in SheetContent
      PROVE  Do(acc, x) \in Restoring
  BY RestoredOne
<1> HIDE DEF Do
<1>3. step \in [Restoring \X SheetContent -> Restoring]
  BY <1>2
<1>4. \A u \in Restoring, x \in SheetContent : step[<<u, x>>] = Do(u, x)
  OBVIOUS
<1> HIDE DEF step
<1>5. \E g : Folds(g)
  <2>1. PICK g \in [SUBSET DOMAIN list -> Restoring] : Follows(g, step, first, list)
    BY <1>1, <1>3, FoldExists
  <2>2. ASSUME NEW S \in SUBSET DOMAIN list, S # {}
        PROVE  g[S] = Do(g[S \ {Max(S)}], list[Max(S)])
    <3>1. Max(S) \in DOMAIN list /\ S \ {Max(S)} \in SUBSET DOMAIN list
      BY <1>1, <2>2, LastPlace
    <3>2. g[S] = step[<<g[S \ {Max(S)}], list[Max(S)]>>]
      BY <2>1, <2>2 DEF Follows
    <3> QED BY <1>1, <1>4, <3>1, <3>2
  <2>3. g[{}] = first
    BY <2>1 DEF Follows
  <2>4. g = [S \in SUBSET DOMAIN list |->
                IF S = {} THEN first ELSE Do(g[S \ {Max(S)}], list[Max(S)])]
    BY <2>2, <2>3
  <2> QED BY <2>4
<1> DEFINE h == CHOOSE g : Folds(g)
<1>6. Restored(seed, t, list) = h[DOMAIN list]
  BY DEF Restored, FoldLeft, MapThenFoldSet, Do
<1>7. Folds(h)
  <2> HIDE DEF Folds
  <2> QED BY <1>5
<1> HIDE DEF h
<1> DEFINE G == [m \in 0..Len(list) |-> Restoring \cap F[m]]
<1>8. h[{}] \in G[0]
  BY <1>1, <1>7
<1>9. ASSUME NEW m \in 1..Len(list), h[(1..m) \ {Max(1..m)}] \in G[m - 1]
      PROVE  h[1..m] \in G[m]
  <2> DEFINE u == h[(1..m) \ {Max(1..m)}]
  <2>1. Max(1..m) = m /\ 1..m # {} /\ 1..m \in SUBSET DOMAIN list
    BY <1>1, Prefix
  <2>2. h[1..m] = Do(u, list[m])
    BY <1>7, <2>1
  <2>3. u \in Restoring /\ u \in F[m - 1]
    BY <1>1, <1>9
  <2> HIDE DEF u
  <2>4. Do(u, list[m]) \in Restoring /\ Do(u, list[m]) \in F[m]
    <3>1. list[m] \in SheetContent
      BY <1>1
    <3> QED BY <1>2, <2>3, <3>1 DEF Do
  <2> QED BY <1>1, <2>2, <2>4
<1>10. h[1..Len(list)] \in G[Len(list)]
  <2> HIDE DEF G
  <2> QED BY <1>1, <1>8, <1>9, FoldStays
<1>11. h[DOMAIN list] \in Restoring /\ h[DOMAIN list] \in F[Len(list)]
  BY <1>1, <1>10
<1> QED BY <1>6, <1>11, Zenon

LEMMA RestoredOutcomes ==
    ASSUME NEW seed \in BOOLEAN, NEW t \in Outcomes, NEW list \in Seq(SheetContent)
    PROVE  Restored(seed, t, list) \in Restoring
<1> DEFINE F == [m \in 0..Len(list) |-> Restoring]
           first == [table |-> t, used |-> {}]
<1>1. Len(list) \in Nat /\ F[0] = Restoring /\ first \in Restoring
  <2>1. first \in Restoring
    BY DEF Restoring
  <2> HIDE DEF first
  <2> QED BY <2>1
<1>2. ASSUME NEW m \in 1..Len(list), NEW acc \in Restoring, acc \in F[m - 1]
      PROVE  RestoredSheet(seed, acc, list[m]) \in F[m]
  <2>1. list[m] \in SheetContent /\ F[m] = Restoring
    BY <1>1
  <2> HIDE DEF F
  <2> QED BY <2>1, RestoredOne
<1> HIDE DEF F
<1> QED BY <1>1, <1>2, RestoredTables

SheetsInv == sheets \subseteq Sheets /\ rows \in Tables

LEMMA CommittedTable ==
    ASSUME SheetsInv, NEW op, NEW outcome \in Outcomes, Committed(op, outcome)
    PROVE  rows' \in Tables
BY DEF SheetsInv, Committed, Outcomes

LEMMA SelectedRows ==
    ASSUME SheetsInv, NEW ids \in Ids
    PROVE  ids \in Seq(RowIds)
<1>1. Named \subseteq RowIds
  BY TableIn DEF Named, RowIds, SheetsInv, Table
<1>2. PICK n \in 0..MaxSelection : ids \in [1..n -> Named]
  BY DEF Ids, BoundedSeq, SeqOf
<1>3. n \in Nat
  BY SheetRowsAssumption
<1> QED BY <1>1, <1>2, <1>3

LEMMA EditedRows ==
    ASSUME SheetsInv, NEW inputs \in Edits
    PROVE  inputs \in Seq(Inputs(RowIds))
<1>1. Named \subseteq RowIds
  BY TableIn DEF Named, RowIds, SheetsInv, Table
<1>2. Inputs(Named) \subseteq Inputs(RowIds)
  BY <1>1 DEF Inputs
<1>3. inputs \in Seq(Inputs(Named))
  BY DEF Edits
<1> QED BY <1>2, <1>3

LEMMA EditRowsStep ==
    ASSUME SheetsInv, NEW s \in Sheets, NEW inputs \in Edits, NEW replace \in BOOLEAN,
           Edit(s, inputs, replace)
    PROVE  SheetsInv'
<1> DEFINE base == IF replace THEN Without(rows, RowsOf(rows, s)) ELSE rows
           outcome == Edited(s, base, inputs)
<1>1. base \in Outcomes
  BY RowsOut DEF SheetsInv, Outcomes
<1>2. outcome \in Outcomes
  <2> HIDE DEF base
  <2> QED BY <1>1, EditedRows, EditedOutcome
<1>3. Committed("edit", outcome) /\ Ensured({s})
  BY DEF Edit
<1> HIDE DEF outcome
<1>4. rows' \in Tables
  BY <1>2, <1>3, CommittedTable
<1> QED BY <1>3, <1>4 DEF SheetsInv, Ensured

LEMMA AppendStep ==
    ASSUME SheetsInv, NEW s \in Sheets, NEW inputs \in Edits, AppendRows(s, inputs)
    PROVE  SheetsInv'
<1> DEFINE start == NextPosition(rows, s)
           after == Appended(s, start, rows, inputs)
<1>1. rows \in Outcomes /\ start \in Nat
  BY NextPlace DEF SheetsInv, Outcomes
<1>2. Committed("append", after.table) /\ Ensured({s})
  BY DEF AppendRows
<1> HIDE DEF start
<1>3. after \in Appending
  BY <1>1, EditedRows, AppendedOutcome
<1> HIDE DEF after
<1>4. after.table \in Outcomes
  BY <1>3 DEF Appending
<1>5. rows' \in Tables
  BY <1>2, <1>4, CommittedTable
<1> QED BY <1>2, <1>5 DEF SheetsInv, Ensured

LEMMA DeleteStep ==
    ASSUME SheetsInv, NEW s \in Sheets, NEW ids, DeleteRows(s, ids)
    PROVE  SheetsInv'
<1> DEFINE outcome == IF ids = <<>> THEN rows
                      ELSE Compacted(Without(rows, RowsOf(rows, s) \cap Range(ids)), s)
<1>1. outcome \in Tables
  BY RowsOut, CompactedTable DEF SheetsInv
<1>2. Committed("delete", outcome) /\ Ensured({s})
  BY DEF DeleteRows
<1> HIDE DEF outcome
<1>3. outcome \in Outcomes
  BY <1>1 DEF Outcomes
<1>4. rows' \in Tables
  BY <1>2, <1>3, CommittedTable
<1> QED BY <1>2, <1>4 DEF SheetsInv, Ensured

LEMMA TransferStep ==
    ASSUME SheetsInv, NEW s \in Sheets, NEW t \in Sheets, NEW ids \in Seq(RowIds),
           NEW move \in BOOLEAN, Transfer(s, t, ids, move)
    PROVE  SheetsInv'
<1> DEFINE named == Distinct(ids)
           copied == AllCopied(s, t, rows, named)
           kept == Compacted(Without(copied, RowsOf(rows, s) \cap Range(named)), s)
           outcome == IF s = t THEN rows
                      ELSE IF copied = Refused \/ ~move \/ named = <<>> THEN copied ELSE kept
           op == IF move THEN "move" ELSE "copy"
<1>1. Committed(op, outcome) /\ Ensured({s, t})
  BY DEF Transfer
<1>2. rows \in Outcomes /\ named \in Seq(RowIds)
  BY DistinctSeq DEF SheetsInv, Outcomes
<1> HIDE DEF named
<1>3. copied \in Outcomes
  BY <1>2, TransferredOutcome
<1> HIDE DEF copied
<1>4. copied # Refused => kept \in Outcomes
  BY <1>3, RowsOut, CompactedTable DEF Outcomes
<1> HIDE DEF kept
<1>5. outcome \in Outcomes
  BY <1>2, <1>3, <1>4
<1> HIDE DEF outcome, op
<1>6. rows' \in Tables
  BY <1>1, <1>5, CommittedTable
<1> QED BY <1>1, <1>6 DEF SheetsInv, Ensured

LEMMA CopyStep ==
    ASSUME SheetsInv, NEW s \in Sheets, NEW t \in Sheets, CopySheet(s, t)
    PROVE  SheetsInv'
<1>1. RowsOf(rows, s) \subseteq RowIds
  BY TableIn DEF RowsOf, SheetsInv, Table
<1>2. InOrder(rows, s) \in Seq(RowsOf(rows, s))
  BY OrderedRows DEF SheetsInv
<1>3. InOrder(rows, s) \in Seq(RowIds)
  BY <1>1, <1>2
<1>4. Transfer(s, t, InOrder(rows, s), FALSE) /\ FALSE \in BOOLEAN
  BY DEF CopySheet
<1> DEFINE ids == InOrder(rows, s)
           move == FALSE
<1>5. ids \in Seq(RowIds) /\ move \in BOOLEAN /\ Transfer(s, t, ids, move)
  BY <1>3, <1>4
<1> HIDE DEF ids, move
<1> QED BY <1>5, TransferStep

LEMMA RestoreStep ==
    ASSUME SheetsInv, NEW doc \in Documents, NEW seed \in BOOLEAN, Restore(doc, seed)
    PROVE  SheetsInv'
<1> DEFINE base == IF seed THEN rows ELSE <<>>
           after == Restored(seed, base, doc)
           outcome == IF ~NoDuplicates(doc) THEN Refused ELSE after.table
           op == IF seed THEN "seed" ELSE "restore"
           named == {doc[k].sheet : k \in DOMAIN doc}
<1>1. doc \in Seq(SheetContent)
  BY SheetRowsAssumption DEF SheetContent
<1>2. base \in Outcomes
  BY NoRows DEF SheetsInv, Outcomes
<1>3. /\ Committed(op, outcome)
      /\ sheets' = IF outcome = Refused THEN sheets ELSE IF seed THEN sheets \cup named ELSE named
  BY DEF Restore
<1> HIDE DEF base
<1>4. after \in Restoring
  BY <1>1, <1>2, RestoredOutcomes
<1> HIDE DEF after
<1>5. outcome \in Outcomes
  BY <1>4 DEF Restoring, Outcomes
<1>6. named \subseteq Sheets
  <2>1. \A k \in DOMAIN doc : doc[k] \in SheetContent
    BY <1>1
  <2> QED BY <2>1 DEF SheetContent
<1> HIDE DEF outcome, named, op
<1>7. rows' \in Tables
  BY <1>3, <1>5, CommittedTable
<1> QED BY <1>3, <1>6, <1>7 DEF SheetsInv

(* A command on the sheets leaves tables that keep the indexes.            *)
LEMMA CommandStep ==
    ASSUME SheetsInv, NEW op, Command(Sheets, op)
    PROVE  SheetsInv'
<1>1. ASSUME NEW s \in Sheets, CreateSheet(s) \/ RenameSheet(s) PROVE SheetsInv'
  BY <1>1 DEF CreateSheet, RenameSheet, Ensured, SheetsInv
<1>2. ASSUME NEW s \in Sheets, DeleteSheet(s) PROVE SheetsInv'
  BY <1>2, RowsOut DEF DeleteSheet, SheetsInv
<1>3. ASSUME NEW s \in Sheets, ClearRows(s) PROVE SheetsInv'
  <2> DEFINE outcome == Without(rows, RowsOf(rows, s))
  <2>1. outcome \in Outcomes
    BY RowsOut DEF SheetsInv, Outcomes
  <2>2. Committed("clear", outcome) /\ Ensured({s})
    BY <1>3 DEF ClearRows
  <2> HIDE DEF outcome
  <2>3. rows' \in Tables
    BY <2>1, <2>2, CommittedTable
  <2> QED BY <2>2, <2>3 DEF SheetsInv, Ensured
<1>4. ASSUME NEW s \in Sheets, NEW t \in Sheets, NEW ids \in Ids, NEW move \in BOOLEAN,
             Transfer(s, t, ids, move)
      PROVE  SheetsInv'
  BY <1>4, SelectedRows, TransferStep
<1> QED BY <1>1, <1>2, <1>3, <1>4, EditRowsStep, AppendStep, DeleteStep, CopyStep, RestoreStep, Zenon
        DEF Command

(* A tracking run stores the record of a row.                              *)
LEMMA RecordStep ==
    ASSUME SheetsInv, NEW r \in DOMAIN rows, RecordStored(r)
    PROVE  SheetsInv'
<1>1. rows[r].shown \in Shown
  BY RowFields DEF SheetsInv
<1>2. [rows EXCEPT ![r].record = Lookup[rows[r].shown]] \in Tables
  <2> DEFINE x == rows[r].shown
  <2>1. x \in Shown /\ rows[r].shown = x
    BY <1>1
  <2> HIDE DEF x
  <2>2. [rows EXCEPT ![r].record = Lookup[x]] \in Tables
    BY <2>1, RecordedTable DEF SheetsInv
  <2> QED BY <2>2 DEF x
<1> QED BY <1>2 DEF RecordStored, SheetsInv

-----------------------------------------------------------------------------
(* The shipments of a bag                                                  *)

(* Every one of some places is the k-th for one k.                         *)
LEMMA NthAll ==
    ASSUME NEW n \in Nat, NEW I \in SUBSET (1..n)
    PROVE  /\ \A m \in I : \E k \in 1..Cardinality(I) : Nth(I, k) = m
           /\ \A j, k \in 1..Cardinality(I) : Nth(I, j) = Nth(I, k) => j = k
<1> DEFINE Upto(p) == {m \in I : m <= p}
<1>1. \A p : IsFiniteSet(Upto(p)) /\ Cardinality(Upto(p)) \in Nat
  BY FinitePlaces
<1>2. IsFiniteSet(I) /\ Cardinality(I) \in Nat /\ \A m \in I : m \in Nat
  BY FinitePlaces
<1>3. \A k \in 1..Cardinality(I) : Nth(I, k) \in I /\ Cardinality(Upto(Nth(I, k))) = k
  BY NthIn
<1>4. ASSUME NEW a \in I, NEW b \in I, Cardinality(Upto(a)) = Cardinality(Upto(b)), a < b
      PROVE  FALSE
  <2>1. Upto(a) \in SUBSET Upto(b) /\ b \in Upto(b) /\ b \notin Upto(a)
    <3>1. b <= b /\ ~(b <= a) /\ \A m \in I : m <= a => m <= b
      BY <1>2, <1>4
    <3> QED BY <3>1
  <2> HIDE DEF Upto
  <2> QED BY <1>1, <1>4, <2>1, FS_Subset
<1>5. ASSUME NEW m \in I
      PROVE  \E k \in 1..Cardinality(I) : Nth(I, k) = m
  <2> DEFINE k == Cardinality(Upto(m))
  <2>1. k \in 1..Cardinality(I)
    <3>1. Upto(m) \in SUBSET I /\ Upto(m) # {}
      BY <1>2
    <3>2. k <= Cardinality(I) /\ k # 0 /\ k \in Nat
      <4> HIDE DEF Upto
      <4> QED BY <1>1, <1>2, <3>1, FS_Subset, FS_EmptySet
    <3> HIDE DEF k
    <3> QED BY <1>2, <3>2
  <2>2. Nth(I, k) \in I /\ Cardinality(Upto(Nth(I, k))) = Cardinality(Upto(m))
    <3>1. Cardinality(Upto(Nth(I, k))) = k /\ Nth(I, k) \in I
      BY <1>3, <2>1
    <3> QED BY <3>1
  <2> DEFINE a == Nth(I, k)
  <2>3. a \in I /\ Cardinality(Upto(a)) = Cardinality(Upto(m))
    BY <2>2
  <2> HIDE DEF a, Upto
  <2>4. ~(a < m) /\ ~(m < a)
    BY <1>4, <2>3
  <2>5. a = m
    BY <1>2, <2>3, <2>4
  <2> QED BY <2>1, <2>5 DEF a
<1> HIDE DEF Upto
<1> QED BY <1>3, <1>5

LEMMA SelectedAll ==
    ASSUME NEW S, NEW list \in Seq(S), NEW I \in SUBSET DOMAIN list
    PROVE  /\ \A n \in I : \E k \in DOMAIN Selected(list, I) : Selected(list, I)[k] = list[n]
           /\ \A k \in DOMAIN Selected(list, I) : \E n \in I : Selected(list, I)[k] = list[n]
           /\ (\A m, n \in I : list[m] = list[n] => m = n) =>
                 \A j, k \in DOMAIN Selected(list, I) :
                    Selected(list, I)[j] = Selected(list, I)[k] => j = k
<1>1. Len(list) \in Nat /\ I \in SUBSET (1..Len(list))
  OBVIOUS
<1>2. /\ DOMAIN Selected(list, I) = 1..Cardinality(I)
      /\ \A k \in 1..Cardinality(I) : Nth(I, k) \in I /\ Selected(list, I)[k] = list[Nth(I, k)]
  BY SelectedSeq
<1>3. /\ \A m \in I : \E k \in 1..Cardinality(I) : Nth(I, k) = m
      /\ \A j, k \in 1..Cardinality(I) : Nth(I, j) = Nth(I, k) => j = k
  BY <1>1, NthAll
<1> QED BY <1>2, <1>3

LEMMA DistinctAll ==
    ASSUME NEW S, NEW list \in Seq(S)
    PROVE  /\ \A j, k \in DOMAIN Distinct(list) : Distinct(list)[j] = Distinct(list)[k] => j = k
           /\ \A n \in DOMAIN list : \E k \in DOMAIN Distinct(list) : Distinct(list)[k] = list[n]
           /\ \A k \in DOMAIN Distinct(list) : \E n \in DOMAIN list : Distinct(list)[k] = list[n]
<1> DEFINE I == {n \in DOMAIN list : \A m \in 1..(n - 1) : list[m] # list[n]}
<1>1. Len(list) \in Nat /\ DOMAIN list = 1..Len(list) /\ I \in SUBSET DOMAIN list
  OBVIOUS
<1>2. \A m, n \in I : list[m] = list[n] => m = n
  <2> SUFFICES ASSUME NEW m \in I, NEW n \in I, list[m] = list[n] PROVE m = n
    OBVIOUS
  <2>1. m \in Nat /\ n \in Nat /\ m > 0 /\ n > 0
    BY <1>1
  <2>2. ~(m < n) /\ ~(n < m)
    BY <1>1, <2>1
  <2> QED BY <2>1, <2>2
<1>3. \A n \in DOMAIN list : \E m \in I : list[m] = list[n]
  <2> SUFFICES ASSUME NEW n \in DOMAIN list PROVE \E m \in I : list[m] = list[n]
    OBVIOUS
  <2> DEFINE Like == {m \in DOMAIN list : list[m] = list[n]}
             least == Min(Like)
  <2>1. Like \in SUBSET Nat /\ Like # {}
    BY <1>1
  <2>2. least \in Like /\ \A m \in Like : least <= m
    <3> HIDE DEF Like
    <3> QED BY <2>1, Least
  <2> HIDE DEF least
  <2>3. least \in 1..Len(list) /\ list[least] = list[n]
    BY <1>1, <2>2
  <2>4. \A m \in 1..(least - 1) : list[m] # list[least]
    BY <1>1, <2>2, <2>3
  <2> QED BY <1>1, <2>3, <2>4
<1> HIDE DEF I
<1>4. Distinct(list) = Selected(list, I)
  BY DEF Distinct, I
<1>5. /\ \A n \in I : \E k \in DOMAIN Selected(list, I) : Selected(list, I)[k] = list[n]
      /\ \A k \in DOMAIN Selected(list, I) : \E n \in I : Selected(list, I)[k] = list[n]
      /\ \A j, k \in DOMAIN Selected(list, I) : Selected(list, I)[j] = Selected(list, I)[k] => j = k
  BY <1>1, <1>2, SelectedAll
<1> QED BY <1>1, <1>3, <1>4, <1>5

(* plan_unique_sheet_rows plans each shipment that the sheet lacks, once.  *)
LEMMA PlannedOnce ==
    ASSUME NEW s, NEW found \in Seq(Shown)
    PROVE  /\ Planned(s, found) \in Seq(Shown)
           /\ \A j, k \in DOMAIN Planned(s, found) : Planned(s, found)[j] = Planned(s, found)[k] => j = k
           /\ \A k \in DOMAIN Planned(s, found) : Planned(s, found)[k] \notin ShownIn(s)
           /\ \A x \in Range(found) \ ShownIn(s) : \E k \in DOMAIN Planned(s, found) : Planned(s, found)[k] = x
<1> DEFINE list == Distinct(found)
           I == {n \in DOMAIN list : list[n] \notin ShownIn(s)}
<1>1. /\ list \in Seq(Shown)
      /\ \A j, k \in DOMAIN list : list[j] = list[k] => j = k
      /\ \A n \in DOMAIN found : \E k \in DOMAIN list : list[k] = found[n]
  BY DistinctSeq, DistinctAll
<1>2. Planned(s, found) = Selected(list, I)
  BY DEF Planned
<1> HIDE DEF list
<1>3. I \in SUBSET DOMAIN list /\ \A m, n \in I : list[m] = list[n] => m = n
  BY <1>1
<1>4. \A x \in Range(found) \ ShownIn(s) : \E n \in I : list[n] = x
  BY <1>1 DEF Range
<1>5. \A n \in I : list[n] \notin ShownIn(s)
  OBVIOUS
<1> HIDE DEF I
<1>6. /\ Selected(list, I) \in Seq(Shown)
      /\ \A n \in I : \E k \in DOMAIN Selected(list, I) : Selected(list, I)[k] = list[n]
      /\ \A k \in DOMAIN Selected(list, I) : \E n \in I : Selected(list, I)[k] = list[n]
      /\ \A j, k \in DOMAIN Selected(list, I) : Selected(list, I)[j] = Selected(list, I)[k] => j = k
  BY <1>1, <1>3, SelectedSeq, SelectedAll
<1> QED BY <1>2, <1>4, <1>5, <1>6

(* The names of the rows that an import adds are new and differ.           *)
LEMMA PlannedIds ==
    ASSUME SheetsInv, NEW s \in Sheets
    PROVE  /\ \A k \in Nat \ {0} : PlannedId(s, k) \in RowIds /\ PlannedId(s, k) \notin DOMAIN rows
           /\ \A j, k \in Nat \ {0} : PlannedId(s, j) = PlannedId(s, k) => j = k
<1> DEFINE next == NextPosition(rows, s)
<1>1. next \in Nat
  BY NextPlace DEF SheetsInv
<1>2. \A k \in Nat : PlannedId(s, k) = GeneratedId(rows, s, next + k - 1)
  BY DEF PlannedId
<1> HIDE DEF next
<1>3. ASSUME NEW k \in Nat \ {0}
      PROVE  /\ PlannedId(s, k) \in RowIds /\ PlannedId(s, k) \notin DOMAIN rows
             /\ PlannedId(s, k)[2] = next + k - 1
  <2> DEFINE p == next + k - 1
  <2>1. p \in Nat /\ PlannedId(s, k) = GeneratedId(rows, s, p)
    BY <1>1, <1>2
  <2> HIDE DEF p
  <2>2. /\ GeneratedId(rows, s, p) \in RowIds /\ GeneratedId(rows, s, p) \notin DOMAIN rows
        /\ GeneratedId(rows, s, p)[2] = p
    BY <2>1, FreshId DEF SheetsInv
  <2> QED BY <2>1, <2>2 DEF p
<1>4. ASSUME NEW j \in Nat \ {0}, NEW k \in Nat \ {0}, PlannedId(s, j) = PlannedId(s, k)
      PROVE  j = k
  <2>1. next + j - 1 = next + k - 1
    BY <1>3, <1>4
  <2> QED BY <1>1, <2>1
<1> QED BY <1>3, <1>4

(* A bag that succeeds adds a row for each of its shipments that the sheet *)
(* lacks, behind the rows that are there.                                  *)
LEMMA BagRows ==
    ASSUME SheetsInv, FinishBag, jobs[runner.job].sheet \in Sheets, runner.found \in Seq(Shown)
    PROVE  LET s == jobs[runner.job].sheet IN
           /\ rows' \in Tables
           /\ \A r \in DOMAIN rows : r \in DOMAIN rows' /\ rows'[r] = rows[r]
           /\ \A r \in DOMAIN rows' \ DOMAIN rows :
                 /\ rows'[r].sheet = s /\ rows'[r].record = NoRecord
                 /\ \A q \in RowsOf(rows, s) : rows[q].position < rows'[r].position
           /\ \A x \in Range(runner.found) :
                 Cardinality(Showing(rows', s, x)) =
                    IF Showing(rows, s, x) = {} THEN 1 ELSE Cardinality(Showing(rows, s, x))
<1> DEFINE s == jobs[runner.job].sheet
           found == runner.found
           new == Planned(s, found)
           next == NextPosition(rows, s)
           id(k) == PlannedId(s, k)
           K == DOMAIN new
           ids == {id(k) : k \in K}
           row(k) == [sheet |-> s, position |-> next + k - 1, shown |-> new[k], record |-> NoRecord]
<1>1. /\ new \in Seq(Shown) /\ K = 1..Len(new) /\ Len(new) \in Nat
      /\ \A k \in K : new[k] \in Shown /\ new[k] \notin ShownIn(s)
      /\ \A j, k \in K : new[j] = new[k] => j = k
      /\ \A x \in Range(found) \ ShownIn(s) : \E k \in K : new[k] = x
  <2>1. /\ new \in Seq(Shown)
        /\ \A k \in K : new[k] \notin ShownIn(s)
        /\ \A j, k \in K : new[j] = new[k] => j = k
        /\ \A x \in Range(found) \ ShownIn(s) : \E k \in K : new[k] = x
    <3> HIDE DEF s, found
    <3> QED BY PlannedOnce DEF found
  <2> HIDE DEF new
  <2> QED BY <2>1
<1>2. /\ \A k \in K : id(k) \in RowIds /\ id(k) \notin DOMAIN rows
      /\ \A j, k \in K : id(j) = id(k) => j = k
  <2>1. \A k \in K : k \in Nat \ {0}
    BY <1>1
  <2> HIDE DEF s, new
  <2> QED BY <2>1, PlannedIds DEF s
<1>3. next \in Nat /\ \A r \in RowsOf(rows, s) : rows[r].position < next
  BY NextPlace DEF SheetsInv
<1>4. rows' = [r \in DOMAIN rows \cup ids |->
                  IF r \in DOMAIN rows THEN rows[r] ELSE row(CHOOSE k \in K : id(k) = r)]
  BY Zenon DEF FinishBag
<1> HIDE DEF s, found, new, next, id
<1>5. \A k \in K : row(k) \in Row
  BY <1>1, <1>3 DEF s, Row
<1>6. /\ \A k \in K : /\ row(k).sheet = s /\ row(k).shown = new[k]
                      /\ row(k).position = next + k - 1 /\ row(k).record = NoRecord
  OBVIOUS
<1> HIDE DEF row
<1>7. DOMAIN rows' = DOMAIN rows \cup ids /\ \A r \in DOMAIN rows : rows'[r] = rows[r]
  BY <1>4
<1>8. \A k \in K : id(k) \in DOMAIN rows' /\ rows'[id(k)] = row(k)
  <2> SUFFICES ASSUME NEW k \in K PROVE id(k) \in DOMAIN rows' /\ rows'[id(k)] = row(k)
    OBVIOUS
  <2>1. (CHOOSE j \in K : id(j) = id(k)) = k
    BY <1>2
  <2> QED BY <1>2, <1>4, <1>7, <2>1
<1>9. \A r \in DOMAIN rows' : r \in DOMAIN rows \/ \E k \in K : r = id(k)
  BY <1>7
<1>10. /\ \A r \in DOMAIN rows : rows[r] \in Row /\ rows[r].position \in Nat
       /\ Table(rows) /\ Distinguished(rows)
  BY RowFields, TableIn DEF SheetsInv
<1>11. Table(rows')
  <2>1. \A r \in DOMAIN rows' : rows'[r] \in Row
    BY <1>5, <1>7, <1>8, <1>9, <1>10
  <2>2. rows' = [r \in DOMAIN rows' |-> rows'[r]]
    BY <1>4
  <2>3. IsFiniteSet(ids)
    <3> DEFINE f == [k \in K |-> id(k)]
    <3>1. f \in Surjection(K, ids)
      BY DEF Surjection
    <3>2. IsFiniteSet(K)
      BY <1>1, FS_Interval
    <3> HIDE DEF f, K, ids
    <3> QED BY <3>1, <3>2, FS_Surjection
  <2>4. IsFiniteSet(DOMAIN rows')
    <3> DEFINE D == DOMAIN rows
    <3>1. IsFiniteSet(D) /\ DOMAIN rows' = D \cup ids
      BY <1>7, <1>10 DEF Table
    <3> HIDE DEF D, ids
    <3>2. IsFiniteSet(D \cup ids)
      BY <2>3, <3>1, FS_Union
    <3> QED BY <3>1, <3>2
  <2>5. DOMAIN rows' \subseteq RowIds
    BY <1>2, <1>7, <1>10 DEF Table
  <2>6. rows' \in [DOMAIN rows' -> Row]
    BY <2>1, <2>2
  <2> QED BY <2>4, <2>5, <2>6 DEF Table
<1>12. Distinguished(rows')
  <2>1. ASSUME NEW q \in DOMAIN rows, NEW k \in K, rows[q].sheet = s
        PROVE  rows[q].position # next + k - 1
    <3>1. rows[q].position < next /\ rows[q].position \in Nat
      BY <1>3, <1>10, <2>1 DEF RowsOf
    <3>2. k \in Nat /\ k > 0
      BY <1>1
    <3> QED BY <1>3, <3>1, <3>2
  <2>2. ASSUME NEW j \in K, NEW k \in K, next + j - 1 = next + k - 1
        PROVE  j = k
    BY <1>1, <1>3, <2>2
  <2> SUFFICES ASSUME NEW q \in DOMAIN rows', NEW r \in DOMAIN rows',
                      rows'[q].sheet = rows'[r].sheet, rows'[q].position = rows'[r].position
               PROVE  q = r
    BY DEF Distinguished
  <2>3. CASE q \in DOMAIN rows /\ r \in DOMAIN rows
    BY <1>7, <1>10, <2>3 DEF Distinguished
  <2>4. CASE q \in DOMAIN rows /\ r \notin DOMAIN rows
    <3>1. PICK k \in K : r = id(k)
      BY <1>9, <2>4
    <3>2. rows[q].sheet = s /\ rows[q].position = next + k - 1
      BY <1>6, <1>7, <1>8, <2>4, <3>1
    <3> QED BY <2>1, <2>4, <3>2
  <2>5. CASE q \notin DOMAIN rows /\ r \in DOMAIN rows
    <3>1. PICK k \in K : q = id(k)
      BY <1>9, <2>5
    <3>2. rows[r].sheet = s /\ rows[r].position = next + k - 1
      BY <1>6, <1>7, <1>8, <2>5, <3>1
    <3> QED BY <2>1, <2>5, <3>2
  <2>6. CASE q \notin DOMAIN rows /\ r \notin DOMAIN rows
    <3>1. PICK j \in K : q = id(j)
      BY <1>9, <2>6
    <3>2. PICK k \in K : r = id(k)
      BY <1>9, <2>6
    <3>3. next + j - 1 = next + k - 1
      BY <1>6, <1>8, <3>1, <3>2
    <3> QED BY <2>2, <3>1, <3>2, <3>3
  <2> QED BY <2>3, <2>4, <2>5, <2>6
<1>13. rows' \in Tables
  BY <1>11, <1>12, TableIn
<1>14. ASSUME NEW x \in Range(found)
       PROVE  Cardinality(Showing(rows', s, x)) =
                 IF Showing(rows, s, x) = {} THEN 1 ELSE Cardinality(Showing(rows, s, x))
  <2>1. x \in ShownIn(s) <=> Showing(rows, s, x) # {}
    BY DEF ShownIn, Showing
  <2>2. \A r : r \in Showing(rows', s, x) <=>
                  r \in Showing(rows, s, x) \/ \E k \in K : r = id(k) /\ new[k] = x
    BY <1>6, <1>7, <1>8, <1>9 DEF Showing, RowsOf
  <2>3. CASE x \in ShownIn(s)
    <3>1. Showing(rows', s, x) = Showing(rows, s, x)
      <4>1. \A k \in K : new[k] # x
        BY <1>1, <2>3
      <4>2. \A r : r \in Showing(rows', s, x) <=> r \in Showing(rows, s, x)
        BY <2>2, <4>1, Zenon
      <4> QED BY <4>2, Zenon DEF Showing
    <3> QED BY <2>1, <2>3, <3>1
  <2>4. CASE x \notin ShownIn(s)
    <3>1. PICK k \in K : new[k] = x
      BY <1>1, <2>4
    <3>2. \A r : r \in Showing(rows', s, x) <=> r = id(k)
      BY <1>1, <2>1, <2>2, <2>4, <3>1
    <3>3. Showing(rows', s, x) = {id(k)}
      BY <3>2
    <3>4. Cardinality(Showing(rows', s, x)) = 1
      BY <3>3, FS_Singleton
    <3> QED BY <2>1, <2>4, <3>4
  <2> QED BY <2>3, <2>4
<1>15. ASSUME NEW r \in DOMAIN rows' \ DOMAIN rows
       PROVE  /\ rows'[r].sheet = s /\ rows'[r].record = NoRecord
              /\ \A q \in RowsOf(rows, s) : rows[q].position < rows'[r].position
  <2>1. PICK k \in K : r = id(k)
    BY <1>9
  <2>2. rows'[r].sheet = s /\ rows'[r].record = NoRecord /\ rows'[r].position = next + k - 1
    BY <1>6, <1>8, <2>1
  <2>3. next <= next + k - 1
    BY <1>1, <1>3
  <2>4. \A q \in RowsOf(rows, s) : rows[q].position \in Nat /\ rows[q].position < next
    BY <1>3, <1>10 DEF RowsOf
  <2> QED BY <1>1, <1>3, <2>2, <2>3, <2>4
<1> QED BY <1>7, <1>13, <1>14, <1>15 DEF s, found

-----------------------------------------------------------------------------
(* Every table that is committed keeps the indexes                         *)

LEMMA SheetsInit == Init => SheetsInv
<1> SUFFICES ASSUME Init PROVE SheetsInv
  OBVIOUS
<1>1. PICK q \in Scenarios : sheets = q.sheets /\ rows \in q.rows
  BY DEF Init
<1>2. sheets \subseteq Sheets /\ Table(rows) /\ Distinguished(rows)
  BY <1>1, ScenariosAssumption
<1> QED BY <1>2, TableIn DEF SheetsInv

(* What a finished attempt commits: a job of the run is in a sheet, and a  *)
(* bag that was found is a list of shipments.                              *)
LEMMA Finishing ==
    ASSUME JobsInv, Finish
    PROVE  /\ runner.job \in DOMAIN jobs /\ jobs[runner.job].sheet \in Sheets
           /\ runner.item \in DOMAIN itsItems /\ itsItems \in Seq(Item) /\ mine \in Item
           /\ FinishBag => runner.found \in Seq(Shown)
<1>1. /\ runner.job \in DOMAIN jobs /\ JobsGood /\ runner.item \in DOMAIN itsItems
      /\ \/ runner.found = NotFound
         \/ runner.found \in IF mine.kind = "manifest" THEN Seq(Sources) ELSE Seq(Shown)
  BY RunnerKnown DEF JobsInv, Finish, At, RunPoints, Works, mine
<1>2. jobs[runner.job] \in Job /\ itsItems \in Seq(Item) /\ mine \in Item
  BY <1>1, GoodJob DEF itsItems, mine
<1>3. jobs[runner.job].sheet \in Sheets
  BY <1>2 DEF Job
<1>4. FinishBag => runner.found # NotFound /\ mine.kind # "manifest"
  BY Zenon DEF FinishBag
<1> QED BY <1>1, <1>2, <1>3, <1>4

LEMMA SheetsStep == JobsInv /\ SheetsInv /\ [Next]_vars => SheetsInv'
<1> SUFFICES ASSUME JobsInv, SheetsInv, [Next]_vars PROVE SheetsInv'
  OBVIOUS
<1>1. ASSUME UNCHANGED <<sheets, rows>> PROVE SheetsInv'
  BY <1>1 DEF SheetsInv
<1>2. CASE SheetCommand
  BY <1>2, CommandStep DEF SheetCommand
<1>3. CASE JobCommand
  <2>1. ASSUME NEW j, NEW s \in Sheets, NEW kind, NEW sources, NEW replace \in BOOLEAN,
               CreateJob(j, s, kind, sources, replace)
        PROVE  SheetsInv'
    <3>1. sheets' \subseteq Sheets
      BY <2>1 DEF CreateJob, Ensured, SheetsInv
    <3>2. rows' = rows \/ rows' = Without(rows, RowsOf(rows, s))
      BY <2>1 DEF CreateJob
    <3> QED BY <3>1, <3>2, RowsOut DEF SheetsInv
  <2>2. ASSUME NEW j, RunJob(j) \/ RetryJob(j) PROVE SheetsInv'
    BY <1>1, <2>2 DEF RunJob, RetryJob, sheetVars
  <2> QED BY <1>3, <2>1, <2>2 DEF JobCommand
<1>4. CASE OtherConnection
  <2>1. ASSUME NEW j, CancelJob(j) PROVE SheetsInv'
    <3>1. UNCHANGED <<sheets, rows>>
      BY <2>1, Zenon DEF CancelJob, sheetVars
    <3> QED BY <1>1, <3>1
  <2> QED BY <1>4, <2>1, RecordStep, Zenon DEF OtherConnection
<1>5. CASE RunStep
  <2>1. CASE Finish
    <3>1. sheets' = sheets /\ (rows' = rows \/ FinishBag)
      BY <2>1, Zenon DEF Finish, FinishFailed, FinishManifest
    <3>2. FinishBag => rows' \in Tables
      BY <2>1, Finishing, BagRows
    <3> QED BY <3>1, <3>2 DEF SheetsInv
  <2>2. CASE Requeue \/ Recount \/ Claim \/ StartAttempt \/ Fetch
    BY <1>1, <2>2, Zenon DEF Requeue, Recount, Claim, StartAttempt, Fetch, sheetVars
  <2> QED BY <1>5, <2>1, <2>2 DEF RunStep
<1>6. CASE RecoverStep
  <2>1. CASE Open
    BY <2>1, SheetRowsAssumption DEF Open, FirstSheetExists, SheetsInv
  <2>2. CASE RecoverAttempts \/ RecoverItems \/ RecoverCounts
    BY <1>1, <2>2, Zenon DEF RecoverAttempts, RecoverItems, RecoverCounts, sheetVars
  <2> QED BY <1>6, <2>1, <2>2 DEF RecoverStep
<1>7. CASE WriteRefused \/ ProcessDies \/ UserPreviews \/ PreviewGoesOn
  BY <1>1, <1>7, Zenon DEF WriteRefused, ProcessDies, UserPreviews, PreviewGoesOn, StoreFails, Crash, sheetVars
<1>8. CASE UNCHANGED vars
  BY <1>1, <1>8 DEF vars, sheetVars
<1> QED BY <1>2, <1>3, <1>4, <1>5, <1>6, <1>7, <1>8, Zenon
        DEF Next, HandleCommand, RunGoesOn, EngineOpens

(* No two rows of a sheet are at one place, whatever was edited, moved,    *)
(* deleted, restored, compacted or imported before: no commit of           *)
(* compact_sheet_row_positions or transfer_sheet_rows is refused for       *)
(* UNIQUE(sheet_id, position), and none of an import takes the place of a  *)
(* row that is there.                                                      *)
THEOREM PlacesDiffer == Spec => [](SheetsTypeOK /\ PlacesUnique)
<1>1. Init => JobsInv /\ SheetsInv
  BY JobsInit, SheetsInit
<1>2. JobsInv /\ SheetsInv /\ [Next]_vars => (JobsInv /\ SheetsInv)'
  BY JobsStep, SheetsStep
<1>3. SheetsInv => SheetsTypeOK /\ PlacesUnique
  BY TableIn DEF SheetsInv, SheetsTypeOK, PlacesUnique
<1> QED BY <1>1, <1>2, <1>3, PTL DEF Spec

(* The tables agree with each other between any two commits.               *)
THEOREM TablesAgree == Spec => []TablesConsistent
BY JobsAgree, PlacesDiffer, PTL DEF TablesConsistent

-----------------------------------------------------------------------------
(* Bags land                                                               *)

(* An item that succeeds where a commit changes one item is that item.     *)
LEMMA ChangedItem ==
    ASSUME JobsGood, NEW j \in DOMAIN jobs, NEW n \in DOMAIN items[j], Succeeds(j, n),
           NEW i \in DOMAIN jobs, NEW m, NEW item,
           items' = [items EXCEPT ![i] = [items[i] EXCEPT ![m] = item]]
    PROVE  i = j /\ n = m /\ item.status = "succeeded"
<1>1. j \in DOMAIN items /\ i \in DOMAIN items /\ items[j] \in Seq(Item)
  BY GoodJob
<1>2. i = j
  <2> SUFFICES ASSUME i # j PROVE FALSE
    OBVIOUS
  <2>1. items'[j] = items[j]
    BY <1>1
  <2> QED BY <2>1 DEF Succeeds
<1>3. items'[j] = [items[j] EXCEPT ![m] = item]
  BY <1>1, <1>2
<1>4. items'[j][n] = IF n = m THEN item ELSE items[j][n]
  BY <1>1, <1>3
<1> QED BY <1>2, <1>4 DEF Succeeds

(* Only a commit of the run makes an item of a job succeed.                *)
LEMMA OnlyFinish ==
    ASSUME JobsInv, [Next]_vars, NEW j \in DOMAIN jobs, j \in DOMAIN jobs',
           NEW n \in DOMAIN items[j], Succeeds(j, n)
    PROVE  Finish
<1>1. items'[j][n].status # items[j][n].status /\ items'[j][n].status = "succeeded"
  BY DEF Succeeds
<1>2. /\ JobsGood /\ j \in DOMAIN items /\ items[j] \in Seq(Item) /\ items[j][n] \in Item
      /\ \A i \in DOMAIN jobs : i \in DOMAIN items /\ items[i] \in Seq(Item)
  BY GoodJob DEF JobsInv
<1>3. ASSUME UNCHANGED items PROVE FALSE
  BY <1>1, <1>3
<1>4. ASSUME NEW i \in DOMAIN jobs, NEW m, NEW item, item.status # "succeeded",
             items' = [items EXCEPT ![i] = [items[i] EXCEPT ![m] = item]]
      PROVE  FALSE
  BY <1>2, <1>4, ChangedItem
<1>5. ASSUME NEW S, JobsStay(S) PROVE FALSE
  <2>1. items'[j] = items[j]
    <3>1. DOMAIN jobs' = DOMAIN jobs \ JobsOf(S) /\ items' = Restrict(items, DOMAIN items \ JobsOf(S))
      BY <1>5 DEF JobsStay, Restrict
    <3> QED BY <1>2, <3>1 DEF Restrict
  <2> QED BY <1>1, <2>1
<1>6. ~SheetCommand
  BY <1>5 DEF SheetCommand
<1>7. ~JobCommand
  <2>1. ASSUME NEW i, NEW s, NEW kind, NEW sources, NEW replace,
               CreateJob(i, s, kind, sources, replace)
        PROVE  FALSE
    <3>1. \/ items' = items
          \/ i \notin DOMAIN jobs /\ \E list : items' = Inserting(items, i, list)
      BY <2>1 DEF CreateJob
    <3>2. items'[j] = items[j]
      BY <1>2, <3>1 DEF Inserting
    <3> QED BY <1>1, <3>2
  <2>2. ASSUME NEW i, RunJob(i) \/ RetryJob(i) PROVE FALSE
    BY <1>3, <2>2 DEF RunJob, RetryJob
  <2> QED BY <2>1, <2>2 DEF JobCommand
<1>8. ~OtherConnection
  <2>1. ASSUME NEW i \in DOMAIN jobs, CancelJob(i) PROVE FALSE
    <3>1. items' = [items EXCEPT ![i] = [m \in DOMAIN items[i] |-> CancelledItem(items[i][m])]]
      BY <2>1 DEF CancelJob, ItemsOnly
    <3>2. items'[j][n] = items[j][n] \/ items'[j][n] = CancelledItem(items[j][n])
      BY <1>2, <3>1
    <3>3. CancelledItem(items[j][n]).status \in {items[j][n].status, "cancelled"}
      BY <1>2 DEF CancelledItem, Item
    <3> QED BY <1>1, <3>2, <3>3
  <2> QED BY <1>3, <2>1 DEF OtherConnection, jobVars
<1>9. RunStep => Finish
  <2>1. Requeue => FALSE
    <3> SUFFICES ASSUME Requeue PROVE FALSE
      OBVIOUS
    <3> DEFINE m == Min(runner.left)
               item == Requeued(itsItems[m])
    <3>1. runner.job \in DOMAIN jobs
      BY RunnerKnown DEF JobsInv, Requeue, At, RunPoints
    <3>2. items' = [items EXCEPT ![runner.job] = [items[runner.job] EXCEPT ![m] = item]]
      BY DEF Requeue, ItemsOnly, itsItems
    <3>3. item.status # "succeeded"
      BY DEF Requeued
    <3> HIDE DEF m, item
    <3> QED BY <1>4, <3>1, <3>2, <3>3
  <2>2. Recount => FALSE
    <3> SUFFICES ASSUME Recount PROVE FALSE
      OBVIOUS
    <3>1. runner.job \in DOMAIN jobs
      BY RunnerKnown DEF JobsInv, Recount, At, RunPoints
    <3>2. items' = [items EXCEPT ![runner.job] = items[runner.job]]
      BY DEF Recount, Recounts, ItemsOnly, itsItems
    <3>3. items'[j] = items[j]
      BY <1>2, <3>1, <3>2
    <3> QED BY <1>1, <3>3
  <2>3. Claim => FALSE
    <3> SUFFICES ASSUME Claim, ~UNCHANGED items PROVE FALSE
      BY <1>3
    <3> DEFINE m == Min(Claimable)
               item == [itsItems[m] EXCEPT !.status = "running"]
    <3>1. runner.job \in DOMAIN jobs
      BY RunnerKnown DEF JobsInv, Claim, At, RunPoints
    <3>2. Claimable # {} /\ items' = [items EXCEPT ![runner.job] = [items[runner.job] EXCEPT ![m] = item]]
      BY DEF Claim, Recounts, ItemsOnly, itsItems
    <3>3. m \in DOMAIN itsItems
      <4>1. itsItems \in Seq(Item) /\ Claimable \subseteq DOMAIN itsItems
        BY <1>2, <3>1 DEF Claimable, With, itsItems
      <4>2. Claimable \in SUBSET Nat
        BY <4>1
      <4> QED BY <3>2, <4>1, <4>2, Least
    <3> HIDE DEF m
    <3>4. itsItems[m] \in Item
      BY <1>2, <3>1, <3>3, GoodJob DEF itsItems
    <3>5. item.status # "succeeded"
      BY <3>4 DEF Item
    <3> HIDE DEF item
    <3> QED BY <1>4, <3>1, <3>2, <3>5
  <2>4. StartAttempt => FALSE
    <3> SUFFICES ASSUME StartAttempt, ~UNCHANGED items PROVE FALSE
      BY <1>3
    <3> DEFINE item == [mine EXCEPT !.count = mine.count + 1,
                                    !.attempts = Append(mine.attempts, "running")]
    <3>1. runner.job \in DOMAIN jobs /\ runner.item \in DOMAIN itsItems
      BY RunnerKnown DEF JobsInv, StartAttempt, At, RunPoints, Works
    <3>2. /\ mine.status = "running"
          /\ items' = [items EXCEPT ![runner.job] = [items[runner.job] EXCEPT ![runner.item] = item]]
      BY DEF StartAttempt, Recounts, ItemsOnly, Replaced, itsItems
    <3>3. mine \in Item
      BY <1>2, <3>1, GoodJob DEF itsItems, mine
    <3>4. item.status # "succeeded"
      BY <3>2, <3>3 DEF Item
    <3> HIDE DEF item
    <3> QED BY <1>4, <3>1, <3>2, <3>4
  <2>5. Fetch => FALSE
    BY <1>3 DEF Fetch
  <2> QED BY <2>1, <2>2, <2>3, <2>4, <2>5, Zenon DEF RunStep
<1>10. ~RecoverStep
  <2>2. Interrupted(items[j][n]).status = items[j][n].status
    BY <1>2 DEF Interrupted, Item
  <2>3. Recovered(items[j][n]).status \in {"pending", items[j][n].status}
    BY <1>2 DEF Recovered, Item
  <2>4. ~Open /\ ~RecoverCounts
    BY <1>3, Zenon DEF Open, RecoverCounts
  <2>5. ~RecoverAttempts
    <3>1. RecoverAttempts => items'[j][n] = Interrupted(items[j][n])
      BY <1>2 DEF RecoverAttempts, Changed
    <3> QED BY <1>1, <2>2, <3>1
  <2>6. ~RecoverItems
    <3>1. RecoverItems => items'[j][n] = Recovered(items[j][n])
      BY <1>2 DEF RecoverItems, Changed
    <3> QED BY <1>1, <2>3, <3>1
  <2> QED BY <2>4, <2>5, <2>6 DEF RecoverStep
<1>11. ~(WriteRefused \/ ProcessDies \/ UserPreviews \/ PreviewGoesOn \/ UNCHANGED vars)
  BY <1>3, Zenon DEF WriteRefused, ProcessDies, UserPreviews, PreviewGoesOn, StoreFails, Crash, jobVars, vars
<1> QED BY <1>6, <1>7, <1>8, <1>9, <1>10, <1>11, Zenon
        DEF Next, HandleCommand, RunGoesOn, EngineOpens

(* That commit finishes the item of the run while its attempt runs; the    *)
(* item is a manifest, or the commit adds the rows of a bag.               *)
LEMMA Landing ==
    ASSUME JobsInv, Finish, NEW j \in DOMAIN jobs, NEW n \in DOMAIN items[j], Succeeds(j, n)
    PROVE  /\ j = runner.job /\ n = runner.item /\ AttemptRunning
           /\ mine.kind = "manifest" \/ FinishBag
<1>1. /\ runner.job \in DOMAIN jobs /\ JobsGood /\ runner.item \in DOMAIN itsItems
      /\ itsItems \in Seq(Item) /\ mine \in Item
      /\ \/ runner.found = NotFound
         \/ runner.found \in IF mine.kind = "manifest" THEN Seq(Sources) ELSE Seq(Shown)
  BY Finishing, RunnerKnown DEF JobsInv, Finish, At, RunPoints, Works, mine
<1>2. AttemptRunning
  <2>1. CASE UNCHANGED items
    BY <2>1 DEF Succeeds
  <2> QED BY <2>1, Zenon DEF Finish
<1>3. ASSUME NEW item, items' = [items EXCEPT ![runner.job] = Replaced(item)]
      PROVE  j = runner.job /\ n = runner.item /\ item.status = "succeeded"
  BY <1>1, <1>3, ChangedItem DEF Replaced, itsItems
<1>4. ~FinishFailed
  <2> SUFFICES ASSUME FinishFailed PROVE FALSE
    OBVIOUS
  <2> DEFINE item == Settled(mine, "failed")
  <2>1. items' = [items EXCEPT ![runner.job] = Replaced(item)]
    BY DEF FinishFailed, Recounts, ItemsOnly
  <2>2. item.status = "failed"
    BY <1>1 DEF Settled, Item
  <2> HIDE DEF item
  <2> QED BY <1>3, <2>1, <2>2
<1>5. CASE FinishBag
  <2> DEFINE item == Settled(mine, "succeeded")
  <2>1. items' = [items EXCEPT ![runner.job] = Replaced(item)]
    BY <1>5, Zenon DEF FinishBag, Recounts, ItemsOnly
  <2> HIDE DEF item
  <2> QED BY <1>2, <1>3, <1>5, <2>1
<1>6. CASE FinishManifest
  <2> DEFINE item == Settled(mine, "succeeded")
             list == Replaced(item)
             found == Distinct(runner.found)
             new == NewItems(list, found, "manifest_bag")
  <2>1. items' = [items EXCEPT ![runner.job] = new] /\ mine.kind = "manifest" /\ runner.found # NotFound
    BY <1>6 DEF FinishManifest, Recounts, ItemsOnly
  <2>2. item \in Item /\ AttemptsMatch(item)
    <3>1. mine.count > 0 /\ AttemptsMatch(mine)
      BY <1>1, GoodJob, RunnerKnown DEF JobsInv, Finish, At, RunPoints, Works, mine, itsItems
    <3> QED BY <1>1, <3>1, SettledItem
  <2>3. found \in Seq(Sources)
    <3>1. runner.found \in Seq(Sources)
      BY <1>1, <2>1
    <3> QED BY <3>1, DistinctSeq
  <2> HIDE DEF item, found
  <2>4. list = [itsItems EXCEPT ![runner.item] = item]
    BY DEF Replaced
  <2> HIDE DEF list
  <2>5. /\ list \in Seq(Item) /\ DOMAIN list = DOMAIN itsItems
        /\ list[runner.item] = item /\ \A m \in DOMAIN itsItems \ {runner.item} : list[m] = itsItems[m]
    BY <1>1, <2>2, <2>4, Put
  <2>6. \A m \in DOMAIN list : AttemptsMatch(list[m])
    <3>1. \A m \in DOMAIN itsItems : AttemptsMatch(itsItems[m])
      BY <1>1, GoodJob DEF itsItems
    <3> QED BY <2>2, <2>5, <3>1
  <2>7. \A m \in DOMAIN list : new[m] = list[m]
    BY <2>3, <2>5, <2>6, NewItemsJoin
  <2> HIDE DEF new
  <2>8. j = runner.job
    <3> SUFFICES ASSUME j # runner.job PROVE FALSE
      OBVIOUS
    <3>1. items'[j] = items[j]
      BY <1>1, <2>1, GoodJob
    <3> QED BY <3>1 DEF Succeeds
  <2>9. items'[j] = new
    BY <1>1, <2>1, <2>8, GoodJob
  <2>10. n = runner.item
    <3> SUFFICES ASSUME n # runner.item PROVE FALSE
      OBVIOUS
    <3>1. n \in DOMAIN itsItems /\ items[j][n] = itsItems[n]
      BY <2>8 DEF itsItems
    <3>2. items'[j][n] = items[j][n]
      BY <2>5, <2>7, <2>9, <3>1
    <3> QED BY <3>2 DEF Succeeds
  <2> QED BY <1>2, <2>1, <2>8, <2>10
<1> QED BY <1>2, <1>4, <1>5, <1>6, Zenon DEF Finish

(* A bag that succeeds shows each of its shipments in the sheet of its     *)
(* job: once if the sheet did not show it, as often as before if it did;   *)
(* no item of a cancelled job succeeds                                     *)
(* (finish_bag_import_attempt_with_sheet_rows in storage.rs).              *)
THEOREM BagsArrive == Spec => BagsLand
<1> DEFINE Lands ==
       \A j \in DOMAIN jobs \cap DOMAIN jobs' : \A n \in DOMAIN items[j] :
          Succeeds(j, n) =>
            /\ items[j][n].status = "running" /\ jobs[j].status # "cancelled"
            /\ items[j][n].kind # "manifest" =>
                 \A x \in Range(runner.found) :
                    LET before == Showing(rows, jobs[j].sheet, x)
                    IN  Cardinality(Showing(rows', jobs[j].sheet, x)) =
                            IF before = {} THEN 1 ELSE Cardinality(before)
<1>1. Init => JobsInv /\ SheetsInv
  BY JobsInit, SheetsInit
<1>2. JobsInv /\ SheetsInv /\ [Next]_vars => (JobsInv /\ SheetsInv)'
  BY JobsStep, SheetsStep
<1>3. JobsInv /\ SheetsInv /\ [Next]_vars => Lands
  <2> SUFFICES ASSUME JobsInv, SheetsInv, [Next]_vars,
                      NEW j \in DOMAIN jobs \cap DOMAIN jobs', NEW n \in DOMAIN items[j],
                      Succeeds(j, n)
               PROVE  /\ items[j][n].status = "running" /\ jobs[j].status # "cancelled"
                      /\ items[j][n].kind # "manifest" =>
                           \A x \in Range(runner.found) :
                              LET before == Showing(rows, jobs[j].sheet, x)
                              IN  Cardinality(Showing(rows', jobs[j].sheet, x)) =
                                      IF before = {} THEN 1 ELSE Cardinality(before)
    OBVIOUS
  <2>1. Finish
    BY OnlyFinish
  <2>2. /\ j = runner.job /\ n = runner.item /\ AttemptRunning
        /\ mine.kind = "manifest" \/ FinishBag
    BY <2>1, Landing
  <2>3. items[j][n] = mine
    BY <2>2 DEF mine, itsItems
  <2>4. items[j][n].status = "running" /\ jobs[j].status # "cancelled"
    BY <2>2, <2>3 DEF AttemptRunning
  <2>5. ASSUME items[j][n].kind # "manifest"
        PROVE  \A x \in Range(runner.found) :
                  Cardinality(Showing(rows', jobs[j].sheet, x)) =
                     IF Showing(rows, jobs[j].sheet, x) = {} THEN 1
                     ELSE Cardinality(Showing(rows, jobs[j].sheet, x))
    <3>1. FinishBag
      BY <2>2, <2>3, <2>5
    <3>2. jobs[runner.job].sheet \in Sheets /\ runner.found \in Seq(Shown)
      BY <2>1, <3>1, Finishing
    <3> QED BY <2>2, <3>1, <3>2, BagRows
  <2> QED BY <2>4, <2>5
<1>4. [][Lands]_vars => BagsLand
  BY DEF BagsLand
<1> QED BY <1>1, <1>2, <1>3, <1>4, PTL DEF Spec

-----------------------------------------------------------------------------
(* The lists that the sheets are                                           *)

(* The rows of the one that are rows of the other, in the same order and   *)
(* with the same lines.                                                    *)
Within(u, t, s) ==
    /\ RowsOf(u, s) \subseteq RowsOf(t, s)
    /\ \A r \in RowsOf(u, s) : Line(u[r]) = Line(t[r])
    /\ \A q, r \in RowsOf(u, s) :
          u[q].position < u[r].position <=> t[q].position < t[r].position
Untouched(u, t, s) ==
    RowsOf(u, s) = RowsOf(t, s) /\ \A r \in RowsOf(t, s) : u[r] = t[r]

LEMMA LinesAt ==
    ASSUME NEW t \in Tables, NEW s
    PROVE  /\ DOMAIN LinesIn(t, s) = DOMAIN InOrder(t, s)
           /\ LinesIn(t, s) \in Seq([shown : Shown, record : Range(Lookup) \cup {NoRecord}])
           /\ Len(LinesIn(t, s)) = Cardinality(RowsOf(t, s))
           /\ Len(LinesIn(t, s)) \in Nat
           /\ \A k \in DOMAIN InOrder(t, s) : LinesIn(t, s)[k] = Line(t[InOrder(t, s)[k]])
<1> DEFINE n == Cardinality(RowsOf(t, s))
           L == [shown : Shown, record : Range(Lookup) \cup {NoRecord}]
<1>1. DOMAIN InOrder(t, s) = 1..n /\ n \in Nat
  BY Order
<1>2. \A k \in 1..n : InOrder(t, s)[k] \in DOMAIN t
  BY <1>1, Order DEF RowsOf
<1>3. \A k \in 1..n : Line(t[InOrder(t, s)[k]]) \in L
  BY <1>2, RowFields DEF Line
<1>4. LinesIn(t, s) = [k \in 1..n |-> Line(t[InOrder(t, s)[k]])]
  BY <1>1 DEF LinesIn
<1> HIDE DEF n, L
<1>5. LinesIn(t, s) \in [1..n -> L]
  BY <1>3, <1>4
<1>6. LinesIn(t, s) \in Seq(L) /\ Len(LinesIn(t, s)) = n
  BY <1>1, <1>5, IsASeq, LenProperties
<1> QED BY <1>1, <1>4, <1>6 DEF n, L

LEMMA SameOrder ==
    ASSUME NEW t \in Tables, NEW u \in Tables, NEW s, RowsOf(u, s) = RowsOf(t, s),
           \A q, r \in RowsOf(t, s) :
              u[q].position < u[r].position <=> t[q].position < t[r].position
    PROVE  InOrder(u, s) = InOrder(t, s)
<1>1. \A r \in RowsOf(t, s) : Before(u, s, r) = Before(t, s, r)
  BY DEF Before
<1> DEFINE R == RowsOf(t, s)
<1> HIDE DEF R
<1>2. RowsOf(u, s) = R /\ RowsOf(t, s) = R
  BY DEF R
<1>3. \A k : (CHOOSE r \in R : Cardinality(Before(u, s, r)) = k - 1) =
             CHOOSE r \in R : Cardinality(Before(t, s, r)) = k - 1
  BY <1>1, <1>2
<1> DEFINE before(k) == CHOOSE r \in R : Cardinality(Before(u, s, r)) = k - 1
           after(k) == CHOOSE r \in R : Cardinality(Before(t, s, r)) = k - 1
           I == 1..Cardinality(R)
<1>4. InOrder(u, s) = [k \in I |-> before(k)] /\ InOrder(t, s) = [k \in I |-> after(k)]
  BY <1>2 DEF InOrder
<1>5. \A k \in I : before(k) = after(k)
  BY <1>3
<1> HIDE DEF before, after, I
<1> QED BY <1>4, <1>5, Zenon

LEMMA SameLines ==
    ASSUME NEW t \in Tables, NEW u \in Tables, NEW s, Within(u, t, s), RowsOf(u, s) = RowsOf(t, s)
    PROVE  LinesIn(u, s) = LinesIn(t, s)
<1>1. InOrder(u, s) = InOrder(t, s)
  BY SameOrder DEF Within
<1>2. \A k \in DOMAIN InOrder(t, s) : InOrder(t, s)[k] \in RowsOf(t, s)
  BY Order
<1>3. \A k \in DOMAIN InOrder(t, s) : Line(u[InOrder(t, s)[k]]) = Line(t[InOrder(t, s)[k]])
  BY <1>2 DEF Within
<1> QED BY <1>1, <1>3, Zenon DEF LinesIn

LEMMA UntouchedLines ==
    ASSUME NEW t \in Tables, NEW u \in Tables, NEW s, Untouched(u, t, s)
    PROVE  LinesIn(u, s) = LinesIn(t, s)
<1>1. Within(u, t, s) /\ RowsOf(u, s) = RowsOf(t, s)
  BY DEF Within, Untouched
<1> QED BY <1>1, SameLines

LEMMA NoLines ==
    ASSUME NEW t \in Tables, NEW s
    PROVE  LinesIn(t, s) = <<>> <=> RowsOf(t, s) = {}
<1>1. Len(LinesIn(t, s)) = Cardinality(RowsOf(t, s)) /\ IsFiniteSet(RowsOf(t, s))
  BY LinesAt, Order
<1>2. Cardinality(RowsOf(t, s)) = 0 <=> RowsOf(t, s) = {}
  BY <1>1, FS_EmptySet
<1>3. LinesIn(t, s) = <<>> <=> Len(LinesIn(t, s)) = 0
  <2>1. LinesIn(t, s) \in Seq([shown : Shown, record : Range(Lookup) \cup {NoRecord}])
    BY LinesAt
  <2> QED BY <2>1, EmptySeq
<1> QED BY <1>1, <1>2, <1>3

LEMMA ListTerms ==
    /\ \A S : Lists!Cardinality(S) = Cardinality(S)
    /\ \A f : Lists!Range(f) = Range(f)
BY DEF Lists!Cardinality, Cardinality, Lists!Range, Range

(* Where rows went, the lines of the others are left.                      *)
LEMMA Shorter ==
    ASSUME NEW t \in Tables, NEW u \in Tables, NEW s, Within(u, t, s),
           NEW I, I = {k \in DOMAIN InOrder(t, s) : InOrder(t, s)[k] \in RowsOf(u, s)}
    PROVE  Lists!Keeps(LinesIn(u, s), LinesIn(t, s), I)
<1> DEFINE U == RowsOf(u, s)
           n == Cardinality(U)
           g == InOrder(u, s)
           place(r) == Place(t, s, r)
           chosen == [k \in 1..n |-> place(g[k])]
<1>1. /\ n \in Nat /\ DOMAIN g = 1..n
      /\ \A k \in 1..n : g[k] \in U /\ g[k] \in RowsOf(t, s) /\ Place(u, s, g[k]) = k
  BY Order DEF Within
<1>2. \A r \in U : place(r) \in I /\ InOrder(t, s)[place(r)] = r
  BY Order DEF Within
<1>3. \A k \in I : InOrder(t, s)[k] \in U /\ place(InOrder(t, s)[k]) = k
  BY Order
<1>4. \A q, r \in U : place(q) < place(r) <=> Place(u, s, q) < Place(u, s, r)
  BY Order DEF Within
<1> HIDE DEF g, U, n, place
<1>5. Cardinality(I) = n
  <2> DEFINE f == [r \in U |-> place(r)]
  <2>1. f \in Bijection(U, I)
    BY <1>2, <1>3 DEF Bijection, Injection, Surjection, IsInjective
  <2>2. IsFiniteSet(U)
    BY Order DEF U
  <2> HIDE DEF f
  <2> QED BY <2>1, <2>2, FS_Bijection DEF n, ExistsBijection
<1>6. \A j, k \in 1..n : j # k => chosen[j] # chosen[k]
  BY <1>1, <1>2
<1>7. chosen \in Lists!SetToSeqs(I)
  <2>1. chosen \in [1..n -> I]
    BY <1>1, <1>2
  <2> HIDE DEF chosen
  <2> QED BY <1>5, <1>6, <2>1, ListTerms DEF Lists!SetToSeqs
<1>8. Lists!Rising(chosen)
  BY <1>1, <1>4 DEF Lists!Rising
<1>9. LinesIn(u, s) = Lists!Picked(LinesIn(t, s), chosen)
  <2>1. DOMAIN LinesIn(u, s) = 1..n /\ \A k \in 1..n : LinesIn(u, s)[k] = Line(u[g[k]])
    BY <1>1, LinesAt DEF g
  <2>2. \A k \in 1..n : chosen[k] \in DOMAIN InOrder(t, s) /\ InOrder(t, s)[chosen[k]] = g[k]
    BY <1>1, <1>2
  <2>3. \A k \in 1..n : LinesIn(t, s)[chosen[k]] = Line(t[g[k]])
    BY <2>2, LinesAt
  <2>4. \A k \in 1..n : Line(t[g[k]]) = Line(u[g[k]])
    BY <1>1 DEF Within, U
  <2>5. LinesIn(u, s) = [k \in 1..n |-> LinesIn(t, s)[chosen[k]]]
    <3>1. LinesIn(u, s) = [k \in DOMAIN LinesIn(u, s) |-> LinesIn(u, s)[k]]
      BY DEF LinesIn
    <3> HIDE DEF chosen
    <3> QED BY <2>1, <2>3, <2>4, <3>1
  <2>6. DOMAIN chosen = 1..n
    OBVIOUS
  <2> HIDE DEF chosen
  <2> QED BY <2>5, <2>6 DEF Lists!Picked
<1> HIDE DEF chosen
<1> QED BY <1>7, <1>8, <1>9 DEF Lists!Keeps

(* Rows that come after all the rows of a sheet.                           *)
Behind(u, t, s) ==
    /\ \A r \in RowsOf(t, s) : r \in RowsOf(u, s) /\ u[r] = t[r]
    /\ \A r \in RowsOf(u, s) \ RowsOf(t, s) :
          \A q \in RowsOf(t, s) : t[q].position < u[r].position

LEMMA Longer ==
    ASSUME NEW t \in Tables, NEW u \in Tables, NEW s, Behind(u, t, s)
    PROVE  /\ Len(LinesIn(t, s)) <= Len(LinesIn(u, s))
           /\ \A k \in 1..Len(LinesIn(t, s)) : LinesIn(u, s)[k] = LinesIn(t, s)[k]
           /\ \A k \in 1..Len(LinesIn(u, s)) : k > Len(LinesIn(t, s)) =>
                 \E r \in RowsOf(u, s) \ RowsOf(t, s) : LinesIn(u, s)[k] = Line(u[r])
<1> DEFINE T == RowsOf(t, s)
           U == RowsOf(u, s)
           m == Cardinality(T)
           n == Cardinality(U)
           f == InOrder(t, s)
           g == InOrder(u, s)
<1>1. /\ m \in Nat /\ n \in Nat /\ DOMAIN f = 1..m /\ DOMAIN g = 1..n
      /\ IsFiniteSet(T) /\ IsFiniteSet(U)
      /\ Len(LinesIn(t, s)) = m /\ Len(LinesIn(u, s)) = n
  BY Order, LinesAt
<1>2. m <= n
  <2>1. T \in SUBSET U
    BY DEF Behind
  <2> HIDE DEF T, U
  <2> QED BY <1>1, <2>1, FS_Subset
<1>3. \A r \in T : Before(u, s, r) = Before(t, s, r)
  <2> SUFFICES ASSUME NEW r \in T PROVE Before(u, s, r) = Before(t, s, r)
    OBVIOUS
  <2>1. T \subseteq U /\ \A q \in T : u[q] = t[q]
    BY DEF Behind
  <2>2. \A q \in U \ T : ~(u[q].position < u[r].position)
    <3>1. \A q \in U : u[q].position \in Nat
      BY RowFields DEF RowsOf
    <3>2. \A q \in U \ T : u[r].position < u[q].position
      BY <2>1 DEF Behind
    <3> QED BY <2>1, <3>1, <3>2
  <2>3. \A q : q \in Before(u, s, r) <=> q \in Before(t, s, r)
    BY <2>1, <2>2 DEF Before
  <2> QED BY <2>3, Zenon DEF Before
<1>4. \A r \in T : Place(u, s, r) = Place(t, s, r)
  BY <1>3 DEF Place
<1>5. ASSUME NEW k \in 1..m
      PROVE  g[k] = f[k] /\ f[k] \in T
  <2> DEFINE r == f[k]
  <2>1. r \in T /\ Place(t, s, r) = k
    BY <1>1, Order
  <2> HIDE DEF r
  <2>2. r \in U /\ Place(u, s, r) = k
    BY <1>4, <2>1 DEF Behind
  <2> QED BY <2>1, <2>2, Order DEF r
<1>6. \A k \in 1..m : LinesIn(u, s)[k] = LinesIn(t, s)[k]
  <2>1. \A k \in 1..m : k \in 1..n
    BY <1>1, <1>2
  <2>2. \A k \in 1..m : LinesIn(u, s)[k] = Line(u[g[k]]) /\ LinesIn(t, s)[k] = Line(t[f[k]])
    BY <1>1, <2>1, LinesAt
  <2>3. \A k \in 1..m : u[g[k]] = t[f[k]]
    BY <1>5 DEF Behind
  <2> QED BY <2>2, <2>3
<1>7. ASSUME NEW k \in 1..n, k > m
      PROVE  \E r \in U \ T : LinesIn(u, s)[k] = Line(u[r])
  <2> DEFINE r == g[k]
  <2>1. r \in U /\ Place(u, s, r) = k /\ LinesIn(u, s)[k] = Line(u[r])
    BY <1>1, Order, LinesAt
  <2>2. r \notin T
    <3> SUFFICES ASSUME r \in T PROVE FALSE
      OBVIOUS
    <3> HIDE DEF r
    <3>1. Place(t, s, r) \in 1..m
      BY <1>1, Order
    <3> QED BY <1>1, <1>4, <1>7, <2>1, <3>1
  <2> QED BY <2>1, <2>2
<1> HIDE DEF m, n
<1> QED BY <1>1, <1>2, <1>6, <1>7

LEMMA AtEnd ==
    ASSUME NEW t \in Tables, NEW u \in Tables, NEW s, Behind(u, t, s),
           NEW r, r \notin RowsOf(t, s), RowsOf(u, s) = RowsOf(t, s) \cup {r}
    PROVE  LinesIn(u, s) = Append(LinesIn(t, s), Line(u[r]))
<1> DEFINE L == LinesIn(t, s)
           M == LinesIn(u, s)
           C == [shown : Shown, record : Range(Lookup) \cup {NoRecord}]
<1>1. L \in Seq(C) /\ M \in Seq(C) /\ Len(L) \in Nat
  BY LinesAt
<1>2. Len(M) = Len(L) + 1
  <2>1. Cardinality(RowsOf(u, s)) = Cardinality(RowsOf(t, s)) + 1
    BY Order, FS_AddElement
  <2> QED BY <2>1, LinesAt
<1>3. \A k \in 1..Len(L) : M[k] = L[k]
  BY Longer
<1>4. M[Len(L) + 1] = Line(u[r])
  <2>1. \A k \in 1..Len(M) : k > Len(L) => \E q \in RowsOf(u, s) \ RowsOf(t, s) : M[k] = Line(u[q])
    BY Longer
  <2>2. RowsOf(u, s) \ RowsOf(t, s) = {r}
    OBVIOUS
  <2>3. \A k \in 1..Len(M) : k > Len(L) => M[k] = Line(u[r])
    BY <2>1, <2>2
  <2> HIDE DEF L, M
  <2> QED BY <1>1, <1>2, <2>3
<1>5. Line(u[r]) \in C
  <2>1. r \in DOMAIN u
    BY DEF RowsOf
  <2> QED BY <2>1, RowFields DEF Line
<1> DEFINE x == Line(u[r])
<1> HIDE DEF L, M, C, x
<1>6. Append(L, x) \in Seq(C) /\ Len(Append(L, x)) = Len(L) + 1
      /\ \A k \in 1..Len(M) : Append(L, x)[k] = M[k]
  <2>1. x \in C
    BY <1>5 DEF x
  <2>2. /\ Append(L, x) \in Seq(C) /\ Len(Append(L, x)) = Len(L) + 1
        /\ \A k \in 1..Len(L) : Append(L, x)[k] = L[k]
        /\ Append(L, x)[Len(L) + 1] = x
    BY <1>1, <2>1, AppendProperties
  <2>3. \A k \in 1..Len(M) : k \in 1..Len(L) \/ k = Len(L) + 1
    BY <1>1, <1>2
  <2> QED BY <1>3, <1>4, <2>2, <2>3 DEF x
<1>7. M = Append(L, x)
  BY <1>1, <1>2, <1>6, SeqEqual
<1> QED BY <1>7 DEF L, M, x

-----------------------------------------------------------------------------
(* Each command is an operation on the lists                               *)

LinesStay(S) == \A s \in Sheets \ S : LinesIn(rows', s) = LinesIn(rows, s)

LEMMA Elsewhere ==
    ASSUME NEW S, LinesStay(S)
    PROVE  Lists!OnlyChanges(S)
BY DEF LinesStay, Lists!OnlyChanges, LinesOf

LEMMA NoneChanges ==
    ASSUME LinesStay({})
    PROVE  UNCHANGED [s \in Sheets |-> LinesOf(s)]
BY DEF LinesStay, LinesOf

LEMMA RefusedStep ==
    ASSUME LinesStay({}), NEW op \in {"edit", "append", "restore", "seed"}, Answer(op, FALSE)
    PROVE  Lists!Refuse
BY NoneChanges DEF Answer, Lists!Refuse

LEMMA ClearStep ==
    ASSUME NEW s \in Sheets, NEW op \in {"clear", "delete_sheet", "import"}, rows \in Tables,
           rows' = Without(rows, RowsOf(rows, s)), Answer(op, TRUE)
    PROVE  Lists!Clear
<1> DEFINE u == Without(rows, RowsOf(rows, s))
<1>0. /\ u \in Tables /\ DOMAIN u = DOMAIN rows \ RowsOf(rows, s)
      /\ \A q \in DOMAIN u : u[q] = rows[q]
  BY RowsOut
<1> HIDE DEF u
<1>1. /\ rows' \in Tables /\ DOMAIN rows' = DOMAIN rows \ RowsOf(rows, s)
      /\ \A q \in DOMAIN rows' : rows'[q] = rows[q]
  BY <1>0 DEF u
<1>2. RowsOf(rows', s) = {}
  BY <1>1 DEF RowsOf
<1>3. ASSUME NEW o \in Sheets, o # s
      PROVE  LinesIn(rows', o) = LinesIn(rows, o)
  <2>1. Untouched(rows', rows, o)
    BY <1>1, <1>3 DEF Untouched, RowsOf
  <2> QED BY <1>1, <2>1, UntouchedLines
<1>4. LinesIn(rows', s) = <<>>
  BY <1>1, <1>2, NoLines
<1>5. [o \in Sheets |-> LinesOf(o)]' = [[o \in Sheets |-> LinesOf(o)] EXCEPT ![s] = <<>>]
  BY <1>3, <1>4 DEF LinesOf
<1> QED BY <1>5 DEF Answer, Lists!Clear, Lists!Answered

LEMMA WroteElsewhere ==
    ASSUME NEW t \in Tables, NEW s, NEW x, NEW record, NEW u, Wrote(t, s, x, record, u),
           NEW o, o # s
    PROVE  Untouched(u, t, o)
<1>1. ASSUME NEW q \in RowsOf(u, o)
      PROVE  q \in RowsOf(t, o) /\ u[q] = t[q]
  <2>1. q # x.row
    BY DEF Wrote, RowsOf
  <2> QED BY <2>1 DEF Wrote, RowsOf
<1>2. ASSUME NEW q \in RowsOf(t, o)
      PROVE  q \in RowsOf(u, o) /\ u[q] = t[q]
  <2>1. q # x.row /\ q \in DOMAIN t /\ t[q].sheet = o
    BY DEF Wrote, RowsOf
  <2>2. q \notin {r \in RowsOf(t, s) : t[r].position = x.position}
    BY <2>1 DEF RowsOf
  <2>3. q \in DOMAIN u /\ u[q] = t[q]
    BY <2>1, <2>2 DEF Wrote
  <2> QED BY <2>1, <2>3 DEF RowsOf
<1> QED BY <1>1, <1>2 DEF Untouched

(* An edit leaves the other sheets alone and makes no record.              *)
EditsOnly(u, t, s) ==
    /\ \A o \in Sheets \ {s} : Untouched(u, t, o)
    /\ \A r \in RowsOf(u, s) :
          u[r].record = NoRecord \/ (r \in RowsOf(t, s) /\ t[r].record = u[r].record)

LEMMA EditsOnce ==
    ASSUME NEW t, NEW w \in Tables, NEW s \in Sheets, NEW x, NEW u,
           Wrote(w, s, x, RecordKept(w, x), u), EditsOnly(w, t, s)
    PROVE  EditsOnly(u, t, s)
<1>1. ASSUME NEW o \in Sheets \ {s}
      PROVE  Untouched(u, t, o)
  <2>1. Untouched(u, w, o) /\ Untouched(w, t, o)
    BY WroteElsewhere DEF EditsOnly
  <2> QED BY <2>1 DEF Untouched
<1>2. ASSUME NEW r \in RowsOf(u, s)
      PROVE  u[r].record = NoRecord \/ (r \in RowsOf(t, s) /\ t[r].record = u[r].record)
  <2>1. CASE r = x.row
    <3>1. u[r].record = RecordKept(w, x)
      BY <2>1 DEF Wrote
    <3>2. r \in DOMAIN w => r \in RowsOf(w, s)
      BY <2>1 DEF Wrote, RowsOf
    <3>3. u[r].record = NoRecord \/ (r \in RowsOf(w, s) /\ w[r].record = u[r].record)
      BY <2>1, <3>1, <3>2 DEF RecordKept, RecordAfter
    <3> QED BY <3>3 DEF EditsOnly
  <2>2. CASE r # x.row
    <3>1. r \in RowsOf(w, s) /\ u[r] = w[r]
      BY <2>2 DEF Wrote, RowsOf
    <3> QED BY <3>1 DEF EditsOnly
  <2> QED BY <2>1, <2>2
<1> QED BY <1>1, <1>2 DEF EditsOnly

LEMMA EditsAll ==
    ASSUME NEW t, NEW base \in Tables, NEW s \in Sheets, NEW list \in Seq(Inputs(RowIds)),
           EditsOnly(base, t, s)
    PROVE  LET u == Edited(s, base, list) IN u = Refused \/ (u \in Tables /\ EditsOnly(u, t, s))
<1> DEFINE Allowed == {Refused} \cup {u \in Tables : EditsOnly(u, t, s)}
           F == [m \in 0..Len(list) |-> Allowed]
<1>1. Len(list) \in Nat /\ base \in F[0] /\ base \in Outcomes
  BY DEF Outcomes
<1>2. ASSUME NEW m \in 1..Len(list)
      PROVE  /\ Refused \in F[m - 1] => Refused \in F[m]
             /\ \A u \in Tables : u \in F[m - 1] => Upserted(u, s, list[m]) \in F[m]
  <2> DEFINE x == list[m]
  <2>1. F[m - 1] = Allowed /\ F[m] = Allowed
    BY <1>1
  <2>2. x.row \in RowIds /\ x.position \in Nat /\ x.shown \in Shown
    <3>1. x \in Inputs(RowIds)
      BY <1>1
    <3> QED BY <3>1 DEF Inputs
  <2>3. ASSUME NEW u \in Tables, EditsOnly(u, t, s), Upserted(u, s, x) # Refused
        PROVE  Upserted(u, s, x) \in Tables /\ EditsOnly(Upserted(u, s, x), t, s)
    <3> DEFINE v == Upserted(u, s, x)
    <3>1. Wrote(u, s, x, RecordKept(u, x), v)
      BY <2>2, <2>3, UpsertedTable
    <3>2. v \in Tables
      BY <3>1 DEF Wrote
    <3> HIDE DEF v, x
    <3>3. EditsOnly(v, t, s)
      BY <2>3, <3>1, EditsOnce
    <3> QED BY <3>2, <3>3 DEF v
  <2> HIDE DEF x, F
  <2>4. \A u \in Tables : u \in Allowed => Upserted(u, s, x) \in Allowed
    BY <2>3, NoTable
  <2> QED BY <2>1, <2>4 DEF x
<1>3. F[Len(list)] = Allowed
  BY <1>1
<1> HIDE DEF F
<1>4. Edited(s, base, list) \in F[Len(list)]
  BY <1>1, <1>2, EditedTable
<1> QED BY <1>3, <1>4

(* A record that no more rows have is in no more lines.                    *)
LEMMA RecordLines ==
    ASSUME NEW t \in Tables, NEW u \in Tables, NEW s, NEW id,
           \A r \in RowsOf(u, s) : u[r].record = id => r \in RowsOf(t, s) /\ t[r].record = id
    PROVE  Cardinality(Lists!RecordsOf(LinesIn(u, s), id)) <=
              Cardinality(Lists!RecordsOf(LinesIn(t, s), id))
<1> DEFINE A == Lists!RecordsOf(LinesIn(u, s), id)
           B == Lists!RecordsOf(LinesIn(t, s), id)
           f == [k \in A |-> Place(t, s, InOrder(u, s)[k])]
<1>1. \A k \in A : /\ k \in DOMAIN InOrder(u, s) /\ InOrder(u, s)[k] \in RowsOf(u, s)
                   /\ u[InOrder(u, s)[k]].record = id
  <2>1. \A k \in A : k \in DOMAIN InOrder(u, s) /\ LinesIn(u, s)[k].record = id
    BY LinesAt DEF Lists!RecordsOf
  <2>2. \A k \in A : LinesIn(u, s)[k] = Line(u[InOrder(u, s)[k]])
    BY <2>1, LinesAt
  <2>3. \A k \in A : InOrder(u, s)[k] \in RowsOf(u, s)
    BY <2>1, Order
  <2>4. \A row : Line(row).record = row.record
    BY DEF Line
  <2> QED BY <2>1, <2>2, <2>3, <2>4
<1>2. \A k \in A : InOrder(u, s)[k] \in RowsOf(t, s) /\ t[InOrder(u, s)[k]].record = id
  BY <1>1
<1>3. ASSUME NEW k \in A
      PROVE  f[k] \in B
  <2> DEFINE r == InOrder(u, s)[k]
             p == Place(t, s, r)
  <2>1. r \in RowsOf(t, s) /\ t[r].record = id
    BY <1>2
  <2> HIDE DEF r
  <2>2. p \in DOMAIN InOrder(t, s) /\ InOrder(t, s)[p] = r
    BY <2>1, Order
  <2> HIDE DEF p
  <2>3. p \in DOMAIN LinesIn(t, s) /\ LinesIn(t, s)[p].record = id
    <3>1. p \in DOMAIN LinesIn(t, s) /\ LinesIn(t, s)[p] = Line(t[r])
      BY <2>2, LinesAt
    <3> QED BY <2>1, <3>1 DEF Line
  <2>4. f[k] = p
    BY DEF p, r
  <2> QED BY <2>3, <2>4 DEF Lists!RecordsOf
<1>4. ASSUME NEW j \in A, NEW k \in A, f[j] = f[k]
      PROVE  j = k
  <2>1. InOrder(u, s)[j] = InOrder(u, s)[k]
    BY <1>2, <1>4, Order
  <2> QED BY <1>1, <2>1, Order
<1>5. IsFiniteSet(B)
  <2> DEFINE n == Cardinality(RowsOf(t, s))
  <2>1. B \in SUBSET (1..n) /\ n \in Nat
    BY LinesAt, Order DEF Lists!RecordsOf
  <2> HIDE DEF n
  <2> QED BY <2>1, FinitePlaces
<1>6. f \in Injection(A, B)
  BY <1>3, <1>4 DEF Injection, IsInjective
<1> HIDE DEF f, A, B
<1>7. Cardinality(A) <= Cardinality(B)
  BY <1>5, <1>6, FS_Injection
<1> QED BY <1>7 DEF A, B

LEMMA EditLines ==
    ASSUME SheetsInv, SheetsInv', NEW s \in Sheets, NEW inputs \in Edits, NEW replace \in BOOLEAN,
           Edit(s, inputs, replace)
    PROVE  Lists!Edit \/ Lists!Refuse
<1> DEFINE base == IF replace THEN Without(rows, RowsOf(rows, s)) ELSE rows
           u == Edited(s, base, inputs)
<1>1. base \in Tables /\ EditsOnly(base, rows, s)
  <2>1. CASE ~replace
    BY <2>1 DEF SheetsInv, EditsOnly, Untouched
  <2>2. CASE replace
    <3> DEFINE w == Without(rows, RowsOf(rows, s))
    <3>1. /\ w \in Tables /\ DOMAIN w = DOMAIN rows \ RowsOf(rows, s)
          /\ \A q \in DOMAIN w : w[q] = rows[q]
      BY RowsOut DEF SheetsInv
    <3>2. base = w
      BY <2>2
    <3> HIDE DEF w, base
    <3>3. RowsOf(w, s) = {}
      BY <3>1 DEF RowsOf
    <3>4. \A o \in Sheets \ {s} : Untouched(w, rows, o)
      BY <3>1 DEF Untouched, RowsOf
    <3> QED BY <3>1, <3>2, <3>3, <3>4 DEF EditsOnly
  <2> QED BY <2>1, <2>2
<1>2. inputs \in Seq(Inputs(RowIds))
  BY EditedRows
<1>3. Committed("edit", u)
  BY DEF Edit
<1> HIDE DEF base
<1>4. u = Refused \/ (u \in Tables /\ EditsOnly(u, rows, s))
  BY <1>1, <1>2, EditsAll
<1> HIDE DEF u
<1>5. CASE u = Refused
  <2>1. rows' = rows /\ Answer("edit", FALSE)
    BY <1>3, <1>5 DEF Committed
  <2>2. LinesStay({})
    BY <2>1 DEF LinesStay
  <2> QED BY <2>1, <2>2, RefusedStep
<1>6. CASE u # Refused
  <2>1. rows' = u /\ u \in Tables /\ EditsOnly(u, rows, s) /\ Answer("edit", TRUE) /\ rows \in Tables
    BY <1>3, <1>4, <1>6 DEF Committed, SheetsInv
  <2>2. LinesStay({s})
    BY <2>1, UntouchedLines DEF LinesStay, EditsOnly
  <2>3. ASSUME NEW id \in Range(Lookup)
        PROVE  Cardinality(Lists!RecordsOf(LinesIn(u, s), id)) <=
                  Cardinality(Lists!RecordsOf(LinesIn(rows, s), id))
    <3>1. \A r \in RowsOf(u, s) : u[r].record = id => r \in RowsOf(rows, s) /\ rows[r].record = id
      BY <2>1, SheetRowsAssumption DEF EditsOnly
    <3> QED BY <2>1, <3>1, RecordLines
  <2>4. \A line \in Range(LinesIn(u, s)) : line.record \in {NoRecord, Lookup[line.shown]}
    <3>1. \A k \in DOMAIN InOrder(u, s) : InOrder(u, s)[k] \in DOMAIN u
      BY <2>1, Order DEF RowsOf
    <3>2. \A k \in DOMAIN InOrder(u, s) :
             Line(u[InOrder(u, s)[k]]).record \in {NoRecord, Lookup[Line(u[InOrder(u, s)[k]]).shown]}
      <4>1. \A r \in DOMAIN u : u[r] \in Row
        BY <2>1, RowFields
      <4> QED BY <3>1, <4>1 DEF Row, Line
    <3>3. \A k \in DOMAIN LinesIn(u, s) :
             LinesIn(u, s)[k].record \in {NoRecord, Lookup[LinesIn(u, s)[k].shown]}
      BY <2>1, <3>2, LinesAt
    <3> QED BY <3>3 DEF Range
  <2>5. Lists!OnlyChanges({s})
    BY <2>2, Elsewhere
  <2>6. Lists!Answered("edit", TRUE)
    BY <2>1 DEF Answer, Lists!Answered
  <2>7. [o \in Sheets |-> LinesOf(o)][s] = LinesIn(rows, s)
        /\ ([o \in Sheets |-> LinesOf(o)]')[s] = LinesIn(u, s)
    BY <2>1 DEF LinesOf
  <2> QED BY <2>3, <2>4, <2>5, <2>6, <2>7, ListTerms DEF Lists!Edit
<1> QED BY <1>5, <1>6

(* What joins a sheet behind its rows, without records.                    *)
Joins(u, t, s) ==
    /\ Behind(u, t, s) /\ \A o \in Sheets \ {s} : Untouched(u, t, o)
    /\ \A r \in RowsOf(u, s) \ RowsOf(t, s) : u[r].record = NoRecord

LEMMA Joined ==
    ASSUME NEW s \in Sheets, rows \in Tables, rows' \in Tables, Joins(rows', rows, s),
           Answer("append", TRUE) \/ UNCHANGED reply
    PROVE  Lists!AppendLines
<1> DEFINE L == LinesIn(rows, s)
           M == LinesIn(rows', s)
           added == SubSeq(M, Len(L) + 1, Len(M))
           C == [shown : Shown, record : Range(Lookup) \cup {NoRecord}]
<1>1. L \in Seq(C) /\ M \in Seq(C) /\ Len(L) \in Nat /\ Len(M) \in Nat
  BY LinesAt
<1>2. /\ Len(L) <= Len(M) /\ \A k \in 1..Len(L) : M[k] = L[k]
      /\ \A k \in 1..Len(M) : k > Len(L) =>
            \E r \in RowsOf(rows', s) \ RowsOf(rows, s) : M[k] = Line(rows'[r])
  <2>1. Behind(rows', rows, s)
    BY DEF Joins
  <2> QED BY <2>1, Longer
<1>3. \A k \in 1..Len(M) : k > Len(L) => M[k].record = NoRecord
  <2>1. \A r \in RowsOf(rows', s) \ RowsOf(rows, s) : Line(rows'[r]).record = NoRecord
    BY DEF Joins, Line
  <2> QED BY <1>2, <2>1
<1>4. LinesStay({s})
  BY UntouchedLines DEF LinesStay, Joins
<1> HIDE DEF L, M, C
<1>5. /\ added \in Seq(C) /\ Len(added) = Len(M) - Len(L)
      /\ \A k \in 1..Len(added) : added[k] = M[Len(L) + k]
  BY <1>1, <1>2
<1> HIDE DEF added
<1>6. M = L \o added
  <2>1. /\ L \o added \in Seq(C) /\ Len(L \o added) = Len(L) + Len(added)
        /\ \A k \in 1..(Len(L) + Len(added)) :
              (L \o added)[k] = IF k <= Len(L) THEN L[k] ELSE added[k - Len(L)]
    BY <1>1, <1>5, ConcatProperties
  <2>2. \A k \in 1..Len(M) : (L \o added)[k] = M[k]
    BY <1>1, <1>2, <1>5, <2>1
  <2>3. Len(L \o added) = Len(M)
    BY <1>1, <1>5, <2>1
  <2> QED BY <1>1, <2>1, <2>2, <2>3, SeqEqual
<1>7. \A k \in DOMAIN added : added[k].record = NoRecord
  <2> SUFFICES ASSUME NEW k \in DOMAIN added PROVE added[k].record = NoRecord
    OBVIOUS
  <2>1. k \in 1..Len(added)
    BY <1>5
  <2>2. Len(L) + k \in 1..Len(M) /\ Len(L) + k > Len(L)
    BY <1>1, <1>2, <1>5, <2>1
  <2>3. added[k] = M[Len(L) + k]
    BY <1>5, <2>1
  <2> QED BY <1>3, <2>2, <2>3
<1>8. [o \in Sheets |-> LinesOf(o)][s] = L /\ ([o \in Sheets |-> LinesOf(o)]')[s] = M
  BY DEF LinesOf, L, M
<1>9. Lists!OnlyChanges({s})
  BY <1>4, Elsewhere
<1>10. Lists!Answered("append", TRUE) \/ UNCHANGED reply
  BY DEF Answer, Lists!Answered
<1> QED BY <1>6, <1>7, <1>8, <1>9, <1>10, Zenon DEF Lists!AppendLines, added

(* The rows that an append has written so far, below the place `bound`.    *)
Appends(u, t, s, bound) ==
    /\ Joins(u, t, s)
    /\ \A r \in RowsOf(u, s) : u[r].position < bound

LEMMA AppendsOnce ==
    ASSUME NEW t \in Tables, NEW w \in Tables, NEW s \in Sheets, NEW x, NEW u,
           x.position \in Nat, x.row \notin DOMAIN w,
           Wrote(w, s, x, NoRecord, u), Appends(w, t, s, x.position)
    PROVE  Appends(u, t, s, x.position + 1)
<1>1. ASSUME NEW o \in Sheets \ {s}
      PROVE  Untouched(u, t, o)
  <2>1. Untouched(u, w, o) /\ Untouched(w, t, o)
    BY WroteElsewhere DEF Appends, Joins
  <2> QED BY <2>1 DEF Untouched
<1>2. {q \in RowsOf(w, s) : w[q].position = x.position} = {}
  <2>1. \A q \in RowsOf(w, s) : w[q].position \in Nat /\ w[q].position < x.position
    BY RowFields DEF Appends, RowsOf
  <2> QED BY <2>1
<1>3. /\ DOMAIN u = DOMAIN w \cup {x.row} /\ \A q \in DOMAIN w : u[q] = w[q]
      /\ u[x.row].sheet = s /\ u[x.row].position = x.position /\ u[x.row].record = NoRecord
  BY <1>2 DEF Wrote
<1>4. RowsOf(u, s) = RowsOf(w, s) \cup {x.row}
  <2>1. \A r : r \in RowsOf(u, s) <=> r \in RowsOf(w, s) \/ r = x.row
    BY <1>3 DEF RowsOf
  <2> QED BY <2>1
<1>5. \A r \in RowsOf(w, s) : u[r] = w[r]
  BY <1>3 DEF RowsOf
<1>6. ASSUME NEW r \in RowsOf(t, s)
      PROVE  /\ r \in RowsOf(u, s) /\ u[r] = t[r]
             /\ t[r].position < x.position
  <2>1. r \in RowsOf(w, s) /\ w[r] = t[r]
    BY DEF Appends, Joins, Behind
  <2> QED BY <1>4, <1>5, <2>1 DEF Appends
<1>7. ASSUME NEW r \in RowsOf(u, s) \ RowsOf(t, s)
      PROVE  u[r].record = NoRecord /\ \A q \in RowsOf(t, s) : t[q].position < u[r].position
  <2>1. CASE r = x.row
    BY <1>3, <1>6, <2>1
  <2>2. CASE r # x.row
    <3>1. r \in RowsOf(w, s) \ RowsOf(t, s) /\ u[r] = w[r]
      BY <1>4, <1>5, <2>2
    <3> QED BY <3>1 DEF Appends, Joins, Behind
  <2> QED BY <2>1, <2>2
<1>8. ASSUME NEW r \in RowsOf(u, s)
      PROVE  u[r].position < x.position + 1
  <2>1. CASE r = x.row
    BY <1>3, <2>1
  <2>2. CASE r # x.row
    <3>1. r \in RowsOf(w, s) /\ u[r] = w[r]
      BY <1>4, <1>5, <2>2
    <3>2. w[r].position \in Nat /\ w[r].position < x.position
      BY <3>1, RowFields DEF Appends, RowsOf
    <3> QED BY <3>1, <3>2
  <2> QED BY <2>1, <2>2
<1> QED BY <1>1, <1>6, <1>7, <1>8 DEF Appends, Joins, Behind

LEMMA AppendLinesStep ==
    ASSUME SheetsInv, SheetsInv', NEW s \in Sheets, NEW list \in Edits, AppendRows(s, list)
    PROVE  Lists!AppendLines \/ Lists!Refuse
<1> DEFINE start == NextPosition(rows, s)
           Sound(acc, m) == /\ acc.table = Refused \/ acc.index = m
                            /\ acc.table # Refused => Appends(acc.table, rows, s, start + m)
           F == [m \in 0..Len(list) |-> {acc \in Appending : Sound(acc, m)}]
           first == [table |-> rows, index |-> 0]
           after == Appended(s, start, rows, list)
<1>1. rows \in Outcomes /\ rows \in Tables /\ start \in Nat /\ list \in Seq(Inputs(RowIds))
  BY NextPlace, EditedRows DEF SheetsInv, Outcomes
<1>2. Appends(rows, rows, s, start)
  BY <1>1, NextPlace DEF Appends, Joins, Behind, Untouched
<1> HIDE DEF start
<1>3. first \in F[0] /\ Len(list) \in Nat
  BY <1>1, <1>2 DEF Appending
<1>4. ASSUME NEW m \in 1..Len(list), NEW acc \in Appending, acc \in F[m - 1]
      PROVE  AppendOne(s, start, acc, list[m]) \in F[m]
  <2> DEFINE x == list[m]
             new == [x EXCEPT !.position = start + acc.index]
             w == acc.table
             u == Upserted(w, s, new)
             row == x.row
  <2>1. m - 1 \in 0..Len(list) /\ m \in 0..Len(list) /\ x \in Inputs(RowIds)
    BY <1>1, <1>3
  <2>2. Sound(acc, m - 1) /\ w \in Outcomes
    BY <1>4, <2>1 DEF Appending
  <2>3. CASE w = Refused \/ row \in DOMAIN w
    <3>1. AppendOne(s, start, acc, x) = [acc EXCEPT !.table = Refused]
      BY <2>3 DEF AppendOne
    <3> DEFINE no == [acc EXCEPT !.table = Refused]
    <3>2. no \in Appending /\ no.table = Refused
      BY DEF Appending, Outcomes
    <3> HIDE DEF no
    <3>3. no \in F[m]
      BY <2>1, <3>2
    <3> QED BY <3>1, <3>3 DEF no
  <2>4. CASE ~(w = Refused \/ row \in DOMAIN w)
    <3> DEFINE yes == [table |-> u, index |-> acc.index + 1]
    <3>1. AppendOne(s, start, acc, x) = yes
      BY <2>4 DEF AppendOne
    <3>2. /\ w \in Tables /\ acc.index = m - 1 /\ Appends(w, rows, s, start + (m - 1))
      BY <2>2, <2>4 DEF Outcomes
    <3>3. /\ new.row = row /\ new.position = start + (m - 1) /\ new.shown = x.shown
          /\ row \in RowIds /\ x.shown \in Shown /\ start + (m - 1) \in Nat
      <4> DEFINE place == start + acc.index
      <4>1. place = start + (m - 1) /\ place \in Nat
        BY <1>1, <2>1, <3>2
      <4> HIDE DEF place
      <4>2. /\ [x EXCEPT !.position = place].row = x.row
            /\ [x EXCEPT !.position = place].position = place
            /\ [x EXCEPT !.position = place].shown = x.shown
            /\ x.row \in RowIds /\ x.shown \in Shown
        <5> HIDE DEF x
        <5> QED BY <2>1 DEF Inputs
      <4> QED BY <4>1, <4>2 DEF place
    <3> HIDE DEF new, w, row
    <3>4. u # Refused => u \in Tables /\ Appends(u, rows, s, start + m)
      <4> SUFFICES ASSUME u # Refused PROVE u \in Tables /\ Appends(u, rows, s, start + m)
        OBVIOUS
      <4>1. new.row \in RowIds /\ new.position \in Nat /\ new.shown \in Shown
        BY <3>3
      <4>2. Wrote(w, s, new, RecordKept(w, new), u)
        BY <3>2, <4>1, UpsertedTable
      <4>3. RecordKept(w, new) = NoRecord /\ new.row \notin DOMAIN w
        BY <2>4, <3>3 DEF RecordKept
      <4>4. Appends(w, rows, s, new.position) /\ Wrote(w, s, new, NoRecord, u)
        BY <3>2, <3>3, <4>2, <4>3
      <4> HIDE DEF u
      <4>5. Appends(u, rows, s, new.position + 1)
        BY <1>1, <3>2, <4>1, <4>3, <4>4, AppendsOnce
      <4>6. new.position + 1 = start + m
        BY <1>1, <2>1, <3>3
      <4> QED BY <4>2, <4>5, <4>6 DEF Wrote
    <3> HIDE DEF u
    <3>5. yes \in Appending /\ Sound(yes, m)
      BY <2>1, <3>2, <3>4 DEF Appending, Outcomes
    <3> HIDE DEF yes, Sound
    <3>6. yes \in F[m]
      BY <2>1, <3>5
    <3> QED BY <3>1, <3>6
  <2> QED BY <2>3, <2>4
<1> HIDE DEF F
<1>5. after \in Appending /\ after \in F[Len(list)]
  BY <1>1, <1>3, <1>4, AppendedTable
<1>6. after.table = Refused \/ (after.table \in Tables /\ Joins(after.table, rows, s))
  <2>1. Sound(after, Len(list))
    BY <1>3, <1>5 DEF F
  <2> QED BY <1>5, <2>1 DEF Appending, Outcomes, Appends
<1>7. Committed("append", after.table)
  BY DEF AppendRows, start
<1> HIDE DEF after
<1>8. CASE after.table = Refused
  <2>1. rows' = rows /\ Answer("append", FALSE)
    BY <1>7, <1>8 DEF Committed
  <2>2. LinesStay({})
    BY <2>1 DEF LinesStay
  <2> QED BY <2>1, <2>2, RefusedStep
<1>9. CASE after.table # Refused
  <2>1. rows' \in Tables /\ Joins(rows', rows, s) /\ Answer("append", TRUE)
    BY <1>6, <1>7, <1>9 DEF Committed
  <2> QED BY <1>1, <2>1, Joined
<1> QED BY <1>8, <1>9

(* A deletion leaves the other rows in their order, compacted or not.      *)
LEMMA CompactedRows ==
    ASSUME NEW t \in Tables, NEW s \in Sheets
    PROVE  LET u == Compacted(t, s) IN
           /\ u \in Tables /\ RowsOf(u, s) = RowsOf(t, s) /\ Within(u, t, s)
           /\ \A o \in Sheets \ {s} : Untouched(u, t, o)
<1> DEFINE u == Compacted(t, s)
           rank(r) == Cardinality(Before(t, s, r))
<1>1. /\ DOMAIN u = DOMAIN t
      /\ \A r \in DOMAIN t : u[r] = IF t[r].sheet = s THEN [t[r] EXCEPT !.position = rank(r)] ELSE t[r]
  BY DEF Compacted
<1>2. u \in Tables
  BY CompactedTable
<1> HIDE DEF u, rank
<1>3. ASSUME NEW r \in DOMAIN t, t[r].sheet = s
      PROVE  /\ u[r].sheet = s /\ u[r].position = rank(r)
             /\ u[r].shown = t[r].shown /\ u[r].record = t[r].record
  <2>1. t[r] \in Row /\ u[r] = [t[r] EXCEPT !.position = rank(r)]
    BY <1>1, <1>3, RowFields
  <2> QED BY <1>3, <2>1 DEF Row
<1>4. \A r \in DOMAIN t : t[r].sheet # s => u[r] = t[r]
  BY <1>1
<1>5. RowsOf(u, s) = RowsOf(t, s)
  BY <1>1, <1>3, <1>4 DEF RowsOf
<1>6. \A o \in Sheets \ {s} : Untouched(u, t, o)
  <2> SUFFICES ASSUME NEW o \in Sheets \ {s} PROVE Untouched(u, t, o)
    OBVIOUS
  <2>1. \A r : r \in RowsOf(u, o) <=> r \in RowsOf(t, o)
    BY <1>1, <1>3, <1>4 DEF RowsOf
  <2>2. \A r \in RowsOf(t, o) : u[r] = t[r]
    BY <1>4 DEF RowsOf
  <2> QED BY <2>1, <2>2 DEF Untouched
<1>7. Within(u, t, s)
  <2>1. \A r \in RowsOf(t, s) : Line(u[r]) = Line(t[r]) /\ u[r].position = rank(r)
    BY <1>3 DEF RowsOf, Line
  <2>2. \A q, r \in RowsOf(t, s) : rank(q) < rank(r) <=> t[q].position < t[r].position
    <3>1. \A q, r \in RowsOf(t, s) : Place(t, s, q) < Place(t, s, r) <=> t[q].position < t[r].position
      BY Order
    <3>2. \A r \in RowsOf(t, s) : rank(r) \in Nat /\ Place(t, s, r) = rank(r) + 1
      <4>1. \A r \in RowsOf(t, s) : r \in DOMAIN t
        BY DEF RowsOf
      <4> QED BY <4>1, Ranks DEF Place, rank
    <3> QED BY <3>1, <3>2
  <2> QED BY <1>5, <2>1, <2>2 DEF Within
<1> QED BY <1>2, <1>5, <1>6, <1>7 DEF u

LEMMA WithoutRows ==
    ASSUME NEW t \in Tables, NEW s \in Sheets, NEW R
    PROVE  LET u == Without(t, RowsOf(t, s) \cap R) IN
           /\ u \in Tables /\ RowsOf(u, s) = RowsOf(t, s) \ R /\ Within(u, t, s)
           /\ \A o \in Sheets \ {s} : Untouched(u, t, o)
<1> DEFINE gone == RowsOf(t, s) \cap R
           u == Without(t, gone)
<1>1. u \in Tables /\ DOMAIN u = DOMAIN t \ gone /\ \A q \in DOMAIN t \ gone : u[q] = t[q]
  BY RowsOut
<1> HIDE DEF u
<1>2. RowsOf(u, s) = RowsOf(t, s) \ R
  BY <1>1 DEF RowsOf
<1>3. \A r \in RowsOf(u, s) : u[r] = t[r]
  BY <1>1 DEF RowsOf
<1>4. Within(u, t, s)
  BY <1>2, <1>3 DEF Within
<1>5. \A o \in Sheets \ {s} : Untouched(u, t, o)
  BY <1>1 DEF Untouched, RowsOf
<1> QED BY <1>1, <1>2, <1>4, <1>5 DEF u

LEMMA Deleted ==
    ASSUME NEW t \in Tables, NEW s \in Sheets, NEW R
    PROVE  LET u == Compacted(Without(t, RowsOf(t, s) \cap R), s) IN
           /\ u \in Tables /\ RowsOf(u, s) = RowsOf(t, s) \ R /\ Within(u, t, s)
           /\ \A o \in Sheets \ {s} : Untouched(u, t, o)
<1> DEFINE w == Without(t, RowsOf(t, s) \cap R)
           u == Compacted(w, s)
<1>1. /\ w \in Tables /\ RowsOf(w, s) = RowsOf(t, s) \ R /\ Within(w, t, s)
      /\ \A o \in Sheets \ {s} : Untouched(w, t, o)
  BY WithoutRows
<1> HIDE DEF w
<1>2. /\ u \in Tables /\ RowsOf(u, s) = RowsOf(w, s) /\ Within(u, w, s)
      /\ \A o \in Sheets \ {s} : Untouched(u, w, o)
  BY <1>1, CompactedRows
<1> HIDE DEF u
<1>3. Within(u, t, s)
  BY <1>1, <1>2 DEF Within
<1>4. \A o \in Sheets \ {s} : Untouched(u, t, o)
  BY <1>1, <1>2 DEF Untouched
<1> QED BY <1>1, <1>2, <1>3, <1>4 DEF u, w

LEMMA DeleteLines ==
    ASSUME SheetsInv, SheetsInv', NEW s \in Sheets, NEW ids, DeleteRows(s, ids)
    PROVE  Lists!RemoveLines
<1> DEFINE u == Compacted(Without(rows, RowsOf(rows, s) \cap Range(ids)), s)
           I == {k \in DOMAIN InOrder(rows, s) : InOrder(rows, s)[k] \in RowsOf(rows', s)}
<1>1. rows \in Tables /\ rows' \in Tables
  BY DEF SheetsInv
<1>2. Committed("delete", IF ids = <<>> THEN rows ELSE u)
  BY DEF DeleteRows
<1>3. u \in Tables /\ Within(u, rows, s) /\ \A o \in Sheets \ {s} : Untouched(u, rows, o)
  BY <1>1, Deleted
<1> HIDE DEF u
<1>4. rows' = (IF ids = <<>> THEN rows ELSE u) /\ Answer("delete", TRUE)
  BY <1>1, <1>2, <1>3, NoTable DEF Committed
<1>5. Within(rows', rows, s) /\ \A o \in Sheets \ {s} : Untouched(rows', rows, o)
  BY <1>3, <1>4 DEF Within, Untouched
<1>6. Lists!Keeps(LinesIn(rows', s), LinesIn(rows, s), I)
  BY <1>1, <1>5, Shorter
<1>7. LinesStay({s})
  BY <1>1, <1>5, UntouchedLines DEF LinesStay
<1>8. Lists!OnlyChanges({s})
  BY <1>7, Elsewhere
<1>9. I \in SUBSET DOMAIN LinesIn(rows, s)
  BY <1>1, LinesAt
<1>10. [o \in Sheets |-> LinesOf(o)][s] = LinesIn(rows, s)
       /\ ([o \in Sheets |-> LinesOf(o)]')[s] = LinesIn(rows', s)
  BY DEF LinesOf
<1> HIDE DEF I
<1>11. Lists!Answered("delete", TRUE)
  BY <1>4 DEF Answer, Lists!Answered
<1> QED BY <1>6, <1>8, <1>9, <1>10, <1>11, Zenon DEF Lists!RemoveLines

(* A copied row is a new row at the end of the target, with its record:    *)
(* the name is free, and so is the place.                                  *)
LEMMA CopiedOnce ==
    ASSUME NEW w \in Tables, NEW s \in Sheets, NEW target \in Sheets, NEW r \in RowsOf(w, s)
    PROVE  LET u == Copied(s, target, w, r) IN
           /\ u \in Tables
           /\ LinesIn(u, target) = Append(LinesIn(w, target), Line(w[r]))
           /\ \A o \in Sheets \ {target} : Untouched(u, w, o)
<1> DEFINE u == Copied(s, target, w, r)
           place == NextPosition(w, target)
           id == GeneratedId(w, target, place)
           row == [w[r] EXCEPT !.sheet = target, !.position = place]
<1>1. place \in Nat /\ \A q \in RowsOf(w, target) : w[q].position < place
  BY NextPlace
<1> HIDE DEF place
<1>2. id \in RowIds /\ id \notin DOMAIN w
  BY <1>1, FreshId
<1>3. u = Inserted(w, id, row)
  BY DEF Copied, place
<1>4. r \in DOMAIN w /\ w[r] \in Row
  BY RowFields DEF RowsOf
<1>5. row \in Row /\ row.sheet = target /\ row.position = place /\ Line(row) = Line(w[r])
  BY <1>1, <1>4 DEF Row, Line
<1> HIDE DEF u, id, row
<1>6. \A q \in RowsOf(w, target) : w[q].position # place
  <2>1. \A q \in RowsOf(w, target) : w[q].position \in Nat
    BY RowFields DEF RowsOf
  <2> QED BY <1>1, <2>1
<1>7. u = Inserting(w, id, row)
  BY <1>2, <1>3, <1>5, <1>6 DEF Inserted
<1>8. Placed(w, id, row)
  BY <1>5, <1>6 DEF Placed, RowsOf
<1>9. /\ u \in Tables /\ DOMAIN u = DOMAIN w \cup {id} /\ u[id] = row
      /\ \A q \in DOMAIN w : u[q] = w[q]
  <2> DEFINE v == Inserting(w, id, row)
  <2>1. /\ v \in Tables /\ DOMAIN v = DOMAIN w \cup {id} /\ v[id] = row
        /\ \A q \in DOMAIN w \ {id} : v[q] = w[q]
    BY <1>2, <1>5, <1>8, RowIn
  <2> HIDE DEF v
  <2>2. u = v
    BY <1>7 DEF v
  <2> QED BY <1>2, <2>1, <2>2
<1>10. RowsOf(u, target) = RowsOf(w, target) \cup {id} /\ id \notin RowsOf(w, target)
  <2>1. \A q : q \in RowsOf(u, target) <=> q \in RowsOf(w, target) \/ q = id
    BY <1>5, <1>9 DEF RowsOf
  <2> QED BY <1>2, <2>1 DEF RowsOf
<1>11. Behind(u, w, target)
  <2>1. \A q \in RowsOf(w, target) : q \in RowsOf(u, target) /\ u[q] = w[q]
    BY <1>9, <1>10 DEF RowsOf
  <2>2. \A x \in RowsOf(u, target) \ RowsOf(w, target) :
           \A q \in RowsOf(w, target) : w[q].position < u[x].position
    BY <1>1, <1>5, <1>9, <1>10
  <2> QED BY <2>1, <2>2 DEF Behind
<1>12. LinesIn(u, target) = Append(LinesIn(w, target), Line(u[id]))
  BY <1>9, <1>10, <1>11, AtEnd
<1>13. ASSUME NEW o \in Sheets \ {target}
       PROVE  Untouched(u, w, o)
  <2>1. \A q : q \in RowsOf(u, o) <=> q \in RowsOf(w, o)
    BY <1>2, <1>5, <1>9 DEF RowsOf
  <2>2. \A q \in RowsOf(w, o) : u[q] = w[q]
    BY <1>9 DEF RowsOf
  <2> QED BY <2>1, <2>2 DEF Untouched
<1> QED BY <1>5, <1>9, <1>12, <1>13 DEF u

(* The places in the source of the first m rows that are named, and the    *)
(* target when they have been copied in that order.                        *)
Chosen(t, s, named, m) ==
    {p \in DOMAIN InOrder(t, s) : \E j \in 1..m : named[j] = InOrder(t, s)[p]}
SentTo(u, t, s, target, named, m) ==
    /\ \A o \in Sheets \ {target} : Untouched(u, t, o)
    /\ \E c \in Seq(DOMAIN InOrder(t, s)) :
          /\ \A j, k \in DOMAIN c : c[j] = c[k] => j = k
          /\ {c[k] : k \in DOMAIN c} = Chosen(t, s, named, m)
          /\ LinesIn(u, target) = LinesIn(t, target) \o Lists!Picked(LinesIn(t, s), c)

LEMMA PickedOne ==
    ASSUME NEW C, NEW list \in Seq(C), NEW c \in Seq(DOMAIN list), NEW p \in DOMAIN list
    PROVE  /\ Lists!Picked(list, c) \in Seq(C)
           /\ Lists!Picked(list, Append(c, p)) = Append(Lists!Picked(list, c), list[p])
<1> DEFINE D == DOMAIN list
           a == Append(c, p)
           P == Lists!Picked(list, c)
           Q == Lists!Picked(list, a)
           n == Len(c)
<1>1. n \in Nat /\ DOMAIN c = 1..n /\ \A k \in 1..n : c[k] \in D /\ list[c[k]] \in C
  OBVIOUS
<1>2. /\ a \in Seq(D) /\ Len(a) = n + 1 /\ DOMAIN a = 1..(n + 1)
      /\ \A k \in 1..n : a[k] = c[k]
      /\ a[n + 1] = p
  <2> HIDE DEF D
  <2>1. c \in Seq(D) /\ p \in D
    BY DEF D
  <2> QED BY <2>1, AppendProperties, LenProperties
<1> HIDE DEF n, a
<1>3. P = [k \in 1..n |-> list[c[k]]] /\ Q = [k \in 1..(n + 1) |-> list[a[k]]]
  BY <1>1, <1>2 DEF Lists!Picked
<1>4. list[p] \in C
  OBVIOUS
<1> HIDE DEF P, Q
<1>5. P \in Seq(C) /\ Len(P) = n
  <2>1. P \in [1..n -> C]
    BY <1>1, <1>3
  <2> QED BY <1>1, <2>1, IsASeq, LenProperties
<1>6. \A k \in 1..(n + 1) : list[a[k]] \in C
  BY <1>1, <1>2, <1>4
<1>7. Q \in Seq(C) /\ Len(Q) = n + 1
  <2> DEFINE N == n + 1
  <2>1. Q \in [1..N -> C] /\ N \in Nat
    BY <1>1, <1>3, <1>6
  <2> HIDE DEF N
  <2>2. Q \in Seq(C) /\ Len(Q) = N
    BY <2>1, IsASeq, LenProperties
  <2> QED BY <2>2 DEF N
<1> DEFINE x == list[p]
           A == Append(P, x)
<1>8. x \in C
  BY <1>4
<1> HIDE DEF x
<1>9. /\ A \in Seq(C) /\ Len(A) = n + 1 /\ \A k \in 1..n : A[k] = P[k]
      /\ A[n + 1] = x
  BY <1>5, <1>8, AppendProperties
<1>10. \A k \in 1..(n + 1) : A[k] = Q[k]
  <2>1. \A k \in 1..n : A[k] = list[c[k]] /\ Q[k] = list[a[k]]
    BY <1>1, <1>3, <1>9
  <2>2. Q[n + 1] = x
    BY <1>1, <1>2, <1>3 DEF x
  <2>3. \A k \in 1..(n + 1) : k \in 1..n \/ k = n + 1
    BY <1>1
  <2> QED BY <1>2, <1>9, <2>1, <2>2, <2>3
<1> HIDE DEF A
<1>11. A = Q
  BY <1>7, <1>9, <1>10, SeqEqual
<1> QED BY <1>5, <1>11 DEF A, P, Q, a, x

LEMMA PickedBehind ==
    ASSUME NEW C, NEW list \in Seq(C), NEW front \in Seq(C), NEW c \in Seq(DOMAIN list),
           NEW p \in DOMAIN list
    PROVE  front \o Lists!Picked(list, Append(c, p)) = Append(front \o Lists!Picked(list, c), list[p])
<1> DEFINE back == Lists!Picked(list, c)
           x == list[p]
<1>1. back \in Seq(C) /\ Lists!Picked(list, Append(c, p)) = Append(back, x)
  BY PickedOne
<1>2. x \in C
  OBVIOUS
<1> HIDE DEF back, x
<1>3. Append(front \o back, x) = front \o Append(back, x)
  <2> DEFINE joined == front \o back
             longer == Append(back, x)
             left == Append(joined, x)
             right == front \o longer
             m == Len(front)
             n == Len(back)
  <2>1. m \in Nat /\ n \in Nat
    BY <1>1
  <2>2. /\ joined \in Seq(C) /\ Len(joined) = m + n
        /\ \A k \in 1..(m + n) : joined[k] = IF k <= m THEN front[k] ELSE back[k - m]
    BY <1>1, ConcatProperties
  <2>3. /\ longer \in Seq(C) /\ Len(longer) = n + 1 /\ longer[n + 1] = x
        /\ \A k \in 1..n : longer[k] = back[k]
    BY <1>1, <1>2, AppendProperties
  <2> HIDE DEF joined, longer, m, n
  <2>4. /\ left \in Seq(C) /\ Len(left) = m + n + 1 /\ left[m + n + 1] = x
        /\ \A k \in 1..(m + n) : left[k] = joined[k]
    BY <1>2, <2>2, AppendProperties
  <2>5. /\ right \in Seq(C) /\ Len(right) = m + (n + 1)
        /\ \A k \in 1..(m + (n + 1)) : right[k] = IF k <= m THEN front[k] ELSE longer[k - m]
    <3> DEFINE N == Len(longer)
    <3>1. longer \in Seq(C) /\ N = n + 1
      BY <2>3
    <3>2. /\ right \in Seq(C) /\ Len(right) = m + N
          /\ \A k \in 1..(m + N) : right[k] = IF k <= m THEN front[k] ELSE longer[k - m]
      <4> HIDE DEF N
      <4>1. /\ front \o longer \in Seq(C) /\ Len(front \o longer) = Len(front) + Len(longer)
            /\ \A k \in 1..(Len(front) + Len(longer)) :
                  (front \o longer)[k] = IF k <= Len(front) THEN front[k] ELSE longer[k - Len(front)]
        BY <3>1, ConcatProperties
      <4> QED BY <4>1 DEF m, N
    <3> HIDE DEF N, right
    <3> QED BY <3>1, <3>2
  <2> HIDE DEF left, right
  <2>6. Len(left) = Len(right)
    BY <2>1, <2>4, <2>5
  <2>7. ASSUME NEW k \in 1..Len(left)
        PROVE  left[k] = right[k]
    <3>1. k \in 1..(m + n) \/ k = m + n + 1
      BY <2>1, <2>4
    <3>2. CASE k \in 1..(m + n)
      <4>1. (~(k <= m) => k - m \in 1..n) /\ k \in 1..(m + (n + 1))
        BY <2>1, <3>2
      <4>2. left[k] = IF k <= m THEN front[k] ELSE back[k - m]
        BY <2>2, <2>4, <3>2
      <4>3. right[k] = IF k <= m THEN front[k] ELSE longer[k - m]
        BY <2>5, <4>1
      <4>4. ~(k <= m) => longer[k - m] = back[k - m]
        BY <2>3, <4>1
      <4> QED BY <4>2, <4>3, <4>4
    <3>3. CASE k = m + n + 1
      <4>1. ~(k <= m) /\ k - m = n + 1 /\ k \in 1..(m + (n + 1))
        BY <2>1, <3>3
      <4> QED BY <2>3, <2>4, <2>5, <3>3, <4>1
    <3> QED BY <3>1, <3>2, <3>3
  <2>8. left = right
    BY <2>4, <2>5, <2>6, <2>7, SeqEqual
  <2> QED BY <2>8 DEF left, right, joined, longer
<1> QED BY <1>1, <1>3 DEF back, x

LEMMA SentOne ==
    ASSUME NEW t \in Tables, NEW w \in Tables, NEW s \in Sheets, NEW target \in Sheets, s # target,
           NEW named \in Seq(RowIds), NEW m \in 1..Len(named),
           \A j, k \in DOMAIN named : named[j] = named[k] => j = k,
           SentTo(w, t, s, target, named, m - 1)
    PROVE  LET u == Copied(s, target, w, named[m]) IN
           u \in Tables /\ SentTo(u, t, s, target, named, m)
<1> DEFINE r == named[m]
           u == Copied(s, target, w, r)
           f == InOrder(t, s)
           D == DOMAIN f
           L == LinesIn(t, s)
           B == LinesIn(t, target)
           C == [shown : Shown, record : Range(Lookup) \cup {NoRecord}]
<1>1. PICK c \in Seq(D) :
          /\ \A j, k \in DOMAIN c : c[j] = c[k] => j = k
          /\ {c[k] : k \in DOMAIN c} = Chosen(t, s, named, m - 1)
          /\ LinesIn(w, target) = B \o Lists!Picked(L, c)
  BY DEF SentTo
<1>2. RowsOf(w, s) = RowsOf(t, s) /\ \A q \in RowsOf(t, s) : w[q] = t[q]
  BY DEF SentTo, Untouched
<1>3. m \in Nat /\ \A j \in 1..m : j \in 1..(m - 1) \/ j = m
  OBVIOUS
<1>4. Chosen(t, s, named, m) = Chosen(t, s, named, m - 1) \cup {p \in D : f[p] = r}
  <2>1. \A j \in 1..(m - 1) : j \in 1..m
    BY <1>3
  <2>2. m \in 1..m
    BY <1>3
  <2> HIDE DEF f
  <2>3. \A p \in D : (\E j \in 1..m : named[j] = f[p]) <=>
                       (\E j \in 1..(m - 1) : named[j] = f[p]) \/ f[p] = r
    BY <1>3, <2>1, <2>2
  <2> QED BY <2>3 DEF Chosen, f
<1>5. CASE r \notin RowsOf(w, s)
  <2>1. u = w
    BY <1>5 DEF Copied
  <2>2. \A p \in D : f[p] # r
    BY <1>2, <1>5, Order
  <2>3. Chosen(t, s, named, m) = Chosen(t, s, named, m - 1)
    BY <1>4, <2>2
  <2> QED BY <2>1, <2>3 DEF SentTo
<1>6. CASE r \in RowsOf(w, s)
  <2> DEFINE p == Place(t, s, r)
             x == Line(w[r])
             d == Append(c, p)
  <2>1. p \in D /\ f[p] = r /\ \A k \in D : f[k] = r => k = p
    BY <1>2, <1>6, Order
  <2>2. L \in Seq(C) /\ B \in Seq(C) /\ D = DOMAIN L /\ L[p] = x
    <3>1. L[p] = Line(t[r])
      BY <2>1, LinesAt
    <3> QED BY <1>2, <1>6, <3>1, LinesAt
  <2>3. /\ u \in Tables /\ LinesIn(u, target) = Append(LinesIn(w, target), x)
        /\ \A o \in Sheets \ {target} : Untouched(u, w, o)
    BY <1>6, CopiedOnce
  <2> HIDE DEF u, p, x, L, B, C, f
  <2>4. p \notin {c[k] : k \in DOMAIN c}
    <3>1. \A j \in 1..(m - 1) : named[j] # f[p]
      BY <2>1
    <3> QED BY <1>1, <3>1 DEF Chosen, f
  <2>5. /\ Len(c) \in Nat /\ DOMAIN c = 1..Len(c)
        /\ d \in Seq(D) /\ DOMAIN d = 1..(Len(c) + 1)
        /\ \A k \in 1..Len(c) : d[k] = c[k]
        /\ d[Len(c) + 1] = p
    <3> HIDE DEF D
    <3> QED BY <2>1, AppendProperties, LenProperties
  <2>6. \A k \in 1..(Len(c) + 1) : k \in 1..Len(c) \/ k = Len(c) + 1
    BY <2>5
  <2> HIDE DEF d
  <2>7. \A j, k \in DOMAIN d : d[j] = d[k] => j = k
    BY <1>1, <2>4, <2>5, <2>6
  <2>8. {d[k] : k \in DOMAIN d} = Chosen(t, s, named, m)
    <3>1. {d[k] : k \in DOMAIN d} = {c[k] : k \in DOMAIN c} \cup {p}
      <4>1. \A k \in 1..Len(c) : k \in 1..(Len(c) + 1)
        BY <2>5
      <4>2. Len(c) + 1 \in 1..(Len(c) + 1)
        BY <2>5
      <4> QED BY <2>5, <2>6, <4>1, <4>2
    <3>2. {k \in D : f[k] = r} = {p}
      BY <2>1
    <3> QED BY <1>1, <1>4, <3>1, <3>2 DEF f
  <2>9. LinesIn(u, target) = B \o Lists!Picked(L, d)
    <3>1. B \o Lists!Picked(L, Append(c, p)) = Append(B \o Lists!Picked(L, c), L[p])
      <4>1. L \in Seq(C) /\ B \in Seq(C) /\ c \in Seq(DOMAIN L) /\ p \in DOMAIN L
        BY <1>1, <2>1, <2>2
      <4> QED BY <4>1, PickedBehind, Zenon
    <3> QED BY <1>1, <2>2, <2>3, <3>1 DEF d
  <2>10. \A o \in Sheets \ {target} : Untouched(u, t, o)
    BY <2>3 DEF SentTo, Untouched
  <2> QED BY <2>3, <2>5, <2>7, <2>8, <2>9, <2>10 DEF SentTo, u, L, B, f
<1> QED BY <1>5, <1>6

LEMMA SentAll ==
    ASSUME NEW t \in Tables, NEW s \in Sheets, NEW target \in Sheets, s # target,
           NEW named \in Seq(RowIds),
           \A j, k \in DOMAIN named : named[j] = named[k] => j = k
    PROVE  LET u == AllCopied(s, target, t, named) IN
           u \in Tables /\ SentTo(u, t, s, target, named, Len(named))
<1> DEFINE F == [m \in 0..Len(named) |-> {u \in Tables : SentTo(u, t, s, target, named, m)}]
<1>1. Len(named) \in Nat
  OBVIOUS
<1>2. t \in F[0]
  <2>1. Chosen(t, s, named, 0) = {}
    BY DEF Chosen
  <2>2. <<>> \in Seq(DOMAIN InOrder(t, s)) /\ DOMAIN <<>> = {}
    OBVIOUS
  <2>3. LinesIn(t, target) = LinesIn(t, target) \o Lists!Picked(LinesIn(t, s), <<>>)
    <3>1. Lists!Picked(LinesIn(t, s), <<>>) = <<>>
      BY DEF Lists!Picked
    <3> DEFINE C == [shown : Shown, record : Range(Lookup) \cup {NoRecord}]
    <3>2. LinesIn(t, target) \in Seq(C)
      BY LinesAt
    <3> HIDE DEF C
    <3> QED BY <3>1, <3>2, ConcatEmptySeq
  <2>4. SentTo(t, t, s, target, named, 0)
    BY <2>1, <2>2, <2>3 DEF SentTo, Untouched
  <2> QED BY <1>1, <2>4
<1>3. ASSUME NEW m \in 1..Len(named)
      PROVE  /\ Refused \in F[m - 1] => Refused \in F[m]
             /\ \A u \in Tables : u \in F[m - 1] => Copied(s, target, u, named[m]) \in F[m]
  <2>1. m - 1 \in 0..Len(named) /\ m \in 0..Len(named)
    BY <1>1
  <2>2. /\ F[m - 1] = {u \in Tables : SentTo(u, t, s, target, named, m - 1)}
        /\ F[m] = {u \in Tables : SentTo(u, t, s, target, named, m)}
    BY <2>1
  <2> HIDE DEF F
  <2>3. \A u \in F[m - 1] : Copied(s, target, u, named[m]) \in F[m]
    BY <2>2, SentOne
  <2> QED BY <2>2, <2>3, NoTable
<1>4. F[Len(named)] = {u \in Tables : SentTo(u, t, s, target, named, Len(named))}
  BY <1>1
<1> HIDE DEF F
<1>5. t \in Outcomes
  BY DEF Outcomes
<1>6. AllCopied(s, target, t, named) \in F[Len(named)]
  BY <1>2, <1>3, <1>5, TransferredTable
<1> QED BY <1>4, <1>6

LEMMA Selection ==
    ASSUME NEW D, IsFiniteSet(D), NEW c \in Seq(D), \A j, k \in DOMAIN c : c[j] = c[k] => j = k
    PROVE  c \in Lists!SetToSeqs({c[k] : k \in DOMAIN c})
<1> DEFINE n == Len(c)
           I == {c[k] : k \in DOMAIN c}
<1>1. n \in Nat /\ DOMAIN c = 1..n /\ c \in [1..n -> D]
  OBVIOUS
<1>2. I \in SUBSET D
  BY <1>1
<1>3. Cardinality(1..n) = n /\ IsFiniteSet(1..n)
  <2> HIDE DEF n
  <2> QED BY <1>1, FS_Interval
<1> DEFINE K == 1..n
<1>4. c \in Bijection(K, I)
  BY <1>1 DEF Bijection, Injection, Surjection, IsInjective
<1>5. Cardinality(I) = n
  <2>1. ExistsBijection(K, I) /\ IsFiniteSet(K) /\ Cardinality(K) = n
    BY <1>3, <1>4 DEF ExistsBijection
  <2> HIDE DEF I, K, n
  <2> QED BY <2>1, FS_Bijection
<1>6. c \in [1..n -> I]
  BY <1>1
<1> HIDE DEF n, I
<1> QED BY <1>1, <1>5, <1>6, ListTerms DEF Lists!SetToSeqs, I

LEMMA TransferLines ==
    ASSUME SheetsInv, SheetsInv', NEW s \in Sheets, NEW target \in Sheets, NEW ids \in Seq(RowIds),
           NEW move \in BOOLEAN, Transfer(s, target, ids, move)
    PROVE  Lists!Transfer
<1> DEFINE named == Distinct(ids)
           copied == AllCopied(s, target, rows, named)
           left == Compacted(Without(copied, RowsOf(rows, s) \cap Range(named)), s)
           outcome == IF s = target THEN rows
                      ELSE IF copied = Refused \/ ~move \/ named = <<>> THEN copied ELSE left
           op == IF move THEN "move" ELSE "copy"
           f == InOrder(rows, s)
           D == DOMAIN f
           L == LinesIn(rows, s)
           Done(c) == /\ c \in Lists!SetToSeqs(Range(c)) /\ Range(c) \in SUBSET D
                      /\ s = target => c = <<>>
                      /\ LinesIn(rows', target) = LinesIn(rows, target) \o Lists!Picked(L, c)
                      /\ LinesStay({s, target})
                      /\ ~move => LinesStay({target})
                      /\ move => Lists!Keeps(LinesIn(rows', s), L, D \ Range(c))
<1>1. /\ rows \in Tables /\ rows' \in Tables /\ named \in Seq(RowIds)
      /\ \A j, k \in DOMAIN named : named[j] = named[k] => j = k
  BY DistinctSeq, DistinctAll DEF SheetsInv
<1>2. Committed(op, outcome)
  BY DEF Transfer
<1>3. IsFiniteSet(D) /\ D = DOMAIN L
  <2>1. D = 1..Cardinality(RowsOf(rows, s)) /\ Cardinality(RowsOf(rows, s)) \in Nat /\ D = DOMAIN L
    BY <1>1, Order, LinesAt
  <2> DEFINE n == Cardinality(RowsOf(rows, s))
  <2> HIDE DEF n
  <2> QED BY <2>1, FS_Interval DEF n
<1> HIDE DEF named
<1>4. ASSUME s = target
      PROVE  rows' = rows /\ Answer(op, TRUE) /\ Done(<<>>)
  <2>1. rows' = rows /\ Answer(op, TRUE)
    BY <1>1, <1>2, <1>4, NoTable DEF Committed
  <2>2. <<>> \in Seq(D) /\ Range(<<>>) = {} /\ DOMAIN <<>> = {}
    BY DEF Range
  <2>3. <<>> \in Lists!SetToSeqs(Range(<<>>))
    <3> DEFINE c == <<>>
    <3>1. c \in Seq(D) /\ (\A j, k \in DOMAIN c : c[j] = c[k] => j = k)
          /\ {c[k] : k \in DOMAIN c} = Range(c)
      BY <2>2
    <3> HIDE DEF c
    <3>2. c \in Lists!SetToSeqs(Range(c))
      BY <1>3, <3>1, Selection
    <3> QED BY <3>2 DEF c
  <2>4. LinesIn(rows', target) = LinesIn(rows, target) \o Lists!Picked(L, <<>>)
    <3>1. Lists!Picked(L, <<>>) = <<>>
      BY DEF Lists!Picked
    <3> DEFINE C == [shown : Shown, record : Range(Lookup) \cup {NoRecord}]
    <3>2. LinesIn(rows, target) \in Seq(C)
      BY <1>1, LinesAt
    <3> HIDE DEF C
    <3> QED BY <2>1, <3>1, <3>2, ConcatEmptySeq
  <2>5. Lists!Keeps(LinesIn(rows', s), L, D \ Range(<<>>))
    <3> DEFINE I == {k \in D : f[k] \in RowsOf(rows', s)}
    <3>1. Within(rows', rows, s)
      BY <2>1 DEF Within
    <3>2. Lists!Keeps(LinesIn(rows', s), L, I)
      BY <1>1, <3>1, Shorter
    <3>3. I = D \ Range(<<>>)
      BY <1>1, <2>1, <2>2, Order
    <3> QED BY <3>2, <3>3
  <2>6. LinesStay({s, target}) /\ LinesStay({target})
    BY <2>1 DEF LinesStay
  <2> QED BY <1>4, <2>1, <2>2, <2>3, <2>4, <2>5, <2>6
<1>5. ASSUME s # target
      PROVE  Answer(op, TRUE) /\ \E c : Done(c)
  <2>1. copied \in Tables /\ SentTo(copied, rows, s, target, named, Len(named))
    BY <1>1, <1>5, SentAll
  <2> HIDE DEF copied
  <2>2. PICK c \in Seq(D) :
            /\ \A j, k \in DOMAIN c : c[j] = c[k] => j = k
            /\ {c[k] : k \in DOMAIN c} = Chosen(rows, s, named, Len(named))
            /\ LinesIn(copied, target) = LinesIn(rows, target) \o Lists!Picked(L, c)
    BY <2>1 DEF SentTo
  <2>3. /\ \A o \in Sheets \ {target} : Untouched(copied, rows, o)
        /\ Untouched(copied, rows, s)
    BY <1>5, <2>1 DEF SentTo
  <2>4. left \in Tables /\ RowsOf(left, s) = RowsOf(copied, s) \ Range(named) /\ Within(left, copied, s)
        /\ \A o \in Sheets \ {s} : Untouched(left, copied, o)
    <3> DEFINE R == Range(named)
               v == Compacted(Without(copied, RowsOf(copied, s) \cap R), s)
    <3>1. RowsOf(rows, s) = RowsOf(copied, s)
      BY <2>3 DEF Untouched
    <3>2. left = v
      BY <3>1
    <3>3. v \in Tables /\ RowsOf(v, s) = RowsOf(copied, s) \ R /\ Within(v, copied, s)
          /\ \A o \in Sheets \ {s} : Untouched(v, copied, o)
      <4> HIDE DEF R
      <4> QED BY <2>1, Deleted
    <3> HIDE DEF v
    <3> QED BY <3>2, <3>3
  <2> HIDE DEF left
  <2>5. Range(c) = {p \in D : f[p] \in Range(named)} /\ Range(c) = {c[k] : k \in DOMAIN c}
    <3>1. DOMAIN named = 1..Len(named)
      BY <1>1
    <3>2. Range(named) = {named[j] : j \in 1..Len(named)}
      BY <3>1 DEF Range
    <3> HIDE DEF f
    <3>3. Chosen(rows, s, named, Len(named)) = {p \in D : f[p] \in Range(named)}
      BY <3>2 DEF Chosen, f
    <3> QED BY <2>2, <3>3 DEF Range
  <2>6. c \in Lists!SetToSeqs(Range(c)) /\ Range(c) \in SUBSET D
    BY <1>3, <2>2, <2>5, Selection
  <2>7. outcome = copied \/ (outcome = left /\ move)
    BY <1>5
  <2>8. named = <<>> => Range(named) = {}
    BY DEF Range
  <2>9. move => \/ outcome = left
                \/ outcome = copied /\ Range(named) = {}
    BY <1>5, <2>1, <2>8, NoTable
  <2> HIDE DEF outcome
  <2>10. rows' = outcome /\ Answer(op, TRUE)
    BY <1>2, <2>1, <2>4, <2>7, NoTable DEF Committed
  <2>11. LinesIn(rows', target) = LinesIn(copied, target)
    BY <1>5, <2>1, <2>4, <2>7, <2>10, UntouchedLines
  <2>12. \A o \in Sheets \ {s, target} : Untouched(rows', rows, o)
    BY <2>3, <2>4, <2>7, <2>10 DEF Untouched
  <2>13. LinesStay({s, target})
    BY <1>1, <2>12, UntouchedLines DEF LinesStay
  <2>14. ~move => LinesStay({target})
    BY <1>1, <2>3, <2>7, <2>10, UntouchedLines DEF LinesStay
  <2>15. ASSUME move
         PROVE  Lists!Keeps(LinesIn(rows', s), L, D \ Range(c))
    <3> DEFINE I == {k \in D : f[k] \in RowsOf(rows', s)}
    <3>1. RowsOf(rows', s) = RowsOf(rows, s) \ Range(named)
      BY <2>3, <2>4, <2>9, <2>10, <2>15 DEF Untouched
    <3>2. Within(rows', rows, s)
      BY <2>3, <2>4, <2>7, <2>10 DEF Untouched, Within
    <3>3. Lists!Keeps(LinesIn(rows', s), L, I)
      BY <1>1, <3>2, Shorter
    <3>4. \A k \in D : f[k] \in RowsOf(rows, s)
      BY <1>1, Order
    <3> HIDE DEF f, D
    <3>5. I = D \ Range(c)
      BY <2>5, <3>1, <3>4
    <3> QED BY <3>3, <3>5
  <2>16. Done(c)
    BY <1>5, <2>2, <2>6, <2>10, <2>11, <2>13, <2>14, <2>15
  <2> HIDE DEF Done
  <2> QED BY <2>10, <2>16
<1> HIDE DEF copied, left, outcome, Done
<1>6. PICK c : Answer(op, TRUE) /\ Done(c)
  BY <1>4, <1>5
<1>7. [o \in Sheets |-> LinesOf(o)][s] = L /\ [o \in Sheets |-> LinesOf(o)][target] = LinesIn(rows, target)
      /\ ([o \in Sheets |-> LinesOf(o)]')[s] = LinesIn(rows', s)
      /\ ([o \in Sheets |-> LinesOf(o)]')[target] = LinesIn(rows', target)
  BY DEF LinesOf
<1>8. c \in Lists!Selections(L)
  BY <1>3, <1>6 DEF Done, Lists!Selections
<1>9. Lists!Range(c) = Range(c)
  BY ListTerms
<1>10. /\ Lists!OnlyChanges({s, target})
       /\ ~move => Lists!OnlyChanges({target})
  <2>1. /\ LinesStay({s, target})
        /\ ~move => LinesStay({target})
    BY <1>6 DEF Done
  <2> QED BY <2>1, Elsewhere
<1>11. (~move => Lists!Answered("copy", TRUE)) /\ (move => Lists!Answered("move", TRUE))
  BY <1>6 DEF Answer, Lists!Answered
<1>12. /\ s = target => c = <<>>
       /\ LinesIn(rows', target) = LinesIn(rows, target) \o Lists!Picked(L, c)
       /\ move => Lists!Keeps(LinesIn(rows', s), L, DOMAIN L \ Range(c))
  BY <1>3, <1>6 DEF Done
<1> HIDE DEF L
<1> QED BY <1>7, <1>8, <1>9, <1>10, <1>11, <1>12, Zenon DEF Lists!Transfer

LEMMA CopyLines ==
    ASSUME SheetsInv, SheetsInv', NEW s \in Sheets, NEW t \in Sheets, CopySheet(s, t)
    PROVE  Lists!Transfer
<1> DEFINE ids == InOrder(rows, s)
           move == FALSE
<1>1. ids \in Seq(RowIds)
  <2>1. RowsOf(rows, s) \subseteq RowIds
    BY TableIn DEF RowsOf, SheetsInv, Table
  <2>2. ids \in Seq(RowsOf(rows, s))
    BY OrderedRows DEF SheetsInv
  <2> QED BY <2>1, <2>2
<1>2. move \in BOOLEAN /\ Transfer(s, t, ids, move)
  BY DEF CopySheet
<1> HIDE DEF ids, move
<1> QED BY <1>1, <1>2, TransferLines

LEMMA BagLines ==
    ASSUME JobsInv, SheetsInv, SheetsInv', Finish, FinishBag
    PROVE  Lists!AppendLines
<1> DEFINE s == jobs[runner.job].sheet
<1>1. s \in Sheets /\ runner.found \in Seq(Shown) /\ UNCHANGED reply
  <2>1. UNCHANGED reply
    BY Zenon DEF Finish
  <2> QED BY <2>1, Finishing
<1>2. /\ \A r \in DOMAIN rows : r \in DOMAIN rows' /\ rows'[r] = rows[r]
      /\ \A r \in DOMAIN rows' \ DOMAIN rows :
            /\ rows'[r].sheet = s /\ rows'[r].record = NoRecord
            /\ \A q \in RowsOf(rows, s) : rows[q].position < rows'[r].position
  BY <1>1, BagRows
<1> HIDE DEF s
<1>3. \A r \in RowsOf(rows, s) : r \in RowsOf(rows', s) /\ rows'[r] = rows[r]
  BY <1>2 DEF RowsOf
<1>4. \A r \in RowsOf(rows', s) \ RowsOf(rows, s) :
         /\ rows'[r].record = NoRecord
         /\ \A q \in RowsOf(rows, s) : rows[q].position < rows'[r].position
  <2>1. \A r \in RowsOf(rows', s) \ RowsOf(rows, s) : r \in DOMAIN rows' \ DOMAIN rows
    BY <1>2 DEF RowsOf
  <2> QED BY <1>2, <2>1
<1>5. ASSUME NEW o \in Sheets \ {s}
      PROVE  Untouched(rows', rows, o)
  <2>1. \A r : r \in RowsOf(rows', o) <=> r \in RowsOf(rows, o)
    BY <1>2 DEF RowsOf
  <2>2. \A r \in RowsOf(rows, o) : rows'[r] = rows[r]
    BY <1>2 DEF RowsOf
  <2> QED BY <2>1, <2>2 DEF Untouched
<1>6. Joins(rows', rows, s)
  BY <1>3, <1>4, <1>5 DEF Joins, Behind
<1> QED BY <1>1, <1>6, Joined DEF SheetsInv

(* A record that is stored is the record of one line.                      *)
LEMMA TrackLines ==
    ASSUME SheetsInv, SheetsInv', NEW r \in DOMAIN rows, RecordStored(r)
    PROVE  Lists!Track
<1> DEFINE s == rows[r].sheet
           x == rows[r].shown
           k == Place(rows, s, r)
           u == [rows EXCEPT ![r].record = Lookup[x]]
           L == LinesIn(rows, s)
           D == DOMAIN InOrder(rows, s)
<1>1. rows \in Tables /\ rows' \in Tables /\ s \in Sheets /\ x \in Shown /\ rows[r] \in Row
  BY RowFields DEF SheetsInv
<1>2. rows' = u /\ UNCHANGED reply
  BY DEF RecordStored
<1> HIDE DEF s, x
<1>3. /\ DOMAIN u = DOMAIN rows /\ u[r] = [rows[r] EXCEPT !.record = Lookup[x]]
      /\ \A q \in DOMAIN rows \ {r} : u[q] = rows[q]
  BY <1>1, RecordedTable DEF x
<1> HIDE DEF u
<1>4. /\ DOMAIN rows' = DOMAIN rows /\ rows'[r] = [rows[r] EXCEPT !.record = Lookup[x]]
      /\ \A q \in DOMAIN rows \ {r} : rows'[q] = rows[q]
  BY <1>2, <1>3
<1>5. /\ rows'[r].sheet = s /\ rows'[r].position = rows[r].position
      /\ rows'[r].shown = x /\ rows'[r].record = Lookup[x]
  BY <1>1, <1>4 DEF Row, s, x
<1>6. \A q \in DOMAIN rows : rows'[q].sheet = rows[q].sheet /\ rows'[q].position = rows[q].position
  BY <1>4, <1>5 DEF s
<1>7. \A o : RowsOf(rows', o) = RowsOf(rows, o)
  BY <1>4, <1>6 DEF RowsOf
<1>8. InOrder(rows', s) = InOrder(rows, s)
  <2>1. \A q \in RowsOf(rows, s) : q \in DOMAIN rows
    BY DEF RowsOf
  <2> QED BY <1>1, <1>6, <1>7, <2>1, SameOrder
<1>9. k \in D /\ InOrder(rows, s)[k] = r /\ \A j \in D : InOrder(rows, s)[j] = r => j = k
  <2>1. r \in RowsOf(rows, s)
    BY DEF RowsOf, s
  <2> QED BY <1>1, <2>1, Order
<1> HIDE DEF k
<1>10. \A j \in D : L[j] = Line(rows[InOrder(rows, s)[j]])
                    /\ LinesIn(rows', s)[j] = Line(rows'[InOrder(rows, s)[j]])
  BY <1>1, <1>8, LinesAt
<1>11. DOMAIN L = D /\ DOMAIN LinesIn(rows', s) = D
  BY <1>1, <1>8, LinesAt
<1>12. \A j \in D : j # k => LinesIn(rows', s)[j] = L[j]
  <2>1. \A j \in D : j # k => InOrder(rows, s)[j] \in DOMAIN rows \ {r}
    BY <1>1, <1>9, Order DEF RowsOf
  <2> QED BY <1>4, <1>10, <2>1
<1>13. L[k] = [shown |-> x, record |-> rows[r].record]
       /\ LinesIn(rows', s)[k] = [shown |-> x, record |-> Lookup[x]]
  <2>1. L[k] = Line(rows[r]) /\ LinesIn(rows', s)[k] = Line(rows'[r])
    BY <1>9, <1>10
  <2> QED BY <1>5, <2>1 DEF Line, x
<1>14. LinesIn(rows', s) = [L EXCEPT ![k].record = Lookup[L[k].shown]]
  <2> DEFINE line == [L[k] EXCEPT !.record = Lookup[L[k].shown]]
  <2>1. line = LinesIn(rows', s)[k]
    BY <1>13
  <2> HIDE DEF line
  <2>2. \A j \in D : LinesIn(rows', s)[j] = [L EXCEPT ![k] = line][j]
    BY <1>9, <1>11, <1>12, <2>1
  <2>3. LinesIn(rows', s) = [L EXCEPT ![k] = line]
    <3>1. LinesIn(rows', s) = [j \in DOMAIN LinesIn(rows', s) |-> LinesIn(rows', s)[j]]
      BY DEF LinesIn
    <3> QED BY <1>11, <2>2, <3>1
  <2> QED BY <2>3 DEF line
<1>15. \A o \in Sheets : o # s => LinesIn(rows', o) = LinesIn(rows, o)
  <2> SUFFICES ASSUME NEW o \in Sheets, o # s PROVE LinesIn(rows', o) = LinesIn(rows, o)
    OBVIOUS
  <2>1. \A q \in RowsOf(rows, o) : rows'[q] = rows[q]
    BY <1>4 DEF RowsOf, s
  <2>2. Untouched(rows', rows, o)
    BY <1>7, <2>1 DEF Untouched
  <2> QED BY <1>1, <2>2, UntouchedLines
<1> DEFINE now == [o \in Sheets |-> LinesIn(rows, o)]
           new == [o \in Sheets |-> LinesIn(rows', o)]
           list == [L EXCEPT ![k].record = Lookup[L[k].shown]]
<1>16. now[s] = L /\ k \in DOMAIN L
  BY <1>1, <1>9, <1>11
<1>17. new = [now EXCEPT ![s] = list]
  <2>1. LinesIn(rows', s) = list
    BY <1>14
  <2> HIDE DEF list
  <2> QED BY <1>1, <1>15, <2>1
<1>18. [o \in Sheets |-> LinesOf(o)] = now /\ [o \in Sheets |-> LinesOf(o)]' = new
  BY DEF LinesOf
<1> HIDE DEF now, new, L
<1>19. new = [now EXCEPT ![s][k].record = Lookup[now[s][k].shown]]
  BY <1>16, <1>17
<1> QED BY <1>1, <1>2, <1>16, <1>18, <1>19 DEF Lists!Track

(* The rows that a document gives an empty sheet, m lines of it written.   *)
OwnRecord(x) == IF x.shipment THEN Lookup[x.shown] ELSE NoRecord
Filled(u, base, s, list, m) ==
    /\ \A o \in Sheets \ {s} : Untouched(u, base, o)
    /\ RowsOf(u, s) = {list[j].row : j \in 1..m}
    /\ \A j \in 1..m :
          u[list[j].row] = [sheet |-> s, position |-> list[j].position,
                            shown |-> list[j].shown, record |-> OwnRecord(list[j])]
Apart(list) ==
    \A j, k \in DOMAIN list :
        list[j].row = list[k].row \/ list[j].position = list[k].position => j = k

LEMMA FilledOne ==
    ASSUME NEW base, NEW w \in Tables, NEW s \in Sheets, NEW list \in Seq(Lines), Apart(list),
           NEW m \in 1..Len(list), Filled(w, base, s, list, m - 1),
           NEW u, Wrote(w, s, list[m], LineRecord(w, list[m]), u)
    PROVE  Filled(u, base, s, list, m)
<1> DEFINE x == list[m]
           r == x.row
           line(j) == [sheet |-> s, position |-> list[j].position,
                       shown |-> list[j].shown, record |-> OwnRecord(list[j])]
<1>1. /\ m \in Nat /\ DOMAIN list = 1..Len(list) /\ m \in DOMAIN list
      /\ \A j \in 1..(m - 1) : j \in DOMAIN list /\ j # m /\ j \in 1..m
      /\ \A j \in 1..m : j \in 1..(m - 1) \/ j = m
      /\ m \in 1..m
  OBVIOUS
<1>2. \A j \in 1..(m - 1) : list[j].row # r /\ list[j].position # x.position
  BY <1>1 DEF Apart
<1>3. /\ RowsOf(w, s) = {list[j].row : j \in 1..(m - 1)}
      /\ \A j \in 1..(m - 1) : w[list[j].row] = line(j)
      /\ \A o \in Sheets \ {s} : Untouched(w, base, o)
  BY DEF Filled
<1>4. r \notin DOMAIN w
  <2> SUFFICES ASSUME r \in DOMAIN w PROVE FALSE
    OBVIOUS
  <2>1. r \in RowsOf(w, s)
    BY DEF Wrote, RowsOf
  <2> QED BY <1>2, <1>3, <2>1
<1>5. {q \in RowsOf(w, s) : w[q].position = x.position} = {}
  <2>1. \A j \in 1..(m - 1) : line(j).position = list[j].position
    OBVIOUS
  <2> HIDE DEF line, x
  <2>2. \A q \in RowsOf(w, s) : w[q].position # x.position
    BY <1>2, <1>3, <2>1
  <2> QED BY <2>2
<1>6. LineRecord(w, x) = OwnRecord(x)
  BY <1>4 DEF LineRecord, RecordKept, OwnRecord
<1>7. /\ DOMAIN u = DOMAIN w \cup {r} /\ \A q \in DOMAIN w : u[q] = w[q]
      /\ u[r] = line(m)
  <2>1. /\ DOMAIN u = (DOMAIN w \ {}) \cup {r}
        /\ \A q \in DOMAIN u \ {r} : u[q] = w[q]
    BY <1>5, Zenon DEF Wrote
  <2>2. u[r] = line(m)
    BY <1>6 DEF Wrote
  <2> QED BY <1>4, <2>1, <2>2
<1>8. line(m).sheet = s
  OBVIOUS
<1>9. ASSUME NEW o \in Sheets \ {s}
      PROVE  Untouched(u, base, o)
  <2>1. Untouched(u, w, o) /\ Untouched(w, base, o)
    <3> HIDE DEF x
    <3>1. Wrote(w, s, x, LineRecord(w, x), u)
      BY DEF x
    <3> QED BY <1>3, <3>1, WroteElsewhere
  <2> QED BY <2>1 DEF Untouched
<1> HIDE DEF x, r, line
<1>10. RowsOf(u, s) = RowsOf(w, s) \cup {r}
  <2>1. \A q : q \in RowsOf(u, s) <=> q \in RowsOf(w, s) \/ q = r
    BY <1>7, <1>8 DEF RowsOf
  <2> QED BY <2>1
<1>11. RowsOf(u, s) = {list[j].row : j \in 1..m}
  <2>1. list[m].row = r
    BY DEF r, x
  <2> QED BY <1>1, <1>3, <1>10, <2>1
<1>12. ASSUME NEW j \in 1..m
       PROVE  u[list[j].row] = line(j)
  <2>1. CASE j = m
    BY <1>7, <2>1 DEF r, x
  <2>2. CASE j \in 1..(m - 1)
    <3>1. list[j].row \in RowsOf(w, s)
      BY <1>3, <2>2
    <3> QED BY <1>3, <1>7, <2>2, <3>1 DEF RowsOf
  <2> QED BY <1>1, <2>1, <2>2
<1> QED BY <1>9, <1>11, <1>12 DEF Filled, line

LEMMA FilledAll ==
    ASSUME NEW base \in Tables, NEW s \in Sheets, NEW list \in Seq(Lines), Apart(list),
           RowsOf(base, s) = {}
    PROVE  LET u == AllRestored(s, base, list) IN
           u = Refused \/ (u \in Tables /\ Filled(u, base, s, list, Len(list)))
<1> DEFINE F == [m \in 0..Len(list) |->
                    {Refused} \cup {u \in Tables : Filled(u, base, s, list, m)}]
<1>1. Len(list) \in Nat /\ base \in Outcomes
  BY DEF Outcomes
<1>2. base \in F[0]
  <2>1. Filled(base, base, s, list, 0)
    BY DEF Filled, Untouched
  <2> QED BY <1>1, <2>1
<1>3. ASSUME NEW m \in 1..Len(list)
      PROVE  /\ Refused \in F[m - 1] => Refused \in F[m]
             /\ \A u \in Tables : u \in F[m - 1] => RestoredRow(s, u, list[m]) \in F[m]
  <2>1. m - 1 \in 0..Len(list) /\ m \in 0..Len(list) /\ list[m] \in Lines
    BY <1>1
  <2>2. /\ F[m - 1] = {Refused} \cup {u \in Tables : Filled(u, base, s, list, m - 1)}
        /\ F[m] = {Refused} \cup {u \in Tables : Filled(u, base, s, list, m)}
    BY <2>1
  <2> HIDE DEF F
  <2>3. ASSUME NEW u \in Tables, Filled(u, base, s, list, m - 1),
               RestoredRow(s, u, list[m]) # Refused
        PROVE  RestoredRow(s, u, list[m]) \in Tables
               /\ Filled(RestoredRow(s, u, list[m]), base, s, list, m)
    <3> DEFINE v == RestoredRow(s, u, list[m])
    <3>1. Wrote(u, s, list[m], LineRecord(u, list[m]), v)
      BY <2>1, <2>3, RestoredTable
    <3>2. v \in Tables
      BY <3>1 DEF Wrote
    <3> HIDE DEF v
    <3>3. Filled(v, base, s, list, m)
      BY <2>3, <3>1, FilledOne
    <3> QED BY <3>2, <3>3 DEF v
  <2> QED BY <2>2, <2>3, NoTable
<1>4. F[Len(list)] = {Refused} \cup {u \in Tables : Filled(u, base, s, list, Len(list))}
  BY <1>1
<1> HIDE DEF F
<1>5. AllRestored(s, base, list) \in F[Len(list)]
  BY <1>1, <1>2, <1>3, RestoredLines
<1> QED BY <1>4, <1>5

(* A sheet that was filled shows the lines of the document.                *)
LEMMA DocumentShown ==
    ASSUME NEW u \in Tables, NEW base, NEW s \in Sheets, NEW list \in Seq(Lines), Apart(list),
           Filled(u, base, s, list, Len(list))
    PROVE  LinesIn(u, s) = DocumentLines(list)
<1> DEFINE n == Len(list)
           U == RowsOf(u, s)
           I == 1..n
           name(j) == list[j].row
           f == [j \in I |-> name(j)]
<1>1. n \in Nat /\ DOMAIN list = I /\ \A j \in I : list[j] \in Lines /\ list[j].position \in Nat
  <2>1. \A j \in I : list[j] \in Lines
    OBVIOUS
  <2> QED BY <2>1 DEF Lines
<1>2. /\ U = {name(j) : j \in I}
      /\ \A j, k \in I : name(j) = name(k) => j = k
      /\ \A j \in I : /\ u[name(j)].position = list[j].position
                      /\ Line(u[name(j)]) = [shown |-> list[j].shown, record |-> OwnRecord(list[j])]
  <2>1. U = {name(j) : j \in I} /\ \A j, k \in I : name(j) = name(k) => j = k
    BY <1>1, Zenon DEF Filled, Apart
  <2> SUFFICES ASSUME NEW j \in I
               PROVE  /\ u[name(j)].position = list[j].position
                      /\ Line(u[name(j)]) = [shown |-> list[j].shown, record |-> OwnRecord(list[j])]
    BY <2>1
  <2>2. u[name(j)] = [sheet |-> s, position |-> list[j].position,
                      shown |-> list[j].shown, record |-> OwnRecord(list[j])]
    BY DEF Filled
  <2> QED BY <2>2 DEF Line
<1>3. IsFiniteSet(I) /\ Cardinality(I) = n
  <2>1. n \in Nat
    BY <1>1
  <2> HIDE DEF n
  <2>2. 1 \in Int /\ n \in Int /\ (IF 1 > n THEN 0 ELSE n - 1 + 1) = n
    BY <2>1
  <2> QED BY <2>2, FS_Interval
<1> HIDE DEF n, U, I, name
<1>4. Cardinality(U) = n
  <2>1. f \in Bijection(I, U)
    BY <1>2 DEF Bijection, Injection, Surjection, IsInjective
  <2> HIDE DEF f
  <2> QED BY <1>3, <2>1, FS_Bijection DEF ExistsBijection
<1>5. ASSUME NEW j \in I
      PROVE  Cardinality(Before(u, s, name(j))) = Cardinality(EarlierLines(list, j))
  <2> DEFINE E == EarlierLines(list, j)
             B == Before(u, s, name(j))
             g == [i \in E |-> name(i)]
  <2>1. E = {i \in I : list[i].position < list[j].position}
    BY <1>1 DEF EarlierLines
  <2>2. B = {q \in U : u[q].position < list[j].position}
    BY <1>2 DEF Before, U
  <2> HIDE DEF E, B
  <2>3. g \in Bijection(E, B)
    BY <1>2, <2>1, <2>2 DEF Bijection, Injection, Surjection, IsInjective
  <2>4. IsFiniteSet(E)
    <3>1. E \in SUBSET I
      BY <2>1
    <3> QED BY <1>3, <3>1, FS_Subset
  <2> HIDE DEF g
  <2>5. Cardinality(B) = Cardinality(E)
    BY <2>3, <2>4, FS_Bijection DEF ExistsBijection
  <2> QED BY <2>5 DEF B, E
<1>6. DOMAIN LinesIn(u, s) = I
  <2>1. DOMAIN InOrder(u, s) = 1..Cardinality(U)
    BY Order DEF U
  <2> QED BY <1>4, <2>1, LinesAt DEF I
<1>7. ASSUME NEW k \in I
      PROVE  LinesIn(u, s)[k] = DocumentLines(list)[k]
  <2>1. PICK j \in I : InOrder(u, s)[k] = name(j)
    <3>1. InOrder(u, s)[k] \in U
      BY <1>6, Order, LinesAt DEF U
    <3> QED BY <1>2, <3>1
  <2>2. name(j) \in U /\ Place(u, s, name(j)) = k
    BY <1>2, <1>6, <2>1, Order, LinesAt
  <2>3. \A i \in I : Cardinality(EarlierLines(list, i)) = k - 1 <=> i = j
    <3>1. \A i \in I : name(i) \in U
      BY <1>2
    <3>2. \A i \in I : Place(u, s, name(i)) = k => name(i) = name(j)
      BY <2>1, <3>1, Order DEF U
    <3>3. \A i \in I : Cardinality(Before(u, s, name(i))) \in Nat
      BY <3>1, Ranks DEF U, RowsOf
    <3>4. k \in Nat
      BY DEF I
    <3>5. \A i \in I : Place(u, s, name(i)) = Cardinality(EarlierLines(list, i)) + 1
      BY <1>5 DEF Place
    <3>6. \A i \in I : Cardinality(EarlierLines(list, i)) \in Nat
      BY <1>5, <3>3
    <3> QED BY <1>2, <2>2, <3>2, <3>4, <3>5, <3>6
  <2>4. (CHOOSE i \in DOMAIN list : Cardinality(EarlierLines(list, i)) = k - 1) = j
    BY <1>1, <2>3
  <2>5. DocumentLines(list)[k] = [shown |-> list[j].shown, record |-> OwnRecord(list[j])]
    <3> DEFINE chosen(q) == CHOOSE i \in DOMAIN list : Cardinality(EarlierLines(list, i)) = q - 1
               line(i) == [shown |-> list[i].shown, record |-> OwnRecord(list[i])]
    <3>1. DocumentLines(list) = [q \in I |-> line(chosen(q))]
      BY <1>1 DEF DocumentLines, OwnRecord
    <3>2. chosen(k) = j
      BY <2>4
    <3> HIDE DEF chosen, line
    <3>3. DocumentLines(list)[k] = line(j)
      BY <3>1, <3>2
    <3> QED BY <3>3 DEF line
  <2>6. LinesIn(u, s)[k] = Line(u[name(j)])
    BY <1>6, <2>1, LinesAt
  <2> QED BY <1>2, <2>5, <2>6
<1>8. LinesIn(u, s) = [k \in I |-> LinesIn(u, s)[k]]
  BY <1>6 DEF LinesIn
<1>9. DocumentLines(list) = [k \in I |-> DocumentLines(list)[k]]
  BY <1>1 DEF DocumentLines
<1> QED BY <1>7, <1>8, <1>9, Zenon

(* What the sheets are when m sheets of a document have been written.      *)
Opened(seed, base, list, s) ==
    IF seed /\ LinesIn(base, s) # <<>> THEN LinesIn(base, s) ELSE DocumentLines(list)
ShowsDoc(t, seed, base, doc, m) ==
    /\ \A s \in Sheets : (\A k \in 1..m : doc[k].sheet # s) => LinesIn(t, s) = LinesIn(base, s)
    /\ \A k \in 1..m : LinesIn(t, doc[k].sheet) = Opened(seed, base, doc[k].rows, doc[k].sheet)

LEMMA OpenedSheet ==
    ASSUME NEW seed \in BOOLEAN, NEW t \in Tables, NEW used, NEW content \in SheetContent,
           seed \/ RowsOf(t, content.sheet) = {},
           NEW after, after = RestoredSheet(seed, [table |-> t, used |-> used], content)
    PROVE  \/ after.table = Refused
           \/ /\ after.table \in Tables
              /\ LinesIn(after.table, content.sheet) = Opened(seed, t, content.rows, content.sheet)
              /\ \A o \in Sheets \ {content.sheet} : LinesIn(after.table, o) = LinesIn(t, o)
<1> DEFINE s == content.sheet
           list == content.rows
           acc == [table |-> t, used |-> used]
           skipped == seed /\ RowsOf(t, s) # {}
           named == [n \in DOMAIN list |-> list[n].row]
           placed == [n \in DOMAIN list |-> list[n].position]
           clash == ~IsInjective(named) \/ ~IsInjective(placed) \/ Range(named) \cap used # {}
           u == AllRestored(s, t, list)
           new == [table |-> u, used |-> used \cup Range(named)]
<1>1. s \in Sheets /\ list \in Seq(Lines) /\ acc.table = t /\ acc.used = used
  BY DEF SheetContent
<1>2. after = IF t = Refused \/ skipped THEN acc
              ELSE IF clash THEN [acc EXCEPT !.table = Refused] ELSE new
  BY Zenon DEF RestoredSheet
<1>3. t # Refused
  BY NoTable
<1>4. new.table = u /\ [acc EXCEPT !.table = Refused].table = Refused
  OBVIOUS
<1>5. ~clash => Apart(list)
  BY DEF IsInjective, Apart
<1>6. LinesIn(t, s) = <<>> <=> RowsOf(t, s) = {}
  BY NoLines
<1>7. seed \/ RowsOf(t, s) = {}
  OBVIOUS
<1>8. skipped <=> seed /\ RowsOf(t, s) # {}
  OBVIOUS
<1> HIDE DEF s, list, u, acc, new, clash, skipped
<1>9. CASE skipped
  <2>1. after.table = t
    BY <1>1, <1>2, <1>9
  <2>2. LinesIn(t, s) = Opened(seed, t, list, s)
    BY <1>6, <1>8, <1>9 DEF Opened
  <2> QED BY <2>1, <2>2 DEF s, list
<1>10. CASE ~skipped /\ clash
  BY <1>2, <1>3, <1>4, <1>10
<1>11. CASE ~skipped /\ ~clash
  <2>1. after.table = u /\ RowsOf(t, s) = {} /\ Apart(list)
    BY <1>2, <1>3, <1>4, <1>5, <1>7, <1>8, <1>11
  <2>2. u = Refused \/ (u \in Tables /\ Filled(u, t, s, list, Len(list)))
    BY <1>1, <2>1, FilledAll DEF u
  <2>3. CASE u # Refused
    <3>1. LinesIn(u, s) = DocumentLines(list)
      BY <1>1, <2>1, <2>2, <2>3, DocumentShown
    <3>2. \A o \in Sheets \ {s} : LinesIn(u, o) = LinesIn(t, o)
      BY <2>2, <2>3, UntouchedLines DEF Filled
    <3>3. Opened(seed, t, list, s) = DocumentLines(list)
      BY <1>6, <2>1 DEF Opened
    <3> QED BY <2>1, <2>2, <2>3, <3>1, <3>2, <3>3 DEF s, list
  <2> QED BY <2>1, <2>3
<1> QED BY <1>9, <1>10, <1>11

LEMMA ShowsOne ==
    ASSUME NEW seed \in BOOLEAN, NEW base \in Tables, seed \/ base = <<>>,
           NEW doc \in Seq(SheetContent), NoDuplicates(doc), NEW m \in 1..Len(doc),
           NEW acc \in Restoring, acc.table = Refused \/ ShowsDoc(acc.table, seed, base, doc, m - 1)
    PROVE  LET after == RestoredSheet(seed, acc, doc[m]) IN
           after.table = Refused \/ ShowsDoc(after.table, seed, base, doc, m)
<1> DEFINE content == doc[m]
           s == content.sheet
           t == acc.table
           after == RestoredSheet(seed, acc, content)
<1>1. /\ content \in SheetContent /\ s \in Sheets /\ m \in DOMAIN doc
      /\ \A k \in 1..(m - 1) : k \in DOMAIN doc /\ k # m /\ k \in 1..m
      /\ \A k \in 1..m : k \in 1..(m - 1) \/ k = m
      /\ m \in 1..m
      /\ \A k \in DOMAIN doc : doc[k].sheet \in Sheets
  <2>1. \A k \in DOMAIN doc : doc[k] \in SheetContent
    OBVIOUS
  <2>2. m \in DOMAIN doc
    OBVIOUS
  <2>3. \A k \in DOMAIN doc : doc[k].sheet \in Sheets
    BY <2>1 DEF SheetContent
  <2> QED BY <2>1, <2>2, <2>3
<1>2. \A k \in 1..(m - 1) : doc[k].sheet # s
  <2>1. \A j, k \in DOMAIN doc : doc[j].sheet = doc[k].sheet => j = k
    BY DEF NoDuplicates, IsInjective
  <2> QED BY <1>1, <2>1
<1>3. acc = [table |-> acc.table, used |-> acc.used] /\ t \in Outcomes
  BY DEF Restoring
<1> HIDE DEF t, after
<1>4. CASE t = Refused
  BY <1>4 DEF RestoredSheet, after, t
<1>5. CASE t # Refused
  <2>1. t \in Tables /\ ShowsDoc(t, seed, base, doc, m - 1)
    BY <1>3, <1>5 DEF Outcomes, t
  <2>2. LinesIn(t, s) = LinesIn(base, s)
    BY <1>1, <1>2, <2>1 DEF ShowsDoc
  <2>3. seed \/ RowsOf(t, s) = {}
    <3>1. base = <<>> => RowsOf(base, s) = {}
      BY DEF RowsOf
    <3>2. base = <<>> => LinesIn(base, s) = <<>>
      BY <3>1, NoLines
    <3> QED BY <2>1, <2>2, <3>2, NoLines
  <2> DEFINE used == acc.used
  <2>4. after = RestoredSheet(seed, [table |-> t, used |-> used], content)
    BY <1>3 DEF after, t
  <2> HIDE DEF content, used
  <2>5. \/ after.table = Refused
        \/ /\ after.table \in Tables
           /\ LinesIn(after.table, s) = Opened(seed, t, content.rows, s)
           /\ \A o \in Sheets \ {s} : LinesIn(after.table, o) = LinesIn(t, o)
    BY <1>1, <2>1, <2>3, <2>4, OpenedSheet
  <2>6. ASSUME after.table # Refused
        PROVE  ShowsDoc(after.table, seed, base, doc, m)
    <3> DEFINE u == after.table
    <3>1. /\ LinesIn(u, s) = Opened(seed, t, content.rows, s)
          /\ \A o \in Sheets \ {s} : LinesIn(u, o) = LinesIn(t, o)
      BY <2>5, <2>6
    <3> HIDE DEF u
    <3>2. ASSUME NEW o \in Sheets, \A k \in 1..m : doc[k].sheet # o
          PROVE  LinesIn(u, o) = LinesIn(base, o)
      <4>1. o # s /\ \A k \in 1..(m - 1) : doc[k].sheet # o
        BY <1>1, <3>2 DEF content
      <4> QED BY <2>1, <3>1, <4>1 DEF ShowsDoc
    <3>3. ASSUME NEW k \in 1..m
          PROVE  LinesIn(u, doc[k].sheet) = Opened(seed, base, doc[k].rows, doc[k].sheet)
      <4>1. CASE k = m
        <5>1. Opened(seed, t, content.rows, s) = Opened(seed, base, content.rows, s)
          BY <2>2 DEF Opened
        <5> QED BY <3>1, <4>1, <5>1 DEF content
      <4>2. CASE k \in 1..(m - 1)
        <5>1. doc[k].sheet \in Sheets \ {s}
          BY <1>1, <1>2, <4>2
        <5>2. LinesIn(t, doc[k].sheet) = Opened(seed, base, doc[k].rows, doc[k].sheet)
          BY <2>1, <4>2 DEF ShowsDoc
        <5> QED BY <3>1, <5>1, <5>2
      <4> QED BY <1>1, <4>1, <4>2
    <3>4. ShowsDoc(u, seed, base, doc, m)
      BY <3>2, <3>3 DEF ShowsDoc
    <3> QED BY <3>4 DEF u
  <2> QED BY <2>6 DEF after, content
<1> QED BY <1>4, <1>5 DEF after

LEMMA ShowsAll ==
    ASSUME NEW seed \in BOOLEAN, NEW base \in Tables, seed \/ base = <<>>,
           NEW doc \in Seq(SheetContent), NoDuplicates(doc)
    PROVE  LET u == Restored(seed, base, doc).table IN
           u = Refused \/ (u \in Tables /\ ShowsDoc(u, seed, base, doc, Len(doc)))
<1> DEFINE Sound(acc, m) == acc.table = Refused \/ ShowsDoc(acc.table, seed, base, doc, m)
           F == [m \in 0..Len(doc) |-> {acc \in Restoring : Sound(acc, m)}]
           first == [table |-> base, used |-> {}]
           after == Restored(seed, base, doc)
<1>1. Len(doc) \in Nat /\ base \in Outcomes
  BY DEF Outcomes
<1>2. first \in F[0]
  <2>1. ShowsDoc(base, seed, base, doc, 0)
    BY DEF ShowsDoc
  <2>2. first \in Restoring /\ first.table = base
    BY <1>1 DEF Restoring
  <2> HIDE DEF first
  <2> QED BY <1>1, <2>1, <2>2
<1>3. ASSUME NEW m \in 1..Len(doc), NEW acc \in Restoring, acc \in F[m - 1]
      PROVE  RestoredSheet(seed, acc, doc[m]) \in F[m]
  <2>1. m - 1 \in 0..Len(doc) /\ m \in 0..Len(doc) /\ doc[m] \in SheetContent
    BY <1>1
  <2>2. acc.table = Refused \/ ShowsDoc(acc.table, seed, base, doc, m - 1)
    BY <1>3, <2>1
  <2> DEFINE next == RestoredSheet(seed, acc, doc[m])
  <2>3. next \in Restoring
    BY <2>1, RestoredOne
  <2>4. next.table = Refused \/ ShowsDoc(next.table, seed, base, doc, m)
    BY <2>2, ShowsOne
  <2> HIDE DEF next
  <2>5. next \in F[m]
    BY <2>1, <2>3, <2>4
  <2> QED BY <2>5 DEF next
<1>4. F[Len(doc)] = {acc \in Restoring : Sound(acc, Len(doc))}
  BY <1>1
<1> HIDE DEF F
<1>5. after \in Restoring /\ after \in F[Len(doc)]
  BY <1>1, <1>2, <1>3, RestoredTables
<1> HIDE DEF after
<1>6. Sound(after, Len(doc)) /\ after.table \in Outcomes
  BY <1>4, <1>5 DEF Restoring
<1> QED BY <1>6 DEF Outcomes, after

LEMMA RestoreLines ==
    ASSUME SheetsInv, SheetsInv', NEW doc \in Documents, NEW seed \in BOOLEAN, Restore(doc, seed)
    PROVE  Lists!Restore \/ Lists!Refuse
<1> DEFINE base == IF seed THEN rows ELSE <<>>
           u == Restored(seed, base, doc).table
           outcome == IF ~NoDuplicates(doc) THEN Refused ELSE u
           op == IF seed THEN "seed" ELSE "restore"
           d == [k \in DOMAIN doc |->
                    [sheet |-> doc[k].sheet, lines |-> DocumentLines(doc[k].rows)]]
<1>1. doc \in Seq(SheetContent) /\ rows \in Tables /\ rows' \in Tables
  BY SheetRowsAssumption DEF SheetContent, SheetsInv
<1>2. base \in Tables /\ (seed \/ base = <<>>) /\ (seed => base = rows)
  BY <1>1, NoRows
<1>3. Committed(op, outcome)
  BY DEF Restore
<1>4. op \in {"edit", "append", "restore", "seed"} /\ (seed => op = "seed") /\ (~seed => op = "restore")
  OBVIOUS
<1> HIDE DEF base, op
<1>5. NoDuplicates(doc) => u = Refused \/ (u \in Tables /\ ShowsDoc(u, seed, base, doc, Len(doc)))
  BY <1>1, <1>2, ShowsAll
<1> HIDE DEF u
<1>6. CASE outcome = Refused
  <2>1. rows' = rows /\ Answer(op, FALSE)
    BY <1>3, <1>6 DEF Committed
  <2>2. LinesStay({})
    BY <2>1 DEF LinesStay
  <2> QED BY <1>4, <2>1, <2>2, RefusedStep
<1>7. CASE outcome # Refused
  <2>1. /\ NoDuplicates(doc) /\ rows' = u /\ Answer(op, TRUE)
        /\ u \in Tables /\ ShowsDoc(u, seed, base, doc, Len(doc))
    BY <1>3, <1>5, <1>7 DEF Committed
  <2>2. DOMAIN doc = 1..Len(doc) /\ \A k \in DOMAIN doc : doc[k].sheet \in Sheets
    <3>1. \A k \in DOMAIN doc : doc[k] \in SheetContent
      BY <1>1
    <3> QED BY <1>1, <3>1 DEF SheetContent
  <2>3. /\ DOMAIN d = DOMAIN doc
        /\ \A k \in DOMAIN doc : d[k].sheet = doc[k].sheet /\ d[k].lines = DocumentLines(doc[k].rows)
    OBVIOUS
  <2>4. d \in {[k \in DOMAIN e |->
                   [sheet |-> e[k].sheet, lines |-> DocumentLines(e[k].rows)]] :
               e \in {x \in Documents : NoDuplicates(x)}}
    BY <2>1
  <2> HIDE DEF d
  <2>5. ASSUME NEW s \in Sheets
        PROVE  LinesIn(rows', s) = IF seed /\ LinesIn(rows, s) # <<>> THEN LinesIn(rows, s)
                                   ELSE Lists!Contents(d, s)
    <3> DEFINE entries == {k \in DOMAIN d : d[k].sheet = s}
    <3>1. ~seed => LinesIn(base, s) = <<>>
      <4>1. base = <<>> => RowsOf(base, s) = {}
        BY DEF RowsOf
      <4> QED BY <1>2, <4>1, NoLines
    <3>2. CASE entries = {}
      <4>1. Lists!Contents(d, s) = <<>>
        BY <3>2 DEF Lists!Contents
      <4>2. \A k \in 1..Len(doc) : doc[k].sheet # s
        BY <2>2, <2>3, <3>2
      <4>3. LinesIn(rows', s) = LinesIn(base, s)
        BY <2>1, <4>2 DEF ShowsDoc
      <4> QED BY <1>2, <3>1, <4>1, <4>3
    <3>3. CASE entries # {}
      <4> DEFINE k == CHOOSE j \in entries : TRUE
      <4>1. k \in entries
        BY <3>3
      <4>2. Lists!Contents(d, s) = d[k].lines
        BY <3>3 DEF Lists!Contents
      <4> HIDE DEF k
      <4>3. k \in 1..Len(doc) /\ doc[k].sheet = s
        BY <2>2, <2>3, <4>1
      <4>4. LinesIn(rows', s) = Opened(seed, base, doc[k].rows, s)
        BY <2>1, <4>3 DEF ShowsDoc
      <4>5. Lists!Contents(d, s) = DocumentLines(doc[k].rows)
        BY <2>2, <2>3, <4>2, <4>3
      <4> QED BY <1>2, <3>1, <4>4, <4>5 DEF Opened
    <3> QED BY <3>2, <3>3
  <2> DEFINE now == [s \in Sheets |-> LinesOf(s)]
  <2>6. \A s \in Sheets : now[s] = LinesIn(rows, s)
    BY DEF LinesOf
  <2>7. now' = [s \in Sheets |-> LinesIn(rows', s)]
    BY DEF LinesOf
  <2> HIDE DEF now
  <2>8. CASE ~seed
    <3>1. now' = [s \in Sheets |-> Lists!Contents(d, s)]
      BY <2>5, <2>7, <2>8
    <3>2. Lists!Answered("restore", TRUE)
      BY <1>4, <2>1, <2>8 DEF Answer, Lists!Answered
    <3> QED BY <2>4, <3>1, <3>2 DEF Lists!Restore, now
  <2>9. CASE seed
    <3>1. \A s \in Sheets : LinesIn(rows', s) =
                               IF now[s] = <<>> THEN Lists!Contents(d, s) ELSE now[s]
      BY <2>5, <2>6, <2>9
    <3>2. now' = [s \in Sheets |-> IF now[s] = <<>> THEN Lists!Contents(d, s) ELSE now[s]]
      BY <2>7, <3>1
    <3>3. Lists!Answered("seed", TRUE)
      BY <1>4, <2>1, <2>9 DEF Answer, Lists!Answered
    <3> QED BY <2>4, <3>2, <3>3 DEF Lists!Restore, now
  <2> QED BY <2>8, <2>9
<1> QED BY <1>6, <1>7

-----------------------------------------------------------------------------
(* Every step is a step of the lists                                       *)

LEMMA NothingChanges ==
    ASSUME UNCHANGED <<rows, reply>>
    PROVE  UNCHANGED Lists!contentVars
BY DEF LinesOf, LinesIn, InOrder, Lists!contentVars

(* Naming a sheet, or planning an import, changes no list.                 *)
LEMMA NamingStep ==
    ASSUME rows' = rows, NEW op \in {"create_sheet", "rename_sheet", "import"},
           NEW ok \in BOOLEAN, Answer(op, ok)
    PROVE  Lists!Refuse
<1>1. UNCHANGED [s \in Sheets |-> LinesOf(s)]
  BY DEF LinesOf, LinesIn, InOrder
<1> QED BY <1>1 DEF Answer, Lists!Refuse

LEMMA CommandLines ==
    ASSUME SheetsInv, SheetsInv', NEW op, Command(Sheets, op)
    PROVE  Lists!Next
<1>1. ASSUME NEW s \in Sheets, CreateSheet(s) \/ RenameSheet(s)
      PROVE  Lists!Refuse
  <2>1. CASE CreateSheet(s)
    <3>1. PICK blank \in BOOLEAN : rows' = rows /\ Answer("create_sheet", ~blank)
      BY <2>1 DEF CreateSheet
    <3> DEFINE ok == ~blank
    <3>2. ok \in BOOLEAN /\ Answer("create_sheet", ok)
      BY <3>1
    <3> HIDE DEF ok
    <3> QED BY <3>1, <3>2, NamingStep
  <2>2. CASE RenameSheet(s)
    <3>1. PICK blank \in BOOLEAN : rows' = rows /\ Answer("rename_sheet", ~blank /\ s \in sheets)
      BY <2>2 DEF RenameSheet
    <3> DEFINE ok == ~blank /\ s \in sheets
    <3>2. ok \in BOOLEAN /\ Answer("rename_sheet", ok)
      BY <3>1
    <3> HIDE DEF ok
    <3> QED BY <3>1, <3>2, NamingStep
  <2> QED BY <1>1, <2>1, <2>2
<1>2. ASSUME NEW s \in Sheets, DeleteSheet(s) PROVE Lists!Clear
  <2>1. rows' = Without(rows, RowsOf(rows, s)) /\ Answer("delete_sheet", TRUE) /\ rows \in Tables
    BY <1>2 DEF DeleteSheet, SheetsInv
  <2> QED BY <2>1, ClearStep
<1>3. ASSUME NEW s \in Sheets, ClearRows(s) PROVE Lists!Clear
  <2> DEFINE outcome == Without(rows, RowsOf(rows, s))
  <2>1. outcome \in Tables /\ rows \in Tables
    BY RowsOut DEF SheetsInv
  <2>2. Committed("clear", outcome)
    BY <1>3 DEF ClearRows
  <2> HIDE DEF outcome
  <2>3. rows' = outcome /\ Answer("clear", TRUE)
    BY <2>1, <2>2, NoTable DEF Committed
  <2>4. rows' = Without(rows, RowsOf(rows, s))
    BY <2>3 DEF outcome
  <2> QED BY <2>1, <2>3, <2>4, ClearStep
<1>4. ASSUME NEW s \in Sheets, NEW t \in Sheets, NEW ids \in Ids, NEW move \in BOOLEAN,
             Transfer(s, t, ids, move)
      PROVE  Lists!Transfer
  BY <1>4, SelectedRows, TransferLines
<1> QED BY <1>1, <1>2, <1>3, <1>4, EditLines, AppendLinesStep, DeleteLines, CopyLines, RestoreLines,
           Zenon DEF Command, Lists!Next

(* Every step of the workspace is an operation on the lists of its sheets, *)
(* or changes none of them.                                                *)
LEMMA ListsStep ==
    JobsInv /\ SheetsInv /\ SheetsInv' /\ [Next]_vars => [Lists!Next]_(Lists!contentVars)
<1> SUFFICES ASSUME JobsInv, SheetsInv, SheetsInv', [Next]_vars
             PROVE  Lists!Next \/ UNCHANGED Lists!contentVars
  OBVIOUS
<1>1. CASE SheetCommand
  BY <1>1, CommandLines, Zenon DEF SheetCommand
<1>2. CASE JobCommand
  <2>1. ASSUME NEW j, NEW s \in Sheets, NEW kind, NEW sources, NEW replace \in BOOLEAN,
               CreateJob(j, s, kind, sources, replace)
        PROVE  Lists!Next
    <3> DEFINE ok == ~(Len(sources) > MaxSources)
    <3>1. /\ ok \in BOOLEAN /\ Answer("import", ok)
          /\ rows' = rows \/ (ok /\ rows' = Without(rows, RowsOf(rows, s)))
      BY <2>1 DEF CreateJob
    <3> HIDE DEF ok
    <3>2. rows' = rows => Lists!Refuse
      BY <3>1, NamingStep
    <3>3. ok /\ rows' = Without(rows, RowsOf(rows, s)) => Lists!Clear
      <4>1. ok => Answer("import", TRUE)
        BY <3>1
      <4> QED BY <4>1, ClearStep DEF SheetsInv
    <3> QED BY <3>1, <3>2, <3>3 DEF Lists!Next
  <2>2. ASSUME NEW j, RunJob(j) \/ RetryJob(j) PROVE UNCHANGED Lists!contentVars
    <3>1. UNCHANGED <<rows, reply>>
      BY <2>2, Zenon DEF RunJob, RetryJob, sheetVars
    <3> QED BY <3>1, NothingChanges
  <2> QED BY <1>2, <2>1, <2>2, Zenon DEF JobCommand
<1>3. CASE OtherConnection
  <2>1. ASSUME NEW j, CancelJob(j) PROVE UNCHANGED Lists!contentVars
    <3>1. UNCHANGED <<rows, reply>>
      BY <2>1, Zenon DEF CancelJob, sheetVars
    <3> QED BY <3>1, NothingChanges
  <2> QED BY <1>3, <2>1, TrackLines, Zenon DEF OtherConnection, Lists!Next
<1>4. CASE RunStep
  <2>1. CASE Finish
    <3>1. FinishBag \/ UNCHANGED <<rows, reply>>
      BY <2>1, Zenon DEF Finish, FinishFailed, FinishManifest
    <3> QED BY <2>1, <3>1, BagLines, NothingChanges DEF Lists!Next
  <2>2. CASE Requeue \/ Recount \/ Claim \/ StartAttempt \/ Fetch
    <3>1. UNCHANGED <<rows, reply>>
      BY <2>2, Zenon DEF Requeue, Recount, Claim, StartAttempt, Fetch, sheetVars
    <3> QED BY <3>1, NothingChanges
  <2> QED BY <1>4, <2>1, <2>2, Zenon DEF RunStep
<1>5. CASE RecoverStep
  <2>1. UNCHANGED <<rows, reply>>
    BY <1>5, Zenon DEF RecoverStep, Open, RecoverAttempts, RecoverItems, RecoverCounts, sheetVars
  <2> QED BY <2>1, NothingChanges
<1>6. CASE WriteRefused \/ ProcessDies \/ UserPreviews \/ PreviewGoesOn
  <2>1. UNCHANGED <<rows, reply>>
    BY <1>6, Zenon DEF WriteRefused, ProcessDies, UserPreviews, PreviewGoesOn, StoreFails, Crash, sheetVars
  <2> QED BY <2>1, NothingChanges
<1>7. CASE UNCHANGED vars
  BY <1>7, NothingChanges, Zenon DEF vars, sheetVars
<1> QED BY <1>1, <1>2, <1>3, <1>4, <1>5, <1>6, <1>7, Zenon
        DEF Next, HandleCommand, RunGoesOn, EngineOpens

(* Each command on the sheets is the operation on lists that it stands     *)
(* for, in every workspace: identifiers, positions, compaction, runs and   *)
(* crashes do not show (storage.rs, module SheetContents).                 *)
THEOREM ListsRefined == Spec => ListsKept
<1>1. Init => JobsInv /\ SheetsInv
  BY JobsInit, SheetsInit
<1>2. JobsInv /\ SheetsInv /\ [Next]_vars => (JobsInv /\ SheetsInv)'
  BY JobsStep, SheetsStep
<1>3. Init => Lists!Init
  BY DEF Init, Lists!Init
<1>4. JobsInv /\ SheetsInv /\ (JobsInv /\ SheetsInv)' /\ [Next]_vars
      => [Lists!Next]_(Lists!contentVars)
  BY ListsStep
<1> QED BY <1>1, <1>2, <1>3, <1>4, PTL DEF Spec, ListsKept, Lists!Spec

-----------------------------------------------------------------------------
(* What a modal waits for                                                  *)

(* The host: what was sent and not read is in its inbox, once.             *)
RequestStates == {"sent", "waiting", "executing", "answered", "received"}
IsPreview(m) == "preview" \in DOMAIN m
RequestsKnown ==
    \A r \in DOMAIN request :
       DOMAIN request[r] = {"state", "answer"} /\ request[r].state \in RequestStates
InboxInv ==
    /\ IsList(inbox)
    /\ \A n \in DOMAIN inbox : IsPreview(inbox[n]) =>
          inbox[n].preview \in DOMAIN request /\ request[inbox[n].preview].state = "sent"
    /\ \A m, n \in DOMAIN inbox :
          IsPreview(inbox[m]) /\ IsPreview(inbox[n]) /\ inbox[m].preview = inbox[n].preview => m = n
    /\ \A r \in DOMAIN request : request[r].state = "sent" =>
          \E n \in DOMAIN inbox : inbox[n] = [preview |-> r]
HostInv == RequestsKnown /\ InboxInv

(* The renderer: a request that it has not heard of is of a lookup that    *)
(* listens, and a lookup with sources left to ask listens to a request.    *)
Unheard(r) == request[r].state # "received"
LookupPoints == {"none", "running", "retrying", "refused", "done"}
LookupServed(k) ==
    /\ lookup[k].pc \in LookupPoints /\ IsInjective(lookup[k].todo)
    /\ lookup[k].todo # <<>> => lookup[k].pc = "running"
    /\ lookup[k].todo # <<>> \/ lookup[k].pc = "retrying" =>
          \E r \in DOMAIN request : Key(r) = k /\ Unheard(r)
    /\ \A r \in DOMAIN request : Key(r) = k =>
          /\ Unheard(r) => lookup[k].pc \in {"running", "retrying"}
          /\ \A x \in Range(lookup[k].todo) : r # <<Scope(r), k, {x}>>
          /\ \A q \in DOMAIN request : Key(q) = k =>
                Scope(q) = Scope(r) /\ (lookup[k].pc # "running" => q = r)

(* The modal: each source it shows as loading is asked for or left to ask. *)
IsLoading(s, x) == x \in DOMAIN screen[s].item /\ screen[s].item[x] = "loading"
LeftOrAsked(s, k, x) ==
    \/ x \in Range(lookup[k].todo)
    \/ <<s, k, {x}>> \in DOMAIN request /\ Unheard(<<s, k, {x}>>)
Modal(s, k) ==
    /\ \E r \in DOMAIN request : Key(r) = k
    /\ \A r \in DOMAIN request : Key(r) = k => Scope(r) = s
    /\ \A x : IsLoading(s, x) =>
          /\ lookup[k].pc = "running" => LeftOrAsked(s, k, x)
          /\ lookup[k].pc = "retrying" =>
                \A r \in DOMAIN request : Key(r) = k => x \in SourcesOf(r)
          /\ lookup[k].pc # "done"
ModalServed(s) ==
    /\ IsInjective(screen[s].draft)
    /\ screen[s].loading => \E x : IsLoading(s, x)
    /\ screen[s].key = NoKey => \A x : ~IsLoading(s, x)
    /\ screen[s].key # NoKey => Modal(s, screen[s].key)
ListenInv == (\A k \in Keys : LookupServed(k)) /\ \A s \in Scopes : ModalServed(s)
ServedInv == PreviewInv /\ HostInv /\ ListenInv

-----------------------------------------------------------------------------
(* The steps of the host                                                   *)

(* Only the requests of R change their state.                              *)
Moved(R) ==
    /\ RequestsKnown' /\ DOMAIN request' = DOMAIN request
    /\ \A r \in DOMAIN request \ R : request'[r].state = request[r].state

LEMMA SignalledStates ==
    ASSUME NEW table, \A r \in DOMAIN table : DOMAIN table[r] = {"state", "answer"}, NEW S
    PROVE  /\ DOMAIN Signalled(table, S) = DOMAIN table
           /\ \A r \in DOMAIN table : /\ DOMAIN Signalled(table, S)[r] = {"state", "answer"}
                                      /\ Signalled(table, S)[r].state = table[r].state
<1>1. DOMAIN Signalled(table, S) = DOMAIN table
  BY DEF Signalled
<1>2. ASSUME NEW r \in DOMAIN table
      PROVE  /\ DOMAIN Signalled(table, S)[r] = {"state", "answer"}
             /\ Signalled(table, S)[r].state = table[r].state
  <2> DEFINE told == [table[r] EXCEPT !.answer = "cancelled"]
  <2>1. DOMAIN told = {"state", "answer"} /\ told.state = table[r].state
    OBVIOUS
  <2> HIDE DEF told
  <2>2. Signalled(table, S)[r] \in {told, table[r]}
    BY DEF Signalled, told
  <2> QED BY <2>1, <2>2
<1> QED BY <1>1, <1>2

(* A request takes a state, others may be cancelled.                       *)
LEMMA OneMoves ==
    ASSUME RequestsKnown, NEW r \in DOMAIN request, NEW state \in RequestStates, NEW table,
           DOMAIN table = DOMAIN request, DOMAIN table[r] = {"state", "answer"},
           table[r].state = state, \A q \in DOMAIN request \ {r} : table[q] = request[q],
           request' = table \/ \E S : request' = Signalled(table, S)
    PROVE  Moved({r}) /\ request'[r].state = state
<1>1. \A q \in DOMAIN table : /\ DOMAIN table[q] = {"state", "answer"}
                              /\ table[q].state \in RequestStates
  BY DEF RequestsKnown
<1>2. \A S : /\ DOMAIN Signalled(table, S) = DOMAIN table
             /\ \A q \in DOMAIN table : /\ DOMAIN Signalled(table, S)[q] = {"state", "answer"}
                                        /\ Signalled(table, S)[q].state = table[q].state
  BY <1>1, SignalledStates
<1>3. /\ DOMAIN request' = DOMAIN table
      /\ \A q \in DOMAIN table : /\ DOMAIN request'[q] = {"state", "answer"}
                                 /\ request'[q].state = table[q].state
  BY <1>1, <1>2
<1> QED BY <1>1, <1>3 DEF Moved, RequestsKnown

LEMMA PreviewsMove ==
    ASSUME RequestsKnown, NEW r \in DOMAIN request, HostPreviews(r)
    PROVE  Moved({r}) /\ request'[r].state # "sent" /\ request'[r].state # "received"
<1> DEFINE run == registry[Scope(r)]
           joined == run # NoRun /\ run.key = Key(r)
           answer == IF joined /\ run.cancelled THEN "cancelled" ELSE NoKey
           waiting == [request EXCEPT ![r].state = "waiting", ![r].answer = answer]
           busy == [request EXCEPT ![r] = [state |-> "answered", answer |-> "busy"]]
<1>1. request' = busy \/ request' = waiting \/ request' = Signalled(waiting, run.members)
  BY Zenon DEF HostPreviews
<1> HIDE DEF run, joined, answer
<1>2. /\ DOMAIN busy = DOMAIN request /\ DOMAIN busy[r] = {"state", "answer"}
      /\ busy[r].state = "answered" /\ \A q \in DOMAIN request \ {r} : busy[q] = request[q]
  OBVIOUS
<1>3. /\ DOMAIN waiting = DOMAIN request /\ DOMAIN waiting[r] = {"state", "answer"}
      /\ waiting[r].state = "waiting" /\ \A q \in DOMAIN request \ {r} : waiting[q] = request[q]
  BY DEF RequestsKnown
<1> HIDE DEF busy, waiting
<1>4. CASE request' = busy
  <2>1. "answered" \in RequestStates
    BY DEF RequestStates
  <2>2. Moved({r}) /\ request'[r].state = "answered"
    BY <1>2, <1>4, <2>1, OneMoves
  <2> QED BY <2>2
<1>5. CASE request' = waiting \/ request' = Signalled(waiting, run.members)
  <2>1. "waiting" \in RequestStates
    BY DEF RequestStates
  <2>2. Moved({r}) /\ request'[r].state = "waiting"
    BY <1>3, <1>5, <2>1, OneMoves
  <2> QED BY <2>2
<1> QED BY <1>1, <1>4, <1>5

LEMMA CancelsMove ==
    ASSUME RequestsKnown, NEW s, NEW k, HostCancels(s, k)
    PROVE  Moved({})
<1>1. UNCHANGED request \/ request' = Signalled(request, registry[s].members)
  BY DEF HostCancels
<1>2. /\ DOMAIN request' = DOMAIN request
      /\ \A r \in DOMAIN request : /\ DOMAIN request'[r] = {"state", "answer"}
                                   /\ request'[r].state = request[r].state
  BY <1>1, SignalledStates DEF RequestsKnown
<1> QED BY <1>2 DEF Moved, RequestsKnown

LEMMA CompletesMove ==
    ASSUME RequestsKnown, NEW r \in DOMAIN request, NEW answer, Completes(r, answer)
    PROVE  Moved({r}) /\ request'[r].state = "answered"
<1> DEFINE answered == [request EXCEPT ![r] = [state |-> "answered", answer |-> answer]]
           run == registry[Scope(r)]
<1>1. request' = answered \/ request' = Signalled(answered, run.members)
  BY Zenon DEF Completes
<1>2. /\ DOMAIN answered = DOMAIN request /\ DOMAIN answered[r] = {"state", "answer"}
      /\ answered[r].state = "answered"
      /\ \A q \in DOMAIN request \ {r} : answered[q] = request[q]
  OBVIOUS
<1>3. "answered" \in RequestStates
  BY DEF RequestStates
<1> HIDE DEF answered, run
<1> QED BY <1>1, <1>2, <1>3, OneMoves

LEMMA ExecuteMoves ==
    ASSUME RequestsKnown, NEW r \in DOMAIN request, Execute(r)
    PROVE  Moved({r}) /\ request'[r].state = "executing"
<1> DEFINE run == [request[r] EXCEPT !.state = "executing"]
           table == [request EXCEPT ![r] = run]
<1>1. request' = table
  BY DEF Execute
<1>2. DOMAIN run = {"state", "answer"} /\ run.state = "executing"
  BY DEF RequestsKnown
<1> HIDE DEF run
<1>3. /\ DOMAIN table = DOMAIN request /\ table[r] = run
      /\ \A q \in DOMAIN request \ {r} : table[q] = request[q]
  OBVIOUS
<1>4. "executing" \in RequestStates
  BY DEF RequestStates
<1> HIDE DEF table
<1> QED BY <1>1, <1>2, <1>3, <1>4, OneMoves

(* The inbox is not read: a request that leaves it unread was not sent.    *)
LEMMA InboxStays ==
    ASSUME HostInv, UNCHANGED inbox, NEW R, Moved(R),
           \A r \in R : r \in DOMAIN request => request[r].state # "sent" /\ request'[r].state # "sent"
    PROVE  HostInv'
<1>1. DOMAIN request' = DOMAIN request /\ RequestsKnown'
  BY DEF Moved
<1>2. \A r \in DOMAIN request : request[r].state = "sent" <=> request'[r].state = "sent"
  BY DEF Moved
<1> HIDE DEF IsList
<1>3. InboxInv'
  BY <1>1, <1>2 DEF HostInv, InboxInv, IsPreview
<1> QED BY <1>1, <1>3 DEF HostInv

LEMMA TailOf ==
    ASSUME NEW list, IsList(list), list # <<>>
    PROVE  /\ IsList(Tail(list)) /\ Len(list) \in Nat /\ Len(list) > 0
           /\ DOMAIN list = 1..Len(list) /\ DOMAIN Tail(list) = 1..(Len(list) - 1)
           /\ Head(list) = list[1] /\ \A n \in 1..(Len(list) - 1) : Tail(list)[n] = list[n + 1]
<1>1. list \in Seq(Range(list))
  BY DEF IsList
<1>2. Len(list) \in Nat /\ DOMAIN list = 1..Len(list) /\ Len(list) # 0
  BY <1>1, EmptySeq
<1>3. /\ Tail(list) \in Seq(Range(list)) /\ Len(Tail(list)) = Len(list) - 1 /\ Head(list) = list[1]
      /\ \A n \in 1..Len(Tail(list)) : Tail(list)[n] = list[n + 1]
  BY <1>1, HeadTailProperties
<1>4. IsList(Tail(list))
  BY <1>3, ListOf
<1>5. DOMAIN Tail(list) = 1..Len(Tail(list))
  BY <1>3
<1> HIDE DEF IsList
<1> QED BY <1>2, <1>3, <1>4, <1>5

LEMMA ReadKeepsHost ==
    ASSUME HostInv, HostReads
    PROVE  /\ HostInv' /\ DOMAIN request' = DOMAIN request
           /\ \A r \in DOMAIN request : request'[r].state = "received" <=> request[r].state = "received"
<1> DEFINE m == Head(inbox)
           last == Len(inbox)
<1>1. inbox # <<>> /\ inbox' = Tail(inbox)
  BY DEF HostReads
<1>2. RequestsKnown /\ InboxInv
  BY DEF HostInv
<1>3. /\ IsList(Tail(inbox)) /\ last \in Nat /\ last > 0
      /\ DOMAIN inbox = 1..last /\ DOMAIN Tail(inbox) = 1..(last - 1)
      /\ m = inbox[1] /\ \A n \in 1..(last - 1) : Tail(inbox)[n] = inbox[n + 1]
  BY <1>1, <1>2, TailOf DEF InboxInv
<1> HIDE DEF last, m
<1>4. /\ IsList(inbox') /\ DOMAIN inbox' = 1..(last - 1)
      /\ \A n \in DOMAIN inbox' : inbox'[n] = inbox[n + 1] /\ n + 1 \in DOMAIN inbox /\ n + 1 # 1
      /\ \A n \in DOMAIN inbox : n = 1 \/ (n - 1 \in DOMAIN inbox' /\ inbox'[n - 1] = inbox[n])
      /\ 1 \in DOMAIN inbox
  BY <1>1, <1>3
<1> HIDE DEF IsList
<1>5. /\ \A n \in DOMAIN inbox : IsPreview(inbox[n]) =>
           inbox[n].preview \in DOMAIN request /\ request[inbox[n].preview].state = "sent"
      /\ \A i, n \in DOMAIN inbox :
            IsPreview(inbox[i]) /\ IsPreview(inbox[n]) /\ inbox[i].preview = inbox[n].preview => i = n
      /\ \A r \in DOMAIN request : request[r].state = "sent" =>
            \E n \in DOMAIN inbox : inbox[n] = [preview |-> r]
  BY <1>2 DEF InboxInv
<1>10. \A r : IsPreview([preview |-> r]) /\ [preview |-> r].preview = r
  BY DEF IsPreview
<1>6. ASSUME NEW R, Moved(R), \A r \in R : /\ r \in DOMAIN request /\ request[r].state = "sent"
                                           /\ request'[r].state # "sent"
                                           /\ IsPreview(m) /\ m.preview = r,
             IsPreview(m) => m.preview \in R
      PROVE  HostInv'
  <2>1. /\ DOMAIN request' = DOMAIN request /\ RequestsKnown'
        /\ \A r \in DOMAIN request \ R : request'[r].state = request[r].state
    BY <1>6 DEF Moved
  <2>2. ASSUME NEW n \in DOMAIN inbox', IsPreview(inbox'[n])
        PROVE  inbox'[n].preview \in DOMAIN request' /\ request'[inbox'[n].preview].state = "sent"
    <3>1. /\ inbox'[n] = inbox[n + 1] /\ n + 1 \in DOMAIN inbox /\ n + 1 # 1
      BY <1>4
    <3>2. inbox[n + 1].preview \notin R
      BY <1>3, <1>4, <1>5, <1>6, <2>2, <3>1
    <3> QED BY <1>5, <2>1, <2>2, <3>1, <3>2
  <2>3. ASSUME NEW i \in DOMAIN inbox', NEW n \in DOMAIN inbox', IsPreview(inbox'[i]),
               IsPreview(inbox'[n]), inbox'[i].preview = inbox'[n].preview
        PROVE  i = n
    <3>1. i + 1 = n + 1
      BY <1>4, <1>5, <2>3
    <3> QED BY <1>4, <1>3, <3>1
  <2>4. ASSUME NEW r \in DOMAIN request', request'[r].state = "sent"
        PROVE  \E n \in DOMAIN inbox' : inbox'[n] = [preview |-> r]
    <3>1. r \notin R /\ r \in DOMAIN request /\ request[r].state = "sent"
      BY <1>6, <2>1, <2>4
    <3>2. PICK n \in DOMAIN inbox : inbox[n] = [preview |-> r]
      BY <1>5, <3>1
    <3>3. n # 1
      BY <1>3, <1>6, <1>10, <3>1, <3>2
    <3> QED BY <1>4, <3>2, <3>3
  <2>5. InboxInv'
    BY <1>4, <2>2, <2>3, <2>4 DEF InboxInv, IsPreview
  <2> QED BY <2>1, <2>5 DEF HostInv
<1>7. CASE IsPreview(m)
  <2> DEFINE r == m.preview
  <2>1. r \in DOMAIN request /\ request[r].state = "sent"
    BY <1>3, <1>4, <1>5, <1>7
  <2>2. HostPreviews(r)
    BY <1>7 DEF HostReads, m, IsPreview
  <2> HIDE DEF r
  <2>3. Moved({r}) /\ request'[r].state # "sent" /\ request'[r].state # "received"
    BY <1>2, <2>1, <2>2, PreviewsMove
  <2>4. HostInv'
    BY <1>6, <1>7, <2>1, <2>3 DEF r
  <2> QED BY <2>1, <2>3, <2>4 DEF Moved
<1>8. CASE ~IsPreview(m)
  <2>1. HostCancels(m.cancel, m.key)
    BY <1>8 DEF HostReads, m, IsPreview
  <2>2. Moved({})
    BY <1>2, <2>1, CancelsMove
  <2>3. HostInv'
    BY <1>6, <1>8, <2>2
  <2> QED BY <2>2, <2>3 DEF Moved
<1> QED BY <1>7, <1>8

LEMMA TaskKeepsHost ==
    ASSUME HostInv, NEW r \in DOMAIN request,
           Execute(r) \/ PreviewCancelled(r) \/ PreviewDone(r)
    PROVE  /\ HostInv' /\ DOMAIN request' = DOMAIN request
           /\ \A q \in DOMAIN request : request'[q].state = "received" <=> request[q].state = "received"
<1>1. RequestsKnown /\ UNCHANGED inbox /\ request[r].state \in {"waiting", "executing"}
  BY DEF HostInv, Execute, PreviewCancelled, PreviewDone, HostUnchanged
<1>2. Moved({r}) /\ request'[r].state \in {"executing", "answered"}
  <2>1. CASE Execute(r)
    BY <1>1, <2>1, ExecuteMoves
  <2>2. CASE PreviewCancelled(r) \/ PreviewDone(r)
    <3>1. PICK answer : Completes(r, answer)
      BY <2>2 DEF PreviewCancelled, PreviewDone
    <3>2. Moved({r}) /\ request'[r].state = "answered"
      BY <1>1, <3>1, CompletesMove
    <3> QED BY <3>2
  <2> QED BY <2>1, <2>2
<1>3. HostInv'
  BY <1>1, <1>2, InboxStays
<1> QED BY <1>1, <1>2, <1>3 DEF Moved

LEMMA DeathKeepsHost ==
    ASSUME HostInv, HostDies
    PROVE  /\ HostInv' /\ DOMAIN request' = DOMAIN request
           /\ \A q \in DOMAIN request : request'[q].state = "received" <=> request[q].state = "received"
<1> DEFINE failed == [state |-> "answered", answer |-> "error"]
<1>1. /\ inbox' = <<>> /\ DOMAIN request' = DOMAIN request
      /\ \A r \in DOMAIN request :
            IF request[r].state \in {"sent", "waiting", "executing"} THEN request'[r] = failed
            ELSE request'[r] = request[r]
  BY DEF HostDies
<1>2. DOMAIN failed = {"state", "answer"} /\ failed.state = "answered"
  OBVIOUS
<1> HIDE DEF failed
<1>3. \A r \in DOMAIN request :
         DOMAIN request[r] = {"state", "answer"} /\ request[r].state \in RequestStates
  BY DEF HostInv, RequestsKnown
<1>4. \A r \in DOMAIN request :
         /\ DOMAIN request'[r] = {"state", "answer"} /\ request'[r].state \in RequestStates
         /\ request'[r].state # "sent"
         /\ request'[r].state = "received" <=> request[r].state = "received"
  BY <1>1, <1>2, <1>3 DEF RequestStates
<1>5. IsList(<<>>) /\ DOMAIN <<>> = {}
  BY DEF IsList
<1> HIDE DEF IsList
<1>6. InboxInv'
  BY <1>1, <1>4, <1>5 DEF InboxInv
<1> QED BY <1>1, <1>4, <1>6 DEF HostInv, RequestsKnown

(* Nothing that a modal waits for is heard of or forgotten by the host.    *)
LEMMA HostListens ==
    ASSUME ListenInv, UNCHANGED <<screen, lookup>>, DOMAIN request' = DOMAIN request,
           \A q \in DOMAIN request : request'[q].state = "received" <=> request[q].state = "received"
    PROVE  ListenInv'
<1>1. \A q \in DOMAIN request : Unheard(q)' <=> Unheard(q)
  BY DEF Unheard
<1>2. \A k : LookupServed(k)' <=> LookupServed(k)
  BY <1>1, Zenon DEF LookupServed
<1>3. \A s, x : IsLoading(s, x)' <=> IsLoading(s, x)
  BY DEF IsLoading
<1>4. \A s, k, x : LeftOrAsked(s, k, x)' <=> LeftOrAsked(s, k, x)
  BY <1>1 DEF LeftOrAsked
<1>5. \A s, k : Modal(s, k)' <=> Modal(s, k)
  BY <1>3, <1>4, Zenon DEF Modal
<1>6. \A s : ModalServed(s)' <=> ModalServed(s)
  BY <1>3, <1>5, Zenon DEF ModalServed
<1> QED BY <1>2, <1>6 DEF ListenInv

LEMMA HostServes ==
    ASSUME ServedInv, HostStep \/ HostDies
    PROVE  HostInv' /\ ListenInv'
<1>1. UNCHANGED <<screen, lookup>>
  BY HostKeeps
<1>2. /\ HostInv' /\ DOMAIN request' = DOMAIN request
      /\ \A q \in DOMAIN request : request'[q].state = "received" <=> request[q].state = "received"
  <2>1. CASE HostReads
    BY <2>1, ReadKeepsHost DEF ServedInv
  <2>2. CASE HostDies
    BY <2>2, DeathKeepsHost DEF ServedInv
  <2>3. CASE \E r \in DOMAIN request : Execute(r) \/ PreviewCancelled(r) \/ PreviewDone(r)
    BY <2>3, TaskKeepsHost DEF ServedInv
  <2> QED BY <2>1, <2>2, <2>3 DEF HostStep
<1>3. ListenInv'
  BY <1>1, <1>2, HostListens DEF ServedInv
<1> QED BY <1>2, <1>3

-----------------------------------------------------------------------------
(* The steps of the renderer                                               *)

(* What is sent is put behind the rest.                                    *)
LEMMA ConcatOf ==
    ASSUME NEW list, IsList(list), NEW new, IsList(new)
    PROVE  LET all == list \o new IN
           /\ IsList(all) /\ Len(list) \in Nat /\ DOMAIN list = 1..Len(list)
           /\ DOMAIN new = 1..Len(new) /\ DOMAIN all = 1..(Len(list) + Len(new)) /\ Len(new) \in Nat
           /\ \A n \in DOMAIN list : all[n] = list[n]
           /\ \A n \in DOMAIN new : all[Len(list) + n] = new[n]
           /\ \A n \in DOMAIN all : n \in DOMAIN list \/ n - Len(list) \in DOMAIN new
<1> DEFINE S == Range(list) \cup Range(new)
           all == list \o new
<1>1. list \in Seq(Range(list)) /\ new \in Seq(Range(new))
  BY DEF IsList
<1>2. list \in Seq(S) /\ new \in Seq(S)
  BY <1>1, SeqMonotonic
<1> HIDE DEF S
<1>3. /\ all \in Seq(S) /\ Len(all) = Len(list) + Len(new)
      /\ \A i \in 1 .. Len(list) + Len(new) :
            all[i] = IF i <= Len(list) THEN list[i] ELSE new[i - Len(list)]
  BY <1>2, ConcatProperties
<1>4. /\ Len(list) \in Nat /\ DOMAIN list = 1..Len(list) /\ Len(new) \in Nat
      /\ DOMAIN new = 1..Len(new)
  BY <1>2
<1>5. DOMAIN all = 1..Len(all)
  BY <1>3
<1>6. IsList(all)
  BY <1>3, ListOf
<1> HIDE DEF all, IsList
<1>7. \A n \in DOMAIN list : all[n] = list[n]
  BY <1>3, <1>4
<1>8. \A n \in DOMAIN new : all[Len(list) + n] = new[n]
  BY <1>3, <1>4
<1>9. \A n \in DOMAIN all : n \in DOMAIN list \/ n - Len(list) \in DOMAIN new
  BY <1>3, <1>4, <1>5
<1>10. DOMAIN all = 1..(Len(list) + Len(new))
  BY <1>3, <1>5
<1> QED BY <1>4, <1>6, <1>7, <1>8, <1>9, <1>10, Zenon DEF all

LEMMA InboxGrows ==
    ASSUME HostInv, RequestsKnown', NEW new, IsList(new), inbox' = inbox \o new,
           DOMAIN request \subseteq DOMAIN request',
           \A r \in DOMAIN request : request'[r].state = "sent" <=> request[r].state = "sent",
           \A n \in DOMAIN new : IsPreview(new[n]) =>
              /\ new[n].preview \in DOMAIN request' \ DOMAIN request
              /\ request'[new[n].preview].state = "sent",
           \A m, n \in DOMAIN new :
              IsPreview(new[m]) /\ IsPreview(new[n]) /\ new[m].preview = new[n].preview => m = n,
           \A r \in DOMAIN request' \ DOMAIN request : \E n \in DOMAIN new : new[n] = [preview |-> r]
    PROVE  HostInv'
<1> DEFINE last == Len(inbox)
<1>1. /\ IsList(inbox) /\ \A n \in DOMAIN inbox : IsPreview(inbox[n]) =>
            inbox[n].preview \in DOMAIN request /\ request[inbox[n].preview].state = "sent"
      /\ \A m, n \in DOMAIN inbox :
            IsPreview(inbox[m]) /\ IsPreview(inbox[n]) /\ inbox[m].preview = inbox[n].preview => m = n
      /\ \A r \in DOMAIN request : request[r].state = "sent" =>
            \E n \in DOMAIN inbox : inbox[n] = [preview |-> r]
  BY DEF HostInv, InboxInv
<1> DEFINE all == inbox \o new
<1> HIDE DEF IsList
<1>2. /\ IsList(all) /\ last \in Nat /\ DOMAIN inbox = 1..last
      /\ DOMAIN new = 1..Len(new) /\ DOMAIN all = 1..(last + Len(new)) /\ Len(new) \in Nat
      /\ \A n \in DOMAIN inbox : all[n] = inbox[n]
      /\ \A n \in DOMAIN new : all[last + n] = new[n]
      /\ \A n \in DOMAIN all : n \in DOMAIN inbox \/ n - last \in DOMAIN new
  BY <1>1, ConcatOf, Zenon
<1>8. inbox' = all
  OBVIOUS
<1> HIDE DEF last, all
<1>3. \A n \in DOMAIN inbox' : \/ n \in DOMAIN inbox /\ inbox'[n] = inbox[n]
                               \/ n - last \in DOMAIN new /\ inbox'[n] = new[n - last]
  <2>1. \A n \in DOMAIN inbox' : n - last \in DOMAIN new => last + (n - last) = n
    BY <1>2, <1>8
  <2> QED BY <1>2, <1>8, <2>1
<1>4. \A n \in DOMAIN inbox' : IsPreview(inbox'[n]) =>
         inbox'[n].preview \in DOMAIN request' /\ request'[inbox'[n].preview].state = "sent"
  BY <1>1, <1>3
<1>5. ASSUME NEW m \in DOMAIN inbox', NEW n \in DOMAIN inbox', IsPreview(inbox'[m]),
             IsPreview(inbox'[n]), inbox'[m].preview = inbox'[n].preview
      PROVE  m = n
  <2>1. CASE inbox'[m].preview \in DOMAIN request
    <3>1. /\ m \in DOMAIN inbox /\ inbox'[m] = inbox[m]
          /\ n \in DOMAIN inbox /\ inbox'[n] = inbox[n]
      BY <1>3, <1>5, <2>1
    <3> QED BY <1>1, <1>5, <3>1
  <2>2. CASE inbox'[m].preview \notin DOMAIN request
    <3>1. /\ m - last \in DOMAIN new /\ inbox'[m] = new[m - last]
          /\ n - last \in DOMAIN new /\ inbox'[n] = new[n - last]
      BY <1>1, <1>3, <1>5, <2>2
    <3>2. m - last = n - last
      BY <1>5, <3>1
    <3> QED BY <1>2, <3>2
  <2> QED BY <2>1, <2>2
<1>6. ASSUME NEW r \in DOMAIN request', request'[r].state = "sent"
      PROVE  \E n \in DOMAIN inbox' : inbox'[n] = [preview |-> r]
  <2>1. CASE r \in DOMAIN request
    <3>1. PICK n \in DOMAIN inbox : inbox[n] = [preview |-> r]
      BY <1>1, <1>6, <2>1
    <3>2. n \in DOMAIN inbox'
      BY <1>2, <1>8
    <3> QED BY <1>2, <1>8, <3>1, <3>2
  <2>2. CASE r \notin DOMAIN request
    <3>1. PICK n \in DOMAIN new : new[n] = [preview |-> r]
      BY <2>2
    <3>2. last + n \in DOMAIN inbox'
      BY <1>2, <1>8
    <3> QED BY <1>2, <1>8, <3>1, <3>2
  <2> QED BY <2>1, <2>2
<1>7. InboxInv'
  BY <1>2, <1>8, <1>4, <1>5, <1>6 DEF InboxInv, IsPreview
<1> QED BY <1>7 DEF HostInv

(* Only the lookup k and its requests change: what other modals wait for   *)
(* stays.                                                                  *)
OnlyOf(k) ==
    /\ \A i \in Keys \ {k} : lookup'[i] = lookup[i]
    /\ DOMAIN request \subseteq DOMAIN request'
    /\ \A r \in DOMAIN request' : Key(r) # k => r \in DOMAIN request /\ request'[r] = request[r]

LEMMA ModalKept ==
    ASSUME NEW s \in Scopes, NEW k \in Keys, OnlyOf(k), screen'[s] = screen[s],
           NEW i \in Keys \ {k}, Modal(s, i)
    PROVE  Modal(s, i)'
<1>1. lookup'[i] = lookup[i]
  BY DEF OnlyOf
<1>2. /\ \A r \in DOMAIN request' : Key(r) = i => r \in DOMAIN request
      /\ \A r \in DOMAIN request : Key(r) = i => r \in DOMAIN request' /\ request'[r] = request[r]
  BY DEF OnlyOf
<1>3. ASSUME NEW x, LeftOrAsked(s, i, x)
      PROVE  LeftOrAsked(s, i, x)'
  <2>1. Key(<<s, i, {x}>>) = i
    BY DEF Key
  <2> QED BY <1>1, <1>2, <1>3, <2>1 DEF LeftOrAsked, Unheard
<1>4. ASSUME NEW x, IsLoading(s, x)'
      PROVE  /\ lookup'[i].pc = "running" => LeftOrAsked(s, i, x)'
             /\ lookup'[i].pc = "retrying" =>
                   \A r \in DOMAIN request' : Key(r) = i => x \in SourcesOf(r)
             /\ lookup'[i].pc # "done"
  <2>1. IsLoading(s, x)
    BY <1>4 DEF IsLoading
  <2> QED BY <1>1, <1>2, <1>3, <2>1 DEF Modal
<1>5. /\ \E r \in DOMAIN request' : Key(r) = i
      /\ \A r \in DOMAIN request' : Key(r) = i => Scope(r) = s
  BY <1>2 DEF Modal
<1> QED BY <1>4, <1>5 DEF Modal

LEMMA ModalStays ==
    ASSUME PreviewInv, NEW s \in Scopes, ModalServed(s), NEW k \in Keys, OnlyOf(k),
           screen'[s] = screen[s], screen[s].key # k
    PROVE  ModalServed(s)'
<1>1. \A x : IsLoading(s, x)' <=> IsLoading(s, x)
  BY DEF IsLoading
<1>2. screen[s].key # NoKey => screen[s].key \in Keys \ {k}
  BY DEF PreviewInv, ScreenInv
<1>3. \A i \in Keys \ {k} : Modal(s, i) => Modal(s, i)'
  BY ModalKept
<1>4. screen[s].key # NoKey => \E i \in Keys \ {k} : i = screen[s].key /\ Modal(s, i)'
  BY <1>2, <1>3 DEF ModalServed
<1> QED BY <1>1, <1>4 DEF ModalServed

LEMMA LookupStays ==
    ASSUME NEW i \in Keys, LookupServed(i), NEW k \in Keys, OnlyOf(k), i # k
    PROVE  LookupServed(i)'
<1>1. lookup'[i] = lookup[i]
  BY DEF OnlyOf
<1>2. /\ \A r \in DOMAIN request' : Key(r) = i => r \in DOMAIN request
      /\ \A r \in DOMAIN request : Key(r) = i => r \in DOMAIN request' /\ request'[r] = request[r]
  BY DEF OnlyOf
<1>3. \A r \in DOMAIN request : Key(r) = i => (Unheard(r)' <=> Unheard(r))
  BY <1>2 DEF Unheard
<1> QED BY <1>1, <1>2, <1>3 DEF LookupServed

LEMMA ListensOn ==
    ASSUME PreviewInv, ListenInv, NEW s \in Scopes, NEW k \in Keys, OnlyOf(k),
           \A i \in Scopes \ {s} : screen'[i] = screen[i] /\ screen[i].key # k,
           LookupServed(k)', ModalServed(s)'
    PROVE  ListenInv'
<1>1. \A i \in Keys : LookupServed(i)'
  BY LookupStays DEF ListenInv
<1>2. \A i \in Scopes : ModalServed(i)'
  BY ModalStays DEF ListenInv
<1> QED BY <1>1, <1>2 DEF ListenInv

(* A modal that shows nothing as loading.                                  *)
LEMMA ModalQuiet ==
    ASSUME ListenInv, NEW s \in Scopes, UNCHANGED <<lookup, request>>,
           \A i \in Scopes \ {s} : screen'[i] = screen[i],
           screen'[s].key = NoKey, screen'[s].loading = FALSE, \A x : ~IsLoading(s, x)',
           IsInjective(screen'[s].draft)
    PROVE  ListenInv'
<1>1. \A k \in Keys : LookupServed(k)'
  BY DEF ListenInv, LookupServed, Unheard
<1>2. ASSUME NEW i \in Scopes \ {s} PROVE ModalServed(i)'
  <2>1. screen'[i] = screen[i] /\ ModalServed(i)
    BY DEF ListenInv
  <2> QED BY <2>1 DEF ModalServed, Modal, IsLoading, LeftOrAsked, Unheard
<1>3. ModalServed(s)'
  BY DEF ModalServed
<1> QED BY <1>1, <1>2, <1>3 DEF ListenInv

LEMMA EditServes ==
    ASSUME ServedInv, NEW s \in Scopes, NEW draft \in Drafts[s], EditDraft(s, draft)
    PROVE  HostInv' /\ ListenInv'
<1> DEFINE view == [ScreenState EXCEPT !.draft = draft]
<1>1. screen' = [screen EXCEPT ![s] = view] /\ UNCHANGED <<lookup, request, inbox>>
  BY DEF EditDraft, HostUnchanged
<1>2. view.key = NoKey /\ view.loading = FALSE /\ view.draft = draft /\ view.item = <<>>
  BY DEF ScreenState
<1>3. DOMAIN <<>> = {}
  OBVIOUS
<1> HIDE DEF view
<1>4. (\A i \in Scopes \ {s} : screen'[i] = screen[i]) /\ screen'[s] = view
  BY <1>1, ScreenOf DEF ServedInv
<1>5. IsInjective(draft)
  BY PreviewAssumption
<1> HIDE DEF IsInjective
<1>6. \A x : ~IsLoading(s, x)'
  BY <1>2, <1>3, <1>4 DEF IsLoading
<1>7. IsInjective(screen'[s].draft)
  BY <1>2, <1>4, <1>5
<1>8. ListenInv'
  BY <1>1, <1>2, <1>4, <1>6, <1>7, ModalQuiet DEF ServedInv
<1>9. HostInv'
  BY <1>1 DEF ServedInv, HostInv, RequestsKnown, InboxInv
<1> QED BY <1>8, <1>9

LEMMA OneSent ==
    ASSUME HostInv, NEW m, inbox' = Append(inbox, m)
    PROVE  inbox' = inbox \o <<m>> /\ IsList(<<m>>) /\ DOMAIN <<m>> = {1}
<1>1. inbox \in Seq(Range(inbox))
  BY DEF HostInv, InboxInv, IsList
<1>2. inbox \in Seq(Range(inbox) \cup {m})
  BY <1>1, SeqMonotonic
<1>3. Append(inbox, m) = inbox \o <<m>>
  BY <1>2, AppendIsConcat
<1>4. <<m>> \in Seq({m}) /\ DOMAIN <<m>> = {1}
  OBVIOUS
<1>5. IsList(<<m>>)
  BY <1>4, ListOf, Zenon
<1> QED BY <1>3, <1>4, <1>5, Zenon

LEMMA CloseServes ==
    ASSUME ServedInv, NEW s \in Scopes, CloseModal(s)
    PROVE  HostInv' /\ ListenInv'
<1> DEFINE m == [cancel |-> s, key |-> screen[s].key]
<1>1. /\ Shows(s, NoKey, FALSE, screen[s].item) /\ UNCHANGED <<lookup, request>>
      /\ inbox' = Append(inbox, m) /\ ~Loading(s)
  BY DEF CloseModal
<1>2. ~IsPreview(m)
  BY DEF IsPreview
<1> HIDE DEF m
<1>3. HostInv /\ PreviewInv /\ ListenInv
  BY DEF ServedInv
<1>4. /\ \A i \in Scopes \ {s} : screen'[i] = screen[i]
      /\ screen'[s].draft = screen[s].draft /\ screen'[s].key = NoKey
      /\ screen'[s].loading = FALSE /\ screen'[s].item = screen[s].item
  BY <1>1, <1>3, ScreenChanges
<1>5. \A x : ~IsLoading(s, x)'
  BY <1>1, <1>4 DEF IsLoading, Loading
<1> HIDE DEF IsInjective
<1>6. IsInjective(screen'[s].draft)
  BY <1>3, <1>4 DEF ListenInv, ModalServed
<1>7. ListenInv'
  BY <1>1, <1>3, <1>4, <1>5, <1>6, ModalQuiet
<1>8. inbox' = inbox \o <<m>> /\ IsList(<<m>>) /\ DOMAIN <<m>> = {1}
  BY <1>1, <1>3, OneSent
<1>9. \A n \in DOMAIN <<m>> : ~IsPreview(<<m>>[n])
  BY <1>2, <1>8
<1>10. RequestsKnown' /\ DOMAIN request' = DOMAIN request /\ UNCHANGED request
  BY <1>1, <1>3 DEF HostInv, RequestsKnown
<1> DEFINE new == <<m>>
<1> HIDE DEF new, IsList
<1>11. /\ inbox' = inbox \o new /\ IsList(new) /\ \A n \in DOMAIN new : ~IsPreview(new[n])
  BY <1>8, <1>9 DEF new
<1>12. HostInv'
  BY <1>3, <1>10, <1>11, InboxGrows
<1> QED BY <1>7, <1>12

(* A list without repetitions, in two parts.                               *)
LEMMA SplitAt ==
    ASSUME NEW list, IsList(list), IsInjective(list), NEW n \in Nat, n <= Len(list)
    PROVE  LET first == SubSeq(list, 1, n)
               rest == SubSeq(list, n + 1, Len(list))
           IN  /\ IsList(first) /\ IsInjective(first) /\ Len(first) = n
               /\ IsList(rest) /\ IsInjective(rest)
               /\ Range(list) = Range(first) \cup Range(rest)
               /\ Range(first) \cap Range(rest) = {}
               /\ \A i \in 1..n : first[i] = list[i]
<1> DEFINE first == SubSeq(list, 1, n)
           rest == SubSeq(list, n + 1, Len(list))
           last == Len(list)
<1>1. last \in Nat /\ DOMAIN list = 1..last /\ list \in Seq(Range(list))
  BY DEF IsList
<1>2. \A i \in 1..last : list[i] \in Range(list)
  BY <1>1 DEF Range
<1>3. /\ first \in Seq(Range(list)) /\ Len(first) = n /\ DOMAIN first = 1..n
      /\ \A i \in 1..n : first[i] = list[i]
  BY <1>1, <1>2, SubSeqProperties
<1>4. /\ rest \in Seq(Range(list)) /\ Len(rest) = last - n /\ DOMAIN rest = 1..(last - n)
      /\ \A i \in 1..(last - n) : rest[i] = list[n + i]
  <2>1. \A i \in (n + 1)..last : list[i] \in Range(list)
    BY <1>2
  <2>2. n + 1 \in Int /\ last \in Int /\ n <= last
    BY <1>1
  <2>3. /\ rest \in Seq(Range(list))
        /\ Len(rest) = IF n + 1 <= last THEN last - (n + 1) + 1 ELSE 0
        /\ \A i \in 1..(last - (n + 1) + 1) : rest[i] = list[(n + 1) + i - 1]
    BY <2>1, <2>2, SubSeqProperties
  <2>6. DOMAIN rest = 1..Len(rest)
    BY <2>3
  <2>7. n <= last
    OBVIOUS
  <2> HIDE DEF rest, last
  <2>8. last - (n + 1) + 1 = last - n
    BY <1>1
  <2>4. Len(rest) = last - n
    BY <1>1, <2>3, <2>7, <2>8
  <2>9. \A i \in Nat : (n + 1) + i - 1 = n + i
    OBVIOUS
  <2>10. \A i \in 1..(last - n) : i \in Nat
    BY <1>1
  <2>5. \A i \in 1..(last - n) : rest[i] = list[n + i]
    BY <2>3, <2>8, <2>9, <2>10
  <2> QED BY <2>3, <2>4, <2>5, <2>6
<1>5. IsList(first) /\ IsList(rest)
  BY <1>3, <1>4, ListOf
<1> HIDE DEF first, rest, last, IsList
<1>10. n <= last
  BY DEF last
<1>11. \A i \in 1..n : i \in 1..last
  BY <1>1, <1>10
<1>12. \A i \in 1..(last - n) : n + i \in 1..last
  BY <1>1, <1>10
<1>13. \A i, j \in 1..last : list[i] = list[j] => i = j
  BY <1>1 DEF IsInjective
<1>14. IsInjective(first)
  BY <1>3, <1>11, <1>13 DEF IsInjective
<1>15. IsInjective(rest)
  <2> SUFFICES ASSUME NEW i \in 1..(last - n), NEW j \in 1..(last - n), rest[i] = rest[j]
               PROVE  i = j
    BY <1>4 DEF IsInjective
  <2>1. n + i = n + j
    BY <1>4, <1>12, <1>13
  <2> QED BY <1>1, <2>1
<1>7. Range(list) \subseteq Range(first) \cup Range(rest)
  <2> SUFFICES ASSUME NEW i \in 1..last PROVE list[i] \in Range(first) \cup Range(rest)
    BY <1>1 DEF Range
  <2>1. CASE i <= n
    BY <1>3, <2>1 DEF Range
  <2>2. CASE i > n
    <3>1. i - n \in 1..(last - n) /\ n + (i - n) = i
      BY <1>1, <2>2
    <3> QED BY <1>4, <3>1 DEF Range
  <2> QED BY <1>1, <2>1, <2>2
<1>8. Range(first) \subseteq Range(list) /\ Range(rest) \subseteq Range(list)
  BY <1>3, <1>4, ListOf
<1>9. Range(first) \cap Range(rest) = {}
  <2> SUFFICES ASSUME NEW i \in 1..n, NEW j \in 1..(last - n), first[i] = rest[j] PROVE FALSE
    BY <1>3, <1>4 DEF Range
  <2>1. i = n + j
    BY <1>3, <1>4, <1>11, <1>12, <1>13
  <2> QED BY <1>1, <2>1
<1> QED BY <1>3, <1>5, <1>7, <1>8, <1>9, <1>14, <1>15 DEF first, rest, last

(* Requests for sources that were not asked for yet, and the requests that *)
(* are known while they are made.                                          *)
NotAsked(s, k, list) ==
    IsList(list) /\ IsInjective(list) /\ \A x \in Range(list) : <<s, k, {x}>> \notin DOMAIN request
KnownAs(known) ==
    /\ DOMAIN known = DOMAIN request
    /\ \A r \in DOMAIN request :
          /\ DOMAIN known[r] = {"state", "answer"} /\ known[r].state \in RequestStates
          /\ known[r].state = "sent" <=> request[r].state = "sent"
SentFor(s, k, list, known) ==
    /\ DOMAIN request' = DOMAIN request \cup Asked(s, k, list)
    /\ \A r \in DOMAIN request : request'[r] = known[r]
    /\ \A r \in Asked(s, k, list) : request'[r].state = "sent"

LEMMA AsksServe ==
    ASSUME HostInv, NEW s, NEW k, NEW list, NotAsked(s, k, list), NEW known, KnownAs(known),
           Asks(s, k, list, known)
    PROVE  HostInv' /\ SentFor(s, k, list, known)
<1>0. /\ IsList(list) /\ IsInjective(list)
      /\ \A x \in Range(list) : <<s, k, {x}>> \notin DOMAIN request
      /\ DOMAIN known = DOMAIN request
      /\ \A r \in DOMAIN request :
            /\ DOMAIN known[r] = {"state", "answer"} /\ known[r].state \in RequestStates
            /\ known[r].state = "sent" <=> request[r].state = "sent"
  BY DEF NotAsked, KnownAs
<1> DEFINE one(x) == <<s, k, {x}>>
           fresh == [state |-> "sent", answer |-> NoKey]
           new == [n \in DOMAIN list |-> [preview |-> one(list[n])]]
<1>1. request' = Sent(Asked(s, k, list), known) /\ inbox' = inbox \o new
  BY DEF Asks
<1>2. Asked(s, k, list) = {one(x) : x \in Range(list)}
  BY DEF Asked
<1>3. \A x, y : one(x) = one(y) => x = y
  OBVIOUS
<1>4. Len(list) \in Nat /\ DOMAIN list = 1..Len(list) /\ list \in Seq(Range(list))
  BY <1>0 DEF IsList
<1>5. \A n \in DOMAIN list : list[n] \in Range(list)
  BY DEF Range
<1>6. \A x \in Range(list) : \E n \in DOMAIN list : list[n] = x
  BY DEF Range
<1>7. DOMAIN fresh = {"state", "answer"} /\ fresh.state = "sent"
  OBVIOUS
<1>8. "sent" \in RequestStates
  BY DEF RequestStates
<1>9. \A x \in Range(list) : one(x) \notin DOMAIN request
  BY <1>0
<1> HIDE DEF one, fresh
<1>10. /\ DOMAIN request' = DOMAIN request \cup Asked(s, k, list)
       /\ \A r \in DOMAIN request : request'[r] = known[r]
       /\ \A r \in Asked(s, k, list) : r \notin DOMAIN request /\ request'[r] = fresh
  BY <1>0, <1>1, <1>2, <1>9 DEF Sent, fresh
<1>11. /\ DOMAIN new = DOMAIN list
       /\ \A n \in DOMAIN new : /\ IsPreview(new[n]) /\ new[n] = [preview |-> one(list[n])]
                                /\ new[n].preview = one(list[n])
  BY DEF IsPreview
<1>12. IsList(new)
  <2>1. new \in [1..Len(list) -> Range(new)]
    BY <1>4 DEF Range
  <2>2. new \in Seq(Range(new))
    BY <1>4, <2>1, IsASeq
  <2> QED BY <2>2 DEF IsList
<1> HIDE DEF new, IsList
<1>13. RequestsKnown'
  BY <1>0, <1>7, <1>8, <1>10 DEF RequestsKnown
<1>14. \A n \in DOMAIN new : /\ new[n].preview \in DOMAIN request' \ DOMAIN request
                             /\ request'[new[n].preview].state = "sent"
  BY <1>2, <1>5, <1>7, <1>9, <1>10, <1>11
<1>15. \A m, n \in DOMAIN new : new[m].preview = new[n].preview => m = n
  BY <1>0, <1>3, <1>11 DEF IsInjective
<1>16. \A r \in DOMAIN request' \ DOMAIN request : \E n \in DOMAIN new : new[n] = [preview |-> r]
  BY <1>2, <1>6, <1>10, <1>11
<1>17. HostInv'
  BY <1>0, <1>1, <1>10, <1>12, <1>13, <1>14, <1>15, <1>16, InboxGrows
<1> QED BY <1>7, <1>10, <1>17 DEF SentFor

(* A key that was not used is of no request and of no modal.               *)
LEMMA FreshKey ==
    ASSUME PreviewInv, NEW k \in Keys, lookup[k].pc = "none"
    PROVE  /\ \A r \in DOMAIN request : Key(r) # k
           /\ \A s \in Scopes : screen[s].key # k
           /\ k # NoKey
<1>1. k # NoKey
  BY PreviewAssumption
<1> QED BY <1>1 DEF PreviewInv, RequestInv, ScreenInv

LEMMA LookupServes ==
    ASSUME ServedInv, NEW s \in Scopes, NEW k \in Keys, StartLookup(s, k)
    PROVE  HostInv' /\ ListenInv'
<1> DEFINE draft == screen[s].draft
           least == Min({Workers, Len(draft)})
           first == SubSeq(draft, 1, least)
           rest == SubSeq(draft, Len(first) + 1, Len(draft))
           item == [x \in Range(draft) |-> "loading"]
           view == [todo |-> rest, pc |-> "running"]
           loading == TRUE
<1>1. /\ lookup[k].pc = "none" /\ draft # <<>> /\ Shows(s, k, loading, item)
      /\ lookup' = [lookup EXCEPT ![k] = view]
      /\ Asks(s, k, first, request)
  BY DEF StartLookup
<1>2. PreviewInv /\ HostInv /\ ListenInv
  BY DEF ServedInv
<1>3. IsList(draft) /\ DOMAIN lookup = Keys /\ IsInjective(draft)
  BY <1>2, ScreenOf, LookupOf DEF ListenInv, ModalServed
<1>4. least \in Nat /\ least <= Len(draft) /\ least # 0
  <2>1. Len(draft) \in Nat /\ Workers \in Nat /\ Workers # 0 /\ Len(draft) # 0
    BY <1>1, <1>3, PreviewAssumption, EmptySeq DEF IsList
  <2>2. {Workers, Len(draft)} \in SUBSET Nat /\ {Workers, Len(draft)} # {}
    BY <2>1
  <2>3. least \in {Workers, Len(draft)} /\ \A n \in {Workers, Len(draft)} : least <= n
    BY <2>2, Least
  <2> HIDE DEF least
  <2> QED BY <2>1, <2>3
<1> HIDE DEF draft, least, IsList, IsInjective
<1>5. /\ IsList(first) /\ IsInjective(first) /\ Len(first) = least /\ IsInjective(rest)
      /\ Range(draft) = Range(first) \cup Range(rest) /\ Range(first) \cap Range(rest) = {}
  <2>1. LET one == SubSeq(draft, 1, least) two == SubSeq(draft, least + 1, Len(draft))
        IN  /\ IsList(one) /\ IsInjective(one) /\ Len(one) = least /\ IsList(two) /\ IsInjective(two)
            /\ Range(draft) = Range(one) \cup Range(two) /\ Range(one) \cap Range(two) = {}
            /\ \A i \in 1..least : one[i] = draft[i]
    BY <1>3, <1>4, SplitAt
  <2> QED BY <2>1
<1>6. \E x \in Range(first) : TRUE
  <2>1. DOMAIN first = 1..least
    BY <1>5 DEF IsList
  <2>2. 1 \in 1..least
    BY <1>4
  <2> QED BY <2>1, <2>2 DEF Range
<1>7. view.todo = rest /\ view.pc = "running"
  OBVIOUS
<1>8. DOMAIN item = Range(draft) /\ \A x \in Range(draft) : item[x] = "loading"
  OBVIOUS
<1> HIDE DEF first, rest, view, item, loading
<1>9. /\ \A r \in DOMAIN request : Key(r) # k
      /\ \A i \in Scopes : screen[i].key # k
      /\ k # NoKey
  BY <1>1, <1>2, FreshKey
<1>10. \A x : <<s, k, {x}>> \notin DOMAIN request
  BY <1>9 DEF Key
<1>11. /\ HostInv' /\ DOMAIN request' = DOMAIN request \cup Asked(s, k, first)
       /\ \A r \in DOMAIN request : request'[r] = request[r]
       /\ \A r \in Asked(s, k, first) : request'[r].state = "sent"
  <2>1. KnownAs(request)
    BY <1>2 DEF KnownAs, HostInv, RequestsKnown
  <2>2. NotAsked(s, k, first)
    BY <1>5, <1>10 DEF NotAsked
  <2>3. HostInv' /\ SentFor(s, k, first, request)
    BY <1>1, <1>2, <2>1, <2>2, AsksServe
  <2> QED BY <2>3 DEF SentFor
<1>12. /\ \A r \in Asked(s, k, first) : Scope(r) = s /\ Key(r) = k
       /\ \A x : <<s, k, {x}>> \in Asked(s, k, first) <=> x \in Range(first)
  BY DEF Asked, Scope, Key
<1>13. /\ \A i \in Scopes \ {s} : screen'[i] = screen[i]
       /\ screen'[s].draft = draft /\ screen'[s].key = k /\ screen'[s].item = item
  <2>1. Shows(s, k, loading, item) /\ PreviewInv
    BY <1>1, <1>2
  <2>2. /\ \A i \in Scopes \ {s} : screen'[i] = screen[i]
        /\ screen'[s].draft = screen[s].draft /\ screen'[s].key = k /\ screen'[s].item = item
    BY <2>1, ScreenChanges
  <2> QED BY <2>2 DEF draft
<1>14. lookup'[k].todo = rest /\ lookup'[k].pc = "running"
  BY <1>1, <1>3, <1>7
<1>15. OnlyOf(k)
  BY <1>1, <1>3, <1>11, <1>12 DEF OnlyOf
<1>16. \A r \in DOMAIN request' : Key(r) = k <=> r \in Asked(s, k, first)
  BY <1>9, <1>11, <1>12
<1>17. \A r \in Asked(s, k, first) : Unheard(r)'
  BY <1>11 DEF Unheard
<1>18. \E r \in DOMAIN request' : Key(r) = k /\ Unheard(r)'
  BY <1>6, <1>11, <1>12, <1>17
<1>19. LookupServed(k)'
  <2>1. \A r \in Asked(s, k, first) : \A x \in Range(rest) : r # <<Scope(r), k, {x}>>
    BY <1>5, <1>12
  <2>2. \A r \in DOMAIN request' : Key(r) = k =>
           /\ Unheard(r)' => lookup'[k].pc \in {"running", "retrying"}
           /\ \A x \in Range(lookup'[k].todo) : r # <<Scope(r), k, {x}>>
           /\ \A q \in DOMAIN request' : Key(q) = k =>
                 Scope(q) = Scope(r) /\ (lookup'[k].pc # "running" => q = r)
    BY <1>12, <1>14, <1>16, <2>1
  <2> QED BY <1>5, <1>14, <1>18, <2>2 DEF LookupServed, LookupPoints
<1>20. Modal(s, k)'
  <2>1. ASSUME NEW x, IsLoading(s, x)'
        PROVE  LeftOrAsked(s, k, x)'
    <3>1. x \in Range(first) \/ x \in Range(rest)
      BY <1>5, <1>8, <1>13, <2>1 DEF IsLoading
    <3>2. CASE x \in Range(first)
      <4>1. <<s, k, {x}>> \in Asked(s, k, first)
        BY <1>12, <3>2
      <4>2. <<s, k, {x}>> \in DOMAIN request' /\ Unheard(<<s, k, {x}>>)'
        BY <1>11, <1>17, <4>1
      <4> QED BY <4>2 DEF LeftOrAsked
    <3>3. CASE x \in Range(rest)
      BY <1>14, <3>3 DEF LeftOrAsked
    <3> QED BY <3>1, <3>2, <3>3
  <2>2. \A r \in DOMAIN request' : Key(r) = k => Scope(r) = s
    BY <1>12, <1>16
  <2> QED BY <1>14, <1>18, <2>1, <2>2 DEF Modal
<1>21. \E x : IsLoading(s, x)'
  BY <1>5, <1>6, <1>8, <1>13 DEF IsLoading
<1>22. ModalServed(s)'
  <2>1. IsInjective(screen'[s].draft)
    BY <1>3, <1>13
  <2> QED BY <1>9, <1>13, <1>20, <1>21, <2>1 DEF ModalServed
<1>23. ListenInv'
  BY <1>2, <1>9, <1>13, <1>15, <1>19, <1>22, ListensOn
<1> QED BY <1>11, <1>23

LEMMA RetryServes ==
    ASSUME ServedInv, NEW s \in Scopes, NEW k \in Keys, StartRetry(s, k)
    PROVE  HostInv' /\ ListenInv'
<1>1. PICK F : F = {x \in DOMAIN screen[s].item : screen[s].item[x] = "failed"}
  OBVIOUS
<1> DEFINE one == <<s, k, F>>
           m == [preview |-> one]
           fresh == [state |-> "sent", answer |-> NoKey]
           item == [x \in DOMAIN screen[s].item |-> IF x \in F THEN "loading" ELSE screen[s].item[x]]
           loading == screen[s].loading
           view == [lookup[k] EXCEPT !.pc = "retrying"]
<1>2. /\ ~Loading(s) /\ F # {} /\ lookup[k].pc = "none" /\ Shows(s, k, loading, item)
      /\ lookup' = [lookup EXCEPT ![k] = view]
      /\ request' = Sent({one}, request) /\ inbox' = Append(inbox, m)
  BY <1>1 DEF StartRetry
<1>3. PreviewInv /\ HostInv /\ ListenInv
  BY DEF ServedInv
<1>4. /\ DOMAIN lookup = Keys /\ DOMAIN lookup[k] = {"todo", "pc"} /\ lookup[k].todo = <<>>
  BY <1>2, <1>3, LookupOf
<1>5. view.todo = <<>> /\ view.pc = "retrying"
  BY <1>4
<1>6. /\ \A r \in DOMAIN request : Key(r) # k
      /\ \A i \in Scopes : screen[i].key # k
      /\ k # NoKey
  BY <1>2, <1>3, FreshKey
<1>7. Scope(one) = s /\ Key(one) = k /\ SourcesOf(one) = F
  BY DEF Scope, Key, SourcesOf
<1>8. IsPreview(m) /\ m.preview = one
  BY DEF IsPreview
<1>9. DOMAIN fresh = {"state", "answer"} /\ fresh.state = "sent"
  OBVIOUS
<1>10. /\ DOMAIN item = DOMAIN screen[s].item
       /\ \A x \in DOMAIN item : item[x] = "loading" <=> x \in F
  <2>1. \A x \in DOMAIN screen[s].item : screen[s].item[x] # "loading"
    BY <1>2 DEF Loading
  <2> QED BY <2>1
<1>11. ~loading
  BY <1>2 DEF Loading
<1>12. \E x \in DOMAIN item : item[x] = "loading"
  BY <1>1, <1>2, <1>10
<1> HIDE DEF one, fresh, item, view
<1>13. one \notin DOMAIN request
  BY <1>6, <1>7
<1>14. /\ DOMAIN request' = DOMAIN request \cup {one} /\ request'[one] = fresh
       /\ \A r \in DOMAIN request : request'[r] = request[r]
  BY <1>2, <1>13 DEF Sent, fresh
<1>15. HostInv'
  <2> DEFINE new == <<m>>
  <2>1. inbox' = inbox \o new /\ IsList(new) /\ DOMAIN new = {1} /\ new[1] = m
    <3> HIDE DEF m
    <3>1. inbox' = inbox \o <<m>> /\ IsList(<<m>>) /\ DOMAIN <<m>> = {1}
      BY <1>2, <1>3, OneSent
    <3> QED BY <3>1
  <2>2. m = [preview |-> one]
    OBVIOUS
  <2>3. "sent" \in RequestStates
    BY DEF RequestStates
  <2>4. RequestsKnown'
    BY <1>3, <1>9, <1>14, <2>3 DEF HostInv, RequestsKnown
  <2> HIDE DEF new, m, IsList
  <2>5. \A n \in DOMAIN new : IsPreview(new[n]) =>
           /\ new[n].preview \in DOMAIN request' \ DOMAIN request
           /\ request'[new[n].preview].state = "sent"
    BY <1>8, <1>9, <1>13, <1>14, <2>1
  <2>6. \A r \in DOMAIN request' \ DOMAIN request : \E n \in DOMAIN new : new[n] = [preview |-> r]
    BY <1>14, <2>1, <2>2
  <2>7. \A i, n \in DOMAIN new :
           IsPreview(new[i]) /\ IsPreview(new[n]) /\ new[i].preview = new[n].preview => i = n
    BY <2>1
  <2>8. \A r \in DOMAIN request : request'[r].state = "sent" <=> request[r].state = "sent"
    BY <1>14
  <2>9. DOMAIN request \subseteq DOMAIN request'
    BY <1>14
  <2> QED BY <1>3, <2>1, <2>4, <2>5, <2>6, <2>7, <2>8, <2>9, InboxGrows
<1> HIDE DEF m
<1>16. /\ \A i \in Scopes \ {s} : screen'[i] = screen[i]
       /\ screen'[s].draft = screen[s].draft /\ screen'[s].key = k /\ screen'[s].item = item
       /\ screen'[s].loading = loading
  <2> HIDE DEF loading
  <2> QED BY <1>2, <1>3, ScreenChanges
<1>17. lookup'[k].todo = <<>> /\ lookup'[k].pc = "retrying"
  BY <1>2, <1>4, <1>5
<1>18. OnlyOf(k)
  BY <1>2, <1>4, <1>7, <1>14 DEF OnlyOf
<1>19. \A r \in DOMAIN request' : Key(r) = k <=> r = one
  BY <1>6, <1>7, <1>14
<1>21. \E r \in DOMAIN request' : Key(r) = k /\ Unheard(r)'
  <2>1. \E r \in DOMAIN request' : Key(r) = k /\ request'[r].state # "received"
    BY <1>7, <1>9, <1>14
  <2> QED BY <2>1 DEF Unheard
<1>22. LookupServed(k)'
  <2>1. Range(<<>>) = {} /\ IsInjective(<<>>)
    BY DEF Range, IsInjective
  <2> HIDE DEF IsInjective
  <2> QED BY <1>17, <1>19, <1>21, <2>1 DEF LookupServed, LookupPoints
<1>23. Modal(s, k)'
  <2>1. \A x : IsLoading(s, x)' => x \in F
    BY <1>10, <1>16 DEF IsLoading
  <2> QED BY <1>7, <1>17, <1>19, <1>21, <2>1 DEF Modal
<1>24. \E x : IsLoading(s, x)'
  BY <1>12, <1>16 DEF IsLoading
<1>25. ModalServed(s)'
  <2> HIDE DEF IsInjective
  <2>1. IsInjective(screen'[s].draft)
    BY <1>3, <1>16 DEF ListenInv, ModalServed
  <2> QED BY <1>6, <1>16, <1>23, <1>24, <2>1 DEF ModalServed
<1>26. ListenInv'
  BY <1>3, <1>6, <1>16, <1>18, <1>22, <1>25, ListensOn
<1> QED BY <1>15, <1>26

(* The modal of a request is the only one with its key.                    *)
LEMMA OtherKeys ==
    ASSUME ListenInv, NEW r \in DOMAIN request, Key(r) # NoKey
    PROVE  \A i \in Scopes \ {Scope(r)} : screen[i].key # Key(r)
BY DEF ListenInv, ModalServed, Modal

(* The next source of a lookup, if it has one, and what is left then.      *)
LEMMA NextOf ==
    ASSUME NEW todo, IsList(todo), IsInjective(todo)
    PROVE  LET next == IF todo = <<>> THEN <<>> ELSE <<Head(todo)>>
               rest == SubSeq(todo, Len(next) + 1, Len(todo))
           IN  /\ IsList(next) /\ IsInjective(next) /\ IsInjective(rest)
               /\ Range(todo) = Range(next) \cup Range(rest)
               /\ Range(next) \cap Range(rest) = {}
               /\ rest # <<>> => \E x \in Range(next) : TRUE
<1> DEFINE next == IF todo = <<>> THEN <<>> ELSE <<Head(todo)>>
           n == Len(next)
           first == SubSeq(todo, 1, n)
           rest == SubSeq(todo, n + 1, Len(todo))
<1>1. Len(todo) \in Nat /\ todo \in Seq(Range(todo)) /\ (todo # <<>> => Len(todo) # 0)
  BY EmptySeq DEF IsList
<1>2. CASE todo = <<>>
  <2>1. next = <<>> /\ n = 0 /\ Len(todo) = 0
    BY <1>2
  <2>2. rest = <<>>
    BY <1>2, <2>1, SubSeqEmpty
  <2>3. IsList(<<>>) /\ IsInjective(<<>>) /\ Range(<<>>) = {}
    BY DEF IsList, IsInjective, Range
  <2> HIDE DEF next, n, rest, IsList, IsInjective
  <2> QED BY <1>2, <2>1, <2>2, <2>3 DEF next, n, rest
<1>3. CASE todo # <<>>
  <2>1. next = <<Head(todo)>> /\ n = 1 /\ n <= Len(todo) /\ Head(todo) = todo[1]
    BY <1>1, <1>3
  <2>2. /\ IsList(first) /\ IsInjective(rest) /\ Len(first) = 1
        /\ Range(todo) = Range(first) \cup Range(rest) /\ Range(first) \cap Range(rest) = {}
        /\ first[1] = todo[1]
    <3>1. n \in Nat /\ n <= Len(todo)
      BY <2>1
    <3>2. /\ IsList(first) /\ IsInjective(rest) /\ Len(first) = n
          /\ Range(todo) = Range(first) \cup Range(rest) /\ Range(first) \cap Range(rest) = {}
          /\ \A i \in 1..n : first[i] = todo[i]
      <4> HIDE DEF n, IsList, IsInjective
      <4> QED BY <3>1, SplitAt
    <3> QED BY <2>1, <3>2
  <2>3. Range(first) = {todo[1]}
    <3>1. DOMAIN first = {1}
      BY <2>2 DEF IsList
    <3> HIDE DEF first
    <3> QED BY <2>2, <3>1 DEF Range
  <2>4. Range(next) = {todo[1]} /\ IsInjective(next) /\ IsList(next)
    <3>1. <<Head(todo)>> \in Seq({todo[1]})
      BY <2>1
    <3>2. IsList(<<Head(todo)>>)
      BY <3>1, ListOf, Zenon
    <3> HIDE DEF IsList
    <3> QED BY <2>1, <3>2 DEF Range, IsInjective
  <2> HIDE DEF next, first, IsList, IsInjective
  <2>5. \E x \in Range(next) : TRUE
    BY <2>4
  <2> QED BY <2>2, <2>3, <2>4, <2>5 DEF rest, n, next
<1> QED BY <1>2, <1>3

LEMMA AnswerServes ==
    ASSUME ServedInv, NEW r \in DOMAIN request, ReceivePreview(r)
    PROVE  HostInv' /\ ListenInv'
<1> DEFINE s == Scope(r)
           k == Key(r)
           item == Merged(s, r, request[r].answer)
           todo == lookup[k].todo
           next == IF todo = <<>> THEN <<>> ELSE <<Head(todo)>>
           rest == SubSeq(todo, Len(next) + 1, Len(todo))
           loading == \E x \in DOMAIN item : item[x] = "loading"
           heard == [request[r] EXCEPT !.state = "received"]
           known == [request EXCEPT ![r] = heard]
           view == [lookup[k] EXCEPT !.todo = rest]
<1>1. /\ request[r].state = "answered" /\ lookup[k].pc = "running"
      /\ IF Current(s, k) THEN Shows(s, k, loading, item) ELSE UNCHANGED screen
      /\ lookup' = [lookup EXCEPT ![k] = view]
      /\ Asks(s, k, next, known)
  BY Zenon DEF ReceivePreview
<1>2. PreviewInv /\ HostInv /\ ListenInv
  BY DEF ServedInv
<1>3. /\ s \in Scopes /\ k \in Keys /\ k # NoKey /\ DOMAIN lookup = Keys
      /\ DOMAIN lookup[k] = {"todo", "pc"} /\ IsList(todo)
  <2>1. s \in Scopes /\ k \in Keys
    BY <1>2, RequestOf
  <2> HIDE DEF s, k
  <2> QED BY <1>2, <2>1, LookupOf, PreviewAssumption
<1>4. LookupServed(k) /\ ModalServed(s)
  BY <1>2, <1>3 DEF ListenInv
<1>5. /\ DOMAIN request[r] = {"state", "answer"}
      /\ \A q \in DOMAIN request :
            DOMAIN request[q] = {"state", "answer"} /\ request[q].state \in RequestStates
  BY <1>2 DEF HostInv, RequestsKnown
<1>6. heard.state = "received" /\ DOMAIN heard = {"state", "answer"}
  BY <1>5
<1>7. view.todo = rest /\ view.pc = "running"
  BY <1>1, <1>3
<1>8. \A x \in DOMAIN item : item[x] = "loading" =>
         x \in DOMAIN screen[s].item /\ x \notin SourcesOf(r) /\ screen[s].item[x] = "loading"
  BY DEF Merged, ItemAfter
<1>9. /\ IsList(next) /\ IsInjective(next) /\ IsInjective(rest)
      /\ Range(todo) = Range(next) \cup Range(rest)
      /\ Range(next) \cap Range(rest) = {}
      /\ rest # <<>> => \E x \in Range(next) : TRUE
  <2>1. IsInjective(todo)
    BY <1>4 DEF LookupServed
  <2> HIDE DEF todo, IsList, IsInjective
  <2> QED BY <1>3, <2>1, NextOf
<1>10. \A i \in Scopes \ {s} : screen[i].key # k
  BY <1>2, <1>3, OtherKeys
<1>11. Key(r) = k /\ Scope(r) = s
  OBVIOUS
<1> HIDE DEF s, k, item, todo, next, rest, loading, heard, view, IsList, IsInjective
<1>12. /\ DOMAIN known = DOMAIN request /\ known[r] = heard
       /\ \A q \in DOMAIN request \ {r} : known[q] = request[q]
  OBVIOUS
<1> HIDE DEF known
<1>13. /\ \A q \in DOMAIN request : Key(q) = k =>
             /\ \A x \in Range(todo) : q # <<s, k, {x}>>
             /\ Scope(q) = s
  <2>1. \A q \in DOMAIN request : Key(q) = k =>
           /\ \A x \in Range(lookup[k].todo) : q # <<Scope(q), k, {x}>>
           /\ \A p \in DOMAIN request : Key(p) = k => Scope(p) = Scope(q)
    BY <1>4 DEF LookupServed
  <2> QED BY <1>11, <2>1 DEF todo
<1>14. /\ HostInv' /\ DOMAIN request' = DOMAIN request \cup Asked(s, k, next)
       /\ \A q \in DOMAIN request : request'[q] = known[q]
       /\ \A q \in Asked(s, k, next) : request'[q].state = "sent"
  <2>1. KnownAs(known)
    <3>1. "received" \in RequestStates /\ request[r].state # "sent"
      BY <1>1 DEF RequestStates
    <3> QED BY <1>5, <1>6, <1>12, <3>1 DEF KnownAs
  <2>2. NotAsked(s, k, next)
    <3>1. \A x : Key(<<s, k, {x}>>) = k
      BY DEF Key
    <3> QED BY <1>9, <1>13, <3>1 DEF NotAsked
  <2>3. HostInv' /\ SentFor(s, k, next, known)
    BY <1>1, <1>2, <2>1, <2>2, AsksServe
  <2> QED BY <2>3 DEF SentFor
<1>15. /\ \A q \in Asked(s, k, next) : Scope(q) = s /\ Key(q) = k
       /\ \A x : <<s, k, {x}>> \in Asked(s, k, next) <=> x \in Range(next)
       /\ \A q \in Asked(s, k, next) : \E x \in Range(next) : q = <<s, k, {x}>>
  BY DEF Asked, Scope, Key
<1>16. \A x, y : <<s, k, {x}>> = <<s, k, {y}>> => x = y
  OBVIOUS
<1>17. OnlyOf(k)
  BY <1>1, <1>3, <1>11, <1>12, <1>14, <1>15 DEF OnlyOf
<1>18. lookup'[k].todo = rest /\ lookup'[k].pc = "running"
  BY <1>1, <1>3, <1>7
<1>19. \A q \in Asked(s, k, next) : q \in DOMAIN request' /\ Unheard(q)'
  BY <1>14 DEF Unheard
<1>20. LookupServed(k)'
  <2>1. rest # <<>> => \E q \in DOMAIN request' : Key(q) = k /\ Unheard(q)'
    BY <1>9, <1>15, <1>19
  <2>2. ASSUME NEW q \in DOMAIN request', Key(q) = k
        PROVE  Scope(q) = s /\ \A x \in Range(rest) : q # <<s, k, {x}>>
    <3>1. CASE q \in DOMAIN request
      BY <1>9, <1>13, <2>2, <3>1
    <3>2. CASE q \in Asked(s, k, next)
      BY <1>9, <1>15, <1>16, <3>2
    <3> QED BY <1>14, <3>1, <3>2
  <2> QED BY <1>9, <1>18, <2>1, <2>2 DEF LookupServed, LookupPoints
<1>21. CASE Current(s, k)
  <2>1. Shows(s, k, loading, item) /\ screen[s].key = k
    BY <1>1, <1>21 DEF Current
  <2>2. /\ \A i \in Scopes \ {s} : screen'[i] = screen[i]
        /\ screen'[s].draft = screen[s].draft /\ screen'[s].key = k /\ screen'[s].item = item
        /\ screen'[s].loading = loading
    BY <1>2, <1>3, <2>1, ScreenChanges
  <2>3. Modal(s, k)
    BY <1>3, <1>4, <2>1 DEF ModalServed
  <2>4. ASSUME NEW x, IsLoading(s, x)'
        PROVE  LeftOrAsked(s, k, x)'
    <3>1. IsLoading(s, x) /\ x \notin SourcesOf(r)
      BY <1>8, <2>2, <2>4 DEF IsLoading
    <3>2. LeftOrAsked(s, k, x)
      BY <1>1, <2>3, <3>1 DEF Modal
    <3>3. CASE x \in Range(next)
      <4>1. <<s, k, {x}>> \in DOMAIN request' /\ Unheard(<<s, k, {x}>>)'
        BY <1>15, <1>19, <3>3
      <4> QED BY <4>1 DEF LeftOrAsked
    <3>4. CASE x \in Range(rest)
      BY <1>18, <3>4 DEF LeftOrAsked
    <3>5. CASE x \notin Range(todo)
      <4>1. <<s, k, {x}>> \in DOMAIN request /\ Unheard(<<s, k, {x}>>)
        BY <3>2, <3>5 DEF LeftOrAsked, todo
      <4>2. <<s, k, {x}>> # r
        BY <3>1 DEF SourcesOf
      <4>3. request'[<<s, k, {x}>>] = request[<<s, k, {x}>>]
        BY <1>12, <1>14, <4>1, <4>2
      <4> QED BY <1>14, <4>1, <4>3 DEF LeftOrAsked, Unheard
    <3> QED BY <1>9, <3>3, <3>4, <3>5
  <2>5. \A q \in DOMAIN request' : Key(q) = k => Scope(q) = s
    BY <1>13, <1>14, <1>15
  <2>6. r \in DOMAIN request'
    BY <1>14
  <2>7. Modal(s, k)'
    BY <1>11, <1>18, <2>4, <2>5, <2>6 DEF Modal
  <2>8. screen'[s].loading => \E x : IsLoading(s, x)'
    BY <2>2 DEF loading, IsLoading
  <2>9. IsInjective(screen'[s].draft)
    BY <1>4, <2>2 DEF ModalServed
  <2>10. ModalServed(s)'
    BY <1>3, <2>2, <2>7, <2>8, <2>9 DEF ModalServed
  <2>11. ListenInv'
    BY <1>2, <1>3, <1>10, <1>17, <1>20, <2>2, <2>10, ListensOn
  <2> QED BY <1>14, <2>11
<1>22. CASE ~Current(s, k)
  <2>1. UNCHANGED screen /\ screen[s].key # k
    BY <1>1, <1>22 DEF Current
  <2>2. ModalServed(s)'
    BY <1>2, <1>3, <1>4, <1>17, <2>1, ModalStays
  <2>3. ListenInv'
    BY <1>2, <1>3, <1>10, <1>17, <1>20, <2>1, <2>2, ListensOn
  <2> QED BY <1>14, <2>3
<1> QED BY <1>21, <1>22

LEMMA RetryAnswerServes ==
    ASSUME ServedInv, NEW r \in DOMAIN request, ReceiveRetry(r)
    PROVE  HostInv' /\ ListenInv'
<1> DEFINE s == Scope(r)
           k == Key(r)
           refused == request[r].answer \notin {"found", "failed"}
           merged == Merged(s, r, request[r].answer)
           item == IF refused THEN screen[s].item ELSE merged
           pc == IF refused THEN "refused" ELSE "done"
           loading == FALSE
           heard == [request[r] EXCEPT !.state = "received"]
           view == [lookup[k] EXCEPT !.pc = pc]
<1>1. /\ request[r].state = "answered" /\ lookup[k].pc = "retrying"
      /\ IF Current(s, k) THEN Shows(s, k, loading, item) ELSE UNCHANGED screen
      /\ lookup' = [lookup EXCEPT ![k] = view]
      /\ request' = [request EXCEPT ![r] = heard] /\ UNCHANGED inbox
  BY Zenon DEF ReceiveRetry, Received, HostUnchanged
<1>2. PreviewInv /\ HostInv /\ ListenInv
  BY DEF ServedInv
<1>3. /\ s \in Scopes /\ k \in Keys /\ k # NoKey /\ DOMAIN lookup = Keys
      /\ DOMAIN lookup[k] = {"todo", "pc"}
  <2>1. s \in Scopes /\ k \in Keys
    BY <1>2, RequestOf
  <2> HIDE DEF s, k
  <2> QED BY <1>2, <2>1, LookupOf, PreviewAssumption
<1>4. LookupServed(k) /\ ModalServed(s)
  BY <1>2, <1>3 DEF ListenInv
<1>5. /\ DOMAIN request[r] = {"state", "answer"} /\ RequestsKnown
  BY <1>2 DEF HostInv, RequestsKnown
<1>6. heard.state = "received" /\ DOMAIN heard = {"state", "answer"}
  BY <1>5
<1>7. view.todo = lookup[k].todo /\ view.pc = pc
  BY <1>3
<1>8. \A x \in DOMAIN merged : merged[x] = "loading" =>
         x \in DOMAIN screen[s].item /\ x \notin SourcesOf(r) /\ screen[s].item[x] = "loading"
  BY DEF Merged, ItemAfter
<1>9. Key(r) = k /\ Scope(r) = s
  OBVIOUS
<1>10. \/ pc = "refused" /\ item = screen[s].item
       \/ pc = "done" /\ item = merged
  OBVIOUS
<1>11. \A i \in Scopes \ {s} : screen[i].key # k
  BY <1>2, <1>3, OtherKeys
<1> HIDE DEF s, k, refused, merged, item, pc, loading, heard, view, IsInjective
<1>12. /\ DOMAIN request' = DOMAIN request /\ request'[r] = heard
       /\ \A q \in DOMAIN request \ {r} : request'[q] = request[q]
  BY <1>1
<1>13. HostInv'
  <2>1. "received" \in RequestStates
    BY DEF RequestStates
  <2>2. Moved({r}) /\ request'[r].state = "received"
    BY <1>5, <1>6, <1>12, <2>1 DEF Moved, RequestsKnown
  <2>3. \A q \in {r} : request[q].state # "sent" /\ request'[q].state # "sent"
    BY <1>1, <2>2
  <2> QED BY <1>1, <1>2, <2>2, <2>3, InboxStays
<1>14. OnlyOf(k)
  BY <1>1, <1>3, <1>9, <1>12 DEF OnlyOf
<1>15. lookup'[k].todo = lookup[k].todo /\ lookup'[k].pc = pc
  BY <1>1, <1>3, <1>7
<1>16. /\ lookup[k].todo = <<>> /\ IsInjective(lookup[k].todo)
       /\ \A q \in DOMAIN request : Key(q) = k => q = r
  BY <1>1, <1>4, <1>9 DEF LookupServed
<1>17. LookupServed(k)'
  <2>1. ~Unheard(r)'
    BY <1>6, <1>12 DEF Unheard
  <2>2. Range(<<>>) = {}
    BY DEF Range
  <2>3. lookup'[k].todo = <<>> /\ lookup'[k].pc \in {"refused", "done"}
    BY <1>10, <1>15, <1>16
  <2> QED BY <1>12, <1>15, <1>16, <2>1, <2>2, <2>3 DEF LookupServed, LookupPoints
<1>18. CASE Current(s, k)
  <2>1. Shows(s, k, loading, item) /\ screen[s].key = k
    BY <1>1, <1>18 DEF Current
  <2>2. /\ \A i \in Scopes \ {s} : screen'[i] = screen[i]
        /\ screen'[s].draft = screen[s].draft /\ screen'[s].key = k /\ screen'[s].item = item
        /\ screen'[s].loading = loading
    BY <1>2, <1>3, <2>1, ScreenChanges
  <2>3. Modal(s, k)
    BY <1>3, <1>4, <2>1 DEF ModalServed
  <2>4. ASSUME NEW x, IsLoading(s, x)'
        PROVE  pc # "done"
    <3> SUFFICES ASSUME pc = "done" PROVE FALSE
      OBVIOUS
    <3>1. item = merged
      BY <1>10
    <3>2. IsLoading(s, x) /\ x \notin SourcesOf(r)
      BY <1>8, <2>2, <2>4, <3>1 DEF IsLoading
    <3> QED BY <1>1, <1>9, <2>3, <3>2 DEF Modal
  <2>5. Modal(s, k)'
    BY <1>9, <1>10, <1>12, <1>15, <1>16, <2>4 DEF Modal
  <2>6. IsInjective(screen'[s].draft)
    BY <1>4, <2>2 DEF ModalServed
  <2>7. ~screen'[s].loading
    BY <2>2 DEF loading
  <2>8. ModalServed(s)'
    BY <1>3, <2>2, <2>5, <2>6, <2>7 DEF ModalServed
  <2>9. ListenInv'
    BY <1>2, <1>3, <1>11, <1>14, <1>17, <2>2, <2>8, ListensOn
  <2> QED BY <1>13, <2>9
<1>19. CASE ~Current(s, k)
  <2>1. UNCHANGED screen /\ screen[s].key # k
    BY <1>1, <1>19 DEF Current
  <2>2. ModalServed(s)'
    BY <1>2, <1>3, <1>4, <1>14, <2>1, ModalStays
  <2>3. ListenInv'
    BY <1>2, <1>3, <1>11, <1>14, <1>17, <2>1, <2>2, ListensOn
  <2> QED BY <1>13, <2>3
<1> QED BY <1>18, <1>19

LEMMA ServedUnchanged ==
    ASSUME ServedInv, UNCHANGED previewVars
    PROVE  HostInv' /\ ListenInv'
<1>1. UNCHANGED <<screen, lookup, request, inbox>>
  BY DEF previewVars
<1>2. HostInv'
  BY <1>1 DEF ServedInv, HostInv, RequestsKnown, InboxInv
<1>3. ListenInv'
  BY <1>1, HostListens DEF ServedInv
<1> QED BY <1>2, <1>3

LEMMA ServedStart == Init => ServedInv
<1> SUFFICES ASSUME Init PROVE ServedInv
  OBVIOUS
<1>1. /\ screen = [s \in Scopes |-> ScreenState] /\ lookup = [k \in Keys |-> NoLookup]
      /\ request = <<>> /\ inbox = <<>>
  BY DEF Init, PreviewInit
<1>2. /\ ScreenState.draft = <<>> /\ ScreenState.loading = FALSE /\ ScreenState.item = <<>>
      /\ ScreenState.key = NoKey /\ NoLookup.todo = <<>> /\ NoLookup.pc = "none"
  BY DEF ScreenState, NoLookup
<1>3. DOMAIN <<>> = {} /\ IsList(<<>>) /\ IsInjective(<<>>)
  BY DEF IsList, IsInjective
<1> HIDE DEF IsList, IsInjective
<1>4. HostInv
  BY <1>1, <1>3 DEF HostInv, RequestsKnown, InboxInv
<1>5. \A k \in Keys : LookupServed(k)
  BY <1>1, <1>2, <1>3 DEF LookupServed, LookupPoints
<1>6. \A s \in Scopes : ModalServed(s)
  BY <1>1, <1>2, <1>3 DEF ModalServed, IsLoading
<1> QED BY <1>4, <1>5, <1>6, PreviewsInit DEF ServedInv, ListenInv

LEMMA ServedOn == ServedInv /\ [Next]_vars => ServedInv'
<1> SUFFICES ASSUME ServedInv, [Next]_vars PROVE HostInv' /\ ListenInv'
  BY PreviewsStep DEF ServedInv
<1>1. CASE UserPreviews
  <2>1. PICK s \in Scopes :
           \/ \E draft \in Drafts[s] : EditDraft(s, draft)
           \/ \E k \in Keys : StartLookup(s, k) \/ StartRetry(s, k)
           \/ CloseModal(s)
    BY <1>1 DEF UserPreviews
  <2> QED BY <2>1, EditServes, LookupServes, RetryServes, CloseServes
<1>2. CASE PreviewGoesOn
  <2>1. CASE RendererStep
    BY <2>1, AnswerServes, RetryAnswerServes DEF RendererStep
  <2>2. CASE HostStep
    BY <2>2, HostServes
  <2> QED BY <1>2, <2>1, <2>2 DEF PreviewGoesOn
<1>3. CASE ProcessDies
  BY <1>3, HostServes DEF ProcessDies
<1>4. CASE HandleCommand \/ OtherConnection \/ RunGoesOn \/ EngineOpens \/ WriteRefused
  BY <1>4, ServedUnchanged, Zenon
     DEF HandleCommand, OtherConnection, RunGoesOn, EngineOpens, WriteRefused
<1>5. CASE UNCHANGED vars
  BY <1>5, ServedUnchanged DEF vars
<1> QED BY <1>1, <1>2, <1>3, <1>4, <1>5, Zenon DEF Next

(* A run of a job that has not ended is of an engine that is open, at a    *)
(* step it can take, of a job and an item that are there: no command, no   *)
(* other connection and no recovery takes them from it.                    *)
RunsServed ==
    ~At("idle") =>
       /\ EngineAt("up") /\ runner.pc \in RunPoints /\ runner.job \in DOMAIN jobs
       /\ At("requeue") => runner.left \subseteq DOMAIN itsItems
       /\ runner.pc \in {"start", "fetch", "finish"} => runner.item \in DOMAIN itsItems

(* A request that is attended to: it can be read, carried out or heard of, *)
(* and its lookup listens to it.                                           *)
Attended(r) ==
    /\ request[r].state \in {"sent", "waiting", "executing", "answered"}
    /\ request[r].state = "sent" => \E n \in DOMAIN inbox : inbox[n] = [preview |-> r]
    /\ lookup[Key(r)].pc \in {"running", "retrying"}
AskedFor(s, x) ==
    \E r \in DOMAIN request :
       Scope(r) = s /\ Key(r) = screen[s].key /\ x \in SourcesOf(r) /\ Attended(r)

(* A modal that is loading shows sources as loading, and each of them is   *)
(* asked for, or left to a worker that waits for another one.              *)
ModalsServed ==
    \A s \in Scopes : Loading(s) /\ ~RetryRefused(s) =>
       /\ \E x : IsLoading(s, x)
       /\ \A x : IsLoading(s, x) =>
             \/ AskedFor(s, x)
             \/ /\ x \in Range(lookup[screen[s].key].todo)
                /\ \E r \in DOMAIN request :
                      Scope(r) = s /\ Key(r) = screen[s].key /\ Attended(r)
WorkServed == RunsServed /\ ModalsServed

LEMMA UnheardAttended ==
    ASSUME HostInv, NEW r \in DOMAIN request, LookupServed(Key(r)), Unheard(r)
    PROVE  Attended(r)
BY DEF HostInv, RequestsKnown, InboxInv, LookupServed, Unheard, RequestStates, Attended

LEMMA ModalsAttended == ServedInv => ModalsServed
<1> SUFFICES ASSUME ServedInv, NEW s \in Scopes, Loading(s), ~RetryRefused(s)
             PROVE  /\ \E x : IsLoading(s, x)
                    /\ \A x : IsLoading(s, x) =>
                          \/ AskedFor(s, x)
                          \/ /\ x \in Range(lookup[screen[s].key].todo)
                             /\ \E r \in DOMAIN request :
                                   Scope(r) = s /\ Key(r) = screen[s].key /\ Attended(r)
  BY DEF ModalsServed
<1>1. HostInv /\ ModalServed(s) /\ \A k \in Keys : LookupServed(k)
  BY DEF ServedInv, ListenInv
<1>2. \E x : IsLoading(s, x)
  BY <1>1 DEF Loading, IsLoading, ModalServed
<1>3. PICK k \in Keys : k = screen[s].key /\ Modal(s, k)
  BY <1>1, <1>2 DEF ModalServed, ServedInv, PreviewInv, ScreenInv
<1>4. LookupServed(k) /\ lookup[k].pc # "refused" /\ lookup[k].pc \in LookupPoints
  <2>1. k # NoKey
    BY PreviewAssumption
  <2> QED BY <1>1, <1>3, <2>1 DEF RetryRefused, LookupServed
<1>5. \A r \in DOMAIN request : Key(r) = k /\ Unheard(r) => Scope(r) = s /\ Attended(r)
  BY <1>1, <1>3, <1>4, UnheardAttended DEF Modal
<1>6. lookup[k].pc # "none"
  BY <1>3 DEF ServedInv, PreviewInv, RequestInv, Modal
<1>7. ASSUME NEW x, IsLoading(s, x)
      PROVE  \/ AskedFor(s, x)
             \/ /\ x \in Range(lookup[k].todo)
                /\ \E r \in DOMAIN request : Scope(r) = s /\ Key(r) = k /\ Attended(r)
  <2>1. lookup[k].pc \in {"running", "retrying"}
    BY <1>3, <1>4, <1>6, <1>7 DEF Modal, LookupPoints
  <2>2. CASE lookup[k].pc = "retrying"
    <3>1. PICK r \in DOMAIN request : Key(r) = k /\ Unheard(r)
      BY <1>4, <2>2 DEF LookupServed
    <3>2. x \in SourcesOf(r)
      BY <1>3, <1>7, <2>2, <3>1 DEF Modal
    <3> QED BY <1>3, <1>5, <3>1, <3>2 DEF AskedFor
  <2>3. CASE lookup[k].pc = "running" /\ x \in Range(lookup[k].todo)
    <3>1. lookup[k].todo # <<>>
      BY <2>3 DEF Range
    <3>2. PICK r \in DOMAIN request : Key(r) = k /\ Unheard(r)
      BY <1>4, <3>1 DEF LookupServed
    <3> QED BY <1>5, <2>3, <3>2
  <2>4. CASE lookup[k].pc = "running" /\ x \notin Range(lookup[k].todo)
    <3>1. <<s, k, {x}>> \in DOMAIN request /\ Unheard(<<s, k, {x}>>)
      BY <1>3, <1>7, <2>4 DEF Modal, LeftOrAsked
    <3>2. Key(<<s, k, {x}>>) = k /\ x \in SourcesOf(<<s, k, {x}>>)
      BY DEF Key, SourcesOf
    <3> QED BY <1>3, <1>5, <3>1, <3>2 DEF AskedFor
  <2> QED BY <2>1, <2>2, <2>3, <2>4
<1> QED BY <1>2, <1>3, <1>7

LEMMA RunsAttended == JobsInv => RunsServed
<1> SUFFICES ASSUME JobsInv, ~At("idle") PROVE RunsServed
  BY DEF RunsServed
<1>1. runner # IdleRunner
  BY DEF At, IdleRunner
<1>2. EngineAt("up")
  BY <1>1 DEF JobsInv, EngineInv, EngineAt
<1>3. runner \in RunRecord /\ runner.job \in DOMAIN jobs /\ Works(runner, itsItems)
  BY <1>1 DEF JobsInv, RunInv, itsItems
<1> QED BY <1>2, <1>3 DEF RunsServed, RunRecord, Works, With, At

(* Every run of a job can go on, and whatever a modal shows as loading is  *)
(* asked for and listened to, whatever was cancelled, superseded, closed   *)
(* or lost with the host: what a retry that was refused shows is all that  *)
(* nobody works on (claim_next_pending_import_job_item, runWorker,         *)
(* PreviewCancellationRegistry).                                           *)
THEOREM WorkAttended == Spec => []WorkServed
<1>1. Init => JobsInv /\ ServedInv
  BY JobsInit, ServedStart
<1>2. JobsInv /\ ServedInv /\ [Next]_vars => (JobsInv /\ ServedInv)'
  BY JobsStep, ServedOn
<1>3. JobsInv /\ ServedInv => WorkServed
  BY RunsAttended, ModalsAttended DEF WorkServed
<1> QED BY <1>1, <1>2, <1>3, PTL DEF Spec
=============================================================================
