----------------------- MODULE TrackingRefreshProofs -----------------------
(***************************************************************************)
(* Proofs about TrackingRefresh, for any rows, sheets, lookups, documents, *)
(* slot limits and bounds.                                                 *)
(***************************************************************************)
EXTENDS TrackingRefresh, FiniteSetTheorems, TLAPS

USE DEF Active, Phases

(***************************************************************************)
(* Typing, with the shape of the plan that typing depends on               *)
(***************************************************************************)

Shape ==
    /\ {groups[i] : i \in 1 .. Len(groups)} = DOMAIN left
    /\ phase = "activating" => next < Len(groups)
    /\ request.kind = "none" <=> phase = "idle"

Typed == TypeOK /\ Shape

LEMMA NothingType ==
    \A S : DOMAIN Nothing = {} /\ Nothing \in [{} -> S]
BY DEF Nothing

LEMMA ResetTyped ==
    ASSUME ResetRun
    PROVE  /\ faults' \in 0 .. MaxFaults => RunOK'
           /\ Shape'
<1> USE NothingType
<1>1. {groups'[i] : i \in 1 .. Len(groups')} = {}
  BY DEF ResetRun
<1>2. Shape'
  BY <1>1 DEF ResetRun, Shape
<1>3. target' \in [DOMAIN target' -> Targets] /\ DOMAIN target' = {}
  BY DEF ResetRun
<1>4. left' \in [DOMAIN left' -> SUBSET RowIds] /\ DOMAIN left' = {}
  BY DEF ResetRun
<1>5. groups' \in Seq(Lookups) /\ Len(groups') = 0
  BY DEF ResetRun
<1>6. request'.kind = "none" /\ next' = 0 /\ since' = 0 /\ phase' = "idle"
  BY DEF ResetRun
<1>7. delivered' = {} /\ outcome' = "ok" /\ work' = {} /\ rereading' = NoRow
      /\ terminal' = {} /\ reported' = {} /\ success' = 0 /\ failed' = 0
      /\ storeError' = FALSE
  BY DEF ResetRun
<1>8. 0 \in 0 .. MaxGen /\ 0 \in 0 .. 0
  BY BoundAssumption
<1>9. DOMAIN target' \subseteq RowIds /\ DOMAIN left' \subseteq Lookups
  BY <1>3, <1>4
<1>10. next' \in 0 .. Len(groups') /\ since' \in 0 .. MaxGen
  BY <1>5, <1>6, <1>8
<1>11. ASSUME faults' \in 0 .. MaxFaults PROVE RunOK'
  BY ONLY <1>3, <1>4, <1>5, <1>6, <1>7, <1>9, <1>10, <1>11 DEF RunOK, Phases
<1> QED
  BY <1>2, <1>11

LEMMA ImageFinite ==
    \A S \in SUBSET DOMAIN rows : DOMAIN rows \subseteq RowIds =>
        IsFiniteSet({rows[r].lookup : r \in S})
<1> TAKE S \in SUBSET DOMAIN rows
<1> HAVE DOMAIN rows \subseteq RowIds
<1>1. IsFiniteSet(S)
  BY RowsFinite, FS_Subset
<1> DEFINE f == [r \in S |-> rows[r].lookup]
<1>2. f \in Surjection(S, {rows[r].lookup : r \in S})
  BY DEF Surjection
<1> QED
  BY <1>1, <1>2, FS_Surjection

LEMMA RunFrame == Typed /\ RunUnchanged => RunOK' /\ Shape'
BY DEF Typed, TypeOK, RunOK, Shape, RunUnchanged, plan, queue, tally, errors

LEMMA TableFrame == TableOK /\ UNCHANGED <<table, orphans>> => TableOK'
BY DEF TableOK, table

(* Editing commands leave a well-typed table.                              *)
LEMMA WithoutTyped ==
    ASSUME TableOK, NEW D
    PROVE  /\ DOMAIN Without(rows, D) = DOMAIN rows \ D
           /\ Without(rows, D) \in [DOMAIN rows \ D -> Row]
BY DEF TableOK, Without

LEMMA WithTyped ==
    ASSUME NEW f, NEW D \in SUBSET RowIds, DOMAIN f = D, f \in [D -> Row],
           NEW r \in RowIds, NEW row \in Row
    PROVE  /\ DOMAIN With(f, r, row) \subseteq RowIds
           /\ With(f, r, row) \in [DOMAIN With(f, r, row) -> Row]
BY DEF With

LEMMA NewRowTyped ==
    ASSUME TableOK, nextGen < MaxGen, NEW s \in Sheets, NEW l \in Lookups,
           NEW st \in Status, NEW rec \in Lookups \cup {NoRecord}
    PROVE  NewRow(s, l, st, rec) \in Row
<1>1. nextGen \in 0 .. MaxGen
  BY BoundAssumption DEF TableOK
<1> QED
  BY <1>1 DEF NewRow, Row

LEMMA EditRowTyped ==
    ASSUME Typed, NEW r \in RowIds, NEW s \in Sheets, NEW l \in Lookups,
           EditRow(r, s, l)
    PROVE  Typed'
<1>1. PICK D \in SUBSET (InSheet(s) \ {r}) :
         rows' = With(Without(rows, D), r, Edited(r, s, l))
  BY DEF EditRow
<1>2. Edited(r, s, l) \in Row
  BY NewRowTyped DEF Edited, EditRow, Typed, TypeOK, TableOK, Status
<1>3. DOMAIN rows' \subseteq RowIds /\ rows' \in [DOMAIN rows' -> Row]
  <2> DEFINE f == Without(rows, D)
  <2>1. DOMAIN f = DOMAIN rows \ D /\ f \in [DOMAIN f -> Row]
    BY WithoutTyped DEF Typed, TypeOK
  <2>2. DOMAIN f \in SUBSET RowIds
    BY <2>1 DEF Typed, TypeOK, TableOK
  <2>3. rows' = With(f, r, Edited(r, s, l))
    BY <1>1
  <2> HIDE DEF f
  <2> QED
    BY <1>2, <2>1, <2>2, <2>3, WithTyped
<1>4. TableOK'
  BY <1>3, BoundAssumption DEF TableOK, EditRow, Typed, TypeOK
<1> QED
  BY <1>4, RunFrame DEF EditRow, Typed, TypeOK

LEMMA ReplaceRowsTyped ==
    ASSUME Typed, NEW r \in RowIds, NEW s \in Sheets, NEW l \in Lookups,
           ReplaceRows(r, s, l)
    PROVE  Typed'
<1>2. NewRow(s, l, "empty", NoRecord) \in Row
  BY NewRowTyped DEF ReplaceRows, Typed, TypeOK, Status
<1>3. DOMAIN rows' \subseteq RowIds /\ rows' \in [DOMAIN rows' -> Row]
  <2> DEFINE f == Without(rows, InSheet(s))
  <2>1. DOMAIN f = DOMAIN rows \ InSheet(s) /\ f \in [DOMAIN f -> Row]
    BY WithoutTyped DEF Typed, TypeOK
  <2>2. DOMAIN f \in SUBSET RowIds
    BY <2>1 DEF Typed, TypeOK, TableOK
  <2>3. rows' = With(f, r, NewRow(s, l, "empty", NoRecord))
    BY DEF ReplaceRows
  <2> HIDE DEF f
  <2> QED
    BY <1>2, <2>1, <2>2, <2>3, WithTyped
<1>4. TableOK'
  BY <1>3, BoundAssumption DEF TableOK, ReplaceRows, Typed, TypeOK
<1> QED
  BY <1>4, RunFrame DEF ReplaceRows, Typed, TypeOK

LEMMA DeleteRowsTyped ==
    ASSUME Typed, NEW D, DeleteRows(D)
    PROVE  Typed'
<1>1. TableOK'
  BY WithoutTyped DEF TableOK, DeleteRows, Typed, TypeOK
<1> QED
  BY <1>1, RunFrame DEF DeleteRows, Typed, TypeOK

LEMMA TransferRowTyped ==
    ASSUME Typed, NEW r \in DOMAIN rows, NEW t \in RowIds, NEW s \in Sheets,
           NEW move \in BOOLEAN, TransferRow(r, t, s, move)
    PROVE  Typed'
<1> DEFINE row == [rows[r] EXCEPT !.sheet = s, !.gen = nextGen]
           copied == With(rows, t, row)
<1>1. row \in Row
  <2>1. nextGen \in 0 .. MaxGen /\ rows[r] \in Row
    BY BoundAssumption DEF Typed, TypeOK, TableOK
  <2> QED
    BY <2>1 DEF Row
<1>2. DOMAIN copied \subseteq RowIds /\ copied \in [DOMAIN copied -> Row]
  BY <1>1, WithTyped DEF Typed, TypeOK, TableOK
<1>3. rows' = copied \/ rows' = Without(copied, {r})
  BY DEF TransferRow
<1>4. DOMAIN rows' \subseteq RowIds /\ rows' \in [DOMAIN rows' -> Row]
  <2> HIDE DEF copied
  <2> QED BY <1>2, <1>3 DEF Without
<1>5. orphans' \subseteq RowIds /\ docGen' = docGen
      /\ nextGen' = nextGen + 1 /\ nextGen < MaxGen
  BY DEF TransferRow, Typed, TypeOK, TableOK
<1>6. TableOK'
  BY <1>4, <1>5, BoundAssumption DEF TableOK, Typed, TypeOK
<1> QED
  BY <1>6, RunFrame DEF TransferRow, Typed, TypeOK

LEMMA RestoreTyped ==
    ASSUME Typed, NEW d \in Documents, RestoreWorkspace(d)
    PROVE  Typed'
<1>1. \A r \in DOMAIN d : Restored(d[r]) \in Row
  <2> TAKE r \in DOMAIN d
  <2>1. d[r] \in SavedRow
    BY DocumentsAssumption
  <2> QED
    BY <2>1, NewRowTyped DEF Restored, SavedRow, RestoreWorkspace, Typed, TypeOK, Status
<1>2. DOMAIN rows' \subseteq RowIds /\ rows' \in [DOMAIN rows' -> Row]
  BY <1>1, DocumentsAssumption DEF RestoreWorkspace
<1>3. TableOK'
  BY <1>2, BoundAssumption DEF TableOK, RestoreWorkspace, Typed, TypeOK
<1> QED
  BY <1>3, RunFrame DEF RestoreWorkspace, Typed, TypeOK

LEMMA ActorTyped == Typed /\ ActorStep => Typed'
BY EditRowTyped, ReplaceRowsTyped, DeleteRowsTyped, TransferRowTyped, RestoreTyped
   DEF ActorStep

(* Steps of the refresh.                                                   *)
LEMMA SetStatusTyped ==
    ASSUME TableOK, NEW r \in DOMAIN rows, NEW st \in Status, SetStatus(r, st)
    PROVE  DOMAIN rows' = DOMAIN rows /\ rows' \in [DOMAIN rows -> Row]
BY DEF TableOK, SetStatus, Row

LEMMA CardinalityType ==
    \A S : IsFiniteSet(S) => Cardinality(S) \in Nat
BY FS_CardinalityType

LEMMA SelectedIn == Selected \subseteq DOMAIN rows
BY DEF Selected, InSheet

(* What a setup that is not refused or rolled back establishes.            *)
SetupDone ==
    /\ SetupAdmitted /\ (request.kind = "single" => Selected # {})
    /\ phase = "listed" /\ phase' = "fetching" /\ work' = {} /\ since' = nextGen
    /\ orphans' = orphans \ Selected
    /\ UNCHANGED <<docGen, nextGen, request, delivered, outcome, tally, errors, rereading>>
    /\ DOMAIN target' = Selected
    /\ \A r \in Selected : target'[r].lookup = rows[r].lookup /\ target'[r].gen = rows[r].gen
    /\ DOMAIN left' = {rows[r].lookup : r \in Selected}
    /\ \A l \in DOMAIN left' : left'[l] = {r \in Selected : rows[r].lookup = l}
    /\ DOMAIN rows' = DOMAIN rows
    /\ \A r \in DOMAIN rows :
          /\ r \notin Selected => rows'[r] = rows[r]
          /\ rows'[r].lookup = rows[r].lookup /\ rows'[r].gen = rows[r].gen
          /\ rows'[r].record = rows[r].record

LEMMA SetupEffect ==
    ASSUME Typed, Setup
    PROVE  (ResetRun /\ UNCHANGED <<table, faults, orphans>>) \/ SetupDone
<1> SUFFICES ASSUME ~(ResetRun /\ UNCHANGED <<table, faults, orphans>>) PROVE SetupDone
  OBVIOUS
<1> DEFINE found == {rows[r].lookup : r \in Selected}
           first == IF Cardinality(found) < EngineSlots
                      THEN Cardinality(found) ELSE EngineSlots
<1>1. /\ target' = [r \in Selected |-> [lookup |-> rows[r].lookup, gen |-> rows[r].gen]]
      /\ SetupAdmitted /\ (request.kind = "single" => Selected # {})
      /\ phase = "listed" /\ phase' = "fetching" /\ work' = {} /\ since' = nextGen
      /\ orphans' = orphans \ Selected
      /\ UNCHANGED <<docGen, nextGen, request, delivered, outcome, tally, errors,
                     rereading>>
  BY DEF Setup
<1>2. PICK order \in [1 .. Cardinality(found) -> found] :
        /\ left' = [l \in found |-> {r \in Selected : rows[r].lookup = l}]
        /\ rows' = [r \in DOMAIN rows |->
             IF r \notin Selected THEN rows[r]
             ELSE [rows[r] EXCEPT !.status =
                    IF rows[r].lookup \in {order[i] : i \in 1 .. first}
                      THEN "loading" ELSE "pending"]]
  BY DEF Setup
<1> DEFINE started == {order[i] : i \in 1 .. first}
<1>3. rows' = [r \in DOMAIN rows |->
             IF r \notin Selected THEN rows[r]
             ELSE [rows[r] EXCEPT !.status =
                    IF rows[r].lookup \in started THEN "loading" ELSE "pending"]]
  BY <1>2
<1> HIDE DEF started, first
<1>4. /\ DOMAIN rows' = DOMAIN rows
      /\ \A r \in DOMAIN rows :
          /\ r \notin Selected => rows'[r] = rows[r]
          /\ rows'[r].lookup = rows[r].lookup /\ rows'[r].gen = rows[r].gen
          /\ rows'[r].record = rows[r].record
  BY <1>3 DEF Typed, TypeOK, TableOK, Row
<1>5. DOMAIN target' = Selected
      /\ \A r \in Selected : target'[r].lookup = rows[r].lookup /\ target'[r].gen = rows[r].gen
  BY <1>1
<1> QED
  BY <1>1, <1>2, <1>4, <1>5 DEF SetupDone

LEMMA SetupTyped == Typed /\ Setup => Typed'
<1> SUFFICES ASSUME Typed, Setup PROVE Typed'
  OBVIOUS
<1>1. CASE ResetRun /\ UNCHANGED <<table, faults, orphans>>
  BY <1>1, ResetTyped, TableFrame DEF Typed, TypeOK, RunOK
<1>2. CASE ~(ResetRun /\ UNCHANGED <<table, faults, orphans>>)
  <2> DEFINE found == {rows[r].lookup : r \in Selected}
             first == IF Cardinality(found) < EngineSlots
                        THEN Cardinality(found) ELSE EngineSlots
  <2>1. /\ target' = [r \in Selected |-> [lookup |-> rows[r].lookup, gen |-> rows[r].gen]]
        /\ phase' = "fetching" /\ work' = {} /\ since' = nextGen
        /\ orphans' = orphans \ Selected
        /\ UNCHANGED <<docGen, nextGen, request, delivered, outcome, tally, errors,
                       rereading>>
    BY <1>2 DEF Setup
  <2>2. PICK order \in [1 .. Cardinality(found) -> found] :
          /\ {order[i] : i \in DOMAIN order} = found
          /\ groups' = order
          /\ next' = first
          /\ left' = [l \in found |-> {r \in Selected : rows[r].lookup = l}]
          /\ rows' = [r \in DOMAIN rows |->
               IF r \notin Selected THEN rows[r]
               ELSE [rows[r] EXCEPT !.status =
                      IF rows[r].lookup \in {order[i] : i \in 1 .. first}
                        THEN "loading" ELSE "pending"]]
    BY <1>2 DEF Setup
  <2>3. found \subseteq Lookups /\ IsFiniteSet(found) /\ Cardinality(found) \in Nat
    BY SelectedIn, ImageFinite, CardinalityType DEF Typed, TypeOK, TableOK, Row
  <2> HIDE DEF found
  <2>4. groups' \in Seq(Lookups) /\ Len(groups') = Cardinality(found)
    BY <2>2, <2>3
  <2>5. first \in 0 .. Cardinality(found)
    BY <2>3, SlotsAssumption
  <2>6. DOMAIN left' = found /\ left' \in [found -> SUBSET RowIds]
    BY <2>2, SelectedIn DEF Typed, TypeOK, TableOK
  <2>7. {groups'[i] : i \in 1 .. Len(groups')} = found
    BY <2>2, <2>3, <2>4
  <2>8. DOMAIN target' = Selected /\ target' \in [Selected -> Targets]
    BY <2>1, SelectedIn DEF Typed, TypeOK, TableOK, Row, Targets
  <2>9. DOMAIN rows' = DOMAIN rows /\ rows' \in [DOMAIN rows -> Row]
    <3> DEFINE started == {order[i] : i \in 1 .. first}
    <3>1. rows' = [r \in DOMAIN rows |->
               IF r \notin Selected THEN rows[r]
               ELSE [rows[r] EXCEPT !.status =
                      IF rows[r].lookup \in started THEN "loading" ELSE "pending"]]
      BY <2>2
    <3> HIDE DEF started
    <3> QED
      BY <3>1 DEF Typed, TypeOK, TableOK, Row, Status
  <2> HIDE DEF first
  <2>10. TableOK'
    BY <2>1, <2>9 DEF Typed, TypeOK, TableOK
  <2>11. RunOK'
    <3>1. DOMAIN target' \subseteq RowIds /\ target' \in [DOMAIN target' -> Targets]
      BY <2>8, SelectedIn DEF Typed, TypeOK, TableOK
    <3>2. next' \in 0 .. Len(groups') /\ groups' \in Seq(Lookups)
      BY <2>2, <2>4, <2>5
    <3>3. DOMAIN left' \subseteq Lookups /\ left' \in [DOMAIN left' -> SUBSET RowIds]
      BY <2>3, <2>6
    <3>4. since' \in 0 .. MaxGen
      BY <2>1, BoundAssumption DEF Typed, TypeOK, TableOK
    <3> QED
      BY <2>1, <3>1, <3>2, <3>3, <3>4 DEF Typed, TypeOK, RunOK, tally, errors
  <2>12. Shape'
    BY <2>1, <2>6, <2>7 DEF Shape, Setup, Typed
  <2> QED
    BY <2>10, <2>11, <2>12 DEF Typed, TypeOK
<1> QED
  BY <1>1, <1>2

LEMMA AdmissionTyped ==
    ASSUME Typed
    PROVE  /\ BindRequest => Typed'
           /\ SetupFault => Typed'
           /\ \A req \in BatchRequests \cup SingleRequests : RequestRows(req) => Typed'
<1>1. ASSUME BindRequest PROVE Typed'
  <2>1. CASE request.doc # docGen
    BY <1>1, <2>1, ResetTyped, TableFrame DEF BindRequest, Typed, TypeOK, RunOK
  <2>2. CASE request.doc = docGen
    <3>1. phase' = "listed" /\ work' \in {InSheet(request.sheet), request.rows}
          /\ UNCHANGED <<table, plan, queue, tally, errors, rereading, orphans>>
      BY <1>1, <2>2 DEF BindRequest
    <3>2. work' \subseteq RowIds
      BY <1>1, <3>1 DEF InSheet, Typed, TypeOK, RunOK, TableOK, Shape, BindRequest
    <3> QED
      BY <1>1, <3>1, <3>2, TableFrame
         DEF Typed, TypeOK, RunOK, Shape, BindRequest, plan, queue, tally, errors
  <2> QED
    BY <2>1, <2>2
<1>2. ASSUME SetupFault PROVE Typed'
  <2>1. faults' \in 0 .. MaxFaults
    BY <1>2, BoundAssumption DEF SetupFault, Typed, TypeOK, RunOK
  <2> QED
    BY <1>2, <2>1, ResetTyped, TableFrame DEF SetupFault, Typed, TypeOK
<1>3. ASSUME NEW req \in BatchRequests \cup SingleRequests, RequestRows(req) PROVE Typed'
  <2>1. req.kind \in {"batch", "single"} /\ req.rows \subseteq RowIds
    BY DEF BatchRequests, SingleRequests
  <2> QED
    BY <1>3, <2>1, TableFrame
       DEF RequestRows, Typed, TypeOK, RunOK, Shape, queue, tally, errors
<1> QED
  BY <1>1, <1>2, <1>3

LEMMA PlanFrame ==
    ASSUME Typed, UNCHANGED <<plan, left, next, phase>>
    PROVE  Shape'
BY DEF Typed, Shape, plan

LEMMA InFlightIn == Typed => InFlight \subseteq DOMAIN left
<1> SUFFICES ASSUME Typed PROVE InFlight \subseteq DOMAIN left
  OBVIOUS
<1>1. Len(groups) \in Nat
  BY DEF Typed, TypeOK, RunOK
<1>2. \A n : (IF n < Len(groups) THEN n ELSE Len(groups)) \in Int =>
         Prefix(n) \subseteq {groups[i] : i \in 1 .. Len(groups)}
  BY <1>1 DEF Prefix
<1>3. Cardinality(delivered) \in Nat
  BY RowsFinite, FS_Subset, FS_CardinalityType DEF Typed, TypeOK, RunOK
<1>4. Cardinality(delivered) + HostSlots \in Int
  BY <1>3, SlotsAssumption
<1> QED
  BY <1>1, <1>2, <1>4 DEF InFlight, Typed, Shape

LEMMA FailingStarts ==
    ASSUME Typed, StartFailing,
           UNCHANGED <<plan, queue, tally>>, storeError' \in BOOLEAN,
           faults' \in 0 .. MaxFaults, phase # "idle"
    PROVE  RunOK' /\ Shape'
<1>1. work' \subseteq RowIds
  BY DEF StartFailing, LeftRows, Typed, TypeOK, RunOK
<1> QED
  BY <1>1 DEF Typed, TypeOK, RunOK, Shape, StartFailing, plan, queue, tally

LEMMA ResultTyped ==
    ASSUME Typed
    PROVE  /\ \A l \in Lookups, o \in {"ok", "failed"} : Deliver(l, o) => Typed'
           /\ \A r \in RowIds : StoreRow(r) => Typed'
           /\ Reread => Typed'
           /\ StoreFault => Typed'
           /\ StoringDone => Typed'
<1>1. ASSUME NEW l \in Lookups, NEW o \in {"ok", "failed"}, Deliver(l, o) PROVE Typed'
  <2>1. l \in DOMAIN left
    BY <1>1, InFlightIn DEF Deliver
  <2>2. DOMAIN left' = DOMAIN left /\ left' \in [DOMAIN left -> SUBSET RowIds]
        /\ work' \subseteq RowIds
    BY <1>1, <2>1 DEF Deliver, Typed, TypeOK, RunOK
  <2>3. RunOK'
    BY <1>1, <2>2 DEF Deliver, Typed, TypeOK, RunOK, plan, tally, errors
  <2>4. Shape'
    BY <1>1, <2>2 DEF Deliver, Typed, Shape, plan
  <2> QED
    BY <1>1, <2>3, <2>4, TableFrame DEF Deliver, Typed, TypeOK
<1>2. ASSUME NEW r \in RowIds, StoreRow(r) PROVE Typed'
  <2>1. RunOK' /\ Shape'
    BY <1>2 DEF StoreRow, Typed, TypeOK, RunOK, Shape, plan, queue, tally, errors
  <2>2. DOMAIN rows' \subseteq RowIds /\ rows' \in [DOMAIN rows' -> Row]
    <3>1. CASE Matches(r)
      <4>1. r \in DOMAIN rows /\ target[r].lookup \in Lookups /\ rows[r] \in Row
        BY <3>1 DEF Matches, Typed, TypeOK, TableOK, Row
      <4>2. [rows[r] EXCEPT !.status = "failed"] \in Row
            /\ [rows[r] EXCEPT !.status = "loaded", !.record = target[r].lookup] \in Row
        BY <4>1 DEF Row, Status
      <4>3. \/ rows' = [rows EXCEPT ![r] = [rows[r] EXCEPT !.status = "loaded",
                                                          !.record = target[r].lookup]]
            \/ rows' = [rows EXCEPT ![r] = [rows[r] EXCEPT !.status = "failed"]]
        BY <1>2, <3>1, <4>1 DEF StoreRow, Typed, TypeOK, TableOK
      <4> QED
        BY <4>1, <4>2, <4>3 DEF Typed, TypeOK, TableOK
    <3>2. CASE ~Matches(r)
      BY <1>2, <3>2 DEF StoreRow, Typed, TypeOK, TableOK
    <3> QED
      BY <3>1, <3>2
  <2> QED
    BY <1>2, <2>1, <2>2 DEF StoreRow, Typed, TypeOK, TableOK
<1>3. ASSUME Reread PROVE Typed'
  <2>1. RunOK'
    BY <1>3 DEF Reread, CountRow, Typed, TypeOK, RunOK, plan, queue, tally, errors
  <2> QED
    BY <1>3, <2>1, PlanFrame, TableFrame DEF Reread, queue, Typed, TypeOK
<1>4. ASSUME StoreFault PROVE Typed'
  <2>1. faults' \in 0 .. MaxFaults
    BY <1>4, BoundAssumption DEF StoreFault, Typed, TypeOK, RunOK
  <2>2. TableOK'
    BY <1>4 DEF StoreFault, Typed, TypeOK, TableOK, RunOK, table
  <2>3. RunOK' /\ Shape'
    BY <1>4, <2>1, ResetTyped, FailingStarts DEF StoreFault
  <2> QED
    BY <2>2, <2>3 DEF Typed, TypeOK
<1>5. ASSUME StoringDone PROVE Typed'
  <2>1. CASE request.kind = "single"
    BY <1>5, <2>1, ResetTyped, TableFrame DEF StoringDone, Typed, TypeOK, RunOK
  <2>2. CASE request.kind # "single"
    <3>1. work' \subseteq RowIds
      BY <1>5, <2>2 DEF StoringDone, Typed, TypeOK, RunOK, Shape
    <3> QED
      BY <1>5, <2>2, <3>1, TableFrame
         DEF StoringDone, Typed, TypeOK, RunOK, Shape, plan, queue
  <2> QED
    BY <2>1, <2>2
<1> QED
  BY <1>1, <1>2, <1>3, <1>4, <1>5

LEMMA ActivationTyped ==
    ASSUME Typed
    PROVE  /\ \A r \in RowIds : ActivateRow(r) => Typed'
           /\ ActivateFault => Typed'
           /\ ActivationDone => Typed'
           /\ FetchEnds => Typed'
           /\ WorkerFails => Typed'
<1>1. ASSUME NEW r \in RowIds, ActivateRow(r) PROVE Typed'
  <2>1. DOMAIN rows' = DOMAIN rows /\ rows' \in [DOMAIN rows -> Row]
    BY <1>1, SetStatusTyped DEF ActivateRow, Matches, Typed, TypeOK, TableOK, Status
  <2> QED
    BY <1>1, <2>1, PlanFrame
       DEF ActivateRow, Typed, TypeOK, TableOK, RunOK, plan, queue, tally, errors
<1>2. ASSUME ActivateFault PROVE Typed'
  <2>1. faults' \in 0 .. MaxFaults
    BY <1>2, BoundAssumption DEF ActivateFault, Typed, TypeOK, RunOK
  <2> QED
    BY <1>2, <2>1, FailingStarts, TableFrame DEF ActivateFault, Typed, TypeOK
<1>3. ASSUME ActivationDone PROVE Typed'
  BY <1>3, TableFrame
     DEF ActivationDone, Typed, TypeOK, RunOK, Shape, plan, tally, errors
<1>4. ASSUME FetchEnds PROVE Typed'
  BY <1>4, FailingStarts, TableFrame DEF FetchEnds, Typed, TypeOK, RunOK, errors
<1>5. ASSUME WorkerFails PROVE Typed'
  BY <1>5, FailingStarts, TableFrame DEF WorkerFails, Typed, TypeOK, RunOK, errors
<1> QED
  BY <1>1, <1>2, <1>3, <1>4, <1>5

LEMMA CleanupTyped ==
    ASSUME Typed
    PROVE  /\ \A r \in RowIds : (FailRow(r) \/ FailFault(r)) => Typed'
           /\ RereadFault => Typed'
           /\ FailingDone => Typed'
           /\ SweepDone => Typed'
           /\ CrashAndRecover => Typed'
<1>1. ASSUME NEW r \in RowIds, FailRow(r) PROVE Typed'
  <2>1. DOMAIN rows' = DOMAIN rows /\ rows' \in [DOMAIN rows -> Row]
    BY <1>1, SetStatusTyped DEF FailRow, Matches, Typed, TypeOK, TableOK, Status
  <2> QED
    BY <1>1, <2>1, PlanFrame
       DEF FailRow, Typed, TypeOK, TableOK, RunOK, plan, queue, tally, errors
<1>2. ASSUME NEW r \in RowIds, FailFault(r) PROVE Typed'
  <2>1. faults' \in 0 .. MaxFaults /\ storeError' \in BOOLEAN
    BY <1>2, BoundAssumption DEF FailFault, Typed, TypeOK, RunOK
  <2>2. TableOK'
    BY <1>2 DEF FailFault, Typed, TypeOK, TableOK, table
  <2>3. terminal' \subseteq RowIds /\ reported' \subseteq RowIds
        /\ success' \in Nat /\ failed' \in Nat
    BY <1>2 DEF FailFault, CountRow, tally, Typed, TypeOK, RunOK
  <2> QED
    BY <1>2, <2>1, <2>2, <2>3, PlanFrame DEF FailFault, Typed, TypeOK, RunOK, plan, queue
<1>3. ASSUME RereadFault PROVE Typed'
  <2>1. faults' \in 0 .. MaxFaults /\ storeError' \in BOOLEAN
    BY <1>3, BoundAssumption DEF RereadFault, Typed, TypeOK, RunOK
  <2>2. terminal' \subseteq RowIds /\ reported' \subseteq RowIds
        /\ success' \in Nat /\ failed' \in Nat
    BY <1>3 DEF RereadFault, CountRow, Typed, TypeOK, RunOK
  <2> QED
    BY <1>3, <2>1, <2>2, PlanFrame, TableFrame
       DEF RereadFault, Typed, TypeOK, RunOK, plan, queue
<1>4. ASSUME FailingDone PROVE Typed'
  BY <1>4, TableFrame
     DEF FailingDone, Typed, TypeOK, RunOK, Shape, plan, queue, tally, errors
<1>5. ASSUME SweepDone PROVE Typed'
  BY <1>5, ResetTyped, TableFrame DEF SweepDone, Typed, TypeOK, RunOK
<1>6. ASSUME CrashAndRecover PROVE Typed'
  <2>1. \A r \in DOMAIN rows : [rows[r] EXCEPT !.status = Recovered(rows[r].status)] \in Row
    BY DEF Typed, TypeOK, TableOK, Row, Recovered, Status
  <2>2. TableOK'
    BY <1>6, <2>1 DEF CrashAndRecover, Typed, TypeOK, TableOK
  <2> QED
    BY <1>6, <2>2, ResetTyped DEF CrashAndRecover, Typed, TypeOK, RunOK
<1> QED
  BY <1>1, <1>2, <1>3, <1>4, <1>5, <1>6

LEMMA InitTyped == Init => Typed
<1> SUFFICES ASSUME Init PROVE Typed
  OBVIOUS
<1>1. TableOK
  BY BootAssumption, BoundAssumption DEF Init, TableOK
<1>2. target \in [DOMAIN target -> Targets] /\ DOMAIN target = {}
      /\ left \in [DOMAIN left -> SUBSET RowIds] /\ DOMAIN left = {}
  BY NothingType DEF Init
<1>3. groups \in Seq(Lookups) /\ Len(groups) = 0
  BY DEF Init
<1>4. RunOK
  <2>1. phase = "idle" /\ request.kind = "none" /\ next = 0
        /\ delivered = {} /\ outcome = "ok" /\ work = {} /\ rereading = NoRow
        /\ terminal = {} /\ reported = {} /\ success = 0 /\ failed = 0
        /\ storeError = FALSE /\ faults = 0 /\ since = 0
    BY DEF Init
  <2>2. 0 \in 0 .. MaxGen /\ 0 \in 0 .. MaxFaults /\ 0 \in 0 .. 0
    BY BoundAssumption
  <2> QED
    BY ONLY <1>2, <1>3, <2>1, <2>2 DEF RunOK, Phases
<1>5. Shape
  BY <1>2, <1>3 DEF Init, Shape
<1> QED
  BY <1>1, <1>4, <1>5 DEF Typed, TypeOK

LEMMA StutterTyped == Typed /\ UNCHANGED vars => Typed'
BY DEF Typed, TypeOK, TableOK, RunOK, Shape, vars, table, plan, queue, tally, errors,
       Matches

LEMMA NextTyped == Typed /\ [Next]_vars => Typed'
BY ActorTyped, SetupTyped, AdmissionTyped, ResultTyped, ActivationTyped, CleanupTyped,
   StutterTyped
   DEF Next, RunStep, Fault

(* Every reachable state is well typed: row generations stay distinct from *)
(* the bound, the plan's groups are the lookups of its rows, and the next  *)
(* group to activate exists whenever activation begins.                    *)
THEOREM Typing == Spec => []TypeOK
<1>1. Spec => []Typed
  BY InitTyped, NextTyped, PTL DEF Spec
<1>2. Typed => TypeOK
  BY DEF Typed
<1> QED
  BY <1>1, <1>2, PTL

(***************************************************************************)
(* The record of a row                                                     *)
(***************************************************************************)

(* What any step of the refresh does to a row, whichever step it is.       *)
LEMMA RecordStep ==
    ASSUME Typed, RecordMatchesLookup, Next
    PROVE  RecordMatchesLookup'
<1> USE DEF Typed, TypeOK, TableOK, RecordMatchesLookup
<1>1. ASSUME NEW r \in RowIds, NEW s \in Sheets, NEW l \in Lookups, EditRow(r, s, l)
      PROVE  RecordMatchesLookup'
  BY <1>1 DEF EditRow, Edited, NewRow, With, Without
<1>2. ASSUME NEW r \in RowIds, NEW s \in Sheets, NEW l \in Lookups, ReplaceRows(r, s, l)
      PROVE  RecordMatchesLookup'
  BY <1>2 DEF ReplaceRows, NewRow, With, Without
<1>3. ASSUME NEW D, DeleteRows(D) PROVE RecordMatchesLookup'
  BY <1>3 DEF DeleteRows, Without
<1>4. ASSUME NEW r \in DOMAIN rows, NEW t \in RowIds, NEW s \in Sheets,
             NEW move \in BOOLEAN, TransferRow(r, t, s, move)
      PROVE  RecordMatchesLookup'
  <2> DEFINE row == [rows[r] EXCEPT !.sheet = s, !.gen = nextGen]
             copied == With(rows, t, row)
  <2>1. row.lookup = rows[r].lookup /\ row.record = rows[r].record
    BY DEF Row
  <2>2. \A x \in DOMAIN copied : copied[x].record \in {NoRecord, copied[x].lookup}
    <3> HIDE DEF row
    <3> QED BY <2>1 DEF With
  <2>3. rows' = copied \/ rows' = Without(copied, {r})
    BY <1>4 DEF TransferRow
  <2> HIDE DEF copied
  <2> QED
    BY <2>2, <2>3 DEF Without
<1>5. ASSUME NEW d \in Documents, RestoreWorkspace(d) PROVE RecordMatchesLookup'
  BY <1>5 DEF RestoreWorkspace, Restored, NewRow
<1>6. ASSUME NEW r \in RowIds, StoreRow(r) PROVE RecordMatchesLookup'
  <2>1. CASE Matches(r)
    <3>1. r \in DOMAIN rows /\ target[r].lookup = rows[r].lookup
      BY <2>1 DEF Matches
    <3>2. \/ rows' = [rows EXCEPT ![r] = [rows[r] EXCEPT !.status = "loaded",
                                                        !.record = target[r].lookup]]
          \/ rows' = [rows EXCEPT ![r] = [rows[r] EXCEPT !.status = "failed"]]
      BY <1>6, <2>1, <3>1 DEF StoreRow
    <3> QED
      BY <3>1, <3>2 DEF Row
  <2>2. CASE ~Matches(r)
    BY <1>6, <2>2 DEF StoreRow
  <2> QED
    BY <2>1, <2>2
<1>7. ASSUME NEW r \in RowIds, NEW st \in Status, r \in DOMAIN rows, SetStatus(r, st)
      PROVE  RecordMatchesLookup'
  BY <1>7 DEF SetStatus, Row
<1>8. ASSUME UNCHANGED rows PROVE RecordMatchesLookup'
  BY <1>8
<1>9. ASSUME Setup PROVE RecordMatchesLookup'
  <2>1. UNCHANGED rows \/ SetupDone
    BY <1>9, SetupEffect DEF table
  <2> QED
    BY <1>8, <2>1 DEF SetupDone
<1>10. ASSUME CrashAndRecover PROVE RecordMatchesLookup'
  BY <1>10 DEF CrashAndRecover, Row
<1>11. ASSUME NEW r \in RowIds, ActivateRow(r) \/ FailRow(r) PROVE RecordMatchesLookup'
  BY <1>7, <1>8, <1>11 DEF ActivateRow, FailRow, Matches, Status
<1>12. ASSUME ActorStep PROVE RecordMatchesLookup'
  BY <1>1, <1>2, <1>3, <1>4, <1>5, <1>12 DEF ActorStep
<1>13. ASSUME RunStep PROVE RecordMatchesLookup'
  BY <1>6, <1>8, <1>9, <1>11, <1>13
     DEF RunStep, BindRequest, Deliver, Reread, StoringDone, ActivationDone, FetchEnds,
         FailingDone, SweepDone, table
<1>14. ASSUME Fault PROVE RecordMatchesLookup'
  BY <1>8, <1>14
     DEF Fault, SetupFault, StoreFault, ActivateFault, WorkerFails, RereadFault,
         FailFault, table
<1>15. ASSUME NEW req, RequestRows(req) PROVE RecordMatchesLookup'
  BY <1>8, <1>15 DEF RequestRows, table
<1> QED
  BY <1>10, <1>12, <1>13, <1>14, <1>15 DEF Next

(* The record a row displays always belongs to the row's current lookup    *)
(* id: edits that change the lookup drop it, and late results of an        *)
(* earlier lookup never attach theirs.                                     *)
THEOREM Records == Spec => []RecordMatchesLookup
<1>1. Init => RecordMatchesLookup
  BY BootAssumption DEF Init, RecordMatchesLookup
<1>2. Typed /\ RecordMatchesLookup /\ [Next]_vars => RecordMatchesLookup'
  BY RecordStep DEF vars, table, RecordMatchesLookup
<1>3. Spec => []Typed
  BY InitTyped, NextTyped, PTL DEF Spec
<1> QED
  BY <1>1, <1>2, <1>3, PTL DEF Spec

(***************************************************************************)
(* The loops of a refresh and its counters                                 *)
(***************************************************************************)

Unset == {"idle", "queued", "listed"}

(* Every loop works on rows captured at setup that are not counted yet,    *)
(* the groups still in the plan are disjoint from what was counted or is   *)
(* being stored, and the row about to be read back is in neither.          *)
Loops ==
    /\ phase \in Unset => terminal = {} /\ delivered = {}
    /\ phase \notin Unset => work \subseteq DOMAIN target
    /\ \A l \in DOMAIN left : \A r \in left[l] : r \in DOMAIN target /\ target[r].lookup = l
    /\ rereading # NoRow =>
          /\ phase \in {"storing", "failing", "sweeping"}
          /\ rereading \in DOMAIN target
          /\ rereading \notin terminal /\ rereading \notin work
    /\ phase \notin Unset => \A r \in work : r \notin terminal
    /\ phase \in {"fetching", "storing", "activating"} =>
          \A l \in DOMAIN left : \A r \in left[l] : r \notin terminal
    /\ phase = "storing" =>
          \A l \in DOMAIN left : \A r \in left[l] : r \notin work /\ r # rereading
    /\ phase = "fetching" => work = {}

LEMMA CountOne ==
    ASSUME Typed, CountsAgree, NEW r \in DOMAIN target, r \notin terminal, CountRow(r),
           UNCHANGED target
    PROVE  CountsAgree'
<1>1. IsFiniteSet(terminal)
  BY RowsFinite, FS_Subset DEF Typed, TypeOK, RunOK
<1>2. terminal' = terminal \cup {r} /\ Cardinality(terminal') = Cardinality(terminal) + 1
      /\ Cardinality(terminal) \in Nat
  BY <1>1, FS_AddElement, FS_CardinalityType DEF CountRow
<1>3. success' + failed' = success + failed + 1
  BY DEF CountRow, Typed, TypeOK, RunOK
<1>4. reported' \subseteq terminal'
  BY DEF CountRow, CountsAgree
<1> QED
  BY <1>2, <1>3, <1>4 DEF CountsAgree, Typed, TypeOK, RunOK

LEMMA ResetLoops == ASSUME ResetRun PROVE Loops' /\ CountsAgree'
<1>1. DOMAIN left' = {} /\ DOMAIN target' = {}
  BY NothingType DEF ResetRun
<1>2. terminal' = {} /\ reported' = {} /\ success' = 0 /\ failed' = 0
      /\ work' = {} /\ rereading' = NoRow /\ phase' = "idle" /\ delivered' = {}
  BY DEF ResetRun
<1>3. Loops'
  BY <1>1, <1>2 DEF Loops, Unset
<1>4. CountsAgree'
  BY <1>1, <1>2, FS_EmptySet DEF CountsAgree
<1> QED
  BY <1>3, <1>4

LEMMA RunFrameLoops ==
    ASSUME Loops, CountsAgree, RunUnchanged PROVE Loops' /\ CountsAgree'
BY DEF Loops, CountsAgree, RunUnchanged, plan, queue, tally

LEMMA FailingLoops ==
    ASSUME Typed, Loops, CountsAgree, StartFailing, UNCHANGED <<plan, queue, tally>>
    PROVE  Loops' /\ CountsAgree'
<1>1. \A r \in work' : r \in DOMAIN target /\ r \notin terminal
  BY DEF StartFailing, LeftRows, Loops
<1> QED
  BY <1>1 DEF Loops, CountsAgree, StartFailing, plan, queue, tally, Unset

LEMMA NoRowNotLeft == Typed => \A l \in DOMAIN left : NoRow \notin left[l]
BY NoRowAssumption DEF Typed, TypeOK, RunOK

LEMMA LoopsStep ==
    ASSUME Typed, Loops, CountsAgree, Next
    PROVE  Loops' /\ CountsAgree'
<1> USE DEF Unset
<1>1. ASSUME ActorStep PROVE Loops' /\ CountsAgree'
  BY <1>1, RunFrameLoops
     DEF ActorStep, EditRow, ReplaceRows, DeleteRows, TransferRow, RestoreWorkspace
<1>2. ASSUME NEW req, RequestRows(req) PROVE Loops' /\ CountsAgree'
  BY <1>2 DEF RequestRows, Loops, CountsAgree, queue, tally
<1>3. ASSUME BindRequest PROVE Loops' /\ CountsAgree'
  <2>1. CASE request.doc # docGen
    BY <1>3, <2>1, ResetLoops DEF BindRequest
  <2>2. CASE request.doc = docGen
    BY <1>3, <2>2 DEF BindRequest, Loops, CountsAgree, plan, queue, tally
  <2> QED
    BY <2>1, <2>2
<1>4. ASSUME Setup PROVE Loops' /\ CountsAgree'
  <2>1. CASE SetupDone
    <3>1. terminal' = {} /\ reported' = {} /\ success' + failed' = 0 /\ delivered' = {}
          /\ rereading' = NoRow
      BY <2>1, FS_EmptySet DEF SetupDone, Loops, CountsAgree, tally
    <3>2. Cardinality(terminal') = 0
      BY <3>1, FS_EmptySet
    <3> QED
      BY <2>1, <3>1, <3>2 DEF SetupDone, Loops, CountsAgree
  <2> QED
    BY <1>4, <2>1, SetupEffect, ResetLoops
<1>5. ASSUME SetupFault \/ SweepDone \/ CrashAndRecover PROVE Loops' /\ CountsAgree'
  BY <1>5, ResetLoops DEF SetupFault, SweepDone, CrashAndRecover
<1>6. ASSUME NEW l \in Lookups, NEW o \in {"ok", "failed"}, Deliver(l, o)
      PROVE  Loops' /\ CountsAgree'
  <2>1. l \in DOMAIN left
    BY <1>6, InFlightIn DEF Deliver
  <2>2. /\ work' = left[l] /\ DOMAIN left' = DOMAIN left /\ left'[l] = {}
        /\ \A k \in DOMAIN left : k # l => left'[k] = left[k]
        /\ phase = "fetching" /\ phase' = "storing"
        /\ UNCHANGED <<target, terminal, rereading, reported, success, failed>>
    BY <1>6, <2>1 DEF Deliver, Typed, TypeOK, RunOK, plan, tally
  <2>3. rereading = NoRow
    BY <2>2 DEF Loops
  <2>4. \A k \in DOMAIN left' : \A x \in left'[k] :
          /\ x \in DOMAIN target /\ target[x].lookup = k /\ x \notin terminal
          /\ k # l /\ x # NoRow
    BY <2>2, NoRowNotLeft DEF Loops
  <2>5. \A x \in work' : x \in DOMAIN target /\ target[x].lookup = l /\ x \notin terminal
    BY <2>1, <2>2 DEF Loops
  <2>6. CountsAgree'
    BY <2>2 DEF CountsAgree
  <2> QED
    BY <2>2, <2>3, <2>4, <2>5, <2>6 DEF Loops
<1>7. ASSUME NEW r \in RowIds, StoreRow(r) \/ FailRow(r) PROVE Loops' /\ CountsAgree'
  <2>1. /\ r \in work /\ work' = work \ {r} /\ rereading = NoRow /\ rereading' \in {r, NoRow}
        /\ phase \in {"storing", "failing", "sweeping"}
        /\ UNCHANGED <<target, left, terminal, reported, success, failed, phase, delivered>>
    BY <1>7 DEF StoreRow, FailRow, InCleanup, plan, queue, tally
  <2>2. CountsAgree'
    BY <2>1 DEF CountsAgree
  <2>3. /\ r \in DOMAIN target /\ r \notin terminal
        /\ phase = "storing" => \A l \in DOMAIN left : r \notin left[l]
    BY <2>1 DEF Loops
  <2>4. phase = "storing" => \A l \in DOMAIN left' : \A x \in left'[l] :
                                x \notin work' /\ x # rereading'
    <3> SUFFICES ASSUME phase = "storing", NEW l \in DOMAIN left, NEW x \in left[l]
                 PROVE  x \notin work' /\ x # rereading'
      BY <2>1
    <3>1. x \notin work /\ x # r /\ x # NoRow
      BY <2>3, NoRowNotLeft DEF Loops
    <3> QED
      BY <2>1, <3>1
  <2>5. rereading' # NoRow => /\ rereading' \in DOMAIN target'
                              /\ rereading' \notin terminal' /\ rereading' \notin work'
    BY <2>1, <2>3
  <2> QED
    BY <2>1, <2>2, <2>4, <2>5 DEF Loops
<1>8. ASSUME Reread PROVE Loops' /\ CountsAgree'
  <2>1. CASE Matches(rereading)
    <3>1. CountsAgree'
      BY <1>8, <2>1, CountOne DEF Reread, Loops, plan
    <3>2. /\ terminal' = terminal \cup {rereading} /\ rereading' = NoRow /\ rereading # NoRow
          /\ phase \in {"storing", "failing", "sweeping"} /\ rereading \notin work
          /\ UNCHANGED <<target, left, phase, work, delivered>>
      BY <1>8, <2>1 DEF Reread, CountRow, Loops, plan, queue
    <3>3. \A x \in work' : x \notin terminal'
      BY <3>2 DEF Loops
    <3>4. phase = "storing" => \A l \in DOMAIN left : \A x \in left[l] :
                                 x \notin terminal' /\ x \notin work'
      BY <3>2 DEF Loops
    <3>5. phase = "storing" => \A l \in DOMAIN left : \A x \in left[l] : x # NoRow
      BY NoRowNotLeft
    <3> QED
      BY <3>1, <3>2, <3>3, <3>4, <3>5 DEF Loops
  <2>2. CASE ~Matches(rereading)
    <3>1. /\ rereading' = NoRow /\ phase \in {"storing", "failing", "sweeping"}
          /\ UNCHANGED <<target, left, phase, work, delivered, tally>>
          /\ \A l \in DOMAIN left : NoRow \notin left[l]
      BY <1>8, <2>2, NoRowNotLeft DEF Reread, Loops, plan, queue
    <3> QED
      BY <3>1 DEF Loops, CountsAgree, tally
  <2> QED
    BY <2>1, <2>2
<1>9. ASSUME StoreFault PROVE Loops' /\ CountsAgree'
  BY <1>9, ResetLoops, FailingLoops DEF StoreFault
<1>10. ASSUME StoringDone PROVE Loops' /\ CountsAgree'
  <2>1. CASE request.kind = "single"
    BY <1>10, <2>1, ResetLoops DEF StoringDone
  <2>2. CASE request.kind # "single"
    <3>1. /\ phase = "storing" /\ phase' \in {"activating", "fetching"}
          /\ reported' = terminal /\ rereading' = NoRow
          /\ UNCHANGED <<target, left, terminal, success, failed, delivered>>
          /\ phase' = "fetching" => work' = {}
      BY <1>10, <2>2 DEF StoringDone, plan, queue
    <3>2. work' = {} \/ \E l \in DOMAIN left : work' = left[l]
      BY <1>10, <2>2 DEF StoringDone, Typed, TypeOK, RunOK, Shape
    <3> QED
      BY <3>1, <3>2 DEF Loops, CountsAgree
  <2> QED
    BY <2>1, <2>2
<1>11. ASSUME NEW r \in RowIds, ActivateRow(r) PROVE Loops' /\ CountsAgree'
  BY <1>11 DEF ActivateRow, Loops, CountsAgree, plan, queue, tally
<1>12. ASSUME ActivateFault \/ FetchEnds \/ WorkerFails PROVE Loops' /\ CountsAgree'
  BY <1>12, FailingLoops DEF ActivateFault, FetchEnds, WorkerFails
<1>13. ASSUME ActivationDone PROVE Loops' /\ CountsAgree'
  BY <1>13 DEF ActivationDone, Loops, CountsAgree, plan, tally
<1>14. ASSUME NEW r \in RowIds, FailFault(r) PROVE Loops' /\ CountsAgree'
  <2>1. r \in DOMAIN target /\ r \notin terminal /\ UNCHANGED target
    BY <1>14 DEF FailFault, InCleanup, Loops, plan
  <2>2. CASE CountRow(r)
    BY <1>14, <2>1, <2>2, CountOne DEF FailFault, InCleanup, CountRow, Loops, plan, queue
  <2>3. CASE UNCHANGED tally
    BY <1>14, <2>3 DEF FailFault, InCleanup, Loops, CountsAgree, plan, queue, tally
  <2> QED
    BY <1>14, <2>2, <2>3 DEF FailFault
<1>15. ASSUME RereadFault PROVE Loops' /\ CountsAgree'
  <2>1. CountsAgree'
    BY <1>15, CountOne DEF RereadFault, Loops, plan
  <2> QED
    BY <1>15, <2>1 DEF RereadFault, InCleanup, CountRow, Loops, plan, queue
<1>16. ASSUME FailingDone PROVE Loops' /\ CountsAgree'
  BY <1>16 DEF FailingDone, Loops, CountsAgree, plan, queue, tally
<1>17. ASSUME RunStep PROVE Loops' /\ CountsAgree'
  BY <1>3, <1>4, <1>5, <1>6, <1>7, <1>8, <1>10, <1>11, <1>12, <1>13, <1>16, <1>17
     DEF RunStep
<1>18. ASSUME Fault PROVE Loops' /\ CountsAgree'
  BY <1>5, <1>9, <1>12, <1>14, <1>15, <1>18 DEF Fault
<1> QED
  BY <1>1, <1>2, <1>5, <1>17, <1>18 DEF Next

LEMMA LoopsInvariant == Spec => [](Typed /\ Loops /\ CountsAgree)
<1>1. Init => Typed /\ Loops /\ CountsAgree
  <2> SUFFICES ASSUME Init PROVE Loops /\ CountsAgree
    BY InitTyped
  <2>1. DOMAIN left = {} /\ DOMAIN target = {}
    BY NothingType DEF Init
  <2> QED
    BY <2>1, FS_EmptySet DEF Init, Loops, CountsAgree, Unset
<1>2. Typed /\ Loops /\ CountsAgree /\ [Next]_vars => (Typed /\ Loops /\ CountsAgree)'
  <2>1. Typed /\ Loops /\ CountsAgree /\ UNCHANGED vars => (Loops /\ CountsAgree)'
    BY DEF Loops, CountsAgree, vars, plan, queue, tally
  <2> QED
    BY <2>1, NextTyped, LoopsStep
<1> QED
  BY <1>1, <1>2, PTL DEF Spec

(* Progress never counts a row twice or a row outside the refresh, through *)
(* all three loops and under any storage errors.                           *)
THEOREM Counting == Spec => []CountsAgree
BY LoopsInvariant, PTL

(***************************************************************************)
(* What editing commands and steps of a refresh may do to rows             *)
(***************************************************************************)

(* A command leaves a row as it is or gives it the next generation, and a  *)
(* row it leaves waiting is an orphan.                                     *)
ActorEffect ==
    /\ RunUnchanged
    /\ \A r \in DOMAIN rows' :
          \/ r \in DOMAIN rows /\ rows'[r] = rows[r]
          \/ /\ rows'[r].gen = nextGen /\ nextGen' = nextGen + 1
             /\ rows'[r].status \in Active => r \in orphans'
    /\ nextGen' \in {nextGen, nextGen + 1}
    /\ orphans \subseteq orphans'
    /\ \/ docGen' = docGen
       \/ docGen' = docGen + 1 /\ \A r \in DOMAIN rows' : rows'[r].gen = nextGen

LEMMA ActorWrites == ASSUME Typed, ActorStep PROVE ActorEffect
<1> USE DEF Typed, TypeOK, TableOK
<1>1. ASSUME NEW r \in RowIds, NEW s \in Sheets, NEW l \in Lookups, EditRow(r, s, l)
      PROVE  ActorEffect
  <2>1. \A x \in DOMAIN rows' :
          \/ x \in DOMAIN rows /\ rows'[x] = rows[x]
          \/ rows'[x].gen = nextGen /\ rows'[x].status = "empty"
    BY <1>1 DEF EditRow, Edited, NewRow, With, Without
  <2> QED
    BY <1>1, <2>1 DEF EditRow, ActorEffect
<1>2. ASSUME NEW r \in RowIds, NEW s \in Sheets, NEW l \in Lookups, ReplaceRows(r, s, l)
      PROVE  ActorEffect
  <2>1. \A x \in DOMAIN rows' :
          \/ x \in DOMAIN rows /\ rows'[x] = rows[x]
          \/ rows'[x].gen = nextGen /\ rows'[x].status = "empty"
    BY <1>2 DEF ReplaceRows, NewRow, With, Without
  <2> QED
    BY <1>2, <2>1 DEF ReplaceRows, ActorEffect
<1>3. ASSUME NEW D, DeleteRows(D) PROVE ActorEffect
  BY <1>3 DEF DeleteRows, Without, ActorEffect
<1>4. ASSUME NEW r \in DOMAIN rows, NEW t \in RowIds, NEW s \in Sheets,
             NEW move \in BOOLEAN, TransferRow(r, t, s, move)
      PROVE  ActorEffect
  <2> DEFINE row == [rows[r] EXCEPT !.sheet = s, !.gen = nextGen]
             copied == With(rows, t, row)
  <2>1. row.gen = nextGen /\ row.status = rows[r].status
    BY DEF Row
  <2>2. \A x \in DOMAIN copied :
          \/ x \in DOMAIN rows /\ copied[x] = rows[x]
          \/ x = t /\ copied[x] = row
    BY DEF With
  <2>3. rows' = copied \/ rows' = Without(copied, {r})
    BY <1>4 DEF TransferRow
  <2>4. \A x \in DOMAIN rows' :
          \/ x \in DOMAIN rows /\ rows'[x] = rows[x]
          \/ x = t /\ rows'[x] = row
    <3> HIDE DEF copied, row
    <3> QED BY <2>2, <2>3 DEF Without
  <2>5. /\ RunUnchanged /\ docGen' = docGen /\ nextGen' = nextGen + 1
        /\ orphans \subseteq orphans'
        /\ rows[r].status \in Active => t \in orphans'
    BY <1>4 DEF TransferRow
  <2> HIDE DEF row
  <2> QED
    BY <2>1, <2>4, <2>5 DEF ActorEffect
<1>5. ASSUME NEW d \in Documents, RestoreWorkspace(d) PROVE ActorEffect
  <2>1. \A x \in DOMAIN rows' : rows'[x].gen = nextGen /\ rows'[x].status \notin Active
    BY <1>5 DEF RestoreWorkspace, Restored, NewRow
  <2> QED
    BY <1>5, <2>1 DEF RestoreWorkspace, ActorEffect
<1> QED
  BY <1>1, <1>2, <1>3, <1>4, <1>5 DEF ActorStep

(* A step of a refresh changes only status and record, and only of rows    *)
(* that are still as the refresh captured them.                            *)
RunEffect ==
    /\ UNCHANGED <<docGen, nextGen>>
    /\ DOMAIN rows' = DOMAIN rows
    /\ \A r \in DOMAIN rows :
          /\ rows'[r].gen = rows[r].gen /\ rows'[r].lookup = rows[r].lookup
          /\ rows'[r] = rows[r] \/ SetupDone
             \/ (phase \notin Unset /\ r \in work /\ Matches(r))
    /\ SetupDone \/ phase' = "idle" \/ (UNCHANGED plan /\ (phase \in Unset => phase' \in Unset))

LEMMA WriteOne ==
    ASSUME Typed, NEW r \in DOMAIN rows, NEW row,
           row.gen = rows[r].gen, row.lookup = rows[r].lookup,
           rows' = [rows EXCEPT ![r] = row]
    PROVE  /\ DOMAIN rows' = DOMAIN rows
           /\ \A x \in DOMAIN rows :
                /\ rows'[x].gen = rows[x].gen /\ rows'[x].lookup = rows[x].lookup
                /\ x # r => rows'[x] = rows[x]
BY DEF Typed, TypeOK, TableOK

LEMMA StoreWrites ==
    ASSUME Typed, NEW r \in RowIds, StoreRow(r), Matches(r)
    PROVE  /\ DOMAIN rows' = DOMAIN rows
           /\ \A x \in DOMAIN rows :
                /\ rows'[x].gen = rows[x].gen /\ rows'[x].lookup = rows[x].lookup
                /\ x # r => rows'[x] = rows[x]
           /\ rows'[r].status \notin Active
<1>1. r \in DOMAIN rows /\ rows[r] \in Row
  BY DEF Matches, Typed, TypeOK, TableOK
<1>2. \/ rows' = [rows EXCEPT ![r] = [rows[r] EXCEPT !.status = "loaded",
                                                    !.record = target[r].lookup]]
      \/ rows' = [rows EXCEPT ![r] = [rows[r] EXCEPT !.status = "failed"]]
  BY <1>1 DEF StoreRow
<1> DEFINE a == [rows[r] EXCEPT !.status = "loaded", !.record = target[r].lookup]
           b == [rows[r] EXCEPT !.status = "failed"]
<1>3. a.gen = rows[r].gen /\ a.lookup = rows[r].lookup /\ a.status = "loaded"
  BY <1>1 DEF Row
<1>4. b.gen = rows[r].gen /\ b.lookup = rows[r].lookup /\ b.status = "failed"
  BY <1>1 DEF Row
<1>5. rows' = [rows EXCEPT ![r] = a] \/ rows' = [rows EXCEPT ![r] = b]
  BY <1>2
<1> HIDE DEF a, b
<1>6. rows'[r] = a \/ rows'[r] = b
  BY <1>1, <1>5 DEF Typed, TypeOK, TableOK
<1> QED
  BY <1>1, <1>3, <1>4, <1>5, <1>6, WriteOne

LEMMA StatusWrites ==
    ASSUME Typed, NEW r \in DOMAIN rows, NEW st \in Status, SetStatus(r, st)
    PROVE  /\ DOMAIN rows' = DOMAIN rows
           /\ \A x \in DOMAIN rows :
                /\ rows'[x].gen = rows[x].gen /\ rows'[x].lookup = rows[x].lookup
                /\ x # r => rows'[x] = rows[x]
           /\ rows'[r].status = st
BY DEF SetStatus, Typed, TypeOK, TableOK, Row

LEMMA RunWrites ==
    ASSUME Typed, RunStep \/ Fault
    PROVE  RunEffect
<1> USE DEF Unset
<1>1. ASSUME UNCHANGED <<rows, docGen, nextGen>>,
             phase' = "idle" \/ (UNCHANGED plan /\ (phase \in Unset => phase' \in Unset))
      PROVE  RunEffect
  BY <1>1 DEF RunEffect
<1>2. ASSUME Setup PROVE RunEffect
  <2>1. CASE SetupDone
    BY <2>1 DEF SetupDone, RunEffect
  <2> QED
    BY <1>1, <1>2, <2>1, SetupEffect DEF table, ResetRun
<1>3. ASSUME NEW r \in RowIds, StoreRow(r) PROVE RunEffect
  <2>1. CASE Matches(r)
    BY <1>3, <2>1, StoreWrites DEF StoreRow, RunEffect
  <2> QED
    BY <1>1, <1>3, <2>1 DEF StoreRow
<1>4. ASSUME NEW r \in RowIds, ActivateRow(r) PROVE RunEffect
  <2>1. CASE Matches(r)
    BY <1>4, <2>1, StatusWrites DEF ActivateRow, RunEffect, Matches, Status
  <2> QED
    BY <1>1, <1>4, <2>1 DEF ActivateRow
<1>5. ASSUME NEW r \in RowIds, FailRow(r) PROVE RunEffect
  <2>1. CASE Matches(r) /\ (phase = "sweeping" => rows[r].status \in Active)
    BY <1>5, <2>1, StatusWrites DEF FailRow, InCleanup, RunEffect, Matches, Status
  <2> QED
    BY <1>1, <1>5, <2>1 DEF FailRow
<1>6. ASSUME BindRequest PROVE RunEffect
  BY <1>1, <1>6 DEF BindRequest, ResetRun, table
<1>7. ASSUME NEW l \in Lookups, NEW o \in {"ok", "failed"}, Deliver(l, o) PROVE RunEffect
  BY <1>1, <1>7 DEF Deliver, table
<1>8. ASSUME Reread \/ ActivationDone \/ FailingDone \/ RereadFault PROVE RunEffect
  BY <1>1, <1>8 DEF Reread, ActivationDone, FailingDone, RereadFault, InCleanup, table
<1>9. ASSUME StoringDone \/ SweepDone PROVE RunEffect
  BY <1>1, <1>9 DEF StoringDone, SweepDone, ResetRun, table
<1>10. ASSUME FetchEnds \/ WorkerFails \/ ActivateFault PROVE RunEffect
  BY <1>1, <1>10 DEF FetchEnds, WorkerFails, ActivateFault, StartFailing, table
<1>11. ASSUME StoreFault PROVE RunEffect
  BY <1>1, <1>11 DEF StoreFault, StartFailing, ResetRun, table
<1>12. ASSUME SetupFault PROVE RunEffect
  BY <1>1, <1>12 DEF SetupFault, ResetRun, table
<1>13. ASSUME NEW r \in RowIds, FailFault(r) PROVE RunEffect
  BY <1>1, <1>13 DEF FailFault, InCleanup, table
<1> QED
  BY <1>2, <1>3, <1>4, <1>5, <1>6, <1>7, <1>8, <1>9, <1>10, <1>11, <1>12, <1>13
     DEF RunStep, Fault

(***************************************************************************)
(* Row generations and document generations                                *)
(***************************************************************************)

Gens ==
    /\ \A r \in DOMAIN rows : rows[r].gen < nextGen
    /\ request.kind # "none" => request.doc \in Nat /\ request.doc <= docGen
    /\ phase \notin Unset =>
          /\ \A r \in DOMAIN target : target[r].gen < since
          /\ since <= nextGen
          /\ request.doc # docGen => \A r \in DOMAIN rows : rows[r].gen >= since

LEMMA GensNat ==
    ASSUME Typed
    PROVE  /\ \A r \in DOMAIN rows : rows[r].gen \in Nat
           /\ \A r \in DOMAIN target : target[r].gen \in Nat
           /\ nextGen \in Nat /\ since \in Nat /\ docGen \in Nat
BY DEF Typed, TypeOK, TableOK, RunOK, Row, Targets

LEMMA GensStep ==
    ASSUME Typed, Typed', Gens, Next
    PROVE  Gens'
<1> USE GensNat DEF Unset
<1>1. ASSUME ActorStep PROVE Gens'
  <2>1. ActorEffect
    BY <1>1, ActorWrites
  <2>2. UNCHANGED <<request, phase, target, since>>
    BY <2>1 DEF ActorEffect, RunUnchanged, plan
  <2>3. \A r \in DOMAIN rows' : rows'[r].gen < nextGen'
    BY <2>1 DEF ActorEffect, Gens
  <2>4. nextGen <= nextGen' /\ docGen <= docGen'
    BY <2>1 DEF ActorEffect
  <2>5. ASSUME phase \notin Unset, request.doc # docGen', request.kind # "none"
        PROVE  \A r \in DOMAIN rows' : rows'[r].gen >= since
    <3>1. CASE docGen' = docGen
      BY <2>1, <2>5, <3>1 DEF ActorEffect, Gens
    <3>2. CASE docGen' # docGen
      BY <2>1, <2>5, <3>2 DEF ActorEffect, Gens
    <3> QED
      BY <3>1, <3>2
  <2>6. phase \notin Unset => request.kind # "none"
    BY DEF Typed, Shape
  <2>7. docGen' \in Nat /\ nextGen' \in Nat
    BY DEF Typed, TypeOK, TableOK
  <2>8. request.kind # "none" => request.doc \in Nat /\ request.doc <= docGen'
    BY <2>4, <2>7, GensNat DEF Gens
  <2>9. phase \notin Unset =>
          (\A r \in DOMAIN target : target[r].gen < since) /\ since <= nextGen'
    BY <2>4, <2>7, GensNat DEF Gens
  <2> HIDE DEF Unset
  <2> QED
    BY <2>2, <2>3, <2>5, <2>6, <2>8, <2>9 DEF Gens
<1>2. ASSUME NEW req \in BatchRequests \cup SingleRequests, RequestRows(req) PROVE Gens'
  <2>1. req.doc = docGen
    BY DEF BatchRequests, SingleRequests
  <2> QED
    BY <1>2, <2>1 DEF RequestRows, Gens, table
<1>3. ASSUME CrashAndRecover PROVE Gens'
  <2>1. DOMAIN rows' = DOMAIN rows /\ \A r \in DOMAIN rows : rows'[r].gen = rows[r].gen
    BY <1>3 DEF CrashAndRecover, Typed, TypeOK, TableOK, Row
  <2> QED
    BY <1>3, <2>1 DEF CrashAndRecover, ResetRun, Gens
<1>4. ASSUME RunStep \/ Fault PROVE Gens'
  <2>1. RunEffect
    BY <1>4, RunWrites
  <2>2. \A r \in DOMAIN rows' : rows'[r].gen < nextGen'
    BY <2>1 DEF RunEffect, Gens
  <2>3. CASE SetupDone
    <3>1. request.doc = docGen
      BY <2>3 DEF SetupDone, SetupAdmitted
    <3>2. \A r \in DOMAIN target' : target'[r].gen < since'
      BY <2>3, SelectedIn DEF SetupDone, Gens
    <3> QED
      BY <2>2, <2>3, <3>1, <3>2 DEF SetupDone, Gens
  <2>4. CASE phase' = "idle"
    <3>1. request'.kind = "none"
      BY <2>4 DEF Typed, Shape
    <3> QED
      BY <2>2, <2>4, <3>1 DEF Gens
  <2>5. CASE UNCHANGED plan /\ (phase \in Unset => phase' \in Unset)
    BY <2>1, <2>2, <2>5 DEF RunEffect, Gens, plan
  <2> QED
    BY <2>1, <2>3, <2>4, <2>5 DEF RunEffect
<1> QED
  BY <1>1, <1>2, <1>3, <1>4 DEF Next

LEMMA GensInvariant == Spec => [](Typed /\ Loops /\ Gens)
<1>1. Init => Gens
  BY BootAssumption DEF Init, Gens, Unset, Row
<1>2. Typed /\ Gens /\ [Next]_vars => Gens'
  BY NextTyped, GensStep DEF Gens, vars, table, plan
<1>3. Spec => [](Typed /\ Loops)
  BY LoopsInvariant, PTL
<1> QED
  BY <1>1, <1>2, <1>3, PTL DEF Spec

(* Results, failures and activations of a refresh never reach a row that   *)
(* was created, re-created or given another lookup after its setup.        *)
THEOREM LateResults == Spec => LateResultsIgnored
<1>1. ASSUME Typed, Loops, Gens, RunStep \/ Fault, NEW r \in DOMAIN rows,
             phase \notin {"queued", "listed"}, rows[r].gen >= since
      PROVE  r \in DOMAIN rows' /\ rows'[r] = rows[r]
  <2>1. RunEffect
    BY <1>1, RunWrites
  <2>2. ~SetupDone
    BY <1>1 DEF SetupDone
  <2>3. ASSUME phase \notin Unset, r \in work, Matches(r) PROVE FALSE
    <3>1. r \in DOMAIN target /\ target[r].gen = rows[r].gen /\ target[r].gen < since
      BY <2>3, <1>1 DEF Matches, Loops, Gens
    <3> QED
      BY <1>1, <3>1, GensNat
  <2> QED
    BY <2>1, <2>2, <2>3 DEF RunEffect
<1>2. Typed /\ Loops /\ Gens =>
        [RunStep \/ Fault =>
           \A r \in DOMAIN rows :
              phase \notin {"queued", "listed"} /\ rows[r].gen >= since =>
                  r \in DOMAIN rows' /\ rows'[r] = rows[r]]_vars
  BY <1>1
<1> QED
  BY <1>2, GensInvariant, PTL DEF LateResultsIgnored

(* A refresh asked for under a document that was replaced since writes     *)
(* nothing at all.                                                         *)
THEOREM CrossDocument == Spec => NoCrossDocumentWrite
<1>1. ASSUME Typed, Loops, Gens, RunStep \/ Fault, request.kind # "none",
             request.doc # docGen
      PROVE  rows' = rows
  <2>1. RunEffect
    BY <1>1, RunWrites
  <2>2. ~SetupDone
    BY <1>1 DEF SetupDone, SetupAdmitted
  <2>3. ASSUME NEW r \in DOMAIN rows, phase \notin Unset, r \in work, Matches(r) PROVE FALSE
    <3>1. /\ r \in DOMAIN target /\ target[r].gen = rows[r].gen /\ target[r].gen < since
          /\ rows[r].gen >= since
      BY <2>3, <1>1 DEF Matches, Loops, Gens
    <3> QED
      BY <1>1, <3>1, GensNat
  <2>4. DOMAIN rows' = DOMAIN rows /\ \A r \in DOMAIN rows : rows'[r] = rows[r]
    BY <2>1, <2>2, <2>3 DEF RunEffect
  <2>5. rows \in [DOMAIN rows -> Row] /\ rows' \in [DOMAIN rows' -> Row]
    BY <1>1, NextTyped DEF Next, Typed, TypeOK, TableOK
  <2> QED
    BY <2>4, <2>5
<1>2. Typed /\ Loops /\ Gens =>
        [(RunStep \/ Fault) /\ request.kind # "none" =>
           (request.doc # docGen => rows' = rows)]_vars
  BY <1>1
<1> QED
  BY <1>2, GensInvariant, PTL DEF NoCrossDocumentWrite

(***************************************************************************)
(* No row is left waiting                                                  *)
(***************************************************************************)

Waits(r) == r \in DOMAIN rows \ orphans /\ rows[r].status \in Active

(* A single refresh has no pass after its only result: while that result   *)
(* is stored, the row that waits is the one still to be visited.           *)
OneRow ==
    request.kind = "single" =>
        /\ phase \in {"queued", "listed", "fetching", "storing"}
        /\ \E r \in RowIds : request.rows = {r}
        /\ phase = "listed" => work = request.rows
        /\ phase = "fetching" =>
              /\ delivered = {} /\ DOMAIN target # {}
              /\ \E l \in Lookups : DOMAIN left = {l} /\ left[l] = DOMAIN target
        /\ phase = "storing" => \A r : Waits(r) => r \in work

ReadBack ==
    rereading # NoRow /\ Matches(rereading) => rows[rereading].status \notin Active

Waiting == NoStrandedRow /\ ReadBack /\ OneRow

LEMMA Held ==
    NoStrandedRow <=>
        \A r : Waits(r) =>
            /\ phase \notin Unset
            /\ r \in DOMAIN target /\ Matches(r)
            /\ r \notin terminal
            /\ phase = "sweeping" => r \in work
BY DEF NoStrandedRow, Waits, Unset, Matches

LEMMA HeldNext ==
    NoStrandedRow' <=>
        \A r : Waits(r)' =>
            /\ phase' \notin Unset
            /\ r \in DOMAIN target' /\ Matches(r)'
            /\ r \notin terminal'
            /\ phase' = "sweeping" => r \in work'
BY DEF NoStrandedRow, Waits, Unset, Matches

(* A refresh may end only when nothing waits for it.                       *)
LEMMA EndWaiting ==
    ASSUME ResetRun, \A r : ~Waits(r)'
    PROVE  Waiting'
<1>1. NoStrandedRow'
  BY HeldNext
<1>2. rereading' = NoRow /\ request'.kind = "none"
  BY DEF ResetRun
<1> QED
  BY <1>1, <1>2 DEF Waiting, ReadBack, OneRow

(* A step that writes no row keeps what waits on its list.                 *)
LEMMA WaitFrame ==
    ASSUME Waiting, UNCHANGED <<rows, plan>>, orphans \subseteq orphans',
           phase \notin Unset, phase' \notin Unset, rereading' \in {rereading, NoRow},
           \A r : Waits(r)' => r \notin terminal' /\ (phase' = "sweeping" => r \in work'),
           OneRow'
    PROVE  Waiting'
<1>1. \A r : Waits(r)' => Waits(r)
  BY DEF Waits
<1>2. \A r : Matches(r)' <=> Matches(r)
  BY DEF Matches, plan
<1>3. NoStrandedRow'
  <2> SUFFICES ASSUME NEW r, Waits(r)'
               PROVE  r \in DOMAIN target' /\ Matches(r)'
    BY HeldNext
  <2> QED
    BY <1>1, <1>2, Held DEF Waiting, plan
<1>4. ReadBack'
  BY <1>2 DEF Waiting, ReadBack
<1> QED
  BY <1>3, <1>4 DEF Waiting

LEMMA ActorWaiting ==
    ASSUME Typed, Typed', Loops, Gens, Waiting, ActorStep
    PROVE  Waiting'
<1>1. ActorEffect
  BY ActorWrites
<1>2. UNCHANGED <<request, phase, target, left, delivered, terminal, work, rereading, since>>
  BY <1>1 DEF ActorEffect, RunUnchanged, plan, queue, tally
<1>3. \A r : Waits(r)' => Waits(r) /\ rows'[r] = rows[r]
  BY <1>1 DEF ActorEffect, Waits
<1>4. NoStrandedRow'
  <2> SUFFICES ASSUME NEW r, Waits(r)'
               PROVE  /\ phase \notin Unset /\ r \in DOMAIN target /\ Matches(r)'
                      /\ r \notin terminal /\ (phase = "sweeping" => r \in work)
    BY <1>2, HeldNext
  <2>1. Waits(r) /\ rows'[r] = rows[r] /\ r \in DOMAIN rows'
    BY <1>3 DEF Waits
  <2>2. /\ phase \notin Unset /\ r \in DOMAIN target /\ Matches(r)
        /\ r \notin terminal /\ (phase = "sweeping" => r \in work)
    BY <2>1, Held DEF Waiting
  <2> QED
    BY <1>2, <2>1, <2>2 DEF Matches
<1>5. ReadBack'
  <2> SUFFICES ASSUME rereading # NoRow, Matches(rereading)'
               PROVE  rows'[rereading].status \notin Active
    BY <1>2 DEF ReadBack
  <2>1. rereading \in DOMAIN target /\ phase \notin Unset
    BY DEF Loops, Unset
  <2>2. /\ rereading \in DOMAIN rows' /\ rows'[rereading].gen = target[rereading].gen
        /\ rows'[rereading].lookup = target[rereading].lookup
    BY <1>2 DEF Matches
  <2>3. target[rereading].gen < since /\ since <= nextGen
    BY <2>1 DEF Gens
  <2>4. target[rereading].gen # nextGen
    BY <2>1, <2>3, GensNat
  <2>5. rereading \in DOMAIN rows /\ rows'[rereading] = rows[rereading]
    BY <1>1, <2>2, <2>4 DEF ActorEffect
  <2> QED
    BY <2>2, <2>5 DEF Waiting, ReadBack, Matches
<1>6. OneRow'
  BY <1>2, <1>3 DEF Waiting, OneRow
<1> QED
  BY <1>4, <1>5, <1>6 DEF Waiting

(* The waiting rows after a setup are those it captured.                   *)
LEMMA SetupWaiting ==
    ASSUME Typed, Loops, Waiting, Setup
    PROVE  Waiting'
<1>1. \A r : ~Waits(r)
  BY Held DEF Waiting, Unset, Setup
<1>2. CASE ResetRun /\ UNCHANGED <<table, faults, orphans>>
  <2>1. \A r : ~Waits(r)'
    BY <1>1, <1>2 DEF Waits, table
  <2> QED
    BY <1>2, <2>1, EndWaiting
<1>3. CASE SetupDone
  <2>1. terminal' = {} /\ rereading' = NoRow /\ phase' = "fetching" /\ phase = "listed"
    BY <1>3 DEF SetupDone, Loops, Unset, tally
  <2>2. NoStrandedRow'
    <3> SUFFICES ASSUME NEW r, Waits(r)'
                 PROVE  r \in DOMAIN target' /\ Matches(r)'
      BY <2>1, HeldNext DEF Unset
    <3>1. r \in DOMAIN rows /\ r \in DOMAIN rows'
      BY <1>3 DEF Waits, SetupDone
    <3>2. r \in Selected
      BY <1>1, <1>3, <3>1 DEF Waits, SetupDone
    <3> QED
      BY <1>3, <3>1, <3>2 DEF SetupDone, Matches
  <2>3. ReadBack'
    BY <2>1 DEF ReadBack
  <2>4. OneRow'
    <3> SUFFICES ASSUME request'.kind = "single" PROVE OneRow'
      BY DEF OneRow
    <3>1. request' = request /\ delivered' = {} /\ Selected # {}
      BY <1>3, <2>1 DEF SetupDone, Loops, Unset
    <3>2. PICK r \in RowIds : request.rows = {r} /\ work = {r}
      BY <2>1, <3>1 DEF Waiting, OneRow
    <3>3. Selected = {r} /\ r \in DOMAIN rows
      BY <3>1, <3>2 DEF Selected
    <3>4. rows[r].lookup \in Lookups
      BY <3>3 DEF Typed, TypeOK, TableOK, Row
    <3>5. DOMAIN left' = {rows[r].lookup} /\ left'[rows[r].lookup] = {r}
      BY <1>3, <3>3 DEF SetupDone
    <3>6. DOMAIN target' = {r}
      BY <1>3, <3>3 DEF SetupDone
    <3> QED
      BY <2>1, <3>1, <3>2, <3>4, <3>5, <3>6 DEF OneRow
  <2> QED
    BY <2>2, <2>3, <2>4 DEF Waiting
<1> QED
  BY <1>2, <1>3, SetupEffect

LEMMA AdmissionWaiting ==
    ASSUME Typed, Loops, Waiting,
           \/ \E req \in BatchRequests \cup SingleRequests : RequestRows(req)
           \/ BindRequest
           \/ SetupFault
           \/ CrashAndRecover
    PROVE  Waiting'
<1>1. ASSUME NEW req \in BatchRequests \cup SingleRequests, RequestRows(req) PROVE Waiting'
  <2>1. \A r : ~Waits(r)
    BY <1>1, Held DEF Waiting, Unset, RequestRows
  <2>2. NoStrandedRow'
    BY <1>1, <2>1, HeldNext DEF RequestRows, Waits, table
  <2>3. rereading' = NoRow
    BY <1>1 DEF RequestRows, Loops
  <2>4. req.kind = "single" => \E r \in RowIds : req.rows = {r}
    BY DEF BatchRequests, SingleRequests
  <2> QED
    BY <1>1, <2>2, <2>3, <2>4 DEF Waiting, ReadBack, OneRow, RequestRows
<1>2. ASSUME BindRequest PROVE Waiting'
  <2>1. \A r : ~Waits(r) /\ ~Waits(r)'
    BY <1>2, Held DEF Waiting, Unset, BindRequest, Waits, table
  <2>2. CASE request.doc # docGen
    BY <1>2, <2>1, <2>2, EndWaiting DEF BindRequest
  <2>3. CASE request.doc = docGen
    <3>1. rereading' = NoRow /\ phase' = "listed" /\ request' = request
          /\ (request.kind = "single" => work' = request.rows)
      BY <1>2, <2>3 DEF BindRequest, Loops, plan
    <3>2. NoStrandedRow'
      BY <2>1, HeldNext
    <3> QED
      BY <3>1, <3>2 DEF Waiting, ReadBack, OneRow
  <2> QED
    BY <2>2, <2>3
<1>3. ASSUME SetupFault PROVE Waiting'
  <2>1. \A r : ~Waits(r)'
    BY <1>3, Held DEF Waiting, Unset, SetupFault, Waits, table
  <2> QED
    BY <1>3, <2>1, EndWaiting DEF SetupFault
<1>4. ASSUME CrashAndRecover PROVE Waiting'
  <2>1. \A r \in DOMAIN rows' : rows'[r].status \notin Active
    BY <1>4 DEF CrashAndRecover, Recovered, Typed, TypeOK, TableOK, Row
  <2> QED
    BY <1>4, <2>1, EndWaiting DEF CrashAndRecover, Waits
<1> QED
  BY <1>1, <1>2, <1>3, <1>4

(* The steps of the three loops that write a row.                          *)
LEMMA WritesWaiting ==
    ASSUME Typed, Loops, Waiting, NEW r \in RowIds,
           StoreRow(r) \/ ActivateRow(r) \/ FailRow(r)
    PROVE  Waiting'
<1>1. /\ UNCHANGED <<plan, queue, tally, phase, orphans>>
      /\ work' = work \ {r} /\ r \in work
      /\ phase \in {"storing", "activating", "failing", "sweeping"}
  BY DEF StoreRow, ActivateRow, FailRow, InCleanup, plan, queue, tally
<1>2. r \in DOMAIN target /\ r \notin terminal
  BY <1>1 DEF Loops, Unset
<1>3. CASE rows' = rows /\ rereading' = rereading
           /\ ~(Matches(r) /\ (phase = "sweeping" => rows[r].status \in Active))
  <2>1. \A x : Waits(x)' => Waits(x) /\ x # r
    BY <1>1, <1>3, Held DEF Waits, Waiting
  <2>2. \A x : Waits(x)' => x \notin terminal' /\ (phase' = "sweeping" => x \in work')
    BY <1>1, <2>1, Held DEF Waiting, tally
  <2>3. OneRow'
    BY <1>1, <2>1 DEF Waiting, OneRow, plan, queue
  <2> QED
    BY <1>1, <1>3, <2>2, <2>3, WaitFrame DEF Unset
<1>4. CASE /\ Matches(r)
           /\ DOMAIN rows' = DOMAIN rows
           /\ \A x \in DOMAIN rows :
                /\ rows'[x].gen = rows[x].gen /\ rows'[x].lookup = rows[x].lookup
                /\ x # r => rows'[x] = rows[x]
           /\ \/ rows'[r].status \notin Active /\ rereading' = r
              \/ phase = "activating" /\ rereading' = rereading
  <2>1. \A x : Waits(x)' => Waits(x) \/ (x = r /\ phase = "activating")
    BY <1>1, <1>4 DEF Waits, Matches
  <2>2. \A x : Waits(x)' /\ phase # "activating" => x # r
    BY <1>4 DEF Waits
  <2>3. \A x : Matches(x)' <=> Matches(x)
    BY <1>1, <1>4 DEF Matches, plan
  <2>4. NoStrandedRow'
    <3> SUFFICES ASSUME NEW x, Waits(x)'
                 PROVE  /\ x \in DOMAIN target /\ Matches(x)
                        /\ x \notin terminal /\ (phase = "sweeping" => x \in work \ {r})
      BY <1>1, <2>3, HeldNext DEF Unset, plan, tally
    <3>1. CASE Waits(x)
      BY <2>2, <3>1, Held DEF Waiting
    <3>2. CASE x = r /\ phase = "activating"
      BY <1>2, <1>4, <3>2
    <3> QED
      BY <2>1, <3>1, <3>2
  <2>5. ReadBack'
    <3>1. CASE rereading' = r /\ rows'[r].status \notin Active
      BY <3>1 DEF ReadBack
    <3>2. CASE phase = "activating" /\ rereading' = rereading
      BY <3>2 DEF Loops, ReadBack
    <3> QED
      BY <1>4, <3>1, <3>2
  <2>6. OneRow'
    BY <1>1, <2>1, <2>2 DEF Waiting, OneRow, plan, queue
  <2> QED
    BY <2>4, <2>5, <2>6 DEF Waiting
<1>5. CASE StoreRow(r) /\ Matches(r)
  BY <1>4, <1>5, StoreWrites DEF StoreRow
<1>6. CASE ActivateRow(r) /\ Matches(r)
  BY <1>4, <1>6, StatusWrites DEF ActivateRow, Matches, Status
<1>7. CASE FailRow(r) /\ Matches(r) /\ (phase = "sweeping" => rows[r].status \in Active)
  BY <1>4, <1>7, StatusWrites DEF FailRow, Matches, Status
<1> QED
  BY <1>3, <1>5, <1>6, <1>7 DEF StoreRow, ActivateRow, FailRow

(* Steps that move the refresh on without writing a row.                   *)
LEMMA MovesWaiting ==
    ASSUME Typed, Loops, Waiting,
           \/ \E l \in Lookups, o \in {"ok", "failed"} : Deliver(l, o)
           \/ Reread \/ ActivationDone \/ FetchEnds \/ FailingDone
           \/ WorkerFails \/ ActivateFault \/ RereadFault
    PROVE  Waiting'
<1>1. UNCHANGED <<rows, orphans>> /\ UNCHANGED plan
  BY DEF Deliver, Reread, ActivationDone, FetchEnds, FailingDone, WorkerFails,
         ActivateFault, RereadFault, table
<1>2. phase \notin Unset /\ phase' \notin Unset /\ rereading' \in {rereading, NoRow}
  BY DEF Deliver, Reread, ActivationDone, FetchEnds, FailingDone, WorkerFails,
         ActivateFault, RereadFault, StartFailing, InCleanup, Unset, Loops
<1>3. \A r : Waits(r)' <=> Waits(r)
  BY <1>1 DEF Waits
<1>4. \A r : Waits(r) => /\ r \in DOMAIN target /\ r \notin terminal /\ Matches(r)
                         /\ phase = "sweeping" => r \in work
  BY Held DEF Waiting
<1>5. ASSUME NEW l \in Lookups, NEW o \in {"ok", "failed"}, Deliver(l, o) PROVE Waiting'
  <2>1. phase' = "storing" /\ terminal' = terminal /\ work' = left[l] /\ l \in DOMAIN left
    BY <1>5, InFlightIn DEF Deliver, tally
  <2>2. OneRow'
    <3> SUFFICES ASSUME request'.kind = "single" PROVE OneRow'
      BY DEF OneRow
    <3>1. request' = request /\ phase = "fetching"
      BY <1>1, <1>5 DEF Deliver, plan
    <3>2. left[l] = DOMAIN target /\ \E r \in RowIds : request.rows = {r}
      BY <2>1, <3>1 DEF Waiting, OneRow
    <3> QED
      BY <1>3, <1>4, <2>1, <3>1, <3>2 DEF OneRow
  <2> QED
    BY <1>1, <1>2, <1>3, <1>4, <2>1, <2>2, WaitFrame
<1>6. ASSUME Reread \/ RereadFault PROVE Waiting'
  <2>1. /\ phase' = phase /\ work' = work /\ UNCHANGED left /\ UNCHANGED delivered
        /\ rereading # NoRow
    BY <1>6 DEF Reread, RereadFault, queue
  <2>2. terminal' = terminal \/ terminal' = terminal \cup {rereading}
    BY <1>6 DEF Reread, RereadFault, CountRow, tally
  <2>3. \A r : Waits(r) => r # rereading
    BY <1>4, <2>1 DEF Waiting, ReadBack, Waits
  <2>4. OneRow'
    BY <1>1, <1>3, <2>1 DEF Waiting, OneRow, plan
  <2> QED
    BY <1>1, <1>2, <1>3, <1>4, <2>1, <2>2, <2>3, <2>4, WaitFrame
<1>7. ASSUME ActivationDone \/ FetchEnds \/ WorkerFails \/ ActivateFault PROVE Waiting'
  <2>1. phase' \in {"fetching", "failing"} /\ terminal' = terminal
    BY <1>7 DEF ActivationDone, FetchEnds, WorkerFails, ActivateFault, StartFailing, tally
  <2>2. request.kind # "single"
    <3>1. ASSUME FetchEnds PROVE request.kind # "single"
      BY <3>1 DEF FetchEnds, LookupsOf, Waiting, OneRow
    <3>2. ASSUME WorkerFails PROVE request.kind # "single"
      BY <3>2 DEF WorkerFails
    <3>3. ASSUME ActivationDone \/ ActivateFault PROVE request.kind # "single"
      BY <3>3 DEF ActivationDone, ActivateFault, Waiting, OneRow
    <3> QED
      BY <1>7, <3>1, <3>2, <3>3
  <2>3. OneRow'
    BY <1>1, <2>2 DEF OneRow, plan
  <2> QED
    BY <1>1, <1>2, <1>3, <1>4, <2>1, <2>3, WaitFrame
<1>8. ASSUME FailingDone PROVE Waiting'
  <2>1. work' = DOMAIN target \ terminal /\ terminal' = terminal /\ request.kind # "single"
    BY <1>8 DEF FailingDone, tally, Waiting, OneRow
  <2>2. OneRow'
    BY <1>1, <2>1 DEF OneRow, plan
  <2> QED
    BY <1>1, <1>2, <1>3, <1>4, <2>1, <2>2, WaitFrame
<1> QED
  BY <1>5, <1>6, <1>7, <1>8

(* Steps that end a result, a row or the whole refresh.                    *)
LEMMA EndsWaiting ==
    ASSUME Typed, Loops, Waiting,
           \/ StoringDone \/ SweepDone \/ StoreFault
           \/ \E r \in RowIds : FailFault(r)
    PROVE  Waiting'
<1>1. rows' = rows /\ \A r : Waits(r)' => Waits(r)
  BY DEF StoringDone, SweepDone, StoreFault, FailFault, ResetRun, table, Waits
<1>2. \A r : Waits(r) => /\ r \in DOMAIN target /\ r \notin terminal /\ Matches(r)
                         /\ phase = "sweeping" => r \in work
  BY Held DEF Waiting
<1>3. request.kind = "single" /\ phase = "storing" => \A r : Waits(r) => r \in work
  BY DEF Waiting, OneRow
<1>4. ASSUME SweepDone PROVE Waiting'
  BY <1>1, <1>2, <1>4, EndWaiting DEF SweepDone
<1>5. ASSUME StoringDone PROVE Waiting'
  <2>1. CASE request.kind = "single"
    BY <1>1, <1>3, <1>5, <2>1, EndWaiting DEF StoringDone
  <2>2. CASE request.kind # "single"
    <3>1. /\ UNCHANGED plan /\ terminal' = terminal /\ orphans' = orphans
          /\ phase' \in {"activating", "fetching"} /\ rereading' = rereading
          /\ phase \notin Unset
      BY <1>5, <2>2 DEF StoringDone, Unset
    <3>2. OneRow'
      BY <2>2, <3>1 DEF OneRow, plan
    <3> QED
      BY <1>1, <1>2, <3>1, <3>2, WaitFrame DEF Unset
  <2> QED
    BY <2>1, <2>2
<1>6. ASSUME StoreFault PROVE Waiting'
  <2>1. CASE request.kind = "single"
    <3>1. \A r : ~Waits(r)'
      BY <1>1, <1>2, <1>3, <1>6, <2>1 DEF StoreFault, Waits
    <3> QED
      BY <1>6, <2>1, <3>1, EndWaiting DEF StoreFault
  <2>2. CASE request.kind # "single"
    <3>1. /\ UNCHANGED plan /\ terminal' = terminal /\ orphans' = orphans
          /\ phase' = "failing" /\ rereading' = NoRow /\ phase \notin Unset
      BY <1>6, <2>2 DEF StoreFault, StartFailing, tally, Unset
    <3>2. OneRow'
      BY <2>2, <3>1 DEF OneRow, plan
    <3> QED
      BY <1>1, <1>2, <3>1, <3>2, WaitFrame DEF Unset
  <2> QED
    BY <2>1, <2>2
<1>7. ASSUME NEW r \in RowIds, FailFault(r) PROVE Waiting'
  <2>1. /\ UNCHANGED plan /\ orphans \subseteq orphans' /\ work' = work \ {r}
        /\ phase' = phase /\ rereading' = rereading /\ phase \in {"failing", "sweeping"}
        /\ terminal' \subseteq terminal \cup {r}
        /\ (Matches(r) /\ rows[r].status \in Active => r \in orphans')
    BY <1>7 DEF FailFault, InCleanup, CountRow, tally
  <2>2. \A x : Waits(x)' => x # r
    BY <1>1, <1>2, <2>1 DEF Waits
  <2>3. OneRow'
    BY <2>1 DEF Waiting, OneRow, plan
  <2> QED
    BY <1>1, <1>2, <2>1, <2>2, <2>3, WaitFrame DEF Unset
<1> QED
  BY <1>4, <1>5, <1>6, <1>7

LEMMA WaitingStep ==
    ASSUME Typed, Typed', Loops, Gens, Waiting, Next
    PROVE  Waiting'
BY ActorWaiting, SetupWaiting, AdmissionWaiting, WritesWaiting, MovesWaiting, EndsWaiting
   DEF Next, RunStep, Fault

(* A row shown as pending or loading is still on the list of the refresh   *)
(* in progress, or is one of the orphans counted.                          *)
THEOREM NothingStranded == Spec => []NoStrandedRow
<1>1. Init => Waiting
  BY BootAssumption DEF Init, Waiting, NoStrandedRow, ReadBack, OneRow
<1>2. Waiting /\ UNCHANGED vars => Waiting'
  <2> SUFFICES ASSUME Waiting, UNCHANGED vars PROVE Waiting'
    OBVIOUS
  <2>1. (\A r : Waits(r)' <=> Waits(r)) /\ (\A r : Matches(r)' <=> Matches(r))
    BY DEF vars, table, plan, Waits, Matches
  <2>2. NoStrandedRow'
    BY <2>1, Held, HeldNext DEF Waiting, vars, plan, tally
  <2>3. ReadBack' /\ OneRow'
    BY <2>1 DEF Waiting, ReadBack, OneRow, vars, table, plan, queue
  <2> QED
    BY <2>2, <2>3 DEF Waiting
<1>3. Typed /\ Loops /\ Gens /\ Waiting /\ [Next]_vars => Waiting'
  BY <1>2, NextTyped, WaitingStep
<1> QED
  BY <1>1, <1>3, GensInvariant, PTL DEF Spec, Waiting

(***************************************************************************)
(* What a refresh reports is true                                          *)
(***************************************************************************)

(* While results arrive, the groups moved to loading are ahead of those    *)
(* that may be in flight.                                                  *)
Started ==
    LET n == Cardinality(delivered)
    IN  /\ phase = "fetching" => next = Len(groups) \/ next >= EngineSlots + n
        /\ phase \in {"storing", "activating"} =>
              next = Len(groups) \/ next >= EngineSlots + n - 1

(* A row captured at setup and not replaced since is counted, about to be  *)
(* read back or still waiting; counted rows are reported with the result   *)
(* they came with.                                                         *)
Outstanding ==
    phase \notin Unset /\ ~storeError =>
        /\ phase # "storing" => reported = terminal
        /\ \A r \in DOMAIN target : Matches(r) =>
              /\ r \notin orphans
              /\ r \in terminal \/ r = rereading \/ rows[r].status \in Active

(* Setup moves as many groups to loading as it may, and every row it       *)
(* selects to a waiting state.                                             *)
LEMMA SetupPlan ==
    ASSUME Typed, Setup, SetupDone, ~ResetRun
    PROVE  /\ groups' \in Seq(Lookups) /\ (next' = Len(groups') \/ next' = EngineSlots)
           /\ \A r \in Selected : rows'[r].status \in Active
<1> DEFINE found == {rows[r].lookup : r \in Selected}
           first == IF Cardinality(found) < EngineSlots
                      THEN Cardinality(found) ELSE EngineSlots
<1>1. PICK order \in [1 .. Cardinality(found) -> found] :
        /\ groups' = order
        /\ next' = first
        /\ rows' = [r \in DOMAIN rows |->
             IF r \notin Selected THEN rows[r]
             ELSE [rows[r] EXCEPT !.status =
                    IF rows[r].lookup \in {order[i] : i \in 1 .. first}
                      THEN "loading" ELSE "pending"]]
  BY DEF Setup
<1>2. found \subseteq Lookups /\ Cardinality(found) \in Nat
  BY SelectedIn, ImageFinite, CardinalityType DEF Typed, TypeOK, TableOK, Row
<1>3. \A r \in Selected : rows'[r].status \in Active
  <2> DEFINE started == {order[i] : i \in 1 .. first}
  <2>1. rows' = [r \in DOMAIN rows |->
             IF r \notin Selected THEN rows[r]
             ELSE [rows[r] EXCEPT !.status =
                    IF rows[r].lookup \in started THEN "loading" ELSE "pending"]]
    BY <1>1
  <2> HIDE DEF started
  <2> QED
    BY <2>1, SelectedIn DEF Typed, TypeOK, TableOK, Row
<1> HIDE DEF found
<1>4. groups' \in Seq(Lookups) /\ Len(groups') = Cardinality(found)
  BY <1>1, <1>2
<1> QED
  BY <1>1, <1>3, <1>4

LEMMA StartedStep ==
    ASSUME Typed, Typed', Loops, Started, Next
    PROVE  Started'
<1> USE DEF Unset
<1>1. Cardinality(delivered) \in Nat /\ EngineSlots \in Nat /\ next \in Nat /\ Len(groups) \in Nat
      /\ IsFiniteSet(delivered)
  BY RowsFinite, FS_Subset, FS_CardinalityType, SlotsAssumption DEF Typed, TypeOK, RunOK
<1>2. ASSUME phase' \notin {"fetching", "storing", "activating"} PROVE Started'
  BY <1>2 DEF Started
<1>3. ASSUME UNCHANGED <<groups, next, delivered>>,
             phase' = phase \/ (phase = "storing" /\ phase' = "activating")
                \/ (phase = "storing" /\ phase' = "fetching" /\ next = Len(groups))
      PROVE  Started'
  BY <1>3 DEF Started
<1>4. ASSUME ActorStep PROVE Started'
  BY <1>3, <1>4, ActorWrites DEF ActorEffect, RunUnchanged, plan, queue
<1>5. ASSUME NEW req, RequestRows(req) PROVE Started'
  BY <1>2, <1>5 DEF RequestRows
<1>6. ASSUME BindRequest \/ SetupFault \/ SweepDone \/ CrashAndRecover PROVE Started'
  BY <1>2, <1>6 DEF BindRequest, SetupFault, SweepDone, CrashAndRecover, ResetRun
<1>7. ASSUME Setup PROVE Started'
  <2>1. CASE ResetRun
    BY <1>2, <2>1 DEF ResetRun
  <2>2. CASE ~ResetRun
    <3>1. SetupDone /\ delivered' = {} /\ Cardinality({}) = 0
      BY <1>7, <2>2, SetupEffect, FS_EmptySet DEF SetupDone, Loops
    <3>2. next' = Len(groups') \/ next' = EngineSlots
      BY <1>7, <2>2, <3>1, SetupPlan
    <3> QED
      BY <1>1, <3>1, <3>2 DEF SetupDone, Started
  <2> QED
    BY <2>1, <2>2
<1>8. ASSUME NEW l \in Lookups, NEW o \in {"ok", "failed"}, Deliver(l, o) PROVE Started'
  <2>1. /\ l \notin delivered /\ delivered' = delivered \cup {l}
        /\ UNCHANGED <<groups, next>> /\ phase = "fetching" /\ phase' = "storing"
    BY <1>8 DEF Deliver, InFlight, plan
  <2>2. Cardinality(delivered') = Cardinality(delivered) + 1
    BY <1>1, <2>1, FS_AddElement
  <2> QED
    BY <1>1, <2>1, <2>2 DEF Started
<1>9. ASSUME NEW r \in RowIds, StoreRow(r) \/ ActivateRow(r) \/ FailRow(r) \/ FailFault(r)
      PROVE  Started'
  BY <1>3, <1>9 DEF StoreRow, ActivateRow, FailRow, FailFault, plan, queue
<1>10. ASSUME Reread \/ RereadFault PROVE Started'
  BY <1>3, <1>10 DEF Reread, RereadFault, plan, queue
<1>11. ASSUME StoringDone PROVE Started'
  <2>1. CASE request.kind = "single"
    BY <1>2, <1>11, <2>1 DEF StoringDone, ResetRun
  <2>2. CASE request.kind # "single"
    <3>1. UNCHANGED <<groups, next, delivered>> /\ next <= Len(groups)
      BY <1>11, <2>2 DEF StoringDone, plan, queue, Typed, TypeOK, RunOK
    <3>2. phase = "storing" /\ phase' = (IF next < Len(groups) THEN "activating" ELSE "fetching")
      BY <1>11, <2>2 DEF StoringDone
    <3> QED
      BY <1>1, <1>3, <3>1, <3>2
  <2> QED
    BY <2>1, <2>2
<1>12. ASSUME StoreFault \/ ActivateFault \/ FetchEnds \/ WorkerFails \/ FailingDone
       PROVE  Started'
  BY <1>2, <1>12 DEF StoreFault, ActivateFault, FetchEnds, WorkerFails, FailingDone,
                     StartFailing, ResetRun
<1>13. ASSUME ActivationDone PROVE Started'
  <2>1. /\ next' = next + 1 /\ UNCHANGED <<groups, delivered>> /\ next < Len(groups)
        /\ phase = "activating" /\ phase' = "fetching"
    BY <1>13 DEF ActivationDone, plan, Typed, Shape
  <2> QED
    BY <1>1, <2>1 DEF Started
<1> QED
  BY <1>4, <1>5, <1>6, <1>7, <1>8, <1>9, <1>10, <1>11, <1>12, <1>13 DEF Next, RunStep, Fault

(* A command that makes an orphan makes it of a row that was not there.    *)
LEMMA ActorOrphans ==
    ASSUME ActorStep
    PROVE  \A r : r \in orphans' => r \in orphans \/ r \notin DOMAIN rows
<1>1. ASSUME NEW r \in DOMAIN rows, NEW t \in RowIds, NEW s \in Sheets,
             NEW move \in BOOLEAN, TransferRow(r, t, s, move)
      PROVE  t \notin DOMAIN rows /\ orphans' \subseteq orphans \cup {t}
  BY <1>1 DEF TransferRow
<1>2. ASSUME NEW r, NEW s, NEW l, EditRow(r, s, l) \/ ReplaceRows(r, s, l)
      PROVE  orphans' = orphans
  BY <1>2 DEF EditRow, ReplaceRows
<1>3. ASSUME NEW D, DeleteRows(D) PROVE orphans' = orphans
  BY <1>3 DEF DeleteRows
<1>4. ASSUME NEW d, RestoreWorkspace(d) PROVE orphans' = orphans
  BY <1>4 DEF RestoreWorkspace
<1> QED
  BY <1>1, <1>2, <1>3, <1>4 DEF ActorStep

(* A step that neither writes a row nor counts one.                        *)
LEMMA OutstandingFrame ==
    ASSUME Outstanding, phase \notin Unset,
           UNCHANGED <<rows, plan, terminal, storeError, orphans, rereading>>,
           phase' = "storing" \/ reported' = terminal
              \/ (phase # "storing" /\ reported' = reported)
    PROVE  Outstanding'
BY DEF Outstanding, plan, Matches

LEMMA OutstandingActor ==
    ASSUME Typed, Gens, Outstanding, ActorStep
    PROVE  Outstanding'
<1>1. ActorEffect
  BY ActorWrites
<1>2. UNCHANGED <<phase, target, terminal, reported, rereading, storeError>>
  BY <1>1 DEF ActorEffect, RunUnchanged, plan, tally, errors
<1>3. ASSUME phase \notin Unset, NEW r \in DOMAIN target, Matches(r)'
      PROVE  /\ Matches(r) /\ rows'[r] = rows[r]
             /\ r \in orphans' => r \in orphans
  <2>1. r \in DOMAIN rows' /\ rows'[r].gen = target[r].gen /\ rows'[r].lookup = target[r].lookup
    BY <1>2, <1>3 DEF Matches
  <2>2. target[r].gen # nextGen
    BY <1>3, GensNat DEF Gens
  <2>3. r \in DOMAIN rows /\ rows'[r] = rows[r]
    BY <1>1, <2>1, <2>2 DEF ActorEffect
  <2> QED
    BY <2>1, <2>3, ActorOrphans DEF Matches
<1> QED
  BY <1>2, <1>3 DEF Outstanding

LEMMA OutstandingStep ==
    ASSUME Typed, Loops, CountsAgree, Gens, Outstanding, Next
    PROVE  Outstanding'
<1> USE DEF Unset
<1>1. ASSUME phase' \in Unset \/ storeError' PROVE Outstanding'
  BY <1>1 DEF Outstanding
<1>2. \A r \in DOMAIN target : r # NoRow
  BY NoRowAssumption DEF Typed, TypeOK, RunOK
<1>3. ASSUME NEW req, RequestRows(req) PROVE Outstanding'
  BY <1>1, <1>3 DEF RequestRows
<1>4. ASSUME BindRequest \/ SetupFault \/ SweepDone \/ CrashAndRecover PROVE Outstanding'
  BY <1>1, <1>4 DEF BindRequest, SetupFault, SweepDone, CrashAndRecover, ResetRun
<1>5. ASSUME Setup PROVE Outstanding'
  <2>1. CASE ResetRun
    BY <1>1, <2>1 DEF ResetRun
  <2>2. CASE ~ResetRun
    <3>1. SetupDone /\ terminal' = {} /\ reported' = {}
      BY <1>5, <2>2, SetupEffect DEF SetupDone, Loops, CountsAgree, tally
    <3>2. \A r \in Selected : rows'[r].status \in Active
      BY <1>5, <2>2, <3>1, SetupPlan
    <3> QED
      BY <3>1, <3>2 DEF SetupDone, Outstanding
  <2> QED
    BY <2>1, <2>2
<1>6. ASSUME \/ \E l \in Lookups, o \in {"ok", "failed"} : Deliver(l, o)
             \/ ActivationDone \/ FailingDone
      PROVE  Outstanding'
  BY <1>6, OutstandingFrame DEF Deliver, ActivationDone, FailingDone, table, tally, errors
<1>7. ASSUME FetchEnds \/ WorkerFails PROVE Outstanding'
  BY <1>7, OutstandingFrame DEF FetchEnds, WorkerFails, StartFailing, Loops, table, tally, errors
<1>8. ASSUME NEW r \in RowIds, StoreRow(r) \/ ActivateRow(r) \/ FailRow(r) PROVE Outstanding'
  <2>1. /\ UNCHANGED <<plan, terminal, reported, storeError, phase, orphans>>
        /\ rereading = NoRow /\ phase \notin Unset
    BY <1>8 DEF StoreRow, ActivateRow, FailRow, InCleanup, Loops, tally, errors
  <2>2. CASE rows' = rows /\ rereading' = rereading
    BY <2>1, <2>2, OutstandingFrame
  <2>3. CASE /\ Matches(r)
             /\ DOMAIN rows' = DOMAIN rows
             /\ \A x \in DOMAIN rows :
                  /\ rows'[x].gen = rows[x].gen /\ rows'[x].lookup = rows[x].lookup
                  /\ x # r => rows'[x] = rows[x]
             /\ rereading' = r \/ (rereading' = rereading /\ rows'[r].status \in Active)
    <3>1. \A x \in DOMAIN target : Matches(x)' => Matches(x)
      BY <2>1, <2>3 DEF Matches, plan
    <3>2. \A x \in DOMAIN target : Matches(x) /\ x # r => rows'[x] = rows[x]
      BY <2>3 DEF Matches
    <3> QED
      BY <1>2, <2>1, <2>3, <3>1, <3>2 DEF Outstanding, plan
  <2>4. CASE StoreRow(r) /\ Matches(r)
    BY <2>3, <2>4, StoreWrites DEF StoreRow
  <2>5. CASE ActivateRow(r) /\ Matches(r)
    BY <2>3, <2>5, StatusWrites DEF ActivateRow, Matches, Status
  <2>6. CASE FailRow(r) /\ Matches(r) /\ (phase = "sweeping" => rows[r].status \in Active)
    BY <2>3, <2>6, StatusWrites DEF FailRow, Matches, Status
  <2> QED
    BY <1>8, <2>2, <2>4, <2>5, <2>6 DEF StoreRow, ActivateRow, FailRow
<1>9. ASSUME Reread PROVE Outstanding'
  <2>1. /\ UNCHANGED <<rows, plan, storeError, phase, orphans>> /\ rereading' = NoRow
        /\ phase \notin Unset /\ rereading # NoRow
    BY <1>9 DEF Reread, Loops, table, errors
  <2>2. CASE Matches(rereading)
    <3>1. terminal' = terminal \cup {rereading}
          /\ (phase # "storing" => reported' = reported \cup {rereading})
      BY <1>9, <2>2 DEF Reread, CountRow
    <3> QED
      BY <2>1, <3>1 DEF Outstanding, plan, Matches
  <2>3. CASE ~Matches(rereading)
    <3>1. UNCHANGED <<terminal, reported>>
      BY <1>9, <2>3 DEF Reread, tally
    <3> QED
      BY <2>1, <2>3, <3>1 DEF Outstanding, plan, Matches
  <2> QED
    BY <2>2, <2>3
<1>10. ASSUME StoringDone PROVE Outstanding'
  <2>1. CASE request.kind = "single"
    BY <1>1, <1>10, <2>1 DEF StoringDone, ResetRun
  <2>2. CASE request.kind # "single"
    BY <1>10, <2>2, OutstandingFrame DEF StoringDone, table
  <2> QED
    BY <2>1, <2>2
<1>11. ASSUME StoreFault \/ ActivateFault \/ RereadFault \/ (\E r \in RowIds : FailFault(r))
       PROVE  Outstanding'
  BY <1>1, <1>11 DEF StoreFault, ActivateFault, RereadFault, FailFault, ResetRun
<1> QED
  BY <1>3, <1>4, <1>5, <1>6, <1>7, <1>8, <1>9, <1>10, <1>11, OutstandingActor
     DEF Next, RunStep, Fault

(* No lookup is in flight before its rows were moved to loading, as long   *)
(* as the host runs no more of them at a time than the engine has slots;   *)
(* and a batch that ends without storage error has settled and reported    *)
(* each of its rows that was not replaced.                                 *)
THEOREM Reporting ==
    ASSUME HostSlots <= EngineSlots
    PROVE  Spec => []RefreshReported
<1>1. Init => Started /\ Outstanding
  BY DEF Init, Started, Outstanding, Unset
<1>2. Typed /\ Loops /\ CountsAgree /\ Gens /\ Started /\ Outstanding /\ [Next]_vars =>
        Started' /\ Outstanding'
  <2>1. Started /\ Outstanding /\ UNCHANGED vars => Started' /\ Outstanding'
    BY DEF Started, Outstanding, vars, table, plan, queue, tally, errors, Matches
  <2> QED
    BY <2>1, NextTyped, StartedStep, OutstandingStep
<1>3. Typed /\ Started => StartedAfterActivation
  <2> SUFFICES ASSUME Typed, Started, phase = "fetching"
               PROVE  InFlight \subseteq Prefix(next)
    BY DEF StartedAfterActivation
  <2> DEFINE n == Cardinality(delivered) + HostSlots
  <2>1. /\ n \in Nat /\ next \in Nat /\ Len(groups) \in Nat
        /\ next = Len(groups) \/ next >= n
    BY RowsFinite, FS_Subset, FS_CardinalityType, SlotsAssumption
       DEF Typed, TypeOK, RunOK, Started
  <2> HIDE DEF n
  <2>2. Prefix(n) \subseteq Prefix(next)
    BY <2>1 DEF Prefix
  <2> QED
    BY <2>2 DEF InFlight, n
<1>4. Typed /\ Outstanding /\ NoStrandedRow => CompleteReport
  <2> SUFFICES ASSUME Typed, Outstanding, NoStrandedRow, phase = "sweeping", work = {},
                      rereading = NoRow, ~storeError, NEW r \in DOMAIN target, Matches(r)
               PROVE  rows[r].status \notin Active /\ r \in reported
    BY DEF CompleteReport
  <2>1. r \notin orphans /\ (r \in terminal \/ rows[r].status \in Active \/ r = NoRow)
        /\ reported = terminal
    BY DEF Outstanding, Unset
  <2>2. rows[r].status \notin Active
    BY <2>1 DEF NoStrandedRow, Matches
  <2>3. r # NoRow
    BY NoRowAssumption DEF Typed, TypeOK, RunOK
  <2> QED
    BY <2>1, <2>2, <2>3
<1> QED
  BY <1>1, <1>2, <1>3, <1>4, GensInvariant, LoopsInvariant, NothingStranded, PTL
     DEF Spec, RefreshReported

=============================================================================
