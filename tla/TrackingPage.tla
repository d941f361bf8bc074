---------------------------- MODULE TrackingPage ----------------------------
(***************************************************************************)
(* What is read from a tracking page (crates/shipflow-core/src/parser.rs,  *)
(* parse_tracking_html): its fields, the proof of delivery, the history,   *)
(* and what the history amounts to.                                        *)
(*                                                                         *)
(* A page is a record: `number`, the words of "NOMOR KIRIMAN"; `office`;   *)
(* `status`, those of "STATUS AKHIR"; whether its amounts are numbers;     *)
(* whether its text says that nothing was found; the first two rows of the *)
(* table of the delivery, a heading being the set of words looked for in   *)
(* it; and the rows of the history, each a sequence of cells.  A date and  *)
(* time is one word, and TimeOf its order.                                 *)
(***************************************************************************)
EXTENDS TrackingDetail

CONSTANTS
    TimeOf,          \* the instants, by the word that says them
    KoliOf,          \* the packages of a shipment in the order of their numbers
    MaxRows,         \* MAX_TRACKING_TABLE_ROWS
    MaxItems         \* MAX_PARSED_LOOKUP_ITEMS

ASSUME PageAssumption ==
    /\ \A w \in DOMAIN TimeOf : TimeOf[w] \in Nat \ {0}
    /\ MaxRows \in Nat /\ MaxItems \in Nat

Instant(words) ==
    LET i == FirstOf({j \in 1 .. Len(words) : words[j] \in DOMAIN TimeOf})
    IN  IF i = 0 THEN 0 ELSE TimeOf[words[i]]

-----------------------------------------------------------------------------
(* parse_status_akhir: `<status> di <place> oleh (<name> / <id>) tanggal : *)
(* <instant> ...`; without "oleh" the place ends at a bracket or the date. *)

Name(words) == UpTo(words, Find(words, <<"/">>))
OfficerIn(text) ==
    LET round  == Name(Bracketed(text, <<>>))
        square == LET open == After(text, <<"[">>) IN UpTo(open, Find(open, <<"]">>))
    IN  IF round # Nothing THEN round
        ELSE IF ~Has(text, <<"[">>) \/ Instant(square) # 0 \/ Find(square, <<"coordinate">>) = 1
             THEN Nothing
        ELSE Name(square)

InstantIn(text) ==
    LET said == After(After(text, <<"tanggal">>), <<":">>)
        told == Instant(UpTo(said, Preferred(<<Find(said, Handed), Find(said, <<"-">>)>>)))
    IN  IF told # 0 THEN told ELSE Instant(text)

StatusAkhir(text) ==
    LET di    == Between(text, <<"di">>)
        rest  == From(text, di + 1)
        oleh  == IF rest[1] = "oleh" THEN 1 ELSE Between(rest, <<"oleh">>)
        end   == IF oleh # 0 THEN oleh
                 ELSE Earliest({Find(rest, <<"[">>), Find(rest, <<"tanggal">>)})
        after == IF end = 0 THEN Nothing ELSE From(rest, end)
    IN  IF di = 0
        THEN [status |-> text, location |-> Nothing, officer |-> Nothing, at |-> 0]
        ELSE [status |-> UpTo(text, di), location |-> UpTo(rest, end),
              officer |-> OfficerIn(after), at |-> InstantIn(after)]

-----------------------------------------------------------------------------
(* The proof of delivery: each column is found by its heading; next to a   *)
(* third column PHOTO2 the two that follow need none; a heading POD may    *)
(* span the row, which then has a cell less.                               *)

Column(headings, Named(_)) ==
    FirstOf({i \in 1 .. Len(headings) : Named(headings[i])})

CellOf(pod, i) ==
    LET spanned == "POD" \in pod.headings[1] /\ Len(pod.cells) = Len(pod.headings) - 1
        at == IF spanned /\ i > 1 THEN i - 1 ELSE i
    IN  IF i = 0 \/ at > Len(pod.cells) THEN "" ELSE pod.cells[at]

PodOf(pod) ==
    LET named(word) == Column(pod.headings, LAMBDA h : word \in h)
        photo2 == named("PHOTO2")
        beside(word, i) == IF named(word) = 0 /\ photo2 = 3 /\ Len(pod.headings) >= i
                           THEN i ELSE named(word)
    IN  [photo1 |-> CellOf(pod, Column(pod.headings,
                                       LAMBDA h : "PHOTO" \in h /\ "PHOTO2" \notin h)),
         photo2 |-> CellOf(pod, photo2),
         signature  |-> CellOf(pod, beside("SIGNATURE", 4)),
         coordinate |-> CellOf(pod, beside("COORDINATE", 5))]

-----------------------------------------------------------------------------
(* The history, and the summary built from it entry by entry               *)

HistoryOf(rows) ==
    LET kept == SelectSeq(rows, LAMBDA r : Len(r) >= 2 /\ (r[1] # <<>> \/ r[2] # <<>>))
    IN  [i \in DOMAIN kept |-> [at |-> Instant(kept[i][1]), detail |-> kept[i][2]]]

NoEvent == [none |-> TRUE]
NoUpdate == NoEvent
NoSummary == [irregularity |-> <<>>, bags |-> <<>>, manifests |-> <<>>, sheets |-> <<>>]
AnonymousSheet == [mandor |-> Nothing, kurir |-> Nothing, lokasi |-> Nothing, at |-> 0,
                   koordinat |-> Nothing, update |-> NoUpdate]

WithIrregularity(sum, e) ==
    IF ~Has(e.detail, <<"proses", "irregularity">>) THEN sum
    ELSE [sum EXCEPT !.irregularity =
            Append(@, [at |-> e.at, said |-> IrregularityOf(e.detail)])]

\* The last event of each kind of a bag stands; bags keep their order.
BagEvent(bags, id, kind, event) ==
    LET k == FirstOf({i \in DOMAIN bags : bags[i].id = id})
        new == [id |-> id, bagging |-> NoEvent, unbagging |-> NoEvent]
    IN  IF k # 0 THEN [bags EXCEPT ![k][kind] = event]
        ELSE Append(bags, [new EXCEPT ![kind] = event])

WithBag(sum, e) ==
    LET bagging == Has(e.detail, <<"proses", "bagging">>) /\ Has(e.detail, <<"nomor", "bag">>)
        unbagging == Has(e.detail, <<"proses", "unbagging">>) /\ Has(e.detail, <<"dari", "bag">>)
        id == WordAfter(e.detail, IF bagging THEN <<"nomor", "bag">> ELSE <<"dari", "bag">>)
    IN  IF ~(bagging \/ unbagging) \/ id = Nothing THEN sum
        ELSE [sum EXCEPT !.bags = BagEvent(@, id, IF bagging THEN "bagging" ELSE "unbagging",
                                           [at |-> e.at, by |-> OlehDi(e.detail)])]

WithManifest(sum, e) ==
    IF ~Has(e.detail, <<"proses", "manifestr7">>) THEN sum
    ELSE [sum EXCEPT !.manifests = Append(@, [at |-> e.at, said |-> ManifestOf(e.detail)])]

SheetOf(e) ==
    LET by == OlehDi(e.detail)
    IN  [AnonymousSheet EXCEPT !.mandor = by.petugas, !.kurir = CourierOf(e.detail),
             !.lokasi = by.lokasi, !.at = e.at, !.koordinat = CoordinateOf(e.detail)]

UpdateOf(e, said) == [at |-> e.at, said |-> said, koordinat |-> CoordinateOf(e.detail)]

\* What is said of a delivery replaces what was said under the same sheet.
UpdatedFirst(sheets, update) ==                                 \* mutant
    IF sheets = <<>> THEN <<[AnonymousSheet EXCEPT !.update = update]>>
    ELSE [sheets EXCEPT ![1].update = update]
Updated(sheets, update) ==
    IF sheets = <<>> THEN <<[AnonymousSheet EXCEPT !.update = update]>>
    ELSE [sheets EXCEPT ![Len(sheets)].update = update]

BareDelivery == [petugas |-> Nothing, status |-> Delivered, keterangan |-> Nothing]
WithDelivery(sum, e) ==
    [sum EXCEPT !.sheets =
        IF Has(e.detail, <<"proses", "deliveryrunsheet">>) THEN Append(@, SheetOf(e))
        ELSE IF Has(e.detail, <<"proses", "antaran">>)
             THEN Updated(@, UpdateOf(e, AttemptOf(e.detail)))
        ELSE IF IsDelivery(e.detail) THEN Updated(@, UpdateOf(e, DeliveryOf(e.detail)))
        ELSE IF /\ Has(e.detail, Delivered) /\ ~Has(e.detail, FailedToDelivered)
                /\ @ # <<>>
             THEN Updated(@, UpdateOf(e, BareDelivery))
        ELSE @]

\* A final status DELIVERED that no entry reports goes to the last sheet.
WithFinal(sum, final, pod) ==
    LET n == Len(sum.sheets)
        told == sum.sheets[n].update # NoUpdate /\ sum.sheets[n].update.said.status = Delivered
        said == [petugas |-> final.officer, status |-> final.status, keterangan |-> Nothing]
    IN  IF final.status # Delivered \/ n = 0 \/ told THEN sum
        ELSE [sum EXCEPT !.sheets[n].update =
                [at |-> final.at, said |-> said,
                 koordinat |-> IF pod.coordinate = "" THEN Nothing ELSE <<pod.coordinate>>]]

SummaryOf(history, final, pod) ==
    LET step(sum, e) == WithDelivery(WithManifest(WithBag(WithIrregularity(sum, e), e), e), e)
    IN  WithFinal(FoldLeft(step, NoSummary, history), final, pod)

(* fill_missing_status_location: that of the sheet active last; of two the *)
(* later one.                                                              *)
Activity(sheet) ==
    IF sheet.update = NoUpdate THEN sheet.at ELSE Max({sheet.at, sheet.update.at})
DeliveryFlow(status) ==
    \/ status = OnProcess \/ Has(status, <<"deliveryrunsheet">>)
    \/ Has(status, FailedToDelivered) \/ Find(status, Delivered) = 1
FilledLocation(final, sheets) ==
    LET placed == {i \in DOMAIN sheets : sheets[i].lokasi # Nothing}
        last == {i \in placed : \A j \in placed :
                    \/ Activity(sheets[j]) < Activity(sheets[i])
                    \/ Activity(sheets[j]) = Activity(sheets[i]) /\ j <= i}
    IN  IF final.location # Nothing \/ ~DeliveryFlow(final.status) \/ placed = {}
        THEN final.location
        ELSE sheets[Max(last)].lokasi

-----------------------------------------------------------------------------
(* populate_shipment_structure: the packages of the shipment that the      *)
(* request or the history names, each with the last status it is given.    *)

ParentOf(id) ==
    LET parents == {p \in DOMAIN KoliOf : id \in Range(KoliOf[p])}
    IN  IF parents = {} THEN id ELSE CHOOSE p \in parents : TRUE

KoliNamed(id, history) ==
    LET all == IF ParentOf(id) \in DOMAIN KoliOf THEN KoliOf[ParentOf(id)] ELSE <<>>
    IN  SelectSeq(all, LAMBDA k :
            k = id \/ \E i \in DOMAIN history : k \in Range(history[i].detail))

KoliStatus(text) ==
    CASE Has(text, FailedToDelivered) \/ GivenUp(text)    -> FailedToDelivered
      [] Has(text, <<"telah", "diantar">>) \/ Has(text, <<"status", "delivered">>) -> Delivered
      [] Has(text, <<"deliveryrunsheet">>)                -> <<"deliveryrunsheet">>
      [] Has(text, <<"manifestr7">>) \/ Has(text, <<"manifest", "r7">>) -> <<"manifest_r7">>
      [] Has(text, <<"unbagging">>)                       -> <<"unbagging">>
      [] Has(text, <<"bagging">>)                         -> <<"bagging">>
      [] Has(text, <<"receiving">>)                       -> <<"receiving">>
      [] OTHER                                            -> Nothing

\* infer_history_location: after the last " di ".
PlaceIn(text) ==
    LET places == Places(text, <<"di">>) \ {1, Len(text)}
        after  == From(text, Max(places) + 1)
        ends   == {FirstOf(Places(after, phrase) \ {1}) :
                      phrase \in {<<"dengan", "tujuan">>, <<"dan", "nomor">>,
                                  <<",", "[", "coordinate">>, <<"[", "coordinate">>}}
    IN  IF places = {} THEN Nothing ELSE WithoutClock(UpTo(after, Earliest(ends)))

\* Of the entries that give a package a status the latest, of two the later.
Evidence(koli, history) ==
    LET about == {i \in DOMAIN history : /\ koli \in Range(history[i].detail)
                                         /\ KoliStatus(history[i].detail) # Nothing}
        latest == {i \in about : \A j \in about : history[j].at <= history[i].at}
    IN  IF about = {} THEN 0 ELSE Max(latest)

KoliSummary(koli, history, location) ==
    LET i == Evidence(koli, history)
        status == IF i = 0 THEN Nothing ELSE KoliStatus(history[i].detail)
        place  == IF i = 0 THEN Nothing ELSE PlaceIn(history[i].detail)
    IN  [koli |-> koli, status |-> status, at |-> IF i = 0 THEN 0 ELSE history[i].at,
         proof |-> status = Delivered,
         place |-> IF place = Nothing /\ status = Delivered THEN location ELSE place]

Aggregate(all) ==
    LET proven == {i \in DOMAIN all : all[i].proof}
        statuses == {all[i].status : i \in DOMAIN all}
    IN  IF Len(all) <= 1 THEN Nothing
        ELSE IF proven = DOMAIN all THEN Delivered
        ELSE IF proven # {} THEN <<"partially_delivered">>
        ELSE IF Cardinality(statuses) = 1 THEN all[1].status
        ELSE <<"in_progress">>

KoliOfPage(id, history, location) ==
    LET known == KoliNamed(id, history)
        all == [i \in DOMAIN known |-> KoliSummary(known[i], history, location)]
    IN  [koli |-> all, aggregate |-> Aggregate(all)]

-----------------------------------------------------------------------------
(* The office of origin: the heading's, else that of the entry that says   *)
(* who made the connote.                                                   *)
OriginOf(office, history) ==
    LET made == <<"connote", "telah", "dibuat", "oleh">>
        at == <<"di", "lokasi">>
        i == FirstOf({j \in DOMAIN history : Has(history[j].detail, made)})
        rest == After(history[i].detail, made)
        by == UpTo(rest, FirstOf(Places(rest, at)))
    IN  IF i = 0 THEN [kantor |-> office, petugas |-> Nothing, at |-> 0]
        ELSE [kantor |-> IF office # Nothing THEN office ELSE After(rest, at),
              petugas |-> UpTo(by, IF Has(by, <<")">>) THEN Find(by, <<"(">>) ELSE 0),
              at |-> history[i].at]

(* What a page becomes: a report, or the kind of error.                    *)
ReportOf(page) ==
    LET history == HistoryOf(page.history)
        final   == StatusAkhir(page.status)
        pod     == PodOf(page.pod)
        sum     == SummaryOf(history, final, pod)
        place   == FilledLocation(final, sum.sheets)
    IN  [number |-> page.number, origin |-> OriginOf(page.office, history), pod |-> pod,
         status |-> [final EXCEPT !.location = place], history |-> history,
         summary |-> sum,
         koli |-> KoliOfPage(IF page.number = <<>> THEN "" ELSE page.number[1], history, place)]

PageOutcome(page) ==
    IF page.rows > MaxRows \/ ~page.amounts THEN "upstream"
    ELSE IF page.number = <<>> /\ page.status = <<>>
         THEN IF page.nothing THEN "not_found" ELSE "upstream"
    ELSE IF Len(HistoryOf(page.history)) > MaxItems THEN "upstream"
    ELSE "found"
=============================================================================
