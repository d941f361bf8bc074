---------------------------- MODULE PageReports ----------------------------
(***************************************************************************)
(* What a tracking page tells: the story of a shipment, the page on which  *)
(* POS writes it, in the wording of the pages the tests of                 *)
(* crates/shipflow-core/src/parser.rs keep, and the report a reader of the *)
(* page is owed.  Nothing here is read from text.                          *)
(*                                                                         *)
(* A story is the events of a history, in the order of the page, and what  *)
(* stands above them.  An event is its kind, its instant (a word), the     *)
(* packages, who acted and where, `to` (a courier, a recipient or a        *)
(* destination), `what` (a bag, a number, a note or a status), the         *)
(* coordinates, and the status that a note stands for.                     *)
(***************************************************************************)
EXTENDS TrackingPage, LookupPages

Joined(ids) == FoldLeft(LAMBDA text, id : IF text = <<>> THEN <<id>> ELSE text \o <<",", id>>,
                        <<>>, ids)
Where(xy) == IF xy = <<>> THEN <<>> ELSE <<",", "[", "coordinate", ":">> \o xy \o <<"]">>
InBrackets(words) == <<"(">> \o words \o <<")">>

Written(e) ==
    LET goods == <<"barang">> \o Joined(e.koli)
        passed == goods \o <<"anda", "telah", "melewati", "proses">>
        round == <<"proses", "antaran">> \o Joined(e.koli)
        byIn  == <<"oleh">> \o e.by \o <<"di">> \o e.place
    IN  CASE e.kind = "connote" ->
                <<"connote", "telah", "dibuat", "oleh">> \o e.by \o <<"(", "id", ")", "di", "lokasi">>
                \o e.place
          [] e.kind = "receiving" -> passed \o <<"receiving">> \o byIn
          [] e.kind = "bagging" -> passed \o <<"bagging", "dengan", "nomor", "bag">> \o e.what \o byIn
          [] e.kind = "unbagging" -> passed \o <<"unbagging", "dari", "bag">> \o e.what \o byIn
          [] e.kind = "manifest" ->
                passed \o <<"manifestr7">> \o byIn \o <<"dengan", "tujuan">> \o e.to
                \o <<"dan", "nomor", "r7">> \o e.what
          [] e.kind = "irregularity" ->
                passed \o <<"irregularity", "dengan", "status">> \o InBrackets(e.what) \o byIn
                \o Where(e.xy)
          [] e.kind = "runsheet" ->
                passed \o <<"deliveryrunsheet">> \o byIn \o <<"dan", "diterima", "oleh">> \o e.to
                \o Where(e.xy)
          [] e.kind = "attempt" ->
                round \o <<"oleh">> \o e.by \o <<"dengan", "keterangan">> \o InBrackets(e.what)
          [] e.kind = "open attempt" ->
                round \o <<"oleh">> \o e.by \o <<"dengan", "keterangan">> \o e.what \o <<"14:25">>
          [] e.kind = "system" ->
                round \o <<"telah", "diupdate", "oleh", "system", "dengan", "status">> \o e.what
                \o <<"14:25">>
          [] e.kind = "delivery" ->
                goods \o <<"telah", "diantar", "oleh">> \o e.by \o <<"dan", "diterima", "oleh">>
                \o e.to \o InBrackets(e.what)
          [] e.kind = "bare" -> <<"paket">> \o Joined(e.koli) \o <<"delivered">>

(* Between the entries a row without text and a row of a single cell.      *)
PageOf(story) ==
    LET n == Len(story.events)
        entry(i) == <<<<story.events[i].at>>, Written(story.events[i])>>
        half == n \div 2
    IN  [number |-> story.number, office |-> story.office, amounts |-> TRUE, nothing |-> FALSE,
         rows |-> n + 2, pod |-> story.pod.page,
         status |-> story.final.status \o <<"di">> \o story.final.place
                    \o <<"oleh", "(">> \o story.final.by \o <<"/", "id", ")", "tanggal", ":">>
                    \o <<story.final.at, "kk", "kerja">>,
         history |-> [i \in 1 .. half |-> entry(i)] \o <<<<<<>>, <<>>>>, <<<<"update">>>>>>
                     \o [i \in 1 .. n - half |-> entry(half + i)]]

-----------------------------------------------------------------------------
\* The report

Chosen(story, kinds) == {i \in DOMAIN story.events : story.events[i].kind \in kinds}
InTurn(places, Of(_)) ==
    LET order == SetToSortSeq(places, <) IN [k \in DOMAIN order |-> Of(order[k])]
When(word) == TimeOf[word]

ToldIrregularity(story, i) ==
    LET e == story.events[i]
    IN  [at |-> When(e.at), said |-> [status |-> e.what, petugas |-> e.by, lokasi |-> e.place,
                                      koordinat |-> e.xy]]
ToldManifest(story, i) ==
    LET e == story.events[i]
    IN  [at |-> When(e.at), said |-> [nomor_r7 |-> e.what, petugas |-> e.by, lokasi |-> e.place,
                                      tujuan |-> e.to]]

(* A bag has one line, where it is first named, with the last of its       *)
(* baggings and the last of its unbaggings.                                *)
ToldBag(story, first) ==
    LET id == story.events[first].what
        last(kind) ==
            LET all == {i \in Chosen(story, {kind}) : story.events[i].what = id}
                e == story.events[Max(all)]
            IN  IF all = {} THEN NoEvent
                ELSE [at |-> When(e.at), by |-> [petugas |-> e.by, lokasi |-> e.place]]
    IN  [id |-> id, bagging |-> last("bagging"), unbagging |-> last("unbagging")]
FirstNamings(story) ==
    {i \in Chosen(story, {"bagging", "unbagging"}) :
        \A j \in Chosen(story, {"bagging", "unbagging"}) :
            story.events[j].what = story.events[i].what => i <= j}

(* A sheet for each runsheet; what is said of a delivery before the first  *)
(* one has a sheet without a name.  A sheet carries the last thing said    *)
(* before the next one, or the final status when that alone says delivered.*)
Tries == {"attempt", "open attempt", "system", "delivery"}
Openings(story) ==
    Chosen(story, {"runsheet"})
    \cup {i \in Chosen(story, Tries) :
             \A j \in Chosen(story, Tries \cup {"runsheet"}) : i <= j}
Under(story, i) ==
    {j \in Chosen(story, Tries \cup {"bare"}) :
        j >= i /\ \A k \in Openings(story) : k > i => j < k}
ToldUpdate(story, i) ==
    LET e == story.events[i]
        note == IF e.kind \in {"attempt", "open attempt", "delivery"} THEN e.what ELSE Nothing
        by == CASE e.kind = "bare" -> Nothing [] e.kind = "system" -> <<"system">>
                [] OTHER -> e.by
    IN  [at |-> When(e.at), koordinat |-> Nothing,
         said |-> [petugas |-> by, status |-> e.means, keterangan |-> note]]
ToldFinal(story) ==
    [at |-> When(story.final.at),
     koordinat |-> IF story.pod.told.coordinate = "" THEN Nothing
                   ELSE <<story.pod.told.coordinate>>,
     said |-> [petugas |-> story.final.by, status |-> Delivered, keterangan |-> Nothing]]
ToldSheet(story, i) ==
    LET e == story.events[i]
        sheet == IF e.kind # "runsheet" THEN AnonymousSheet
                 ELSE [mandor |-> e.by, kurir |-> e.to, lokasi |-> e.place, at |-> When(e.at),
                       koordinat |-> e.xy, update |-> NoUpdate]
        under == Under(story, i)
        final == story.final.status = Delivered /\ i = Max(Openings(story))
                 /\ (under = {} \/ story.events[Max(under)].means # Delivered)
    IN  [sheet EXCEPT !.update = IF final THEN ToldFinal(story)
                                 ELSE IF under # {} THEN ToldUpdate(story, Max(under))
                                 ELSE NoUpdate]

(* The place of the final status; of a delivery that names none, the place *)
(* of the runsheet that was active last.                                   *)
ToldPlace(story) ==
    LET sheets == Chosen(story, {"runsheet"})
        told(i) == ToldSheet(story, i)
        active(i) == IF told(i).update = NoUpdate THEN told(i).at
                     ELSE Max({told(i).at, told(i).update.at})
        top == Max({active(i) : i \in sheets})
    IN  IF story.final.place # Nothing \/ ~story.final.delivers \/ sheets = {}
        THEN story.final.place
        ELSE story.events[Max({i \in sheets : active(i) = top})].place

(* A package has the last status that an entry naming it gives it; its     *)
(* shipment the one they share, or how far they are.                       *)
ToldStatus(e) ==
    CASE e.kind \in {"bagging", "unbagging", "receiving"} -> <<e.kind>>
      [] e.kind = "manifest" -> <<"manifest_r7">>
      [] e.kind = "runsheet" -> <<"deliveryrunsheet">>
      [] e.kind = "system"   -> FailedToDelivered
      [] e.kind = "delivery" -> Delivered
      [] e.kind = "open attempt" -> e.means
      [] OTHER -> Nothing
ToldKoli(story, k) ==
    LET about == {i \in DOMAIN story.events :
                    k \in Range(story.events[i].koli) /\ ToldStatus(story.events[i]) # Nothing}
        at(i) == When(story.events[i].at)
        i == Max({j \in about : \A l \in about : at(l) <= at(j)})
    IN  IF about = {} THEN [koli |-> k, status |-> Nothing, at |-> 0]
        ELSE [koli |-> k, status |-> ToldStatus(story.events[i]), at |-> at(i)]
ToldAggregate(all) ==
    LET statuses == {k.status : k \in Range(all)}
    IN  CASE Len(all) < 2                  -> Nothing
          [] Len(all) >= 2 /\ Cardinality(statuses) = 1 -> all[1].status
          [] Len(all) >= 2 /\ Cardinality(statuses) > 1 ->
                IF Delivered \in statuses THEN <<"partially_delivered">> ELSE <<"in_progress">>

Reported(report, story) ==
    /\ report.history = [i \in DOMAIN story.events |->
           [at |-> When(story.events[i].at), detail |-> Written(story.events[i])]]
    /\ report.summary.irregularity =
           InTurn(Chosen(story, {"irregularity"}), LAMBDA i : ToldIrregularity(story, i))
    /\ report.summary.manifests =
           InTurn(Chosen(story, {"manifest"}), LAMBDA i : ToldManifest(story, i))
    /\ report.summary.bags = InTurn(FirstNamings(story), LAMBDA i : ToldBag(story, i))
    /\ report.summary.sheets = InTurn(Openings(story), LAMBDA i : ToldSheet(story, i))
    /\ report.status = [status |-> story.final.status, location |-> ToldPlace(story),
                        officer |-> story.final.by, at |-> When(story.final.at)]
    /\ report.pod = story.pod.told
    /\ LET named == SelectSeq(story.koli, LAMBDA k :
                        \E i \in DOMAIN story.events : k \in Range(story.events[i].koli))
           told == [j \in DOMAIN named |-> ToldKoli(story, named[j])]
       IN  /\ [j \in DOMAIN report.koli.koli |->
                 [f \in {"koli", "status", "at"} |-> report.koli.koli[j][f]]] = told
           /\ report.koli.aggregate = ToldAggregate(told)
    /\ report.origin.kantor =
           IF story.office # Nothing \/ Chosen(story, {"connote"}) = {} THEN story.office
           ELSE story.events[Min(Chosen(story, {"connote"}))].place

-----------------------------------------------------------------------------
(* The page of a bag: its columns in any order, the second of two equal    *)
(* ones filled; before the table another one, and in it a row that is too  *)
(* short and one that says nothing.                                        *)

BagHeading ==
    [no |-> {"NO"}, resi |-> {"NO", "RESI"}, kantor_kirim |-> {"KANTOR", "KIRIM"},
     tanggal_kirim |-> {"TANGGAL", "KIRIM"}, posisi_akhir |-> {"LOKASI"}, status |-> {"STATUS"},
     tanggal_update |-> {"TANGGAL", "UPDATE"}, jatuh_tempo |-> {"JATUH", "TEMPO"},
     petugas_update |-> {"PETUGAS"}]
BagTablesOf(story) ==
    LET field(j) == story.columns[j]
        last(j) == \A k \in DOMAIN story.columns : field(k) = field(j) => k <= j
        row(item) == [j \in DOMAIN story.columns |-> IF last(j) THEN item[field(j)] ELSE "old"]
        nothing == [j \in DOMAIN story.columns |-> ""]
    IN  <<[headings |-> <<{"NO"}, {"RESI"}>>, rows |-> <<>>],
          [headings |-> [j \in DOMAIN story.columns |-> BagHeading[field(j)]],
           rows |-> <<nothing, <<"total">>>>
                    \o [i \in DOMAIN story.items |-> row(story.items[i])]]>>
=============================================================================
