------------------------------ MODULE MCPages ------------------------------
(* The pages that an instance's sources may answer with.                   *)
EXTENDS Upstream, PageReports, TLC

MCClocks == {"14:25"}
MCDecimals == {"-2.5", "140.7"}
Found1 == <<"diterima", "ybs">>
Unknown1 == <<"alamat", "tidak", "dikenal">>
Empty1 == <<"rumah", "kosong">>
MCDeliveredNotes == {Found1}
MCFailedNotes == {Unknown1}
MCAgainNotes == {Empty1}
MCTimeOf == "t1" :> 1 @@ "t2" :> 2 @@ "t3" :> 3 @@ "t9" :> 9
MCKoliOf == "p1" :> <<"p1.1", "p1.2">>

-----------------------------------------------------------------------------
(* Events.  The first of two entries may be the later one: POS writes some *)
(* of them days afterwards.                                                *)

Both == <<"p1.1", "p1.2">>
XY == <<"-2.5", ",", "140.7">>
Event(kind, koli, by, place, to, what, xy, means) ==
    [kind |-> kind, koli |-> koli, by |-> by, place |-> place, to |-> to, what |-> what,
     xy |-> xy, means |-> means, at |-> "t1"]
Akbar == <<"akbar", "m">>
Kurir == <<"kurir", "(", "560", ")">>
Jaya == <<"dc", "jayapura", "99100">>
Aimas == <<"kcp", "aimas">>

RunsheetA == Event("runsheet", <<"p1.1">>, Akbar, Jaya, Kurir, Nothing, Nothing, Nothing)
RunsheetB == Event("runsheet", Both, Akbar, Aimas, <<"enos">>, Nothing, XY, Nothing)
Attempt == Event("attempt", <<"p1.2">>, Kurir, Nothing, Nothing, Empty1, Nothing, OnProcess)
Open == Event("open attempt", <<"p1.1">>, <<"enos">>, Nothing, Nothing,
              <<"gagal", "antar", "rumah">>, Nothing, FailedToDelivered)
System == Event("system", <<"p1.2">>, Nothing, Nothing, Nothing, <<"failedtodelivered">>,
                Nothing, <<"failedtodelivered">>)
Delivery == Event("delivery", <<"p1.1">>, Kurir, Nothing, <<"amanda">>, Found1, Nothing, Delivered)
Bare == Event("bare", <<"p1.2">>, Nothing, Nothing, Nothing, Nothing, Nothing, Delivered)
Bagged(b) == Event("bagging", Both, Akbar, Jaya, Nothing, <<b>>, Nothing, Nothing)
Unbagged(b) == Event("unbagging", <<"p1.1">>, <<"enos">>, Aimas, Nothing, <<b>>, Nothing, Nothing)
Sent == Event("manifest", <<"p1.2">>, Akbar, Jaya, Aimas, <<"r71">>, Nothing, Nothing)
Damaged == Event("irregularity", <<"p1.1">>, Akbar, Jaya, Nothing, <<"rusak">>, XY, Nothing)
Arrived == Event("receiving", Both, Akbar, Aimas, Nothing, Nothing, Nothing, Nothing)
Made == Event("connote", <<>>, <<"importoperator">>, <<"luar", "negeri">>, Nothing, Nothing,
              Nothing, Nothing)

Rounds == {RunsheetA, RunsheetB, Attempt, System, Delivery, Bare}
BagMoves == {Bagged("k1"), Unbagged("k1"), Bagged("k2")}
Events == Rounds \cup BagMoves \cup {Open, Sent, Damaged, Arrived, Made}
Dated(events, word) == [i \in DOMAIN events |-> [events[i] EXCEPT !.at = word[i]]]

Histories ==
    {Dated(<<e>>, <<"t2">>) : e \in Events}
    \cup {Dated(s, w) : s \in [1 .. 2 -> Events], w \in {<<"t1", "t2">>, <<"t3", "t2">>}}
    \cup {Dated(s, <<"t1", "t3", "t2">>) : s \in [1 .. 3 -> Rounds]}
    \cup {Dated(s, <<"t1", "t2", "t3">>) : s \in [1 .. 3 -> BagMoves]}

-----------------------------------------------------------------------------
(* What stands above them: a final status with and without its place, and  *)
(* the two layouts of the proof of delivery.                               *)

Final(status, place, delivers) ==
    [status |-> status, place |-> place, delivers |-> delivers, by |-> <<"saiful">>, at |-> "t9"]
Finals == {Final(Delivered, Nothing, TRUE), Final(OnProcess, Nothing, TRUE),
           Final(<<"inlocation">>, Nothing, FALSE),
           Final(Delivered \o <<"(", "return", "delivery", ")">>, Aimas, TRUE)}
PodTold(one, two, signature, coordinate) ==
    [photo1 |-> one, photo2 |-> two, signature |-> signature, coordinate |-> coordinate]
NamedPod ==
    [page |-> [headings |-> <<{"SIGNATURE"}, {"COORDINATE"}, {"PHOTO"}, {"PHOTO", "PHOTO2"}>>,
               cells |-> <<"s", "c", "one", "two">>],
     told |-> PodTold("one", "two", "s", "c")]
SpannedPod ==
    [page |-> [headings |-> <<{"POD"}, {"PHOTO"}, {"PHOTO", "PHOTO2"}, {}, {}>>,
               cells |-> <<"one", "two", "s", "c">>],
     told |-> PodTold("one", "two", "s", "c")]
NoPod == [page |-> [headings |-> <<{}>>, cells |-> <<>>], told |-> PodTold("", "", "", "")]

Story(events, final, pod, office) ==
    [events |-> events, final |-> final, pod |-> pod, office |-> office, number |-> <<"p1">>,
     koli |-> Both]
StoriesOf(form) ==
    {Story(h, form[3], NoPod, Nothing) : h \in {g \in Histories : [g[1] EXCEPT !.at = "t1"] = form[2]}}
PodStories ==
    {Story(<<RunsheetA>>, f, pod, Jaya) : f \in Finals, pod \in {NamedPod, SpannedPod}}

TrackingBody(page) == [text |-> TRUE, page |-> page]
StoryBody(story) == [text |-> TRUE, page |-> PageOf(story), story |-> story]

-----------------------------------------------------------------------------
(* The page of a bag, its columns turned and turned round, one of them     *)
(* twice.                                                                  *)

Columns == <<"no", "resi", "kantor_kirim", "tanggal_kirim", "posisi_akhir", "status",
             "tanggal_update", "jatuh_tempo", "petugas_update">>
Turned(k) == SubSeq(Columns, k, 9) \o SubSeq(Columns, 1, k - 1)
Item(n) == [f \in Range(Columns) |-> IF f = "no" THEN n ELSE f]
BagStories ==
    {[columns |-> c, items |-> <<Item("1"), Item("2")>>] :
        c \in {Turned(k) : k \in 1 .. 9} \cup {Reverse(Columns)}
             \cup {<<"status">> \o Turned(k) : k \in 1 .. 9}}
BagBody(tables, story) == [text |-> TRUE, tables |-> tables, story |-> story]

-----------------------------------------------------------------------------
(* What is asked of POS: all its stories; and pages that say no shipment,  *)
(* say nothing, are too long in each way, or are not even text.            *)

Plain == PageOf(Story(<<Arrived>>, Final(<<"inlocation">>, Aimas, FALSE), NoPod, Jaya))
Bare0 == [Plain EXCEPT !.number = <<>>, !.status = <<>>, !.history = <<>>]
Long == PageOf(Story(<<Arrived, Arrived, Arrived, Arrived>>,
                     Final(<<"inlocation">>, Aimas, FALSE), NoPod, Jaya))
NoText == [text |-> FALSE]
PosBodies ==
    {TrackingBody(p) : p \in {Plain, Bare0, [Bare0 EXCEPT !.nothing = TRUE], Long,
                              [Plain EXCEPT !.rows = 7], [Plain EXCEPT !.amounts = FALSE]}}
    \cup {NoText}

BagTables(items) == BagTablesOf([columns |-> Columns, items |-> items])
Strange == <<[headings |-> <<{"NO"}, {"RESI"}, {"STATUS"}, {}, {}>>, rows |-> <<>>]>>
BagBodies ==
    {BagBody(BagTablesOf(b), b) : b \in BagStories}
    \cup {[text |-> TRUE, tables |-> t] :
             t \in {Strange, BagTables([i \in 1 .. 4 |-> Item("1")])}}

Row(n) == <<n, "kantung", "layanan", "1", "ok", "jayapura", "t1">>
ManifestTables(n) ==
    <<[headings |-> <<{"NO"}, {"KANTUNG"}, {"LAYANAN"}, {"BERAT"}, {"STATUS"}, {}, {}>>,
       rows |-> <<<<"total">>>> \o [i \in 1 .. n |-> Row("1")]]>>
ManifestBodies == {[text |-> TRUE, tables |-> t] : t \in {Strange, ManifestTables(1), ManifestTables(4)}}

NoBase == [ok |-> TRUE, path |-> <<>>, root |-> <<>>, versioned |-> FALSE]
OfPos(kind, statuses, bodies) ==
    [kind |-> kind, source |-> "default", id |-> TRUE, base |-> NoBase, token |-> FALSE,
     served |-> {}, statuses |-> statuses, bodies |-> bodies]
AllStatuses == {0, 200, 302, 400, 404, 429, 500, 503, 504}
PosAsked ==
    <<"pos", "track", "any">> :> OfPos("track", AllStatuses, PosBodies)
    @@ <<"pos", "track", "pods">> :> OfPos("track", {200}, {StoryBody(s) : s \in PodStories})
    @@ [form \in {<<"story", e, f>> : e \in Events, f \in Finals} |->
           OfPos("track", {200}, {StoryBody(s) : s \in StoriesOf(form)})]
    @@ <<"pos", "bag", "any">> :> OfPos("bag", {200, 404}, BagBodies)
    @@ <<"pos", "manifest", "any">> :> OfPos("manifest", {200, 503}, ManifestBodies)
    @@ <<"pos", "html", "any">> :> OfPos("html", {200, 404}, {[text |-> TRUE], NoText})
    @@ <<"pos", "status", "any">> :> OfPos("status", {200}, {})
    @@ <<"pos", "track", "bad id">> :> [OfPos("track", {200}, {}) EXCEPT !.id = FALSE]

(* What is asked of another service: every form of its base, whichever     *)
(* routes it serves.                                                       *)
Base(path, root, versioned) == [ok |-> TRUE, path |-> path, root |-> root, versioned |-> versioned]
Bases == {Base(<<>>, <<>>, FALSE), Base(<<"api">>, <<"api">>, FALSE),
          Base(<<"v1">>, <<>>, TRUE), Base(<<"api", "v1">>, <<"api">>, TRUE),
          Base(<<"v1", "openapi.json">>, <<>>, TRUE), Base(<<"v1", "api">>, <<"v1", "api">>, TRUE)}
ApiBody(parses, items, running) ==
    [text |-> TRUE, parses |-> parses, items |-> items, running |-> running]
ApiBodies == {ApiBody(TRUE, <<1>>, TRUE), ApiBody(TRUE, <<1, 2, 3, 4>>, FALSE),
              ApiBody(FALSE, <<>>, FALSE), NoText}
OfApi(kind, base, served, statuses) ==
    [kind |-> kind, source |-> "external", id |-> TRUE, base |-> base, token |-> TRUE,
     served |-> served, statuses |-> statuses, bodies |-> ApiBodies]
ApiForms == {<<"api", b, s>> : b \in Bases, s \in SUBSET {"v1", "former"}}
Served(form) ==
    {IF v = "v1" THEN form[2].root \o <<"v1">> ELSE form[2].root : v \in form[3]}
Kinds == {"track", "bag", "manifest", "status", "html"}
ApiAsked ==
    [form \in ApiForms |-> OfApi("track", form[2], Served(form), {0, 200, 404, 429})]
    @@ [k \in {<<"kind", kind>> : kind \in Kinds} |-> OfApi(k[2], NoBase, {<<"v1">>}, AllStatuses)]
    @@ <<"bad base">> :> [OfApi("track", NoBase, {}, {404}) EXCEPT !.base.ok = FALSE]
    @@ <<"no token">> :> [OfApi("status", NoBase, {}, {404}) EXCEPT !.token = FALSE]

ProbesAsked == PosAsked @@ ApiAsked
Probes == DOMAIN ProbesAsked
=============================================================================
