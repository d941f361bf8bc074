---------------------------- MODULE MCEnrichment ----------------------------
(* Instances of Enrichment for TLC.                                        *)
EXTENDS Enrichment, MCPages

CONSTANTS s1, s2, b1, b2, f1, f2, t1, t2, t3, t4, l1, m1, m2, m3

MCShipment == t1 :> s1 @@ t2 :> s1 @@ t3 :> s1 @@ t4 :> s1
MCBagsOf == t1 :> {} @@ t2 :> {} @@ t3 :> {b1} @@ t4 :> {b1, b2}
MCBag == l1 :> b1
MCManifest == m1 :> f1 @@ m2 :> f1 @@ m3 :> f2
MCPrimary == t1 :> {{}, {"pengirim"}} @@ t2 :> {{}} @@ t3 :> {Parties} @@ t4 :> {Parties}

(* A complete contact of each source, one old enough to retry, one that no *)
(* longer decodes; a neighbour that only takes room.                       *)
Contact(sender, recipient, age, decodes, source) ==
    [phones |-> [p \in Parties |-> IF p = "pengirim" THEN sender ELSE recipient],
     status |-> ContactStatus([p \in Parties |-> IF p = "pengirim" THEN sender ELSE recipient]),
     age |-> age, source |-> source, decodes |-> decodes]
Neighbour == Contact("lacak_mitra", NoPhone, Recent, TRUE, "lacak_mitra")
MCBootContacts ==
    {s1 :> c @@ s2 :> n :
        c \in {NoContact, Contact("pid_detail", NoPhone, Due, TRUE, "pid_detail"),
               Contact("lacak_mitra", "pid_detail", Recent, FALSE, "mixed")},
        n \in {NoContact, Neighbour}}

Label(route, status, decodes) == [route |-> route, due |-> TRUE, decodes |-> decodes, status |-> status]
MCBootRoutes ==
    {b1 :> NoRow @@ b2 :> Label(Offices, "ok", TRUE),
     b1 :> Label({"tujuan"}, "partial", TRUE) @@ b2 :> NoRow,
     b1 :> Label(Offices, "ok", FALSE) @@ b2 :> NoRow}

(* The contacts of each shipment: any of the phones, the last row of two,  *)
(* and a page without the recipient.  Labels: each office, both, none.     *)
Party(party, phone) == [party |-> party, phone |-> phone]
MCContactPages ==
    {[id |-> s, rows |-> <<Party("pengirim", TRUE), Party("penerima", r), Party("pengirim", p)>>] :
        s \in {s1, s2}, r \in BOOLEAN, p \in BOOLEAN}
    \cup {[id |-> s1, rows |-> <<Party("pengirim", TRUE)>>]}
Named(name, value) == [name |-> name, value |-> value]
MCLabels ==
    {<<Named("from", f), Named("to", "-"), Named("to", t)>> :
        f \in {"jayapura", ""}, t \in {"aimas", "null"}}

(* The list of Prints, one naming a manifest twice; a Print of each        *)
(* manifest, a later one that is too big, one whose total is off and one   *)
(* that names a bag twice.                                                 *)
ListRow(id) == [id |-> id, count |-> 1, link |-> TRUE]
MCLists == {<<ListRow(f1), ListRow(f2)>>, <<ListRow(f1), ListRow(f1)>>}
PrintBag(b, offices) ==
    [id |-> b, valid |-> TRUE, product |-> "kilat", kilos |-> 2, offices |-> offices]
Totals(kilos) == <<[product |-> "kilat", count |-> 1, kilos |-> 2],
                   [product |-> "total", count |-> 1, kilos |-> kilos]>>
PrintPage(id, date, b, offices, big, kilos) ==
    [number |-> id, route |-> TRUE, date |-> date, big |-> big, bags |-> <<PrintBag(b, offices)>>,
     totals |-> Totals(kilos)]
MCPrintPages ==
    UNION {{PrintPage(f, 1, b1, Offices, FALSE, 2), PrintPage(f, 2, b2, {"lokasi_asal"}, FALSE, 2),
            PrintPage(f, 1, b1, Offices, TRUE, 2), PrintPage(f, 3, b2, Offices, FALSE, 3)} : f \in {f1, f2}}

(* What the requests ask: pages that say the bags of each.                 *)
Bagging(bags) ==
    TrackingBody(PageOf(Story(bags, Final(<<"inlocation">>, Aimas, FALSE), NoPod, Jaya)))
OnePage(kind, body) == OfPos(kind, {200, 400}, {body})
MCAsked ==
    t1 :> OnePage("track", Bagging(<<>>)) @@ t2 :> OnePage("track", Bagging(<<>>))
    @@ t3 :> OnePage("track", Bagging(<<Bagged(b1), Unbagged(b2)>>))
    @@ t4 :> OnePage("track", Bagging(<<Bagged(b2), Bagged(b1)>>))
    @@ l1 :> OnePage("bag", [text |-> TRUE, tables |-> BagTables(<<Item("1")>>)])
    @@ [m \in {m1, m2, m3} |-> OnePage("manifest", [text |-> TRUE, tables |-> ManifestTables(1)])]
    @@ ProbesAsked

(* Two trackings of one shipment; a tracking and a lookup of one bag; a    *)
(* tracking with two bags; a manifest and a bag; two requests of one       *)
(* manifest, and of two.                                                   *)
NoContacts == {s1 :> NoContact @@ s2 :> NoContact}
NoRoutes == {b1 :> NoRow @@ b2 :> NoRow}
MCAllRoutes == MCBootRoutes \cup NoRoutes
Scenario(requests, asks, tables, labels) ==
    [requests |-> requests, asks |-> asks, contacts |-> tables, routes |-> labels]
MCScenarios ==
    {Scenario({t1, t2}, {}, MCBootContacts, NoRoutes),
     Scenario({l1}, {t3}, NoContacts, MCBootRoutes),
     Scenario({}, {t4}, NoContacts, MCBootRoutes),
     Scenario({m1, l1}, {}, NoContacts, NoRoutes),
     Scenario({m2}, {m1}, NoContacts, NoRoutes),
     Scenario({m1, m3}, {}, NoContacts, NoRoutes)}
    \cup {Scenario({}, {p}, NoContacts, NoRoutes) : p \in Probes}
=============================================================================
