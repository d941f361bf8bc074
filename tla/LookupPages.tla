---------------------------- MODULE LookupPages ----------------------------
(***************************************************************************)
(* What is read from the other pages of the sources: bags and manifests    *)
(* (crates/shipflow-core/src/bag.rs, manifest.rs), the label of a bag      *)
(* (bag_route.rs), the Print of a manifest (manifest_print.rs), and the    *)
(* contacts of a shipment (parser.rs).                                     *)
(*                                                                         *)
(* A heading is the set of the words looked for in it, a cell its text, "" *)
(* for an empty one.                                                       *)
(***************************************************************************)
EXTENDS Integers, SequencesExt

CONSTANT MaxBags     \* MAX_BAGS

FirstIn(places) == IF places = {} THEN 0 ELSE Min(places)
Cell(row, i) == IF i = 0 \/ i > Len(row) THEN "" ELSE row[i]

(* A page is a sequence of tables.  The first one with a row of at least   *)
(* five headings, among them the required ones, is read; there may be none.*)
Headed(tables, required) ==
    FirstIn({t \in DOMAIN tables :
        /\ Len(tables[t].headings) >= 5
        /\ \A words \in required : \E i \in DOMAIN tables[t].headings :
              words \subseteq tables[t].headings[i]})

-----------------------------------------------------------------------------
(* A bag: the columns are found by their headings, wherever they are.  Of  *)
(* equal headings the last one counts.                                     *)

BagHeadings == {{"NO"}, {"RESI"}, {"KANTOR", "KIRIM"}, {"TANGGAL", "KIRIM"}, {"STATUS"}}

LastOf(headings) == {i \in DOMAIN headings : \A j \in DOMAIN headings :
                        headings[j] = headings[i] => j <= i}
With(headings, words) == FirstIn({i \in LastOf(headings) : words \subseteq headings[i]})
Exactly(headings, words) == FirstIn({i \in LastOf(headings) : headings[i] = words})
Either(i, j) == IF i # 0 THEN i ELSE j

BagItem(headings, row) ==
    LET text(i) == Cell(row, i)
        with(words) == With(headings, words)
    IN  [no |-> text(Exactly(headings, {"NO"})),
         resi |-> text(with({"RESI"})),
         kantor_kirim |-> text(with({"KANTOR", "KIRIM"})),
         tanggal_kirim |-> text(with({"TANGGAL", "KIRIM"})),
         posisi_akhir |-> text(Either(with({"POSISI"}), with({"LOKASI"}))),
         status |-> text(Either(Exactly(headings, {"STATUS"}), with({"STATUS"}))),
         tanggal_update |-> text(with({"TANGGAL", "UPDATE"})),
         jatuh_tempo |-> text(Either(with({"JATUH"}), with({"TEMPO"}))),
         petugas_update |-> text(with({"PETUGAS"}))]

Blank(item, fields) == \A f \in fields : item[f] = ""
BagItems(tables) ==
    LET table == tables[Headed(tables, BagHeadings)]
        rows == SelectSeq(table.rows, LAMBDA r : Len(r) >= 5)
        item(i) == BagItem(table.headings, rows[i])
    IN  SelectSeq([i \in DOMAIN rows |-> item(i)],
            LAMBDA b : ~Blank(b, {"no", "resi", "tanggal_kirim", "posisi_akhir", "status"}))

(* A manifest: the columns are where they have always been.                *)
ManifestHeadings == {{"NO"}, {"KANTUNG"}, {"LAYANAN"}, {"BERAT"}, {"STATUS"}}
ManifestItem(row) ==
    [no |-> row[1], nomor_kantung |-> row[2], jenis_layanan |-> row[3], berat |-> row[4],
     status |-> row[5], lokasi_akhir |-> row[6], tanggal |-> row[7]]
ManifestItems(tables) ==
    LET rows == SelectSeq(tables[Headed(tables, ManifestHeadings)].rows,
                          LAMBDA r : Len(r) >= 7)
    IN  SelectSeq([i \in DOMAIN rows |-> ManifestItem(rows[i])],
            LAMBDA m : ~Blank(m, {"no", "nomor_kantung", "jenis_layanan", "berat", "status"}))

-----------------------------------------------------------------------------
(* A bag's label: the last From and the last To; one of them must be there.*)

NoValue == {"", "-", "null", "undefined"}
Says(label, name) ==
    LET last == Max({i \in DOMAIN label : label[i].name = name})
    IN  /\ \E i \in DOMAIN label : label[i].name = name
        /\ label[last].value \notin NoValue
LabelOffices(label) ==
    {o \in {"lokasi_asal", "tujuan"} : Says(label, IF o = "tujuan" THEN "to" ELSE "from")}
LabelRead(label) == LabelOffices(label) # {}

-----------------------------------------------------------------------------
(* Contacts: the page must be about the shipment and have a row for each   *)
(* party; the last row of a party counts, and only a valid phone.          *)

PartyRow(page, party) == {i \in DOMAIN page.rows : page.rows[i].party = party}
ContactRead(page, id) ==
    page.id = id /\ \A party \in {"pengirim", "penerima"} : PartyRow(page, party) # {}
ContactPhones(page) ==
    {party \in {"pengirim", "penerima"} : page.rows[Max(PartyRow(page, party))].phone}

-----------------------------------------------------------------------------
(* The Print of a manifest: exactly one row of the list is the manifest's, *)
(* its count is plausible and it has a link to the Print.                  *)

Listed(list, id) == {i \in DOMAIN list : list[i].id = id}
LinkOf(list, id) == list[CHOOSE i \in Listed(list, id) : TRUE]
ListRead(list, id) ==
    Cardinality(Listed(list, id)) = 1
    /\ LinkOf(list, id).count \in 0 .. MaxBags /\ LinkOf(list, id).link

Product(text) == IF text \in NoValue THEN "" ELSE text
BagsOfProduct(print, product) == {i \in DOMAIN print.bags : Product(print.bags[i].product) = product}
Kilos(print, some) == FoldSet(LAMBDA i, sum : sum + print.bags[i].kilos, 0, some)
Summaries(print) == {i \in DOMAIN print.totals : print.totals[i].product # "total"}
Agrees(row, print, some) == row.count = Cardinality(some) /\ row.kilos = Kilos(print, some)

(* parse_manifest_print_html: the bags are those of the list, none twice,  *)
(* each product has one summary that agrees with its bags, and so has the  *)
(* total.                                                                  *)
BagsRead(print, id, count) ==
    /\ print.number = id /\ print.route
    /\ \A i \in DOMAIN print.bags : print.bags[i].valid
    /\ \A i, j \in DOMAIN print.bags : print.bags[i].id = print.bags[j].id => i = j
    /\ Len(print.bags) = count
ProductsRead(print) ==
    LET named(i) == Product(print.totals[i].product)
    IN  /\ \A i, j \in Summaries(print) : named(i) = named(j) => i = j
        /\ \A i \in Summaries(print) : Agrees(print.totals[i], print, BagsOfProduct(print, named(i)))
        /\ \A b \in DOMAIN print.bags :
              \E i \in Summaries(print) : named(i) = Product(print.bags[b].product)
TotalRead(print) ==
    LET total == DOMAIN print.totals \ Summaries(print)
    IN  /\ Cardinality(total) = 1
        /\ \A i \in total : Agrees(print.totals[i], print, DOMAIN print.bags)

PrintRead(list, print, id) ==
    /\ ListRead(list, id)
    /\ BagsRead(print, id, LinkOf(list, id).count)
    /\ ProductsRead(print) /\ TotalRead(print)

\* The offices of each bag, for the index of bag routes.
PrintRoutes(print) ==
    LET row(b) == print.bags[CHOOSE i \in DOMAIN print.bags : print.bags[i].id = b]
    IN  [b \in {print.bags[i].id : i \in DOMAIN print.bags} |-> row(b).offices]
=============================================================================
