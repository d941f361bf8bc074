---------------------------- MODULE MCWorkspace ----------------------------
(* Instances of Workspace for TLC.                                         *)
EXTENDS Workspace

CONSTANTS sa, sb, r1, r2, n1, n2, n3, i1, i2, b1, b2, b3, m1, p1, k1, k2, x1, x2

\* Two ways to write one identifier, and another identifier.
MCLookup == n1 :> i1 @@ n2 :> i1 @@ n3 :> i2

\* One input for a row, or the rows of a sheet with their places changed.
Input(row, position, shown) == [row |-> row, position |-> position, shown |-> shown]
MCBatches(table) ==
    {<<Input(r, p, x)>> : r \in {r1} \cup DOMAIN table, p \in 0..1, x \in {n2, n3}}
    \cup {<<Input(r, 0, n1), Input(q, 1, n3)>> : r, q \in {r1, r2} \cup DOMAIN table}

TableRow(sheet, position, shown, record) ==
    [sheet |-> sheet, position |-> position, shown |-> shown, record |-> record]
MCTables ==
    {r1 :> TableRow(sa, 0, n1, i1) @@ r2 :> TableRow(sa, 2, n3, NoRecord),
     \* copied to sb and compacted there: its name says another position
     r1 :> TableRow(sa, 0, n1, NoRecord) @@ <<sb, 1, 0>> :> TableRow(sb, 0, n1, i1)}

DocRow(row, position, shown, shipment) ==
    [row |-> row, position |-> position, shown |-> shown, shipment |-> shipment]
DocSheet(sheet, list) == [sheet |-> sheet, rows |-> list]
MCDocuments ==
    {<<DocSheet(sb, <<DocRow(r2, 1, n2, TRUE), DocRow(r1, 0, n3, FALSE)>>)>>,
     <<DocSheet(sa, <<DocRow(r1, 0, n1, FALSE)>>), DocSheet(sb, <<DocRow(r1, 0, n1, TRUE)>>)>>,
     <<DocSheet(sa, <<>>), DocSheet(sa, <<DocRow(r2, 0, n3, TRUE)>>)>>}

MCBagAnswers == b1 :> {<<n1, n3, n1>>} @@ b2 :> {<<n3>>} @@ b3 :> {<<n1>>} @@ m1 :> {}
MCManifestAnswers == m1 :> {<<b1, b2>>, <<b1, b2, b3>>} @@ b1 :> {} @@ b2 :> {} @@ b3 :> {}
Request(kind, sources) == [kind |-> kind, sources |-> sources]
MCRequests ==
    {Request("bag", <<b1, b2>>), Request("manifest", <<m1>>), Request("bag", <<b1, b2, b1>>)}

MCDrafts == p1 :> {<<x1>>, <<x1, x2>>}

Session(does, count, named, tables) ==
    [ops |-> does, commands |-> count, sheets |-> named, rows |-> tables]
MCSheetOps == {"sheet", "edit", "append", "delete", "transfer", "copy", "restore", "track"}
MCScenarios ==
    {Session(MCSheetOps, 2, {sa, sb}, MCTables),
     Session({"append", "copy", "transfer", "delete"}, 3, {sa}, {<<>>}),
     Session({"import", "run", "cancel", "refusal", "death"}, 4, {sa}, {r1 :> TableRow(sa, 1, n3, NoRecord)}),
     Session({"import", "run", "sheet", "restore", "death"}, 3, {sa}, {<<>>}),
     Session({"preview", "death"}, 5, {sa}, {<<>>})}
=============================================================================
