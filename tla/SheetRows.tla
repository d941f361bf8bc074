----------------------------- MODULE SheetRows -----------------------------
(***************************************************************************)
(* The sheets and rows of a workspace and the commands that change them    *)
(* (crates/shipflow-workspace-engine/src/storage.rs, engine.rs).           *)
(*                                                                         *)
(* The engine of a workspace carries out one command at a time, and a      *)
(* command writes in one transaction: an error leaves the tables as they   *)
(* were, except that the sheets a command names exist afterwards, for they *)
(* are created by a commit of their own before it.  A row is identified by *)
(* what the renderer named it or by an identifier made from its sheet, its *)
(* position and a suffix.  row_status and row_generation are modelled in   *)
(* TrackingRefresh; here a row has its tracking record or has none.        *)
(***************************************************************************)
EXTENDS Integers, Sequences, FiniteSets, FiniteSetsExt, SequencesExt, Functions

CONSTANTS
    Sheets,
    FirstSheet,       \* initial_sheet_id
    ClientRows,       \* the identifiers a renderer gives to new rows
    Lookup,           \* resolve_tracking_id: of each identifier shown
    Batches(_),       \* bound: the lists of inputs of an edit or an append
    MaxSelection,     \* bound: the rows named by one command
    Documents,        \* the documents opened: <<[sheet, rows]>>
    NoRecord,
    NoRow             \* an identifier that no row has

Shown == DOMAIN Lookup
GeneratedRows == Sheets \X Nat \X Nat
RowIds == ClientRows \cup GeneratedRows
(* A row has the record of the shipment that it shows, or none.            *)
Row == {row \in [sheet : Sheets, position : Nat, shown : Shown,
                 record : Range(Lookup) \cup {NoRecord}] :
            row.record \in {NoRecord, Lookup[row.shown]}}

(* What a renderer says of a row, and what a document does.                *)
Inputs(R) == [row : R, position : Nat, shown : Shown]
Lines == [row : RowIds, position : Nat, shown : Shown, shipment : BOOLEAN]

ASSUME SheetRowsAssumption ==
    /\ FirstSheet \in Sheets /\ MaxSelection \in Nat
    /\ NoRecord \notin Range(Lookup) /\ NoRow \notin RowIds
    /\ \A doc \in Documents : doc \in Seq([sheet : Sheets, rows : Seq(Lines)])

VARIABLES
    sheets,     \* the table sheets
    rows,       \* the table sheet_rows, by id
    reply       \* what the last command answered

sheetVars == <<sheets, rows, reply>>

Table(t) == DOMAIN t \subseteq RowIds /\ IsFiniteSet(DOMAIN t) /\ t \in [DOMAIN t -> Row]
SheetsTypeOK == sheets \subseteq Sheets /\ Table(rows)

Answer(op, ok) == reply' = [op |-> op, ok |-> ok]

-----------------------------------------------------------------------------
(* Statements on a table of rows.                                          *)

\* What a transaction that fails leaves to commit is not a table.
Refused == [r \in {NoRow} |-> NoRecord]

RowsOf(table, s) == {r \in DOMAIN table : table[r].sheet = s}
Before(table, s, r) == {q \in RowsOf(table, s) : table[q].position < table[r].position}
InOrder(table, s) ==
    [k \in 1..Cardinality(RowsOf(table, s)) |->
        CHOOSE r \in RowsOf(table, s) : Cardinality(Before(table, s, r)) = k - 1]
NextPositionCounted(table, s) == Cardinality(RowsOf(table, s))    \* mutant
NextPosition(table, s) == 1 + Max({-1} \cup {table[r].position : r \in RowsOf(table, s)})
Without(table, R) == Restrict(table, DOMAIN table \ R)
Inserting(table, r, row) ==
    [q \in DOMAIN table \cup {r} |-> IF q = r THEN row ELSE table[q]]

(* The elements of a list at some of its places, in their order; those     *)
(* that differ from all before them.                                       *)
Nth(I, k) == CHOOSE n \in I : Cardinality({m \in I : m <= n}) = k
Selected(list, I) == [k \in 1..Cardinality(I) |-> list[Nth(I, k)]]
Distinct(ids) == Selected(ids, {n \in DOMAIN ids : \A m \in 1..(n - 1) : ids[m] # ids[n]})

(* next_available_generated_sheet_row_id.                                  *)
GeneratedIdFirst(table, s, position) == <<s, position, 0>>         \* mutant
GeneratedId(table, s, position) ==
    <<s, position, Min({k \in 0..Cardinality(DOMAIN table) :
                            <<s, position, k>> \notin DOMAIN table})>>

(* INSERT: the identifier is the primary key, and a position of a sheet is *)
(* unique.                                                                 *)
Inserted(table, r, row) ==
    IF r \in DOMAIN table
       \/ \E q \in RowsOf(table, row.sheet) : table[q].position = row.position
    THEN Refused ELSE Inserting(table, r, row)

(* compact_sheet_row_positions.                                            *)
Compacted(table, s) ==
    [r \in DOMAIN table |->
        IF table[r].sheet # s THEN table[r]
        ELSE [table[r] EXCEPT !.position = Cardinality(Before(table, s, r))]]

(* upsert_sheet_row_with_mode: the row takes its position from whichever   *)
(* row had it, and keeps its record as long as its lookup is the same.     *)
RecordAfter(table, input) ==
    IF Lookup[table[input.row].shown] = Lookup[input.shown]
    THEN table[input.row].record ELSE NoRecord
Upserted(table, s, input) ==
    LET others == {r \in RowsOf(table, s) \ {input.row} : table[r].position = input.position}
        row(record) == [sheet |-> s, position |-> input.position, shown |-> input.shown,
                        record |-> record]
    IN  IF input.row \notin DOMAIN table
        THEN Inserting(Without(table, others), input.row, row(NoRecord))
        ELSE IF table[input.row].sheet # s THEN Refused
        ELSE [Without(table, others) EXCEPT ![input.row] = row(RecordAfter(table, input))]

(* One statement after another, until one fails.                           *)
Statements(Do(_, _), table, inputs) ==
    FoldLeft(LAMBDA t, x : IF t = Refused THEN t ELSE Do(t, x), table, inputs)

(* The transaction of a command on a sheet that is created if it is not    *)
(* there: ensure_sheet_exists, then the command.                           *)
Ensured(S) == sheets' = sheets \cup S
Committed(op, outcome) ==
    IF outcome = Refused THEN UNCHANGED rows /\ Answer(op, FALSE)
    ELSE rows' = outcome /\ Answer(op, TRUE)

-----------------------------------------------------------------------------
(* Commands.                                                               *)

\* A sheet that exists stays as it is; a blank name is refused.
CreateSheet(s) ==
    \E blank \in BOOLEAN :
        /\ Ensured(IF blank THEN {} ELSE {s}) /\ UNCHANGED rows
        /\ Answer("create_sheet", ~blank)
RenameSheet(s) ==
    \E blank \in BOOLEAN :
        UNCHANGED <<sheets, rows>> /\ Answer("rename_sheet", ~blank /\ s \in sheets)

\* The rows go with their sheet.
DeleteSheet(s) ==
    /\ sheets' = sheets \ {s}
    /\ rows' = Without(rows, RowsOf(rows, s))
    /\ Answer("delete_sheet", TRUE)

Edited(s, table, inputs) == Statements(LAMBDA t, x : Upserted(t, s, x), table, inputs)
Edit(s, inputs, replace) ==
    /\ Ensured({s})
    /\ LET base == IF replace THEN Without(rows, RowsOf(rows, s)) ELSE rows
       IN  Committed("edit", Edited(s, base, inputs))

(* append_sheet_rows_atomic: a row that exists refuses the whole append.   *)
AppendOne(s, start, acc, x) ==
    IF acc.table = Refused \/ x.row \in DOMAIN acc.table
    THEN [acc EXCEPT !.table = Refused]
    ELSE [table |-> Upserted(acc.table, s, [x EXCEPT !.position = start + acc.index]),
          index |-> acc.index + 1]
Appended(s, start, table, inputs) ==
    FoldLeft(LAMBDA acc, x : AppendOne(s, start, acc, x), [table |-> table, index |-> 0], inputs)
AppendRows(s, inputs) ==
    /\ Ensured({s})
    /\ Committed("append", Appended(s, NextPosition(rows, s), rows, inputs).table)

ClearRows(s) ==
    /\ Ensured({s})
    /\ Committed("clear", Without(rows, RowsOf(rows, s)))

DeleteRows(s, ids) ==
    /\ Ensured({s})
    /\ Committed("delete",
           IF ids = <<>> THEN rows
           ELSE Compacted(Without(rows, RowsOf(rows, s) \cap Range(ids)), s))

(* transfer_sheet_rows: each named row of the source, once, gets a new     *)
(* identifier at the end of the target.                                    *)
Copied(s, t, table, r) ==
    LET position == NextPosition(table, t)
    IN  IF r \notin RowsOf(table, s) THEN table
        ELSE Inserted(table, GeneratedId(table, t, position),
                      [table[r] EXCEPT !.sheet = t, !.position = position])
AllCopied(s, t, table, ids) == Statements(LAMBDA u, r : Copied(s, t, u, r), table, ids)
Transfer(s, t, ids, move) ==
    LET named == Distinct(ids)
        copied == AllCopied(s, t, rows, named)
    IN  /\ Ensured({s, t})
        /\ Committed(IF move THEN "move" ELSE "copy",
               IF s = t THEN rows
               ELSE IF copied = Refused \/ ~move \/ named = <<>> THEN copied
               ELSE Compacted(Without(copied, RowsOf(rows, s) \cap Range(named)), s))
CopySheet(s, t) == Transfer(s, t, InOrder(rows, s), FALSE)

(* restore_workspace.  A document is a list of sheets with their rows.     *)
NoDuplicates(doc) == IsInjective([k \in DOMAIN doc |-> doc[k].sheet])
RestoredRow(s, table, x) ==
    LET written == Upserted(table, s, x)
    IN  IF written = Refused \/ ~x.shipment THEN written
        ELSE [written EXCEPT ![x.row].record = Lookup[x.shown]]
AllRestored(s, table, list) == Statements(LAMBDA t, x : RestoredRow(s, t, x), table, list)
(* An identifier may be used once in all the rows that are written, and a  *)
(* position once in a sheet.                                               *)
RestoredSheet(seed, acc, sheet) ==
    LET skipped == seed /\ RowsOf(acc.table, sheet.sheet) # {}
        named == [n \in DOMAIN sheet.rows |-> sheet.rows[n].row]
        placed == [n \in DOMAIN sheet.rows |-> sheet.rows[n].position]
    IN  IF acc.table = Refused \/ skipped THEN acc
        ELSE IF ~IsInjective(named) \/ ~IsInjective(placed) \/ Range(named) \cap acc.used # {}
        THEN [acc EXCEPT !.table = Refused]
        ELSE [table |-> AllRestored(sheet.sheet, acc.table, sheet.rows),
              used |-> acc.used \cup Range(named)]
Restored(seed, table, doc) ==
    FoldLeft(LAMBDA acc, sheet : RestoredSheet(seed, acc, sheet), [table |-> table, used |-> {}], doc)
Restore(doc, seed) ==
    LET outcome == IF ~NoDuplicates(doc) THEN Refused
                   ELSE Restored(seed, IF seed THEN rows ELSE <<>>, doc).table
        named == {doc[k].sheet : k \in DOMAIN doc}
    IN  /\ Committed(IF seed THEN "seed" ELSE "restore", outcome)
        /\ sheets' = IF outcome = Refused THEN sheets
                     ELSE IF seed THEN sheets \cup named ELSE named

\* A tracking run stores the record of a row (module TrackingRefresh).
RecordStored(r) ==
    /\ rows[r].record = NoRecord
    /\ rows' = [rows EXCEPT ![r].record = Lookup[rows[r].shown]]
    /\ UNCHANGED <<sheets, reply>>

\* The engine opens its database: a workspace has a sheet.
FirstSheetExists == sheets' = IF sheets = {} THEN {FirstSheet} ELSE sheets

-----------------------------------------------------------------------------
Named == DOMAIN rows \cup ClientRows
Ids == BoundedSeq(Named, MaxSelection)
Edits == {inputs \in Batches(rows) : inputs \in Seq(Inputs(Named))}

Command(S, op) ==
    \/ \E s \in S :
          \/ op = "sheet" /\ (CreateSheet(s) \/ RenameSheet(s) \/ DeleteSheet(s) \/ ClearRows(s))
          \/ op = "edit" /\ \E inputs \in Edits, replace \in BOOLEAN : Edit(s, inputs, replace)
          \/ op = "append" /\ \E inputs \in Edits : AppendRows(s, inputs)
          \/ op = "delete" /\ \E ids \in Ids : DeleteRows(s, ids)
          \/ op = "transfer" /\ \E t \in S, ids \in Ids, move \in BOOLEAN : Transfer(s, t, ids, move)
          \/ op = "copy" /\ \E t \in S : CopySheet(s, t)
    \/ op = "restore" /\ \E doc \in Documents, seed \in BOOLEAN : Restore(doc, seed)

-----------------------------------------------------------------------------
(* No two rows of a sheet are ever at one place: compaction never meets    *)
(* the unique index, and the rows that an import adds displace none.       *)
Distinguished(table) ==
    \A q, r \in DOMAIN table :
        table[q].sheet = table[r].sheet /\ table[q].position = table[r].position => q = r
PlacesUnique == Distinguished(rows)

(* The lists that the sheets are.                                          *)
Line(row) == [shown |-> row.shown, record |-> row.record]
LinesIn(table, s) == [k \in DOMAIN InOrder(table, s) |-> Line(table[InOrder(table, s)[k]])]
LinesOf(s) == LinesIn(rows, s)

EarlierLines(list, n) == {m \in DOMAIN list : list[m].position < list[n].position}
DocumentLines(list) ==
    [k \in DOMAIN list |->
        LET x == list[CHOOSE n \in DOMAIN list : Cardinality(EarlierLines(list, n)) = k - 1]
        IN  [shown |-> x.shown, record |-> IF x.shipment THEN Lookup[x.shown] ELSE NoRecord]]

Lists == INSTANCE SheetContents
    WITH lines <- [s \in Sheets |-> LinesOf(s)],
         Documents <- {[k \in DOMAIN doc |->
                           [sheet |-> doc[k].sheet, lines |-> DocumentLines(doc[k].rows)]] :
                       doc \in {d \in Documents : NoDuplicates(d)}}
=============================================================================
