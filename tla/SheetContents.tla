--------------------------- MODULE SheetContents ---------------------------
(***************************************************************************)
(* What the sheets of a workspace promise to their reader                  *)
(* (crates/shipflow-workspace-engine/src/storage.rs): a sheet is a list of *)
(* shipment lines, and the commands on it are operations on lists.  Row    *)
(* identifiers, positions with gaps, compaction and transactions are the   *)
(* store's own business: module SheetRows implements this one.             *)
(***************************************************************************)
EXTENDS Integers, Sequences, FiniteSets, SequencesExt

CONSTANTS
    Sheets,
    Lookup,       \* the identifier asked of the source for each one shown
    Documents,    \* the documents that may be opened: <<[sheet, lines]>>
    NoRecord

VARIABLES
    lines,        \* the lines of each sheet, in the order of the sheet
    reply         \* what the last command answered

contentVars == <<lines, reply>>

Answered(op, ok) == reply' = [op |-> op, ok |-> ok]
OnlyChanges(S) == \A s \in Sheets \ S : lines'[s] = lines[s]
Picked(list, chosen) == [k \in DOMAIN chosen |-> list[chosen[k]]]
Selections(list) ==
    UNION {SetToSeqs(I) : I \in SUBSET (DOMAIN list)}
Rising(chosen) == \A j, k \in DOMAIN chosen : j < k => chosen[j] < chosen[k]
(* `left` are the lines of `list` at the places I, in their order.         *)
Keeps(left, list, I) ==
    \E chosen \in SetToSeqs(I) : Rising(chosen) /\ left = Picked(list, chosen)

(* An edit, an append and an opening may be refused, and then change       *)
(* nothing, nor does naming a sheet or planning an import; what only       *)
(* removes, moves or copies lines is never refused.                        *)
Refuse ==
    /\ reply' \in [op : {"edit", "append", "restore", "seed"}, ok : {FALSE}]
                \cup [op : {"create_sheet", "rename_sheet", "import"}, ok : BOOLEAN]
    /\ UNCHANGED lines

RemoveLines ==
    \E s \in Sheets : \E I \in SUBSET (DOMAIN lines[s]) :
        /\ OnlyChanges({s}) /\ Keeps(lines'[s], lines[s], I)
        /\ Answered("delete", TRUE)

Clear ==
    \E s \in Sheets, op \in {"clear", "delete_sheet", "import"} :
        lines' = [lines EXCEPT ![s] = <<>>] /\ Answered(op, TRUE)

AppendLines ==
    \E s \in Sheets :
        LET added == SubSeq(lines'[s], Len(lines[s]) + 1, Len(lines'[s]))
        IN  /\ OnlyChanges({s}) /\ lines'[s] = lines[s] \o added
            /\ \A k \in DOMAIN added : added[k].record = NoRecord
            /\ Answered("append", TRUE) \/ UNCHANGED reply

(* The chosen lines, in the order they were chosen in, join the end of the *)
(* other sheet with their records; a move takes them from this one. From   *)
(* a sheet to itself nothing goes.                                         *)
Transfer ==
    \E s, t \in Sheets : \E chosen \in Selections(lines[s]) :
        /\ s = t => chosen = <<>>
        /\ OnlyChanges({s, t})
        /\ lines'[t] = lines[t] \o Picked(lines[s], chosen)
        /\ \/ OnlyChanges({t}) /\ Answered("copy", TRUE)
           \/ /\ Keeps(lines'[s], lines[s], DOMAIN lines[s] \ Range(chosen))
              /\ Answered("move", TRUE)

(* An edit writes one sheet, never multiplies a record, and leaves a line  *)
(* no record but its own.                                                  *)
RecordsOf(list, id) == {k \in DOMAIN list : list[k].record = id}
Edit ==
    \E s \in Sheets :
        /\ OnlyChanges({s})
        /\ \A id \in Range(Lookup) :
              Cardinality(RecordsOf(lines'[s], id)) <= Cardinality(RecordsOf(lines[s], id))
        /\ \A line \in Range(lines'[s]) : line.record \in {NoRecord, Lookup[line.shown]}
        /\ Answered("edit", TRUE)

Contents(doc, s) ==
    LET mine == {k \in DOMAIN doc : doc[k].sheet = s}
    IN  IF mine = {} THEN <<>> ELSE doc[CHOOSE k \in mine : TRUE].lines

(* Opening a document shows the document and nothing else; seeding fills   *)
(* the empty sheets with it.                                               *)
Restore ==
    \E doc \in Documents :
        \/ lines' = [s \in Sheets |-> Contents(doc, s)] /\ Answered("restore", TRUE)
        \/ /\ lines' = [s \in Sheets |-> IF lines[s] = <<>> THEN Contents(doc, s) ELSE lines[s]]
           /\ Answered("seed", TRUE)

Track ==
    \E s \in Sheets : \E k \in DOMAIN lines[s] :
        /\ lines' = [lines EXCEPT ![s][k].record = Lookup[lines[s][k].shown]]
        /\ UNCHANGED reply

Init == DOMAIN lines = Sheets /\ reply = [op |-> "none", ok |-> TRUE]
Next == Refuse \/ RemoveLines \/ Clear \/ AppendLines \/ Transfer \/ Edit
        \/ Restore \/ Track
Spec == Init /\ [][Next]_contentVars
=============================================================================
