--------------------------- MODULE TrackingDetail ---------------------------
(***************************************************************************)
(* What is read from the text of one entry of a tracking history           *)
(* (crates/shipflow-core/src/parser.rs).                                   *)
(*                                                                         *)
(* A text is a sequence of words in lower case; a comma, a colon and every *)
(* bracket is a word of its own.  Whatever is read is again a sequence of  *)
(* words, the empty one when there is nothing.                             *)
(***************************************************************************)
EXTENDS Integers, SequencesExt

CONSTANTS
    Clocks,                                  \* words that are a time of day
    Decimals,                                \* words that are a decimal number
    DeliveredNotes, FailedNotes, AgainNotes  \* the descriptions that say a status

Nothing == <<>>
From(text, i) == SubSeq(text, i, Len(text))
UpTo(text, i) == IF i = 0 THEN text ELSE SubSeq(text, 1, i - 1)

(* Where a phrase first occurs, or 0; `Between` wants a word on each side. *)
FirstOf(places) == IF places = {} THEN 0 ELSE Min(places)
Places(text, phrase) ==
    {i \in 1 .. Len(text) + 1 - Len(phrase) :
        SubSeq(text, i, i + Len(phrase) - 1) = phrase}
Find(text, phrase) == FirstOf(Places(text, phrase))
Between(text, phrase) ==
    FirstOf(Places(text, phrase) \ {1, Len(text) + 1 - Len(phrase)})
Has(text, phrase) == Places(text, phrase) # {}
After(text, phrase) ==
    IF Has(text, phrase) THEN From(text, Find(text, phrase) + Len(phrase)) ELSE Nothing

(* Of several ends the first that is there, or the one that comes first.   *)
Preferred(ends) ==
    LET found == SelectSeq(ends, LAMBDA i : i # 0)
    IN  IF found = <<>> THEN 0 ELSE Head(found)
Earliest(ends) == FirstOf(ends \ {0})

-----------------------------------------------------------------------------
(* Places in a text                                                        *)

\* find_bare_coordinate_offset
Coordinates(text) ==
    FirstOf({i \in 1 .. Len(text) - 2 :
                text[i] \in Decimals /\ text[i + 1] = "," /\ text[i + 2] \in Decimals})

\* find_diterima_oleh: where it begins, and what follows it.
Handed == <<"diterima", "oleh">>
ReceivedAt(text) ==
    Preferred(<<Between(text, <<"dan">> \o Handed), Between(text, Handed),
                IF Len(text) > 2 /\ SubSeq(text, 1, 2) = Handed THEN 1 ELSE 0>>)
Receiver(text) ==
    LET after == From(text, ReceivedAt(text))
    IN  From(after, IF after[1] = "dan" THEN 4 ELSE 3)

(* `oleh <officer> di <place>`; an officer is named only with a place,     *)
(* which ends where Stop says.                                             *)
OfficerAndPlace(text, Stop(_)) ==
    LET rest == From(text, Between(text, <<"oleh">>) + 1)
        di   == Between(rest, <<"di">>)
        after == From(rest, di + 1)
    IN  IF Between(text, <<"oleh">>) = 0 \/ di = 0
        THEN [petugas |-> Nothing, lokasi |-> Nothing]
        ELSE [petugas |-> UpTo(rest, di), lokasi |-> UpTo(after, Stop(after))]

OlehDi(text) ==
    OfficerAndPlace(text, LAMBDA t :
        Preferred(<<ReceivedAt(t), Coordinates(t), Find(t, <<"[">>)>>))

\* extract_bag_id: the word after the key, unless it is punctuation only.
WordAfter(text, key) ==
    LET rest == After(text, key)
    IN  IF rest = <<>> \/ rest[1] = "," THEN Nothing ELSE <<rest[1]>>

\* extract_coordinate
CoordinateOf(text) ==
    LET inside == After(After(text, <<"[", "coordinate">>), <<":">>)
    IN  UpTo(inside, Preferred(<<Find(inside, <<"]">>), Find(inside, <<"lihat">>)>>))

\* extract_diterima_oleh
CourierOf(text) ==
    LET after == Receiver(text)
        name  == UpTo(after, Earliest({Find(after, <<"[">>), Coordinates(after)}))
        kept  == {i \in 1 .. Len(name) : name[i] # ","}
    IN  IF ReceivedAt(text) = 0 \/ kept = {} THEN Nothing ELSE SubSeq(name, 1, Max(kept))

\* What stands in the brackets that the phrase opens, if they are closed.
Bracketed(text, phrase) ==
    LET rest == After(text, phrase \o <<"(">>)
    IN  IF Has(rest, <<")">>) THEN UpTo(rest, Find(rest, <<")">>)) ELSE Nothing

-----------------------------------------------------------------------------
(* Irregularities and manifests                                            *)

CommaOrBracket(text) == Preferred(<<Find(text, <<",">>), Find(text, <<"[">>)>>)

IrregularityOf(text) ==
    LET by == OfficerAndPlace(text, CommaOrBracket)
    IN  [status |-> Bracketed(text, <<"dengan", "status">>), petugas |-> by.petugas,
         lokasi |-> by.lokasi, koordinat |-> CoordinateOf(text)]

ManifestOf(text) ==
    LET to == <<"dengan", "tujuan">>
        number == <<"nomor", "r7">>
        by == OfficerAndPlace(text, LAMBDA t :
                 Preferred(<<Between(t, to), CommaOrBracket(t)>>))
        goal == After(text, to)
    IN  [nomor_r7 |-> WordAfter(text, number), petugas |-> by.petugas, lokasi |-> by.lokasi,
         tujuan |-> UpTo(goal, Preferred(<<FirstOf(Places(goal, <<"dan">> \o number) \ {1}),
                                           CommaOrBracket(goal)>>))]

-----------------------------------------------------------------------------
(* Deliveries                                                              *)

Delivered == <<"delivered">>
FailedToDelivered == <<"failedtodelivered">>
OnProcess == <<"on process">>

Classified(note) ==
    CASE note \in DeliveredNotes -> Delivered
      [] note \in FailedNotes    -> FailedToDelivered
      [] note \in AgainNotes     -> OnProcess
      [] OTHER                   -> Nothing

GivenUp(text) == Has(text, <<"gagal", "antar">>) \/ Has(text, <<"gagal", "diantar">>)

WithoutClock(text) ==
    IF Len(text) > 1 /\ text[Len(text)] \in Clocks THEN SubSeq(text, 1, Len(text) - 1)
    ELSE text

\* A status ends at a digit; else at a comma; else at a bracket.
StatusAfter(text, phrase) ==
    LET rest == After(text, phrase)
        number == FirstOf({i \in 1 .. Len(rest) : rest[i] \in Clocks \cup Decimals})
    IN  UpTo(rest, Preferred(<<number, CommaOrBracket(rest)>>))

OpenNote(text) ==
    LET rest == After(text, <<"dengan", "keterangan">>)
        ends == {Find(rest, <<"[">>), Coordinates(rest)}
                \cup {FirstOf(Places(rest, w) \ {1}) :
                        w \in {<<"photo">>, <<"lihat", "photo">>, <<"view", "photo">>}}
    IN  IF rest # <<>> /\ rest[1] = "(" THEN Nothing
        ELSE WithoutClock(UpTo(rest, Earliest(ends)))

(* parse_proses_antaran_status: a status; a description in brackets; one   *)
(* without; any status.                                                    *)
AttemptOf(text) ==
    LET rest    == From(text, Between(text, <<"oleh">>) + 1)
        petugas == IF Between(text, <<"oleh">>) = 0 THEN Nothing
                   ELSE UpTo(rest, Preferred(<<FirstOf(Places(rest, <<"dengan">>) \ {1}),
                                               CommaOrBracket(rest)>>))
        said(status, note) == [petugas |-> petugas, status |-> status, keterangan |-> note]
        status  == StatusAfter(text, <<"dengan", "status">>)
        note    == Bracketed(text, <<"dengan", "keterangan">>)
        open    == OpenNote(text)
    IN  IF status # Nothing THEN said(status, Nothing)
        ELSE IF note # Nothing THEN said(Classified(note), note)
        ELSE IF open # Nothing
             THEN said(IF GivenUp(open) THEN FailedToDelivered ELSE Classified(open), open)
        ELSE said(StatusAfter(text, <<"status">>), Nothing)

\* The description in the last brackets.
LastBracketed(text) ==
    LET ends == Places(text, <<")">>)
        cut  == SubSeq(text, 1, Max(ends) - 1)
    IN  IF ends = {} \/ ~Has(cut, <<"(">>) THEN Nothing
        ELSE From(cut, Max(Places(cut, <<"(">>)) + 1)

Carried == <<"telah", "diantar", "oleh">>
IsDelivery(text) ==
    /\ ~GivenUp(text)
    /\ Between(After(text, Carried), <<"dan">> \o Handed) # 0
DeliveryOf(text) ==
    LET rest == After(text, Carried)
        end  == Between(rest, <<"dan">> \o Handed)
    IN  [petugas |-> UpTo(rest, end), status |-> Delivered,
         keterangan |-> LastBracketed(From(rest, end + 3))]
=============================================================================
