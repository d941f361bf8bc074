---------------------------- MODULE ContactCache ----------------------------
(***************************************************************************)
(* The persistent contact cache of the service                             *)
(* (crates/shipflow-service-runtime/src/contact_cache.rs): one SQLite      *)
(* table, every access to it under the mutex of the one connection.        *)
(*                                                                         *)
(* A phone number is the source it was scraped from.  Time is the age of a *)
(* row in the three classes the code tells apart: below five minutes, from *)
(* five minutes, from 90 days.  The capacity evicts the least recently     *)
(* used rows: here any rows but the one just used.                         *)
(***************************************************************************)
EXTENDS Naturals, FiniteSets, FiniteSetsExt

CONSTANTS Shipments, MaxContacts, BootContacts

VARIABLE contacts   \* the table contact_cache

Parties == {"pengirim", "penerima"}
Sources == {"lacak_mitra", "pid_detail"}
NoPhone == "null"
Recent == 0    Due == 1    Aged == 2    \* the age classes

Phones == [Parties -> Sources \cup {NoPhone}]
NoPhones == [p \in Parties |-> NoPhone]
Known(phones) == {p \in Parties : phones[p] # NoPhone}

Statuses == {"ok", "partial", "missing", "failed"}
ContactRow == [phones : Phones, status : Statuses, age : Recent..Aged,
               source : Sources \cup {"mixed"}, decodes : BOOLEAN]
NoContact == [none |-> TRUE]

(* A row is attributed to the source that all its phones came from, or to  *)
(* none of them.                                                           *)
Truthful(row) ==
    row.source = "mixed" \/ \A p \in Known(row.phones) : row.phones[p] = row.source

(* The rows an earlier process left are such as store_with_source writes:  *)
(* of those that still decode, a failed or a missing one has no phone.     *)
AsStored(row) ==
    row.decodes => Truthful(row) /\ (row.status \in {"failed", "missing"} => Known(row.phones) = {})

ASSUME ContactAssumption ==
    /\ MaxContacts \in Nat \ {0} /\ IsFiniteSet(Shipments)
    /\ BootContacts \subseteq [Shipments -> ContactRow \cup {NoContact}]
    /\ \A table \in BootContacts : \A s \in Shipments :
          table[s] # NoContact => AsStored(table[s])

Stored(s) == contacts[s] # NoContact

ContactStatus(phones) ==
    IF Known(phones) = Parties THEN "ok"
    ELSE IF Known(phones) = {} THEN "missing" ELSE "partial"

ContactExpired(row) ==
    row.age >= (IF row.status \in {"failed", "missing"} THEN Due ELSE Aged)

RetryDue(row) == row.status # "ok" /\ row.age >= Due

-----------------------------------------------------------------------------
(* get: the entry a reader sees; a row that is expired or that no longer   *)
(* decodes is deleted on the way.                                          *)

Readable(s) == Stored(s) /\ contacts[s].decodes /\ ~ContactExpired(contacts[s])

ContactEntry(s) ==
    IF ~Readable(s) THEN NoContact
    ELSE [contacts[s] EXCEPT
            !.status = IF @ = "ok" THEN ContactStatus(contacts[s].phones) ELSE @]

GetContact(s) ==
    contacts' = IF Readable(s) THEN contacts ELSE [contacts EXCEPT ![s] = NoContact]

-----------------------------------------------------------------------------
(* store_with_source *)

(* What the fresh result is merged with: the phones of a row below 90 days. *)
Previous(s) ==
    IF Stored(s) /\ contacts[s].decodes /\ contacts[s].age < Aged
    THEN contacts[s]
    ELSE [phones |-> NoPhones, source |-> "lacak_mitra"]

Merged(fresh, previous) ==
    [p \in Parties |-> IF fresh[p] = NoPhone THEN previous.phones[p] ELSE fresh[p]]

SourceOfPrevious(fresh, previous, source) ==      \* mutant: never "mixed"
    IF Merged(fresh, previous) = fresh THEN source ELSE previous.source
ActualSource(fresh, previous, source) ==
    IF Merged(fresh, previous) = fresh THEN source
    ELSE IF Known(fresh) # {} /\ previous.source # source THEN "mixed"
    ELSE previous.source

FailedStatus(phones) == "failed"                  \* mutant
StatusAfterFailure(phones) == IF Known(phones) # {} THEN "partial" ELSE "failed"

ContactToStore(s, fresh, failed, source) ==
    LET phones == Merged(fresh, Previous(s)) IN
    [phones |-> phones, age |-> Recent, decodes |-> TRUE,
     status |-> IF failed THEN StatusAfterFailure(phones) ELSE ContactStatus(phones),
     source |-> ActualSource(fresh, Previous(s), source)]

Remaining(table) == {s \in Shipments : table[s] # NoContact}
KeepOnly(table, S) == [s \in Shipments |-> IF s \in S THEN table[s] ELSE NoContact]

(* prune_connection, with `recent` the rows just used.                     *)
ContactPrunings(table, recent) ==
    LET live == {s \in Remaining(table) : ~ContactExpired(table[s])}
        room == IF Cardinality(live) < MaxContacts THEN Cardinality(live) ELSE MaxContacts
    IN  {KeepOnly(table, S) : S \in {K \in kSubset(room, live) : recent \cap live \subseteq K}}

StoreContact(s, fresh, failed, source) ==
    contacts' \in ContactPrunings(
        [contacts EXCEPT ![s] = ContactToStore(s, fresh, failed, source)], {s})

-----------------------------------------------------------------------------
(* open_with_legacy: rows of the former JSON file fill the gaps, unless    *)
(* they are expired.                                                       *)

WithLegacy(table, legacy) ==
    [s \in Shipments |-> IF table[s] = NoContact /\ legacy[s] # NoContact
                            /\ ~ContactExpired(legacy[s])
                         THEN legacy[s] ELSE table[s]]

ContactInit(boot) ==
    \E table, legacy \in boot :
        contacts \in ContactPrunings(WithLegacy(table, legacy), {})

OpenContacts == contacts' \in ContactPrunings(contacts, {})

AgeContact(s) ==
    /\ Stored(s) /\ contacts[s].age < Aged
    /\ contacts' = [contacts EXCEPT ![s].age = @ + 1]
=============================================================================
