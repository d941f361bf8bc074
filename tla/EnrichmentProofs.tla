-------------------------- MODULE EnrichmentProofs --------------------------
(***************************************************************************)
(* Theorems about Enrichment, for every set of requests, shipments, bags   *)
(* and manifests, every capacity of the caches and every answer of the     *)
(* sources.                                                                *)
(***************************************************************************)
EXTENDS Enrichment, WellFoundedInduction, FiniteSetTheorems, SequenceTheorems, TLAPS

-----------------------------------------------------------------------------
(* Contacts: the types; the holder of a lease is whoever acquires; the     *)
(* rows are such as the cache writes; the cache keeps to its capacity.     *)

ContactPcs == {"idle", "read", "decide", "permit", "waiting", "lacak_mitra", "pid_detail",
               "storing", "stored", "failed", "done", "gone"}
ContactTask == [pc : ContactPcs, force : BOOLEAN, have : SUBSET Parties,
                lacks : SUBSET Parties, entry : ContactRow \cup {NoContact}]
ContactJob == [phones : Phones, failed : BOOLEAN, source : Sources]
ContactLease == [holder : Trackings \cup {Nobody}, waiting : SUBSET Trackings]
ContactTable == [Shipments -> ContactRow \cup {NoContact}]

ContactTypes ==
    /\ contacts \in ContactTable
    /\ contactLease \in [Shipments -> ContactLease]
    /\ contactTask \in [Trackings -> ContactTask]
    /\ contactJob \in [Trackings -> ContactJob \cup {NoJob}]
ContactsHeld ==
    \A t \in Trackings : contactTask[t].pc \in Acquiring =>
        contactLease[Shipment[t]].holder = t
OneSource(job) == \A p \in Parties : job.phones[p] \in {NoPhone, job.source}
ContactJobs == \A t \in Trackings : contactJob[t] # NoJob => OneSource(contactJob[t])
ContactRows == \A s \in Shipments : Stored(s) => AsStored(contacts[s])
ContactRoom == Cardinality(Remaining(contacts)) <= MaxContacts

ContactInv == ContactTypes /\ ContactsHeld /\ ContactJobs /\ ContactRows /\ ContactRoom

-----------------------------------------------------------------------------
\* Rows of contacts

\* The absence of a row, or of a job, is not one.
LEMMA NoneIsNone ==
    /\ NoContact \notin ContactRow
    /\ NoJob \notin ContactJob
  <1>1. \A r \in ContactRow : DOMAIN r = {"phones", "status", "age", "source", "decodes"}
    BY DEF ContactRow
  <1>2. \A r \in ContactJob : DOMAIN r = {"phones", "failed", "source"}
    BY DEF ContactJob
  <1>3. DOMAIN NoContact = {"none"} /\ DOMAIN NoJob = {"none"}
    BY DEF NoContact, NoJob
  <1> QED BY <1>1, <1>2, <1>3

\* What is stored is a row as the cache writes it, and has every phone that
\* was found and every phone that was known.
LEMMA StoredRow ==
    ASSUME ContactTypes, ContactRows, NEW s \in Shipments, NEW job \in ContactJob,
           OneSource(job)
    PROVE  LET row == ContactToStore(s, job.phones, job.failed, job.source) IN
           /\ row \in ContactRow /\ AsStored(row) /\ ~ContactExpired(row)
           /\ Known(job.phones) \subseteq Known(row.phones)
           /\ Stored(s) /\ contacts[s].decodes /\ contacts[s].age < Aged =>
                 Known(contacts[s].phones) \subseteq Known(row.phones)
  <1> DEFINE previous == Previous(s)
             row == ContactToStore(s, job.phones, job.failed, job.source)
             phones == Merged(job.phones, previous)
  <1>1. /\ previous.phones \in Phones /\ previous.source \in Sources \cup {"mixed"}
        /\ previous.source = "mixed"
           \/ \A p \in Parties : previous.phones[p] \in {NoPhone, previous.source}
        /\ Stored(s) /\ contacts[s].decodes /\ contacts[s].age < Aged =>
              previous.phones = contacts[s].phones
    <2>1. CASE Stored(s) /\ contacts[s].decodes /\ contacts[s].age < Aged
      <3>1. contacts[s] \in ContactRow /\ AsStored(contacts[s]) /\ previous = contacts[s]
        BY <2>1 DEF ContactTypes, ContactTable, Stored, ContactRows, Previous
      <3>2. contacts[s].phones \in Phones /\ contacts[s].source \in Sources \cup {"mixed"}
        BY <3>1 DEF ContactRow
      <3> QED BY <2>1, <3>1, <3>2 DEF AsStored, Truthful, Known
    <2>2. CASE ~(Stored(s) /\ contacts[s].decodes /\ contacts[s].age < Aged)
      <3>1. previous.phones = NoPhones /\ previous.source = "lacak_mitra"
        BY <2>2 DEF Previous
      <3> QED BY <2>2, <3>1 DEF NoPhones, Phones, Sources
    <2> QED BY <2>1, <2>2
  <1>2. job.phones \in Phones /\ job.failed \in BOOLEAN /\ job.source \in Sources
    BY DEF ContactJob
  <1> HIDE DEF previous
  <1>3. /\ phones \in Phones
        /\ Known(job.phones) \subseteq Known(phones)
        /\ Known(previous.phones) \subseteq Known(phones)
    BY <1>1, <1>2 DEF Merged, Phones, Known
  <1>4. /\ row.phones = phones /\ row.age = Recent /\ row.decodes = TRUE
        /\ row.status = IF job.failed THEN StatusAfterFailure(phones) ELSE ContactStatus(phones)
        /\ row.source = ActualSource(job.phones, previous, job.source)
        /\ row = [phones |-> row.phones, age |-> row.age, decodes |-> row.decodes,
                  status |-> row.status, source |-> row.source]
    BY DEF ContactToStore, previous
  <1>5. row.status \in Statuses /\ (row.status \in {"failed", "missing"} => Known(phones) = {})
    BY <1>4 DEF StatusAfterFailure, ContactStatus, Statuses
  <1>6. row.source \in Sources \cup {"mixed"} /\ Truthful(row)
    <2>1. CASE phones = job.phones
      BY <1>2, <1>4, <2>1 DEF ActualSource, Truthful, Known, OneSource
    <2>2. CASE phones # job.phones
      <3>1. CASE Known(job.phones) # {} /\ previous.source # job.source
        BY <1>4, <2>2, <3>1 DEF ActualSource, Truthful
      <3>2. CASE ~(Known(job.phones) # {} /\ previous.source # job.source)
        <4>1. row.source = previous.source
          BY <1>4, <2>2, <3>2 DEF ActualSource
        <4>2. CASE Known(job.phones) = {}
          <5>1. \A p \in Parties : phones[p] = previous.phones[p]
            BY <4>2 DEF Merged, Known
          <5> QED BY <1>1, <1>4, <4>1, <5>1 DEF Truthful, Known
        <4>3. CASE previous.source = job.source
          BY <1>1, <1>4, <4>1, <4>3 DEF Truthful, Known, OneSource, Merged
        <4> QED BY <3>2, <4>2, <4>3
      <3> QED BY <3>1, <3>2
    <2> QED BY <2>1, <2>2
  <1> HIDE DEF row, phones
  <1>7. row \in ContactRow
    <2>1. row.age \in Recent .. Aged /\ row.decodes \in BOOLEAN /\ row.phones \in Phones
      <3>1. row.age \in Recent .. Aged /\ row.phones \in Phones
        BY <1>3, <1>4 DEF Recent, Aged
      <3>2. row.decodes \in BOOLEAN
        BY <1>4, Zenon
      <3> QED BY <3>1, <3>2
    <2> QED BY <1>4, <1>5, <1>6, <2>1 DEF ContactRow
  <1>8. AsStored(row)
    BY <1>4, <1>5, <1>6 DEF AsStored
  <1>9. ~ContactExpired(row)
    BY <1>4 DEF ContactExpired, Recent, Due, Aged
  <1> QED BY <1>1, <1>3, <1>4, <1>7, <1>8, <1>9 DEF row

\* Of a set that has room, nothing is left out; what is left has room.
LEMMA Room ==
    ASSUME NEW live, IsFiniteSet(live), NEW limit \in Nat,
           NEW K \in kSubset(IF Cardinality(live) < limit THEN Cardinality(live) ELSE limit, live)
    PROVE  /\ K \subseteq live /\ IsFiniteSet(K) /\ Cardinality(K) <= limit
           /\ Cardinality(live) <= limit => K = live
  <1>1. /\ K \in SUBSET live
        /\ Cardinality(K) = IF Cardinality(live) < limit THEN Cardinality(live) ELSE limit
    BY DEF kSubset
  <1>2. Cardinality(live) \in Nat
    BY FS_CardinalityType
  <1>3. IsFiniteSet(K) /\ (Cardinality(live) = Cardinality(K) => live = K)
    BY <1>1, FS_Subset
  <1> QED BY <1>1, <1>2, <1>3

\* Pruning keeps rows as they are, the used ones that are not expired, and
\* in a table that has room all that are not expired.
LEMMA PrunedContacts ==
    ASSUME NEW table \in ContactTable, NEW recent \in SUBSET Shipments,
           NEW kept \in ContactPrunings(table, recent)
    PROVE  /\ kept \in ContactTable
           /\ \A s \in Shipments : kept[s] \in {table[s], NoContact}
           /\ \A s \in recent : table[s] # NoContact /\ ~ContactExpired(table[s]) =>
                 kept[s] = table[s]
           /\ Cardinality(Remaining(kept)) <= MaxContacts
           /\ Cardinality(Remaining(table)) <= MaxContacts =>
                 \A s \in Shipments : table[s] # NoContact /\ ~ContactExpired(table[s]) =>
                    kept[s] = table[s]
  <1> DEFINE live == {s \in Remaining(table) : ~ContactExpired(table[s])}
             room == IF Cardinality(live) < MaxContacts THEN Cardinality(live) ELSE MaxContacts
  <1>1. PICK K \in kSubset(room, live) : recent \cap live \subseteq K /\ kept = KeepOnly(table, K)
    BY DEF ContactPrunings
  <1>2. MaxContacts \in Nat /\ IsFiniteSet(Shipments)
    BY ContactAssumption
  <1>3. live \in SUBSET Remaining(table) /\ Remaining(table) \in SUBSET Shipments
    BY DEF Remaining
  <1>4. /\ IsFiniteSet(Remaining(table)) /\ IsFiniteSet(live)
        /\ Cardinality(live) <= Cardinality(Remaining(table))
        /\ Cardinality(Remaining(table)) \in Nat /\ Cardinality(live) \in Nat
    BY <1>2, <1>3, FS_Subset, FS_CardinalityType
  <1>5. /\ K \subseteq live /\ IsFiniteSet(K) /\ Cardinality(K) <= MaxContacts
        /\ Cardinality(live) <= MaxContacts => K = live
    <2> HIDE DEF live
    <2> QED BY <1>1, <1>2, <1>4, Room
  <1>6. kept = [s \in Shipments |-> IF s \in K THEN table[s] ELSE NoContact]
    BY <1>1 DEF KeepOnly
  <1>7. kept \in ContactTable /\ \A s \in Shipments : kept[s] \in {table[s], NoContact}
    BY <1>6 DEF ContactTable
  <1>8. Remaining(kept) \in SUBSET K
    BY <1>6 DEF Remaining
  <1>9. Cardinality(Remaining(kept)) <= MaxContacts
    <2>1. Cardinality(Remaining(kept)) <= Cardinality(K) /\ IsFiniteSet(Remaining(kept))
      BY <1>5, <1>8, FS_Subset
    <2>2. Cardinality(Remaining(kept)) \in Nat /\ Cardinality(K) \in Nat
      BY <1>5, <2>1, FS_CardinalityType
    <2> QED BY <1>2, <1>5, <2>1, <2>2
  <1>10. \A s \in Shipments : table[s] # NoContact /\ ~ContactExpired(table[s]) => s \in live
    BY DEF Remaining
  <1>11. \A s \in recent : table[s] # NoContact /\ ~ContactExpired(table[s]) => kept[s] = table[s]
    BY <1>1, <1>6, <1>10
  <1>12. Cardinality(Remaining(table)) <= MaxContacts => K = live
    BY <1>2, <1>4, <1>5
  <1> HIDE DEF live
  <1> QED BY <1>6, <1>7, <1>9, <1>10, <1>11, <1>12

-----------------------------------------------------------------------------
(* The table of contacts under its four operations.  `ContactsKept`: it    *)
(* stays a table of rows as they are stored, within its capacity, and no   *)
(* phone that was known is lost.                                           *)

ContactsKept ==
    contacts' \in ContactTable /\ ContactRows' /\ ContactRoom' /\ PhonesSurvive

\* An expired row of less than 90 days has no phone.
LEMMA ExpiredRow ==
    ASSUME NEW row \in ContactRow, AsStored(row), row.decodes, row.age < Aged, ContactExpired(row)
    PROVE  Known(row.phones) = {}
  <1>1. row.status \in {"failed", "missing"}
    BY DEF ContactExpired, ContactRow, Aged, Recent
  <1> QED BY <1>1 DEF AsStored

\* A table whose rows are rows of another has room when that has.
LEMMA FewerContacts ==
    ASSUME NEW table \in ContactTable, NEW fewer \in ContactTable,
           Remaining(fewer) \subseteq Remaining(table),
           Cardinality(Remaining(table)) <= MaxContacts
    PROVE  Cardinality(Remaining(fewer)) <= MaxContacts
  <1>1. MaxContacts \in Nat /\ IsFiniteSet(Shipments)
    BY ContactAssumption
  <1>2. Remaining(table) \in SUBSET Shipments /\ Remaining(fewer) \in SUBSET Remaining(table)
    BY DEF Remaining
  <1>3. IsFiniteSet(Remaining(table)) /\ IsFiniteSet(Remaining(fewer))
    BY <1>1, <1>2, FS_Subset
  <1>4. Cardinality(Remaining(fewer)) <= Cardinality(Remaining(table))
    BY <1>2, <1>3, FS_Subset
  <1>5. Cardinality(Remaining(fewer)) \in Nat /\ Cardinality(Remaining(table)) \in Nat
    BY <1>3, FS_CardinalityType
  <1> QED BY <1>1, <1>4, <1>5

LEMMA GotContact ==
    ASSUME ContactInv, NEW s \in Shipments, GetContact(s)
    PROVE  ContactsKept
  <1>1. contacts \in ContactTable /\ ContactRows /\ ContactRoom
    BY DEF ContactInv, ContactTypes
  <1>2. CASE Readable(s)
    <2>1. contacts' = contacts
      BY <1>2 DEF GetContact
    <2> QED BY <1>1, <2>1 DEF ContactsKept, ContactRows, ContactRoom, PhonesSurvive, Stored, Remaining
  <1>3. CASE ~Readable(s)
    <2>1. contacts' = [contacts EXCEPT ![s] = NoContact]
      BY <1>3 DEF GetContact
    <2>2. contacts' \in ContactTable /\ Remaining(contacts') \subseteq Remaining(contacts)
      BY <1>1, <2>1 DEF ContactTable, Remaining
    <2>3. ContactRoom'
      BY <1>1, <2>2, FewerContacts DEF ContactRoom
    <2>4. ContactRows'
      BY <1>1, <2>1 DEF ContactRows, Stored, ContactTable
    <2>5. PhonesSurvive
      <3> SUFFICES ASSUME NEW u \in Shipments,
                          Stored(u) /\ contacts[u].decodes /\ contacts[u].age < Aged
                   PROVE  IF Stored(u)' THEN Known(contacts[u].phones) \subseteq Known(contacts'[u].phones)
                          ELSE Known(contacts[u].phones) = {}
        BY DEF PhonesSurvive
      <3>1. CASE u = s
        <4>1. contacts[s] \in ContactRow /\ AsStored(contacts[s]) /\ ContactExpired(contacts[s])
          BY <1>1, <1>3, <3>1 DEF Readable, ContactRows, Stored, ContactTable
        <4>2. Known(contacts[s].phones) = {}
          BY <3>1, <4>1, ExpiredRow
        <4> QED BY <1>1, <2>1, <3>1, <4>2 DEF Stored, ContactTable
      <3>2. CASE u # s
        <4>1. contacts'[u] = contacts[u]
          BY <1>1, <2>1, <3>2 DEF ContactTable
        <4> QED BY <4>1 DEF Stored
      <3> QED BY <3>1, <3>2
    <2> QED BY <2>2, <2>3, <2>4, <2>5 DEF ContactsKept
  <1> QED BY <1>2, <1>3

LEMMA AgedContact ==
    ASSUME ContactInv, NEW s \in Shipments, AgeContact(s)
    PROVE  ContactsKept
  <1>1. contacts \in ContactTable /\ ContactRows /\ ContactRoom
    BY DEF ContactInv, ContactTypes
  <1>2. /\ Stored(s) /\ contacts[s] \in ContactRow /\ AsStored(contacts[s])
        /\ contacts[s].age < Aged
    BY <1>1 DEF AgeContact, ContactTable, Stored, ContactRows
  <1> DEFINE row == [contacts[s] EXCEPT !.age = @ + 1]
  <1>3. /\ row \in ContactRow /\ row.phones = contacts[s].phones
        /\ row.decodes = contacts[s].decodes /\ row.status = contacts[s].status
        /\ row.source = contacts[s].source
    BY <1>2 DEF ContactRow, Aged, Recent
  <1>4. contacts' = [contacts EXCEPT ![s] = row]
    BY DEF AgeContact
  <1> HIDE DEF row
  <1>5. AsStored(row) /\ row # NoContact
    BY <1>2, <1>3, NoneIsNone DEF AsStored, Truthful
  <1>6. contacts' \in ContactTable /\ Remaining(contacts') \subseteq Remaining(contacts)
    BY <1>1, <1>2, <1>3, <1>4 DEF ContactTable, Remaining, Stored
  <1>7. ContactRoom'
    BY <1>1, <1>6, FewerContacts DEF ContactRoom
  <1>8. ContactRows'
    BY <1>1, <1>4, <1>5 DEF ContactRows, Stored, ContactTable
  <1>9. PhonesSurvive
    BY <1>1, <1>3, <1>4, <1>5 DEF PhonesSurvive, Stored, ContactTable
  <1> QED BY <1>6, <1>7, <1>8, <1>9 DEF ContactsKept

LEMMA WroteContact ==
    ASSUME ContactInv, NEW s \in Shipments, NEW job \in ContactJob, OneSource(job),
           StoreContact(s, job.phones, job.failed, job.source)
    PROVE  ContactsKept
  <1>1. contacts \in ContactTable /\ ContactRows /\ ContactRoom
    BY DEF ContactInv, ContactTypes
  <1> DEFINE row == ContactToStore(s, job.phones, job.failed, job.source)
             table == [contacts EXCEPT ![s] = row]
  <1>2. /\ row \in ContactRow /\ AsStored(row) /\ ~ContactExpired(row)
        /\ Stored(s) /\ contacts[s].decodes /\ contacts[s].age < Aged =>
              Known(contacts[s].phones) \subseteq Known(row.phones)
    BY StoredRow DEF ContactInv
  <1>3. contacts' \in ContactPrunings(table, {s})
    BY DEF StoreContact
  <1> HIDE DEF row
  <1>4. /\ table \in ContactTable /\ row # NoContact /\ table[s] = row
        /\ \A u \in Shipments \ {s} : table[u] = contacts[u]
    BY <1>1, <1>2, NoneIsNone DEF ContactTable
  <1> HIDE DEF table
  <1>5. /\ contacts' \in ContactTable
        /\ \A u \in Shipments : contacts'[u] \in {table[u], NoContact}
        /\ contacts'[s] = row
        /\ Cardinality(Remaining(contacts')) <= MaxContacts
        /\ Cardinality(Remaining(table)) <= MaxContacts =>
              \A u \in Shipments : table[u] # NoContact /\ ~ContactExpired(table[u]) =>
                 contacts'[u] = table[u]
    BY <1>2, <1>3, <1>4, PrunedContacts
  <1>6. ContactRoom'
    BY <1>5 DEF ContactRoom
  <1>7. ContactRows'
    BY <1>1, <1>2, <1>4, <1>5 DEF ContactRows, Stored
  <1>8. PhonesSurvive
    <2> SUFFICES ASSUME NEW u \in Shipments,
                        Stored(u) /\ contacts[u].decodes /\ contacts[u].age < Aged
                 PROVE  IF Stored(u)' THEN Known(contacts[u].phones) \subseteq Known(contacts'[u].phones)
                        ELSE \/ Known(contacts[u].phones) = {}
                             \/ \E n \in Shipments : ~Stored(n) /\ Stored(n)'
      BY DEF PhonesSurvive
    <2>1. CASE u = s
      BY <1>2, <1>4, <1>5, <2>1 DEF Stored
    <2>2. CASE u # s /\ Stored(u)'
      <3>1. contacts'[u] = contacts[u]
        BY <1>4, <1>5, <2>2 DEF Stored
      <3> QED BY <2>2, <3>1
    <2>3. CASE u # s /\ ~Stored(u)' /\ ~Stored(s)
      BY <1>4, <1>5, <2>3 DEF Stored
    <2>4. CASE u # s /\ ~Stored(u)' /\ Stored(s)
      <3>1. Remaining(table) \subseteq Remaining(contacts)
        BY <1>4, <2>4 DEF Remaining, Stored
      <3>2. Cardinality(Remaining(table)) <= MaxContacts
        BY <1>1, <1>4, <3>1, FewerContacts DEF ContactRoom
      <3>3. ContactExpired(contacts[u])
        BY <1>4, <1>5, <2>4, <3>2 DEF Stored
      <3>4. contacts[u] \in ContactRow /\ AsStored(contacts[u])
        BY <1>1 DEF ContactTable, ContactRows, Stored
      <3>5. Known(contacts[u].phones) = {}
        BY <3>3, <3>4, ExpiredRow
      <3> QED BY <2>4, <3>5
    <2> QED BY <2>1, <2>2, <2>3, <2>4
  <1> QED BY <1>5, <1>6, <1>7, <1>8 DEF ContactsKept

LEMMA OpenedContacts ==
    ASSUME ContactInv, OpenContacts
    PROVE  ContactsKept
  <1>1. contacts \in ContactTable /\ ContactRows /\ ContactRoom
    BY DEF ContactInv, ContactTypes
  <1>2. contacts' \in ContactPrunings(contacts, {})
    BY DEF OpenContacts
  <1>3. /\ contacts' \in ContactTable
        /\ \A u \in Shipments : contacts'[u] \in {contacts[u], NoContact}
        /\ Cardinality(Remaining(contacts')) <= MaxContacts
        /\ \A u \in Shipments : contacts[u] # NoContact /\ ~ContactExpired(contacts[u]) =>
              contacts'[u] = contacts[u]
    <2>1. {} \in SUBSET Shipments /\ Cardinality(Remaining(contacts)) <= MaxContacts
      BY <1>1 DEF ContactRoom
    <2> QED BY <1>1, <1>2, <2>1, PrunedContacts
  <1>4. ContactRows'
    BY <1>1, <1>3 DEF ContactRows, Stored
  <1>5. PhonesSurvive
    <2> SUFFICES ASSUME NEW u \in Shipments,
                        Stored(u) /\ contacts[u].decodes /\ contacts[u].age < Aged
                 PROVE  IF Stored(u)' THEN Known(contacts[u].phones) \subseteq Known(contacts'[u].phones)
                        ELSE Known(contacts[u].phones) = {}
      BY DEF PhonesSurvive
    <2>1. CASE ContactExpired(contacts[u])
      <3>1. contacts[u] \in ContactRow /\ AsStored(contacts[u])
        BY <1>1 DEF ContactTable, ContactRows, Stored
      <3>2. Known(contacts[u].phones) = {}
        BY <2>1, <3>1, ExpiredRow
      <3> QED BY <1>3, <3>2 DEF Stored
    <2>2. CASE ~ContactExpired(contacts[u])
      BY <1>3, <2>2 DEF Stored
    <2> QED BY <2>1, <2>2
  <1> QED BY <1>3, <1>4, <1>5 DEF ContactsKept, ContactRoom
-----------------------------------------------------------------------------
(* The tasks and their leases.                                             *)

ContactsGoOn ==
    /\ contactLease' \in [Shipments -> ContactLease]
    /\ contactTask' \in [Trackings -> ContactTask]
    /\ contactJob' \in [Trackings -> ContactJob \cup {NoJob}]
    /\ ContactsHeld' /\ ContactJobs'

\* A task moves by itself, takes the lease of its shipment, waits for it or
\* gives up what it had of it; only with the lease does it acquire.
LEMMA MovedContact ==
    ASSUME ContactInv, NEW t \in Trackings, NEW task \in ContactTask,
           contactTask' = [contactTask EXCEPT ![t] = task],
           \/ UNCHANGED contactLease /\ (task.pc \in Acquiring => contactTask[t].pc \in Acquiring)
           \/ ContactLeases!Start(t, Shipment[t])
           \/ ContactLeases!Wait(t, Shipment[t]) /\ task.pc \notin Acquiring
           \/ ContactLeases!Drop(t, Shipment[t]) /\ task.pc \notin Acquiring
    PROVE  /\ contactLease' \in [Shipments -> ContactLease]
           /\ contactTask' \in [Trackings -> ContactTask]
           /\ ContactsHeld'
  <1>1. /\ Shipment[t] \in Shipments /\ Nobody \notin Trackings
        /\ \A u \in Trackings : Shipment[u] \in Shipments
    BY RequestsAssumption
  <1>2. /\ contactLease \in [Shipments -> ContactLease] /\ contactTask \in [Trackings -> ContactTask]
        /\ ContactsHeld
    BY DEF ContactInv, ContactTypes
  <1>3. /\ contactTask' \in [Trackings -> ContactTask] /\ contactTask'[t] = task
        /\ \A u \in Trackings \ {t} : contactTask'[u] = contactTask[u]
    BY <1>2
  <1> DEFINE s == Shipment[t]
  <1>4. /\ contactLease[s] \in ContactLease
        /\ contactLease[s].holder \in Trackings \cup {Nobody}
        /\ contactLease[s].waiting \in SUBSET Trackings
    BY <1>1, <1>2 DEF ContactLease
  <1>5. CASE UNCHANGED contactLease /\ (task.pc \in Acquiring => contactTask[t].pc \in Acquiring)
    BY <1>2, <1>3, <1>5 DEF ContactsHeld
  <1>6. CASE ContactLeases!Start(t, Shipment[t])
    <2>1. /\ contactLease[s].holder = Nobody
          /\ contactLease' = [contactLease EXCEPT ![s] = [holder |-> t, waiting |-> {}]]
      BY <1>6 DEF ContactLeases!Start
    <2>2. [holder |-> t, waiting |-> {}] \in ContactLease
      BY DEF ContactLease
    <2>3. /\ contactLease' \in [Shipments -> ContactLease] /\ contactLease'[s].holder = t
          /\ \A k \in Shipments \ {s} : contactLease'[k] = contactLease[k]
      BY <1>1, <1>2, <2>1, <2>2
    <2>4. \A u \in Trackings : Shipment[u] = s => contactTask[u].pc \notin Acquiring
      BY <1>1, <1>2, <2>1 DEF ContactsHeld
    <2> QED BY <1>1, <1>2, <1>3, <2>3, <2>4 DEF ContactsHeld
  <1>7. CASE ContactLeases!Wait(t, Shipment[t]) /\ task.pc \notin Acquiring
    <2> DEFINE more == [contactLease[s] EXCEPT !.waiting = @ \cup {t}]
    <2>1. contactLease' = [contactLease EXCEPT ![s] = more]
      BY <1>7 DEF ContactLeases!Wait
    <2>2. more \in ContactLease /\ more.holder = contactLease[s].holder
      BY <1>4 DEF ContactLease
    <2> HIDE DEF more
    <2>3. /\ contactLease' \in [Shipments -> ContactLease]
          /\ \A k \in Shipments : contactLease'[k].holder = contactLease[k].holder
      BY <1>1, <1>2, <2>1, <2>2
    <2> QED BY <1>1, <1>2, <1>3, <1>7, <2>3 DEF ContactsHeld
  <1>8. CASE ContactLeases!Drop(t, Shipment[t]) /\ task.pc \notin Acquiring
    <2> DEFINE less == ContactLeases!Without(t, s)
    <2>1. contactLease' = [contactLease EXCEPT ![s] = less]
      BY <1>8 DEF ContactLeases!Drop
    <2>2. less \in ContactLease /\ (contactLease[s].holder # t => less.holder = contactLease[s].holder)
      BY <1>4 DEF ContactLeases!Without, ContactLeases!Free, ContactLease
    <2> HIDE DEF less
    <2>3. /\ contactLease' \in [Shipments -> ContactLease]
          /\ \A k \in Shipments \ {s} : contactLease'[k] = contactLease[k]
          /\ (contactLease[s].holder # t => contactLease'[s].holder = contactLease[s].holder)
      BY <1>1, <1>2, <2>1, <2>2
    <2> SUFFICES ASSUME NEW u \in Trackings, contactTask'[u].pc \in Acquiring
                 PROVE  contactLease'[Shipment[u]].holder = u
      BY <1>3, <2>3 DEF ContactsHeld
    <2>4. u # t /\ contactTask[u].pc \in Acquiring
      BY <1>3, <1>8
    <2>5. contactLease[Shipment[u]].holder = u
      BY <1>2, <2>4 DEF ContactsHeld
    <2> QED BY <1>1, <2>3, <2>4, <2>5
  <1> QED BY <1>5, <1>6, <1>7, <1>8
\* A step of a task that leaves its blocking write alone.
LEMMA ContactMoves ==
    ASSUME ContactInv, NEW t \in Trackings, NEW task \in ContactTask,
           contactTask' = [contactTask EXCEPT ![t] = task], UNCHANGED contactJob,
           \/ UNCHANGED contactLease /\ (task.pc \in Acquiring => contactTask[t].pc \in Acquiring)
           \/ ContactLeases!Start(t, Shipment[t])
           \/ ContactLeases!Wait(t, Shipment[t]) /\ task.pc \notin Acquiring
           \/ ContactLeases!Drop(t, Shipment[t]) /\ task.pc \notin Acquiring
    PROVE  ContactsGoOn
  <1>1. /\ contactLease' \in [Shipments -> ContactLease]
        /\ contactTask' \in [Trackings -> ContactTask]
        /\ ContactsHeld'
    BY MovedContact
  <1>2. contactJob \in [Trackings -> ContactJob \cup {NoJob}] /\ ContactJobs
    BY DEF ContactInv, ContactTypes
  <1> QED BY <1>1, <1>2 DEF ContactsGoOn, ContactJobs

\* What a task is, and what it may become.
LEMMA ContactFields ==
    ASSUME NEW task \in ContactTask
    PROVE  /\ task.pc \in ContactPcs /\ task.have \in SUBSET Parties
           /\ task.lacks \in SUBSET Parties
           /\ task.entry \in ContactRow \cup {NoContact}
  BY DEF ContactTask

LEMMA ContactWithPc ==
    ASSUME NEW task \in ContactTask, NEW pc \in ContactPcs
    PROVE  [task EXCEPT !.pc = pc] \in ContactTask /\ [task EXCEPT !.pc = pc].pc = pc
  BY DEF ContactTask

EndedWith(have) == [IdleContact EXCEPT !.pc = "done", !.have = have]
LEMMA EndedContact ==
    ASSUME NEW have \in SUBSET Parties
    PROVE  EndedWith(have) \in ContactTask /\ EndedWith(have).pc = "done"
  BY DEF ContactTask, ContactPcs, IdleContact, EndedWith

LEMMA GoneContact ==
    LET ended == [IdleContact EXCEPT !.pc = "gone"]
    IN  ended \in ContactTask /\ ended.pc = "gone"
  BY DEF ContactTask, ContactPcs, IdleContact

LEMMA BeginContactSafe ==
    ASSUME ContactInv, NEW t \in Trackings, BeginContact(t)
    PROVE  ContactsGoOn
  <1>1. contactTask[t] \in ContactTask /\ contactTask[t].pc = "idle"
    BY DEF ContactInv, ContactTypes, BeginContact, ContactAt
  <1> DEFINE began(force, have) ==
                 [IdleContact EXCEPT !.pc = "read", !.force = force,
                                     !.have = have, !.lacks = Parties \ have]
  <1>2. PICK have \in Primary[t], force \in ForceOf(t) :
          IF have = Parties THEN ContactEnds(t, have)
          ELSE contactTask' = [contactTask EXCEPT ![t] = began(force, have)]
    BY Zenon DEF BeginContact
  <1>3. have \in SUBSET Parties /\ force \in BOOLEAN
    BY RequestsAssumption DEF ForceOf
  <1>4. UNCHANGED <<contactLease, contactJob>>
    BY DEF BeginContact
  <1>5. CASE have = Parties
    <2> DEFINE task == EndedWith(have)
    <2>1. contactTask' = [contactTask EXCEPT ![t] = task]
      BY <1>2, <1>5 DEF ContactEnds, EndedWith
    <2>2. task \in ContactTask /\ task.pc \notin Acquiring
      BY <1>1, <1>3, EndedContact DEF Acquiring
    <2> HIDE DEF task
    <2> QED BY <1>4, <2>1, <2>2, ContactMoves
  <1>6. CASE have # Parties
    <2> DEFINE task == began(force, have)
    <2>1. contactTask' = [contactTask EXCEPT ![t] = task]
      BY <1>2, <1>6
    <2>2. task \in ContactTask /\ task.pc \notin Acquiring
      BY <1>3 DEF ContactTask, ContactPcs, IdleContact, Acquiring
    <2> HIDE DEF task
    <2> QED BY <1>4, <2>1, <2>2, ContactMoves
  <1> QED BY <1>5, <1>6

LEMMA ReadContactSafe ==
    ASSUME ContactInv, NEW t \in Trackings, ReadContact(t)
    PROVE  ContactsGoOn
  <1> DEFINE entry == ContactEntry(Shipment[t])
             task == [contactTask[t] EXCEPT !.pc = "decide", !.entry = entry]
  <1>1. contactTask \in [Trackings -> ContactTask] /\ contactTask[t] \in ContactTask
    BY DEF ContactInv, ContactTypes
  <1>2. entry \in ContactRow \cup {NoContact}
    <2>1. CASE ~Readable(Shipment[t])
      BY <2>1 DEF ContactEntry
    <2>2. CASE Readable(Shipment[t])
      <3>1. contacts[Shipment[t]] \in ContactRow
        BY <2>2, RequestsAssumption DEF Readable, Stored, ContactInv, ContactTypes, ContactTable
      <3>2. ContactStatus(contacts[Shipment[t]].phones) \in Statuses
        BY DEF ContactStatus, Statuses
      <3> QED BY <2>2, <3>1, <3>2 DEF ContactEntry, ContactRow
    <2> QED BY <2>1, <2>2
  <1> HIDE DEF entry
  <1>3. contactTask' = [contactTask EXCEPT ![t] = task] /\ UNCHANGED <<contactLease, contactJob>>
    BY <1>1 DEF ReadContact, entry
  <1>4. task \in ContactTask /\ task.pc \notin Acquiring
    BY <1>1, <1>2 DEF ContactTask, ContactPcs, Acquiring
  <1> HIDE DEF task
  <1> QED BY <1>3, <1>4, ContactMoves

LEMMA AppliedParties ==
    ASSUME ContactInv, NEW t \in Trackings
    PROVE  Applied(t) \in SUBSET Parties
  <1>1. contactTask[t].have \in SUBSET Parties
    BY DEF ContactInv, ContactTypes, ContactTask
  <1> QED BY <1>1 DEF Applied, Known

LEMMA ContactCachedSafe ==
    ASSUME ContactInv, NEW t \in Trackings, ContactCached(t)
    PROVE  ContactsGoOn
  <1> DEFINE task == EndedWith(Applied(t))
  <1>1. contactTask[t] \in ContactTask
    BY DEF ContactInv, ContactTypes
  <1>2. contactTask' = [contactTask EXCEPT ![t] = task] /\ UNCHANGED <<contactLease, contactJob>>
    BY DEF ContactCached, ContactEnds, EndedWith
  <1>3. task \in ContactTask /\ task.pc \notin Acquiring
    BY <1>1, AppliedParties, EndedContact DEF Acquiring
  <1> HIDE DEF task
  <1> QED BY <1>2, <1>3, ContactMoves

LEMMA ContactBeginsSafe ==
    ASSUME ContactInv, NEW t \in Trackings, ContactBegins(t)
    PROVE  ContactsGoOn
  <1> DEFINE became(pc) == [contactTask[t] EXCEPT !.pc = pc, !.have = Applied(t),
                                                  !.entry = NoContact]
  <1>1. contactTask \in [Trackings -> ContactTask] /\ contactTask[t] \in ContactTask
    BY DEF ContactInv, ContactTypes
  <1>2. \A pc \in {"permit", "waiting"} : became(pc) \in ContactTask /\ became(pc).pc = pc
    BY <1>1, AppliedParties DEF ContactTask, ContactPcs
  <1>3. UNCHANGED contactJob
    BY DEF ContactBegins
  <1>4. CASE /\ TakesLease(t, Shipment[t])
             /\ contactTask' = [contactTask EXCEPT ![t].pc = "permit",
                   ![t].have = Applied(t), ![t].entry = NoContact]
    <2>1. contactTask' = [contactTask EXCEPT ![t] = became("permit")]
      BY <1>1, <1>4
    <2>2. became("permit") \in ContactTask /\ ContactLeases!Start(t, Shipment[t])
      BY <1>2, <1>4 DEF TakesLease
    <2> HIDE DEF became
    <2> QED BY <1>3, <2>1, <2>2, ContactMoves
  <1>5. CASE /\ ContactLeases!Wait(t, Shipment[t])
             /\ contactTask' = [contactTask EXCEPT ![t].pc = "waiting",
                   ![t].have = Applied(t), ![t].entry = NoContact]
    <2>1. contactTask' = [contactTask EXCEPT ![t] = became("waiting")]
      BY <1>1, <1>5
    <2>2. became("waiting") \in ContactTask /\ became("waiting").pc \notin Acquiring
      BY <1>2 DEF Acquiring
    <2> HIDE DEF became
    <2> QED BY <1>3, <1>5, <2>1, <2>2, ContactMoves
  <1> QED BY <1>4, <1>5 DEF ContactBegins

LEMMA ContactWakesSafe ==
    ASSUME ContactInv, NEW t \in Trackings, ContactWakes(t)
    PROVE  ContactsGoOn
  <1> DEFINE task == [contactTask[t] EXCEPT !.pc = "read", !.force = FALSE]
  <1>1. contactTask \in [Trackings -> ContactTask] /\ contactTask[t] \in ContactTask
    BY DEF ContactInv, ContactTypes
  <1>2. contactTask' = [contactTask EXCEPT ![t] = task] /\ UNCHANGED <<contactLease, contactJob>>
    BY <1>1 DEF ContactWakes
  <1>3. task \in ContactTask /\ task.pc \notin Acquiring
    BY <1>1 DEF ContactTask, ContactPcs, Acquiring
  <1> HIDE DEF task
  <1> QED BY <1>2, <1>3, ContactMoves

LEMMA ContactPermitSafe ==
    ASSUME ContactInv, NEW t \in Trackings, ContactPermit(t)
    PROVE  ContactsGoOn
  <1>1. /\ contactTask \in [Trackings -> ContactTask] /\ contactTask[t] \in ContactTask
        /\ contactTask[t].pc = "permit" /\ UNCHANGED contactJob
    BY DEF ContactInv, ContactTypes, ContactPermit, ContactAt
  <1>2. CASE ContactGoes(t, "lacak_mitra") /\ UNCHANGED contactLease
    <2> DEFINE task == [contactTask[t] EXCEPT !.pc = "lacak_mitra"]
    <2>1. contactTask' = [contactTask EXCEPT ![t] = task]
      BY <1>1, <1>2 DEF ContactGoes
    <2>2. task \in ContactTask /\ contactTask[t].pc \in Acquiring
      BY <1>1, ContactWithPc DEF ContactPcs, Acquiring
    <2> HIDE DEF task
    <2> QED BY <1>1, <1>2, <2>1, <2>2, ContactMoves
  <1>3. CASE ContactEnds(t, contactTask[t].have) /\ ContactLeases!Drop(t, Shipment[t])
    <2> DEFINE task == EndedWith(contactTask[t].have)
    <2>1. contactTask' = [contactTask EXCEPT ![t] = task]
      BY <1>3 DEF ContactEnds, EndedWith
    <2>2. task \in ContactTask /\ task.pc \notin Acquiring
      BY <1>1, ContactFields, EndedContact DEF Acquiring
    <2> HIDE DEF task
    <2> QED BY <1>1, <1>3, <2>1, <2>2, ContactMoves
  <1> QED BY <1>2, <1>3 DEF ContactPermit

\* What a task has found becomes its blocking write.
LEMMA ContactWrites ==
    ASSUME ContactInv, NEW t \in Trackings, contactTask[t].pc \in Acquiring, UNCHANGED contactLease,
           NEW found, NEW failed \in BOOLEAN, NEW source \in Sources,
           Writes(t, found, failed, source)
    PROVE  ContactsGoOn
  <1> DEFINE phones == [p \in Parties |-> IF p \in found THEN source ELSE NoPhone]
             job == [phones |-> phones, failed |-> failed, source |-> source]
             task == [contactTask[t] EXCEPT !.pc = "storing"]
  <1>1. /\ contactTask \in [Trackings -> ContactTask] /\ contactTask[t] \in ContactTask
        /\ contactJob \in [Trackings -> ContactJob \cup {NoJob}] /\ ContactJobs
    BY DEF ContactInv, ContactTypes
  <1>2. /\ contactTask' = [contactTask EXCEPT ![t] = task]
        /\ contactJob' = [contactJob EXCEPT ![t] = job]
    BY <1>1 DEF Writes, ContactGoes
  <1>3. task \in ContactTask
    BY <1>1, ContactWithPc DEF ContactPcs
  <1>4. phones \in Phones /\ \A p \in Parties : phones[p] \in {NoPhone, source}
    BY DEF Phones
  <1>5. job \in ContactJob /\ OneSource(job)
    <2> HIDE DEF phones
    <2> QED BY <1>4 DEF ContactJob, OneSource
  <1> HIDE DEF task, job
  <1>6. /\ contactLease' \in [Shipments -> ContactLease]
        /\ contactTask' \in [Trackings -> ContactTask]
        /\ ContactsHeld'
    BY <1>2, <1>3, MovedContact
  <1>7. contactJob' \in [Trackings -> ContactJob \cup {NoJob}] /\ ContactJobs'
    BY <1>1, <1>2, <1>5 DEF ContactJobs
  <1> QED BY <1>6, <1>7 DEF ContactsGoOn

LEMMA ContactFetchedSafe ==
    ASSUME ContactInv, NEW t \in Trackings, ContactFetched(t)
    PROVE  ContactsGoOn
  <1>1. /\ contactTask \in [Trackings -> ContactTask] /\ contactTask[t] \in ContactTask
        /\ contactTask[t].pc \in Sources /\ UNCHANGED contactLease
    BY DEF ContactInv, ContactTypes, ContactFetched, ContactAt
  <1>2. contactTask[t].pc \in Acquiring
    BY <1>1 DEF Sources, Acquiring
  <1>3. CASE \E page \in ContactPages :
               ContactRead(page, Shipment[t])
               /\ Writes(t, ContactPhones(page), FALSE, contactTask[t].pc)
    <2>1. PICK page \in ContactPages : Writes(t, ContactPhones(page), FALSE, contactTask[t].pc)
      BY <1>3
    <2> QED BY <1>1, <1>2, <2>1, ContactWrites
  <1>4. CASE ContactGoes(t, "pid_detail") /\ UNCHANGED contactJob
    <2> DEFINE task == [contactTask[t] EXCEPT !.pc = "pid_detail"]
    <2>1. contactTask' = [contactTask EXCEPT ![t] = task]
      BY <1>1, <1>4 DEF ContactGoes
    <2>2. task \in ContactTask
      BY <1>1, ContactWithPc DEF ContactPcs
    <2> HIDE DEF task
    <2> QED BY <1>1, <1>2, <1>4, <2>1, <2>2, ContactMoves
  <1>5. CASE Writes(t, {}, TRUE, "lacak_mitra")
    <2>1. "lacak_mitra" \in Sources
      BY DEF Sources
    <2> QED BY <1>1, <1>2, <1>5, <2>1, ContactWrites
  <1> QED BY <1>3, <1>4, <1>5 DEF ContactFetched

LEMMA ContactAnsweredSafe ==
    ASSUME ContactInv, NEW t \in Trackings, ContactAnswered(t)
    PROVE  ContactsGoOn
  <1> DEFINE found == Known(contactTask[t].entry.phones)
             have == IF ContactAt(t, "stored")
                     THEN (contactTask[t].have \ contactTask[t].lacks)
                          \cup (found \cap contactTask[t].lacks)
                     ELSE contactTask[t].have \cup found
             task == EndedWith(have)
  <1>1. contactTask[t] \in ContactTask
    BY DEF ContactInv, ContactTypes
  <1>2. have \in SUBSET Parties
    BY <1>1, ContactFields DEF Known
  <1>3. /\ contactTask' = [contactTask EXCEPT ![t] = task]
        /\ ContactLeases!Drop(t, Shipment[t]) /\ UNCHANGED contactJob
    BY DEF ContactAnswered, ContactEnds, EndedWith
  <1> HIDE DEF have
  <1>4. task \in ContactTask /\ task.pc \notin Acquiring
    BY <1>1, <1>2, EndedContact DEF Acquiring
  <1> HIDE DEF task
  <1> QED BY <1>3, <1>4, ContactMoves

LEMMA ContactDroppedSafe ==
    ASSUME ContactInv, NEW t \in Trackings, ContactDropped(t)
    PROVE  ContactsGoOn
  <1> DEFINE task == [IdleContact EXCEPT !.pc = "gone"]
  <1>1. contactTask[t] \in ContactTask
    BY DEF ContactInv, ContactTypes
  <1>2. /\ contactTask' = [contactTask EXCEPT ![t] = task]
        /\ ContactLeases!Drop(t, Shipment[t]) /\ UNCHANGED contactJob
    BY DEF ContactDropped
  <1>3. task \in ContactTask /\ task.pc \notin Acquiring
    BY <1>1, GoneContact DEF Acquiring
  <1> HIDE DEF task
  <1> QED BY <1>2, <1>3, ContactMoves
LEMMA ContactWrittenSafe ==
    ASSUME ContactInv, NEW t \in Trackings, ContactWritten(t)
    PROVE  ContactsGoOn /\ ContactsKept
  <1> DEFINE job == contactJob[t]
             row == ContactToStore(Shipment[t], job.phones, job.failed, job.source)
  <1>1. /\ contactTask \in [Trackings -> ContactTask] /\ contactTask[t] \in ContactTask
        /\ contactJob \in [Trackings -> ContactJob \cup {NoJob}] /\ ContactJobs
        /\ contactLease \in [Shipments -> ContactLease] /\ ContactsHeld
        /\ ContactTypes /\ ContactRows
    BY DEF ContactInv, ContactTypes
  <1>2. /\ job # NoJob /\ StoreContact(Shipment[t], job.phones, job.failed, job.source)
        /\ contactJob' = [contactJob EXCEPT ![t] = NoJob] /\ UNCHANGED contactLease
    BY DEF ContactWritten
  <1>3. job \in ContactJob /\ OneSource(job) /\ Shipment[t] \in Shipments
    BY <1>1, <1>2, RequestsAssumption DEF ContactJobs
  <1>4. ContactsKept
    BY <1>2, <1>3, WroteContact
  <1>5. row \in ContactRow
    BY <1>1, <1>3, StoredRow
  <1> HIDE DEF row
  <1>6. contactJob' \in [Trackings -> ContactJob \cup {NoJob}] /\ ContactJobs'
    BY <1>1, <1>2 DEF ContactJobs
  <1>7. CASE ContactAt(t, "storing")
    <2> DEFINE pc == IF job.failed THEN "failed" ELSE "stored"
               task == [contactTask[t] EXCEPT !.pc = pc, !.entry = row]
    <2>1. contactTask' = [contactTask EXCEPT ![t] = task]
      BY <1>1, <1>7 DEF ContactWritten, row
    <2>2. pc \in {"failed", "stored"}
      OBVIOUS
    <2> HIDE DEF pc
    <2>3. task \in ContactTask /\ contactTask[t].pc \in Acquiring
      BY <1>1, <1>5, <1>7, <2>2 DEF ContactTask, ContactPcs, ContactAt, Acquiring
    <2> HIDE DEF task
    <2>4. contactTask' \in [Trackings -> ContactTask] /\ ContactsHeld'
      BY <1>2, <2>1, <2>3, MovedContact
    <2> QED BY <1>1, <1>2, <1>4, <1>6, <2>4 DEF ContactsGoOn
  <1>8. CASE ~ContactAt(t, "storing")
    <2>1. UNCHANGED contactTask
      BY <1>8 DEF ContactWritten
    <2> QED BY <1>1, <1>2, <1>4, <1>6, <2>1 DEF ContactsGoOn, ContactsHeld
  <1> QED BY <1>7, <1>8

-----------------------------------------------------------------------------
(* Contacts in every step of the service.                                  *)

\* What the caches keep and the tasks do make up the invariant.
LEMMA ContactParts ==
    ASSUME ContactsGoOn, ContactsKept
    PROVE  ContactInv'
  BY DEF ContactsGoOn, ContactsKept, ContactInv, ContactTypes

LEMMA SameContacts ==
    ASSUME ContactInv, UNCHANGED contacts
    PROVE  ContactsKept
  BY DEF ContactInv, ContactTypes, ContactsKept, ContactRows, ContactRoom, Stored, Remaining,
         PhonesSurvive

LEMMA SameContactTasks ==
    ASSUME ContactInv, UNCHANGED <<contactLease, contactTask, contactJob>>
    PROVE  ContactsGoOn
  BY DEF ContactInv, ContactTypes, ContactsGoOn, ContactsHeld, ContactJobs

LEMMA ContactStepSafe ==
    ASSUME ContactInv, NEW t \in Trackings, ContactStep(t)
    PROVE  ContactsGoOn /\ ContactsKept
  <1>1. CASE BeginContact(t)
    <2>1. UNCHANGED contacts
      BY <1>1 DEF BeginContact
    <2> QED BY <1>1, <2>1, BeginContactSafe, SameContacts
  <1>2. CASE ReadContact(t)
    <2>1. GetContact(Shipment[t]) /\ Shipment[t] \in Shipments
      BY <1>2, RequestsAssumption DEF ReadContact
    <2> QED BY <1>2, <2>1, ReadContactSafe, GotContact
  <1>3. CASE ContactCached(t)
    <2>1. UNCHANGED contacts
      BY <1>3 DEF ContactCached
    <2> QED BY <1>3, <2>1, ContactCachedSafe, SameContacts
  <1>4. CASE ContactBegins(t)
    <2>1. UNCHANGED contacts
      BY <1>4 DEF ContactBegins
    <2> QED BY <1>4, <2>1, ContactBeginsSafe, SameContacts
  <1>5. CASE ContactWakes(t)
    <2>1. UNCHANGED contacts
      BY <1>5 DEF ContactWakes
    <2> QED BY <1>5, <2>1, ContactWakesSafe, SameContacts
  <1>6. CASE ContactPermit(t)
    <2>1. UNCHANGED contacts
      BY <1>6 DEF ContactPermit
    <2> QED BY <1>6, <2>1, ContactPermitSafe, SameContacts
  <1>7. CASE ContactFetched(t)
    <2>1. UNCHANGED contacts
      BY <1>7 DEF ContactFetched
    <2> QED BY <1>7, <2>1, ContactFetchedSafe, SameContacts
  <1>8. CASE ContactAnswered(t)
    <2>1. UNCHANGED contacts
      BY <1>8 DEF ContactAnswered
    <2> QED BY <1>8, <2>1, ContactAnsweredSafe, SameContacts
  <1> QED BY <1>1, <1>2, <1>3, <1>4, <1>5, <1>6, <1>7, <1>8 DEF ContactStep

\* A restart leaves no lease and nobody acquiring.
LEMMA ContactRestart ==
    ASSUME ContactInv, Restart
    PROVE  ContactsGoOn /\ ContactsKept
  <1>1. ContactsKept
    BY OpenedContacts DEF Restart
  <1> DEFINE cut(t) == IF Running(contactTask[t]) THEN [IdleContact EXCEPT !.pc = "gone"]
                       ELSE contactTask[t]
  <1>2. /\ contactLease' = [s \in Shipments |-> ContactLeases!Free]
        /\ contactTask' = [t \in Trackings |-> cut(t)]
        /\ contactJob' = [t \in Trackings |-> NoJob]
    BY DEF Restart
  <1>3. ContactLeases!Free \in ContactLease
    BY DEF ContactLeases!Free, ContactLease
  <1>4. ASSUME NEW t \in Trackings
        PROVE  cut(t) \in ContactTask /\ cut(t).pc \notin Acquiring
    <2>1. contactTask[t] \in ContactTask /\ contactTask[t].pc \in ContactPcs
      BY ContactFields DEF ContactInv, ContactTypes
    <2>2. CASE Running(contactTask[t])
      <3>1. cut(t) = [IdleContact EXCEPT !.pc = "gone"]
        BY <2>2
      <3> QED BY <3>1, GoneContact DEF Acquiring
    <2>3. CASE ~Running(contactTask[t])
      BY <2>1, <2>3 DEF Running, Acquiring
    <2> QED BY <2>2, <2>3
  <1> HIDE DEF cut
  <1>5. ContactsGoOn
    BY <1>2, <1>3, <1>4 DEF ContactsGoOn, ContactsHeld, ContactJobs
  <1> QED BY <1>1, <1>5

LEMMA ContactNextSafe ==
    ASSUME ContactInv, [Next]_vars
    PROVE  ContactsGoOn /\ ContactsKept
  <1>1. CASE UNCHANGED contactVars
    BY <1>1, SameContacts, SameContactTasks DEF contactVars
  <1>2. CASE \E t \in Trackings : ContactNext(t)
    BY <1>2, ContactStepSafe, ContactWrittenSafe DEF ContactNext
  <1>3. CASE \E t \in Trackings : ContactDropped(t)
    <2>1. PICK t \in Trackings : ContactDropped(t)
      BY <1>3
    <2>2. UNCHANGED contacts
      BY <2>1 DEF ContactDropped
    <2> QED BY <2>1, <2>2, ContactDroppedSafe, SameContacts
  <1>4. CASE \E s \in Shipments : AgeContact(s) /\ UNCHANGED <<contactLease, contactTask, contactJob>>
    BY <1>4, AgedContact, SameContactTasks
  <1>5. CASE Restart
    BY <1>5, ContactRestart
  <1> QED BY <1>1, <1>2, <1>3, <1>4, <1>5
          DEF Next, RouteNext, ManifestNext, ExchangeNext, Drops, Ages, vars

LEMMA ContactInitSafe ==
    ASSUME Init
    PROVE  ContactInv
  <1>1. PICK w \in Scenarios : ContactInit(w.contacts)
    BY DEF Init
  <1>2. PICK table \in w.contacts, legacy \in w.contacts :
          contacts \in ContactPrunings(WithLegacy(table, legacy), {})
    BY <1>1 DEF ContactInit
  <1>3. /\ table \in ContactTable /\ legacy \in ContactTable
        /\ \A s \in Shipments : (table[s] # NoContact => AsStored(table[s]))
                             /\ (legacy[s] # NoContact => AsStored(legacy[s]))
    BY <1>2, ScenarioAssumption, ContactAssumption DEF ContactTable
  <1> DEFINE both == WithLegacy(table, legacy)
  <1>4. /\ both \in ContactTable
        /\ \A s \in Shipments : both[s] # NoContact => AsStored(both[s])
    BY <1>3 DEF WithLegacy, ContactTable
  <1> HIDE DEF both
  <1>5. {} \in SUBSET Shipments
    OBVIOUS
  <1>6. /\ contacts \in ContactTable
        /\ \A s \in Shipments : contacts[s] \in {both[s], NoContact}
        /\ Cardinality(Remaining(contacts)) <= MaxContacts
    BY <1>2, <1>4, <1>5, PrunedContacts DEF both
  <1>7. ContactRows /\ ContactRoom
    BY <1>4, <1>6 DEF ContactRows, ContactRoom, Stored
  <1>8. /\ contactLease = [s \in Shipments |-> ContactLeases!Free]
        /\ contactTask = [t \in Trackings |-> IdleContact]
        /\ contactJob = [t \in Trackings |-> NoJob]
    BY DEF Init, ContactLeases!Init, Tasks
  <1>9. ContactLeases!Free \in ContactLease /\ IdleContact \in ContactTask /\ IdleContact.pc = "idle"
    BY DEF ContactLeases!Free, ContactLease, IdleContact, ContactTask, ContactPcs
  <1>10. ContactTypes /\ ContactsHeld /\ ContactJobs
    BY <1>6, <1>8, <1>9 DEF ContactTypes, ContactsHeld, ContactJobs, Acquiring
  <1> QED BY <1>7, <1>10 DEF ContactInv
-----------------------------------------------------------------------------
(* Prints: a snapshot gives offices to its bags, the index names the bags  *)
(* of the snapshots, and what is about to be written are such routes.      *)

OfOffices(items) == \A b \in DOMAIN items : items[b] \in SUBSET Offices
PrintRow(row) ==
    row = [items |-> row.items, date |-> row.date, age |-> row.age] /\ OfOffices(row.items)
ManifestFields == {"pc", "force", "cached", "job", "answer"}
PrintTable(table) ==
    /\ table = [m \in Manifests |-> table[m]]
    /\ \A m \in Manifests : table[m] # NoPrint => PrintRow(table[m])
ManifestTasks ==
    /\ manifestTask = [m \in ManifestLookups |-> manifestTask[m]]
    /\ \A m \in ManifestLookups :
          /\ DOMAIN manifestTask[m] = ManifestFields
          /\ manifestTask[m].job # NoJob => OfOffices(manifestTask[m].job.items)

PrintInv == PrintTable(prints) /\ ManifestIndexed /\ ManifestTasks

LEMMA PrintRowIsOne == \A row : PrintRow(row) => row # NoPrint
  <1>1. DOMAIN NoPrint = {"none"}
    BY DEF NoPrint
  <1>2. ASSUME NEW row, PrintRow(row) PROVE DOMAIN row = {"items", "date", "age"}
    BY <1>2 DEF PrintRow
  <1> QED BY <1>1, <1>2

\* Storing a snapshot, with what it replaces and what it evicts.
LEMMA StoredPrint ==
    ASSUME PrintTable(prints), ManifestIndexed, NEW m \in Manifests, NEW p, OfOffices(p.items),
           StoreManifest(m, p)
    PROVE  PrintTable(prints') /\ ManifestIndexed'
  <1>1. CASE ~p.valid
    BY <1>1 DEF StoreManifest, ManifestIndexed, Snapshots
  <1>2. CASE p.valid
    <2> DEFINE row == [items |-> p.items, date |-> p.date, age |-> FreshPrint]
               table == [prints EXCEPT ![m] = row]
    <2>1. PICK K \in KeptSnapshots(table, m) :
             /\ prints' = [n \in Manifests |-> IF n \in K THEN table[n] ELSE NoPrint]
             /\ printBags' = {pair \in ReplacedBags(m, p.items) : pair[1] \in K}
      BY <1>2 DEF StoreManifest
    <2>2. PrintRow(row) /\ row.items = p.items
      BY DEF PrintRow
    <2> HIDE DEF row
    <2>3. /\ table[m] = row /\ \A n \in Manifests \ {m} : table[n] = prints[n]
          /\ \A n \in Manifests : table[n] # NoPrint => PrintRow(table[n])
      BY <2>2 DEF PrintTable
    <2> HIDE DEF table
    <2>4. m \in K /\ K \subseteq Manifests /\ \A n \in K : table[n] # NoPrint
      BY <2>1 DEF KeptSnapshots, Retained
    <2>5. PrintTable(prints')
      BY <2>1, <2>3 DEF PrintTable
    <2>6. /\ Snapshots' = K
          /\ \A n \in K : prints'[n] = table[n]
      BY <2>1, <2>4 DEF Snapshots
    <2>7. ASSUME NEW pair
          PROVE  pair \in printBags'
                 <=> \E n \in K : \E b \in DOMAIN table[n].items : pair = <<n, b>>
      <3>1. pair \in printBags'
            <=> /\ pair[1] \in K
                /\ \/ pair \in printBags /\ pair[1] # m
                   \/ \E b \in DOMAIN p.items : pair = <<m, b>>
        BY <2>1 DEF ReplacedBags
      <3>2. pair \in printBags
            <=> \E n \in Snapshots : \E b \in DOMAIN prints[n].items : pair = <<n, b>>
        BY DEF ManifestIndexed
      <3>3. \A n \in K \ {m} : n \in Snapshots /\ table[n] = prints[n]
        BY <2>3, <2>4 DEF Snapshots
      <3>4. \A n, b : <<n, b>>[1] = n
        OBVIOUS
      <3>5. ASSUME NEW n \in K, \E b \in DOMAIN table[n].items : pair = <<n, b>>
            PROVE  pair \in printBags'
        BY <2>2, <2>3, <2>4, <3>1, <3>2, <3>3, <3>4, <3>5
      <3>6. ASSUME pair \in printBags'
            PROVE  \E n \in K : \E b \in DOMAIN table[n].items : pair = <<n, b>>
        <4>1. CASE \E b \in DOMAIN p.items : pair = <<m, b>>
          BY <2>2, <2>3, <2>4, <4>1
        <4>2. CASE pair \in printBags /\ pair[1] # m /\ pair[1] \in K
          <5>1. PICK n \in Snapshots : \E b \in DOMAIN prints[n].items : pair = <<n, b>>
            BY <3>2, <4>2
          <5>2. n \in K \ {m}
            BY <3>4, <4>2, <5>1
          <5> QED BY <3>3, <5>1, <5>2
        <4> QED BY <3>1, <3>6, <4>1, <4>2
      <3> QED BY <3>5, <3>6
    <2>8. ManifestIndexed'
      BY <2>6, <2>7 DEF ManifestIndexed
    <2> QED BY <2>5, <2>8
  <1> QED BY <1>1, <1>2

LEMMA AgedPrintSafe ==
    ASSUME PrintTable(prints), ManifestIndexed, NEW m \in Manifests, AgePrint(m)
    PROVE  PrintTable(prints') /\ ManifestIndexed'
  <1> DEFINE row == [prints[m] EXCEPT !.age = @ + 1]
  <1>1. /\ prints[m] # NoPrint /\ PrintRow(prints[m])
        /\ prints' = [prints EXCEPT ![m] = row] /\ UNCHANGED printBags
    BY DEF AgePrint, Snapshots, PrintTable
  <1>2. PrintRow(row) /\ row.items = prints[m].items
    BY <1>1 DEF PrintRow
  <1> HIDE DEF row
  <1>3. /\ DOMAIN prints = Manifests /\ prints'[m] = row
        /\ \A n \in Manifests \ {m} : prints'[n] = prints[n]
    BY <1>1 DEF PrintTable
  <1>4. PrintTable(prints')
    BY <1>1, <1>2, <1>3 DEF PrintTable
  <1>5. Snapshots' = Snapshots
    BY <1>1, <1>2, <1>3, PrintRowIsOne DEF Snapshots
  <1>6. \A n \in Snapshots : prints'[n].items = prints[n].items
    BY <1>2, <1>3 DEF Snapshots
  <1>7. ManifestIndexed'
    BY <1>1, <1>5, <1>6 DEF ManifestIndexed
  <1> QED BY <1>4, <1>7

\* A Print gives offices to its bags.
LEMMA PrintGives ==
    ASSUME NEW print \in PrintPages
    PROVE  OfOffices(PrintRoutes(print))
  <1> DEFINE named == {print.bags[i].id : i \in DOMAIN print.bags}
             at(b) == CHOOSE i \in DOMAIN print.bags : print.bags[i].id = b
  <1>1. PrintRoutes(print) = [b \in named |-> print.bags[at(b)].offices]
    BY DEF PrintRoutes
  <1>2. ASSUME NEW b \in named
        PROVE  print.bags[at(b)].offices \in SUBSET Offices
    <2>1. \E i \in DOMAIN print.bags : print.bags[i].id = b
      OBVIOUS
    <2>2. at(b) \in DOMAIN print.bags
      BY <2>1
    <2> HIDE DEF at
    <2> QED BY <2>2, RequestsAssumption
  <1> HIDE DEF named, at
  <1> QED BY <1>1, <1>2 DEF OfOffices

\* A task that moves, with the write it has in hand if any.
LEMMA MovedManifest ==
    ASSUME ManifestTasks, NEW m \in ManifestLookups, NEW task,
           manifestTask' = [manifestTask EXCEPT ![m] = task],
           DOMAIN task = ManifestFields, task.job # NoJob => OfOffices(task.job.items)
    PROVE  ManifestTasks'
  BY DEF ManifestTasks

LEMMA ManifestStepSafe ==
    ASSUME PrintInv, NEW m \in ManifestLookups, ManifestStep(m)
    PROVE  PrintInv'
  <1>1. ManifestTasks /\ UNCHANGED <<prints, printBags>>
    BY Zenon DEF PrintInv, ManifestStep, BeginManifest, ReadPrint, PrintFetched, ManifestAnswered
  <1>2. /\ DOMAIN manifestTask[m] = ManifestFields
        /\ manifestTask[m].job # NoJob => OfOffices(manifestTask[m].job.items)
        /\ m \in DOMAIN manifestTask
    BY <1>1 DEF ManifestTasks
  <1>3. \E task : /\ manifestTask' = [manifestTask EXCEPT ![m] = task]
                  /\ DOMAIN task = ManifestFields
                  /\ task.job # NoJob => OfOffices(task.job.items)
    <2>1. CASE BeginManifest(m)
      <3>1. PICK force : manifestTask' = [manifestTask EXCEPT ![m].pc = "read", ![m].force = force]
        BY <2>1 DEF BeginManifest
      <3> DEFINE task == [manifestTask[m] EXCEPT !.pc = "read", !.force = force]
      <3>2. manifestTask' = [manifestTask EXCEPT ![m] = task]
        BY <1>2, <3>1
      <3>3. DOMAIN task = ManifestFields /\ task.job = manifestTask[m].job
        BY <1>2 DEF ManifestFields
      <3> HIDE DEF task
      <3> QED BY <1>2, <3>2, <3>3
    <2>2. CASE ReadPrint(m)
      <3>1. PICK pc, cached :
               manifestTask' = [manifestTask EXCEPT ![m].pc = pc, ![m].cached = cached]
        BY <2>2 DEF ReadPrint
      <3> DEFINE task == [manifestTask[m] EXCEPT !.pc = pc, !.cached = cached]
      <3>2. manifestTask' = [manifestTask EXCEPT ![m] = task]
        BY <1>2, <3>1
      <3>3. DOMAIN task = ManifestFields /\ task.job = manifestTask[m].job
        BY <1>2 DEF ManifestFields
      <3> HIDE DEF task
      <3> QED BY <1>2, <3>2, <3>3
    <2>3. CASE \E list \in Lists, print \in PrintPages :
                  /\ PrintRead(list, print, Manifest[m])
                  /\ manifestTask' = [manifestTask EXCEPT ![m].pc = "storing", ![m].job =
                         [items |-> PrintRoutes(print), date |-> print.date, valid |-> ~print.big]]
      <3>1. PICK print \in PrintPages :
               manifestTask' = [manifestTask EXCEPT ![m].pc = "storing", ![m].job =
                   [items |-> PrintRoutes(print), date |-> print.date, valid |-> ~print.big]]
        BY <2>3
      <3> DEFINE job == [items |-> PrintRoutes(print), date |-> print.date, valid |-> ~print.big]
                 task == [manifestTask[m] EXCEPT !.pc = "storing", !.job = job]
      <3>2. job.items = PrintRoutes(print)
        OBVIOUS
      <3> HIDE DEF job
      <3>3. manifestTask' = [manifestTask EXCEPT ![m] = task]
        BY <1>2, <3>1 DEF job
      <3>4. DOMAIN task = ManifestFields /\ task.job = job
        BY <1>2 DEF ManifestFields
      <3> HIDE DEF task
      <3> QED BY <3>2, <3>3, <3>4, PrintGives
    <2>4. CASE \E pc : manifestTask' = [manifestTask EXCEPT ![m].pc = pc]
      <3>1. PICK pc : manifestTask' = [manifestTask EXCEPT ![m].pc = pc]
        BY <2>4
      <3> DEFINE task == [manifestTask[m] EXCEPT !.pc = pc]
      <3>2. manifestTask' = [manifestTask EXCEPT ![m] = task]
        BY <1>2, <3>1
      <3>3. DOMAIN task = ManifestFields /\ task.job = manifestTask[m].job
        BY <1>2 DEF ManifestFields
      <3> HIDE DEF task
      <3> QED BY <1>2, <3>2, <3>3
    <2>5. CASE ManifestAnswered(m)
      <3>1. PICK answer : manifestTask' = [manifestTask EXCEPT ![m] =
                             [IdleManifest EXCEPT !.pc = "done", !.answer = answer]]
        BY <2>5, Zenon DEF ManifestAnswered
      <3> DEFINE task == [IdleManifest EXCEPT !.pc = "done", !.answer = answer]
      <3>2. DOMAIN task = ManifestFields /\ task.job = NoJob
        BY DEF IdleManifest, ManifestFields
      <3> HIDE DEF task
      <3> QED BY <3>1, <3>2 DEF task
    <2> QED BY <2>1, <2>2, <2>3, <2>4, <2>5, Zenon DEF ManifestStep, PrintFetched
  <1>4. ManifestTasks'
    BY <1>1, <1>3, MovedManifest
  <1> QED BY <1>1, <1>4 DEF PrintInv, ManifestIndexed, Snapshots

LEMMA PrintWrittenSafe ==
    ASSUME PrintInv, NEW m \in ManifestLookups, PrintWritten(m)
    PROVE  PrintInv'
  <1> DEFINE job == manifestTask[m].job
             pc == IF manifestTask[m].pc = "storing" THEN "print" ELSE manifestTask[m].pc
             task == [manifestTask[m] EXCEPT !.job = NoJob, !.pc = pc]
  <1>1. /\ ManifestTasks /\ DOMAIN manifestTask[m] = ManifestFields /\ m \in DOMAIN manifestTask
        /\ job # NoJob /\ OfOffices(job.items) /\ StoreManifest(Manifest[m], job)
        /\ Manifest[m] \in Manifests
    BY RequestsAssumption DEF PrintInv, ManifestTasks, PrintWritten
  <1>2. PrintTable(prints') /\ ManifestIndexed'
    BY <1>1, StoredPrint DEF PrintInv
  <1>3. manifestTask' = [manifestTask EXCEPT ![m] = task]
    BY <1>1 DEF PrintWritten, ManifestFields
  <1>4. DOMAIN task = ManifestFields /\ task.job = NoJob
    BY <1>1 DEF ManifestFields
  <1> HIDE DEF task
  <1>5. ManifestTasks'
    BY <1>1, <1>3, <1>4, MovedManifest
  <1> QED BY <1>2, <1>5 DEF PrintInv

LEMMA ManifestDroppedSafe ==
    ASSUME PrintInv, NEW m \in ManifestLookups, ManifestDropped(m)
    PROVE  PrintInv'
  <1> DEFINE job == manifestTask[m].job
             task == [IdleManifest EXCEPT !.pc = "gone", !.job = job]
  <1>1. /\ ManifestTasks /\ UNCHANGED <<prints, printBags>>
        /\ job # NoJob => OfOffices(job.items)
    BY DEF PrintInv, ManifestTasks, ManifestDropped
  <1> HIDE DEF job
  <1>2. manifestTask' = [manifestTask EXCEPT ![m] = task]
    BY DEF ManifestDropped, job
  <1>3. DOMAIN task = ManifestFields /\ task.job = job
    BY DEF ManifestFields, IdleManifest
  <1> HIDE DEF task
  <1>4. ManifestTasks'
    BY <1>1, <1>2, <1>3, MovedManifest
  <1> QED BY <1>1, <1>4 DEF PrintInv, ManifestIndexed, Snapshots

LEMMA ManifestRestart ==
    ASSUME PrintInv, Restart
    PROVE  PrintInv'
  <1> DEFINE gone == [IdleManifest EXCEPT !.pc = "gone"]
  <1>1. /\ ManifestTasks /\ UNCHANGED <<prints, printBags>>
        /\ manifestTask' = [m \in ManifestLookups |->
              IF Running(manifestTask[m]) \/ manifestTask[m].job # NoJob
              THEN gone ELSE manifestTask[m]]
    BY DEF PrintInv, Restart
  <1>2. DOMAIN gone = ManifestFields /\ gone.job = NoJob
    BY DEF ManifestFields, IdleManifest
  <1> HIDE DEF gone
  <1>3. ManifestTasks'
    BY <1>1, <1>2 DEF ManifestTasks
  <1> QED BY <1>1, <1>3 DEF PrintInv, ManifestIndexed, Snapshots

LEMMA PrintNextSafe ==
    ASSUME PrintInv, [Next]_vars
    PROVE  PrintInv'
  <1>1. CASE UNCHANGED manifestVars
    BY <1>1 DEF manifestVars, PrintInv, ManifestIndexed, Snapshots, ManifestTasks
  <1>2. CASE \E m \in ManifestLookups : ManifestNext(m)
    BY <1>2, ManifestStepSafe, PrintWrittenSafe DEF ManifestNext
  <1>3. CASE \E m \in ManifestLookups : ManifestDropped(m)
    BY <1>3, ManifestDroppedSafe
  <1>4. CASE \E m \in Manifests : AgePrint(m) /\ UNCHANGED manifestTask
    BY <1>4, AgedPrintSafe DEF PrintInv, ManifestTasks
  <1>5. CASE Restart
    BY <1>5, ManifestRestart
  <1> QED BY <1>1, <1>2, <1>3, <1>4, <1>5
          DEF Next, RouteNext, ContactNext, ExchangeNext, Drops, Ages, vars

LEMMA PrintInitSafe ==
    ASSUME Init
    PROVE  PrintInv
  <1>1. /\ prints = [m \in Manifests |-> NoPrint] /\ printBags = {}
        /\ manifestTask = [m \in ManifestLookups |-> IdleManifest]
    BY DEF Init, ManifestInit, Tasks
  <1>2. DOMAIN IdleManifest = ManifestFields /\ IdleManifest.job = NoJob
    BY DEF IdleManifest, ManifestFields
  <1> QED BY <1>1, <1>2 DEF PrintInv, PrintTable, ManifestIndexed, Snapshots, ManifestTasks
-----------------------------------------------------------------------------
(* Routes: the types; the holder of a lease is whoever acquires; the rows  *)
(* are such as the cache writes; the cache keeps to its capacity.          *)

RoutePcs == {"idle", "index", "read", "decide", "waiting", "permit", "label", "storing",
             "stored", "done", "gone"}
RouteTask == [pc : RoutePcs, force : BOOLEAN, known : Routes, manifest : Routes,
              entry : RouteRow \cup {NoRow}]
RouteJob == [route : Routes]
RouteLease == [holder : RouteTasks \cup {Nobody}, waiting : SUBSET RouteTasks]
RouteTable == [Bags -> RouteRow \cup {NoRow}]
Rows(table) == {b \in Bags : table[b] # NoRow}

RouteTypes ==
    /\ routes \in RouteTable
    /\ routeLease \in [Bags -> RouteLease]
    /\ routeTask \in [RouteTasks -> RouteTask]
    /\ routeJob \in [RouteTasks -> RouteJob \cup {NoJob}]
RoutesHeld ==
    \A c \in RouteTasks : routeTask[c].pc \in Acquiring => routeLease[c[2]].holder = c
RouteRows == \A b \in Bags : routes[b] # NoRow => Labelled(routes[b])
RouteRoom == Cardinality(Rows(routes)) <= MaxRoutes

RouteInv == RouteTypes /\ RoutesHeld /\ RouteRows /\ RouteRoom

RoutesKept ==
    routes' \in RouteTable /\ RouteRows' /\ RouteRoom' /\ OfficesSurvive
RoutesGoOn ==
    /\ routeLease' \in [Bags -> RouteLease]
    /\ routeTask' \in [RouteTasks -> RouteTask]
    /\ routeJob' \in [RouteTasks -> RouteJob \cup {NoJob}]
    /\ RoutesHeld'

-----------------------------------------------------------------------------
\* Rows of routes

LEMMA NoRowIsNone == NoRow \notin RouteRow /\ NoJob \notin RouteJob
  <1>1. \A r \in RouteRow : DOMAIN r = {"route", "due", "decodes", "status"}
    BY DEF RouteRow
  <1>2. \A r \in RouteJob : DOMAIN r = {"route"}
    BY DEF RouteJob
  <1>3. DOMAIN NoRow = {"none"} /\ DOMAIN NoJob = {"none"}
    BY DEF NoRow, NoJob
  <1> QED BY <1>1, <1>2, <1>3

\* The bag of a task is one.
LEMMA TaskOfBag ==
    ASSUME NEW c \in RouteTasks
    PROVE  c = <<c[1], c[2]>> /\ c[2] \in Bags
  <1>1. CASE \E t \in Trackings : \E b \in BagsOf[t] : c = <<t, b>>
    BY <1>1, RequestsAssumption
  <1>2. CASE \E l \in BagLookups : c = <<l, Bag[l]>>
    BY <1>2, RequestsAssumption
  <1> QED BY <1>1, <1>2 DEF RouteTasks

\* The route that is stored names every office that was read and every
\* office that was known.
LEMMA StoredRoute ==
    ASSUME RouteTypes, RouteRows, NEW b \in Bags, NEW route \in Routes
    PROVE  LET row == RouteToStore(b, route) IN
           /\ row \in RouteRow /\ Labelled(row) /\ ~RouteExpired(row) /\ row.route \in Routes
           /\ routes[b] # NoRow /\ routes[b].decodes =>
                 OfficesOf(routes[b].route) \subseteq OfficesOf(row.route)
  <1> DEFINE previous == PreviousRoute(b)
             row == RouteToStore(b, route)
             merged == IF previous = NoRoute THEN route ELSE OfficesOf(route) \cup previous
  <1>1. /\ previous \in Routes
        /\ routes[b] # NoRow /\ routes[b].decodes => previous = routes[b].route
    <2>1. CASE routes[b] # NoRow /\ routes[b].decodes
      <3>1. routes[b] \in RouteRow
        BY <2>1 DEF RouteTypes, RouteTable
      <3> QED BY <2>1, <3>1 DEF PreviousRoute, RouteRow
    <2>2. CASE ~(routes[b] # NoRow /\ routes[b].decodes)
      BY <2>2 DEF PreviousRoute, Routes
    <2> QED BY <2>1, <2>2
  <1>2. /\ row.route = merged /\ row.due = FALSE /\ row.decodes = TRUE
        /\ row.status = IF route # NoRoute THEN RouteStatus(merged)
                        ELSE IF previous = NoRoute THEN "failed" ELSE "partial"
        /\ row = [route |-> row.route, due |-> row.due, decodes |-> row.decodes,
                  status |-> row.status]
    BY DEF RouteToStore
  <1> HIDE DEF previous, row
  <1>3. merged \in Routes /\ OfficesOf(previous) \subseteq OfficesOf(merged)
    <2>1. \A r \in Routes : OfficesOf(r) \in SUBSET Offices /\ (r # NoRoute => OfficesOf(r) = r)
      BY DEF Routes, OfficesOf
    <2>2. CASE previous = NoRoute
      BY <2>2 DEF OfficesOf
    <2>3. CASE previous # NoRoute
      <3>1. /\ OfficesOf(route) \cup previous \in SUBSET Offices
            /\ OfficesOf(previous) = previous
        BY <1>1, <2>1, <2>3 DEF Routes
      <3>2. NoRoute \notin SUBSET Offices
        BY Zenon DEF NoRoute, Offices
      <3>3. \A S \in SUBSET Offices : S \in Routes /\ OfficesOf(S) = S
        BY <2>1, <3>2 DEF Routes
      <3> QED BY <2>3, <3>1, <3>3
    <2> QED BY <2>2, <2>3
  <1>4. /\ row.status \in {"ok", "partial", "missing", "failed"}
        /\ row.status \in {"failed", "missing"} => OfficesOf(merged) = {}
    <2>1. CASE route # NoRoute
      BY <1>2, <2>1 DEF RouteStatus
    <2>2. CASE route = NoRoute
      BY <1>2, <2>2 DEF OfficesOf
    <2> QED BY <2>1, <2>2
  <1> HIDE DEF merged
  <1>5. row.due \in BOOLEAN /\ row.decodes \in BOOLEAN /\ ~row.due
    BY <1>2, Zenon
  <1>6. row \in RouteRow
    BY <1>2, <1>3, <1>4, <1>5 DEF RouteRow
  <1>7. Labelled(row) /\ ~RouteExpired(row)
    BY <1>2, <1>4, <1>5 DEF Labelled, RouteExpired
  <1> QED BY <1>1, <1>2, <1>3, <1>6, <1>7 DEF row

\* Pruning keeps rows as they are, the used ones that are not expired, and
\* in a table that has room all that are not expired.
LEMMA PrunedRoutes ==
    ASSUME NEW table \in RouteTable, NEW recent \in SUBSET Bags,
           NEW kept \in RoutePrunings(table, recent)
    PROVE  /\ kept \in RouteTable
           /\ \A b \in Bags : kept[b] \in {table[b], NoRow}
           /\ \A b \in recent : table[b] # NoRow /\ ~RouteExpired(table[b]) =>
                 kept[b] = table[b]
           /\ Cardinality(Rows(kept)) <= MaxRoutes
           /\ Cardinality(Rows(table)) <= MaxRoutes =>
                 \A b \in Bags : table[b] # NoRow /\ ~RouteExpired(table[b]) =>
                    kept[b] = table[b]
  <1> DEFINE live == {b \in Bags : table[b] # NoRow /\ ~RouteExpired(table[b])}
             room == IF Cardinality(live) < MaxRoutes THEN Cardinality(live) ELSE MaxRoutes
  <1>1. PICK K \in kSubset(room, live) :
          /\ recent \cap live \subseteq K
          /\ kept = [b \in Bags |-> IF b \in K THEN table[b] ELSE NoRow]
    BY DEF RoutePrunings
  <1>2. MaxRoutes \in Nat /\ IsFiniteSet(Bags)
    BY RouteAssumption
  <1>3. live \in SUBSET Rows(table) /\ Rows(table) \in SUBSET Bags
    BY DEF Rows
  <1>4. /\ IsFiniteSet(Rows(table)) /\ IsFiniteSet(live)
        /\ Cardinality(live) <= Cardinality(Rows(table))
        /\ Cardinality(Rows(table)) \in Nat /\ Cardinality(live) \in Nat
    BY <1>2, <1>3, FS_Subset, FS_CardinalityType
  <1>5. /\ K \subseteq live /\ IsFiniteSet(K) /\ Cardinality(K) <= MaxRoutes
        /\ Cardinality(live) <= MaxRoutes => K = live
    <2> HIDE DEF live
    <2> QED BY <1>1, <1>2, <1>4, Room
  <1>6. kept \in RouteTable /\ \A b \in Bags : kept[b] \in {table[b], NoRow}
    BY <1>1 DEF RouteTable
  <1>7. Rows(kept) \in SUBSET K
    BY <1>1 DEF Rows
  <1>8. Cardinality(Rows(kept)) <= MaxRoutes
    <2>1. Cardinality(Rows(kept)) <= Cardinality(K) /\ IsFiniteSet(Rows(kept))
      BY <1>5, <1>7, FS_Subset
    <2>2. Cardinality(Rows(kept)) \in Nat /\ Cardinality(K) \in Nat
      BY <1>5, <2>1, FS_CardinalityType
    <2> QED BY <1>2, <1>5, <2>1, <2>2
  <1>9. \A b \in Bags : table[b] # NoRow /\ ~RouteExpired(table[b]) => b \in live
    OBVIOUS
  <1>10. \A b \in recent : table[b] # NoRow /\ ~RouteExpired(table[b]) => kept[b] = table[b]
    BY <1>1, <1>9
  <1>11. Cardinality(Rows(table)) <= MaxRoutes => K = live
    BY <1>2, <1>4, <1>5
  <1> HIDE DEF live
  <1> QED BY <1>1, <1>6, <1>8, <1>9, <1>10, <1>11

LEMMA FewerRoutes ==
    ASSUME NEW table \in RouteTable, NEW fewer \in RouteTable, Rows(fewer) \subseteq Rows(table),
           Cardinality(Rows(table)) <= MaxRoutes
    PROVE  Cardinality(Rows(fewer)) <= MaxRoutes
  <1>1. MaxRoutes \in Nat /\ IsFiniteSet(Bags)
    BY RouteAssumption
  <1>2. Rows(table) \in SUBSET Bags /\ Rows(fewer) \in SUBSET Rows(table)
    BY DEF Rows
  <1>3. IsFiniteSet(Rows(table)) /\ IsFiniteSet(Rows(fewer))
    BY <1>1, <1>2, FS_Subset
  <1>4. Cardinality(Rows(fewer)) <= Cardinality(Rows(table))
    BY <1>2, <1>3, FS_Subset
  <1>5. Cardinality(Rows(fewer)) \in Nat /\ Cardinality(Rows(table)) \in Nat
    BY <1>3, FS_CardinalityType
  <1> QED BY <1>1, <1>4, <1>5

-----------------------------------------------------------------------------
\* The table of routes under its four operations.

LEMMA GotRoute ==
    ASSUME RouteInv, NEW b \in Bags, GetRoute(b)
    PROVE  RoutesKept
  <1>1. routes \in RouteTable /\ RouteRows /\ RouteRoom
    BY DEF RouteInv, RouteTypes
  <1>2. CASE RouteReadable(b)
    <2>1. routes' = routes
      BY <1>2 DEF GetRoute
    <2> QED BY <1>1, <2>1 DEF RoutesKept, RouteRows, RouteRoom, OfficesSurvive, Rows
  <1>3. CASE ~RouteReadable(b)
    <2>1. routes' = [routes EXCEPT ![b] = NoRow]
      BY <1>3 DEF GetRoute
    <2>2. routes' \in RouteTable /\ Rows(routes') \subseteq Rows(routes)
      BY <1>1, <2>1 DEF RouteTable, Rows
    <2>3. RouteRoom'
      BY <1>1, <2>2, FewerRoutes DEF RouteRoom
    <2>4. RouteRows'
      BY <1>1, <2>1 DEF RouteRows, RouteTable
    <2>5. OfficesSurvive
      <3> SUFFICES ASSUME NEW u \in Bags, routes[u] # NoRow /\ routes[u].decodes
                   PROVE  IF routes'[u] # NoRow
                          THEN OfficesOf(routes[u].route) \subseteq OfficesOf(routes'[u].route)
                          ELSE OfficesOf(routes[u].route) = {}
        BY DEF OfficesSurvive
      <3>1. CASE u = b
        <4>1. Labelled(routes[b]) /\ RouteExpired(routes[b])
          BY <1>1, <1>3, <3>1 DEF RouteReadable, RouteRows
        <4> QED BY <1>1, <2>1, <3>1, <4>1 DEF Labelled, RouteExpired, RouteTable
      <3>2. CASE u # b
        <4>1. routes'[u] = routes[u]
          BY <1>1, <2>1, <3>2 DEF RouteTable
        <4> QED BY <4>1
      <3> QED BY <3>1, <3>2
    <2> QED BY <2>2, <2>3, <2>4, <2>5 DEF RoutesKept
  <1> QED BY <1>2, <1>3

LEMMA AgedRoute ==
    ASSUME RouteInv, NEW b \in Bags, AgeRoute(b)
    PROVE  RoutesKept
  <1>1. routes \in RouteTable /\ RouteRows /\ RouteRoom
    BY DEF RouteInv, RouteTypes
  <1>2. routes[b] # NoRow /\ routes[b] \in RouteRow /\ Labelled(routes[b])
    BY <1>1 DEF AgeRoute, RouteTable, RouteRows
  <1> DEFINE row == [routes[b] EXCEPT !.due = TRUE]
  <1>3. /\ row \in RouteRow /\ row.route = routes[b].route
        /\ row.decodes = routes[b].decodes /\ row.status = routes[b].status
    BY <1>2 DEF RouteRow
  <1>4. routes' = [routes EXCEPT ![b] = row]
    BY <1>1 DEF AgeRoute, RouteTable
  <1> HIDE DEF row
  <1>5. Labelled(row) /\ row # NoRow
    BY <1>2, <1>3, NoRowIsNone DEF Labelled
  <1>6. routes' \in RouteTable /\ Rows(routes') \subseteq Rows(routes)
    BY <1>1, <1>2, <1>3, <1>4 DEF RouteTable, Rows
  <1>7. RouteRoom'
    BY <1>1, <1>6, FewerRoutes DEF RouteRoom
  <1>8. RouteRows'
    BY <1>1, <1>4, <1>5 DEF RouteRows, RouteTable
  <1>9. OfficesSurvive
    BY <1>1, <1>3, <1>4, <1>5 DEF OfficesSurvive, RouteTable
  <1> QED BY <1>6, <1>7, <1>8, <1>9 DEF RoutesKept

LEMMA WroteRoute ==
    ASSUME RouteInv, NEW b \in Bags, NEW route \in Routes, StoreRoute(b, route)
    PROVE  RoutesKept
  <1>1. routes \in RouteTable /\ RouteRows /\ RouteRoom
    BY DEF RouteInv, RouteTypes
  <1> DEFINE row == RouteToStore(b, route)
             table == [routes EXCEPT ![b] = row]
  <1>2. /\ row \in RouteRow /\ Labelled(row) /\ ~RouteExpired(row)
        /\ routes[b] # NoRow /\ routes[b].decodes =>
              OfficesOf(routes[b].route) \subseteq OfficesOf(row.route)
    BY StoredRoute DEF RouteInv
  <1>3. routes' \in RoutePrunings(table, {b})
    BY DEF StoreRoute
  <1> HIDE DEF row
  <1>4. /\ table \in RouteTable /\ row # NoRow /\ table[b] = row
        /\ \A u \in Bags \ {b} : table[u] = routes[u]
    BY <1>1, <1>2, NoRowIsNone DEF RouteTable
  <1> HIDE DEF table
  <1>5. /\ routes' \in RouteTable
        /\ \A u \in Bags : routes'[u] \in {table[u], NoRow}
        /\ routes'[b] = row
        /\ Cardinality(Rows(routes')) <= MaxRoutes
        /\ Cardinality(Rows(table)) <= MaxRoutes =>
              \A u \in Bags : table[u] # NoRow /\ ~RouteExpired(table[u]) => routes'[u] = table[u]
    BY <1>2, <1>3, <1>4, PrunedRoutes
  <1>6. RouteRoom'
    BY <1>5 DEF RouteRoom
  <1>7. RouteRows'
    BY <1>1, <1>2, <1>4, <1>5 DEF RouteRows
  <1>8. OfficesSurvive
    <2> SUFFICES ASSUME NEW u \in Bags, routes[u] # NoRow /\ routes[u].decodes
                 PROVE  IF routes'[u] # NoRow
                        THEN OfficesOf(routes[u].route) \subseteq OfficesOf(routes'[u].route)
                        ELSE \/ OfficesOf(routes[u].route) = {}
                             \/ \E n \in Bags : routes[n] = NoRow /\ routes'[n] # NoRow
      BY DEF OfficesSurvive
    <2>1. CASE u = b
      BY <1>2, <1>4, <1>5, <2>1
    <2>2. CASE u # b /\ routes'[u] # NoRow
      <3>1. routes'[u] = routes[u]
        BY <1>4, <1>5, <2>2
      <3> QED BY <2>2, <3>1
    <2>3. CASE u # b /\ routes'[u] = NoRow /\ routes[b] = NoRow
      BY <1>4, <1>5, <2>3
    <2>4. CASE u # b /\ routes'[u] = NoRow /\ routes[b] # NoRow
      <3>1. Rows(table) \subseteq Rows(routes)
        BY <1>4, <2>4 DEF Rows
      <3>2. Cardinality(Rows(table)) <= MaxRoutes
        BY <1>1, <1>4, <3>1, FewerRoutes DEF RouteRoom
      <3>3. RouteExpired(routes[u]) /\ Labelled(routes[u])
        BY <1>1, <1>4, <1>5, <2>4, <3>2 DEF RouteRows
      <3> QED BY <2>4, <3>3 DEF Labelled, RouteExpired
    <2> QED BY <2>1, <2>2, <2>3, <2>4
  <1> QED BY <1>5, <1>6, <1>7, <1>8 DEF RoutesKept

LEMMA OpenedRoutes ==
    ASSUME RouteInv, OpenRoutes
    PROVE  RoutesKept
  <1>1. routes \in RouteTable /\ RouteRows /\ RouteRoom
    BY DEF RouteInv, RouteTypes
  <1>2. routes' \in RoutePrunings(routes, {})
    BY DEF OpenRoutes
  <1>3. /\ routes' \in RouteTable
        /\ \A u \in Bags : routes'[u] \in {routes[u], NoRow}
        /\ Cardinality(Rows(routes')) <= MaxRoutes
        /\ \A u \in Bags : routes[u] # NoRow /\ ~RouteExpired(routes[u]) =>
              routes'[u] = routes[u]
    <2>1. {} \in SUBSET Bags /\ Cardinality(Rows(routes)) <= MaxRoutes
      BY <1>1 DEF RouteRoom
    <2> QED BY <1>1, <1>2, <2>1, PrunedRoutes
  <1>4. RouteRows'
    BY <1>1, <1>3 DEF RouteRows
  <1>5. OfficesSurvive
    <2> SUFFICES ASSUME NEW u \in Bags, routes[u] # NoRow /\ routes[u].decodes
                 PROVE  IF routes'[u] # NoRow
                        THEN OfficesOf(routes[u].route) \subseteq OfficesOf(routes'[u].route)
                        ELSE OfficesOf(routes[u].route) = {}
      BY DEF OfficesSurvive
    <2>1. CASE RouteExpired(routes[u])
      <3>1. Labelled(routes[u]) /\ routes'[u] \in {routes[u], NoRow}
        BY <1>1, <1>3 DEF RouteRows
      <3> QED BY <2>1, <3>1 DEF Labelled, RouteExpired
    <2>2. CASE ~RouteExpired(routes[u])
      BY <1>3, <2>2
    <2> QED BY <2>1, <2>2
  <1> QED BY <1>3, <1>4, <1>5 DEF RoutesKept, RouteRoom
-----------------------------------------------------------------------------
\* The tasks of the routes and their leases.

\* As MovedContact.
LEMMA MovedRoute ==
    ASSUME RouteInv, NEW c \in RouteTasks, NEW task \in RouteTask,
           routeTask' = [routeTask EXCEPT ![c] = task],
           \/ UNCHANGED routeLease /\ (task.pc \in Acquiring => routeTask[c].pc \in Acquiring)
           \/ RouteLeases!Start(c, c[2])
           \/ RouteLeases!Wait(c, c[2]) /\ task.pc \notin Acquiring
           \/ RouteLeases!Drop(c, c[2]) /\ task.pc \notin Acquiring
    PROVE  /\ routeLease' \in [Bags -> RouteLease]
           /\ routeTask' \in [RouteTasks -> RouteTask]
           /\ RoutesHeld'
  <1> DEFINE b == c[2]
  <1>1. b \in Bags /\ Nobody \notin RouteTasks /\ \A d \in RouteTasks : d[2] \in Bags
    BY TaskOfBag, RequestsAssumption
  <1>2. /\ routeLease \in [Bags -> RouteLease] /\ routeTask \in [RouteTasks -> RouteTask]
        /\ RoutesHeld
    BY DEF RouteInv, RouteTypes
  <1>3. /\ routeTask' \in [RouteTasks -> RouteTask] /\ routeTask'[c] = task
        /\ \A d \in RouteTasks \ {c} : routeTask'[d] = routeTask[d]
    BY <1>2
  <1>4. /\ routeLease[b] \in RouteLease
        /\ routeLease[b].holder \in RouteTasks \cup {Nobody}
        /\ routeLease[b].waiting \in SUBSET RouteTasks
    BY <1>1, <1>2 DEF RouteLease
  <1>5. CASE UNCHANGED routeLease /\ (task.pc \in Acquiring => routeTask[c].pc \in Acquiring)
    BY <1>2, <1>3, <1>5 DEF RoutesHeld
  <1>6. CASE RouteLeases!Start(c, c[2])
    <2>1. /\ routeLease[b].holder = Nobody
          /\ routeLease' = [routeLease EXCEPT ![b] = [holder |-> c, waiting |-> {}]]
      BY <1>6 DEF RouteLeases!Start
    <2>2. [holder |-> c, waiting |-> {}] \in RouteLease
      BY DEF RouteLease
    <2>3. /\ routeLease' \in [Bags -> RouteLease] /\ routeLease'[b].holder = c
          /\ \A k \in Bags \ {b} : routeLease'[k] = routeLease[k]
      BY <1>1, <1>2, <2>1, <2>2
    <2>4. \A d \in RouteTasks : d[2] = b => routeTask[d].pc \notin Acquiring
      BY <1>1, <1>2, <2>1 DEF RoutesHeld
    <2> QED BY <1>1, <1>2, <1>3, <2>3, <2>4 DEF RoutesHeld
  <1>7. CASE RouteLeases!Wait(c, c[2]) /\ task.pc \notin Acquiring
    <2> DEFINE more == [routeLease[b] EXCEPT !.waiting = @ \cup {c}]
    <2>1. routeLease' = [routeLease EXCEPT ![b] = more]
      BY <1>7 DEF RouteLeases!Wait
    <2>2. more \in RouteLease /\ more.holder = routeLease[b].holder
      BY <1>4 DEF RouteLease
    <2> HIDE DEF more
    <2>3. /\ routeLease' \in [Bags -> RouteLease]
          /\ \A k \in Bags : routeLease'[k].holder = routeLease[k].holder
      BY <1>1, <1>2, <2>1, <2>2
    <2> QED BY <1>1, <1>2, <1>3, <1>7, <2>3 DEF RoutesHeld
  <1>8. CASE RouteLeases!Drop(c, c[2]) /\ task.pc \notin Acquiring
    <2> DEFINE less == RouteLeases!Without(c, b)
    <2>1. routeLease' = [routeLease EXCEPT ![b] = less]
      BY <1>8 DEF RouteLeases!Drop
    <2>2. less \in RouteLease /\ (routeLease[b].holder # c => less.holder = routeLease[b].holder)
      BY <1>4 DEF RouteLeases!Without, RouteLeases!Free, RouteLease
    <2> HIDE DEF less
    <2>3. /\ routeLease' \in [Bags -> RouteLease]
          /\ \A k \in Bags \ {b} : routeLease'[k] = routeLease[k]
          /\ (routeLease[b].holder # c => routeLease'[b].holder = routeLease[b].holder)
      BY <1>1, <1>2, <2>1, <2>2
    <2> SUFFICES ASSUME NEW d \in RouteTasks, routeTask'[d].pc \in Acquiring
                 PROVE  routeLease'[d[2]].holder = d
      BY <1>3, <2>3 DEF RoutesHeld
    <2>4. d # c /\ routeTask[d].pc \in Acquiring
      BY <1>3, <1>8
    <2>5. routeLease[d[2]].holder = d
      BY <1>2, <2>4 DEF RoutesHeld
    <2> QED BY <1>1, <2>3, <2>4, <2>5
  <1> QED BY <1>5, <1>6, <1>7, <1>8

\* A step of a task that leaves its blocking write alone.
LEMMA RouteMoves ==
    ASSUME RouteInv, NEW c \in RouteTasks, NEW task \in RouteTask,
           routeTask' = [routeTask EXCEPT ![c] = task], UNCHANGED routeJob,
           \/ UNCHANGED routeLease /\ (task.pc \in Acquiring => routeTask[c].pc \in Acquiring)
           \/ RouteLeases!Start(c, c[2])
           \/ RouteLeases!Wait(c, c[2]) /\ task.pc \notin Acquiring
           \/ RouteLeases!Drop(c, c[2]) /\ task.pc \notin Acquiring
    PROVE  RoutesGoOn
  <1>1. /\ routeLease' \in [Bags -> RouteLease]
        /\ routeTask' \in [RouteTasks -> RouteTask]
        /\ RoutesHeld'
    BY MovedRoute
  <1>2. routeJob \in [RouteTasks -> RouteJob \cup {NoJob}]
    BY DEF RouteInv, RouteTypes
  <1> QED BY <1>1, <1>2 DEF RoutesGoOn

\* What a task is, and what it may become.
LEMMA RouteFields ==
    ASSUME RouteInv, NEW c \in RouteTasks
    PROVE  /\ routeTask \in [RouteTasks -> RouteTask] /\ routeTask[c] \in RouteTask
           /\ routeTask[c].pc \in RoutePcs /\ routeTask[c].known \in Routes
           /\ routeTask[c].manifest \in Routes /\ routeTask[c].entry \in RouteRow \cup {NoRow}
  BY DEF RouteInv, RouteTypes, RouteTask

LEMMA RouteWithPc ==
    ASSUME NEW task \in RouteTask, NEW pc \in RoutePcs
    PROVE  [task EXCEPT !.pc = pc] \in RouteTask /\ [task EXCEPT !.pc = pc].pc = pc
  BY DEF RouteTask

EndedRouteWith(route) == [IdleRoute EXCEPT !.pc = "done", !.known = route]
GoneRoute == [IdleRoute EXCEPT !.pc = "gone"]

LEMMA NoRouteIsRoute == NoRoute \in Routes
  BY DEF Routes

LEMMA IdleRouteTask == IdleRoute \in RouteTask /\ IdleRoute.pc = "idle"
  <1>1. IdleRoute = [pc |-> "idle", force |-> FALSE, known |-> NoRoute,
                     manifest |-> NoRoute, entry |-> NoRow]
    BY DEF IdleRoute
  <1> QED BY <1>1, NoRouteIsRoute DEF RouteTask, RoutePcs

LEMMA EndedRoute ==
    ASSUME NEW route \in Routes
    PROVE  EndedRouteWith(route) \in RouteTask /\ EndedRouteWith(route).pc = "done"
  BY IdleRouteTask DEF RouteTask, RoutePcs, EndedRouteWith

LEMMA RouteGone == GoneRoute \in RouteTask /\ GoneRoute.pc = "gone"
  BY IdleRouteTask DEF RouteTask, RoutePcs, GoneRoute

LEMMA SelectedRoute ==
    ASSUME NEW label \in Routes, NEW manifest \in Routes
    PROVE  Selected(label, manifest) \in Routes
  BY DEF Selected

LEMMA KnownRoute ==
    ASSUME RouteInv, NEW c \in RouteTasks
    PROVE  KnownNow(c) \in Routes
  BY RouteFields DEF KnownNow, RouteRow

LEMMA BeginRouteSafe ==
    ASSUME RouteInv, NEW c \in RouteTasks, BeginRoute(c)
    PROVE  RoutesGoOn
  <1>1. routeTask \in [RouteTasks -> RouteTask] /\ routeTask[c] \in RouteTask
    BY RouteFields
  <1>2. PICK force \in ForceOf(c[1]) :
          routeTask' = [routeTask EXCEPT ![c].pc = "index", ![c].force = force]
    BY DEF BeginRoute
  <1> DEFINE task == [routeTask[c] EXCEPT !.pc = "index", !.force = force]
  <1>3. routeTask' = [routeTask EXCEPT ![c] = task] /\ UNCHANGED <<routeLease, routeJob>>
    BY <1>1, <1>2 DEF BeginRoute
  <1>4. force \in BOOLEAN
    BY DEF ForceOf
  <1>5. task \in RouteTask /\ task.pc \notin Acquiring
    BY <1>1, <1>4 DEF RouteTask, RoutePcs, Acquiring
  <1> HIDE DEF task
  <1> QED BY <1>3, <1>5, RouteMoves

\* The index gives routes of the Prints that are stored.
LEMMA IndexGives ==
    ASSUME PrintInv, NEW b, NEW route \in ManifestRoutes(b, NoRoute)
    PROVE  route \in Routes
  <1>1. CASE route = NoRoute
    BY <1>1, NoRouteIsRoute
  <1>2. CASE \E m \in Naming(b) : route = prints[m].items[b]
    <2>1. PICK m \in Naming(b) : route = prints[m].items[b]
      BY <1>2
    <2>2. m \in Manifests /\ prints[m] # NoPrint /\ <<m, b>> \in printBags
      BY <2>1 DEF Naming, Retained
    <2>3. PICK n \in Snapshots : <<m, b>> \in {<<n, d>> : d \in DOMAIN prints[n].items}
      BY <2>2 DEF PrintInv, ManifestIndexed
    <2>4. b \in DOMAIN prints[m].items
      BY <2>3
    <2>5. OfOffices(prints[m].items)
      BY <2>2 DEF PrintInv, PrintTable, PrintRow
    <2>6. route \in SUBSET Offices
      BY <2>1, <2>4, <2>5 DEF OfOffices
    <2> QED BY <2>6 DEF Routes
  <1> QED BY <1>1, <1>2 DEF ManifestRoutes

LEMMA ReadIndexSafe ==
    ASSUME RouteInv, PrintInv, NEW c \in RouteTasks, ReadIndex(c)
    PROVE  RoutesGoOn
  <1>1. routeTask \in [RouteTasks -> RouteTask] /\ routeTask[c] \in RouteTask
    BY RouteFields
  <1>2. PICK route \in ManifestRoutes(c[2], NoRoute) :
          routeTask' = [routeTask EXCEPT ![c].pc = "read", ![c].manifest = route]
    BY DEF ReadIndex
  <1>3. route \in Routes
    BY IndexGives
  <1> DEFINE task == [routeTask[c] EXCEPT !.pc = "read", !.manifest = route]
  <1>4. routeTask' = [routeTask EXCEPT ![c] = task] /\ UNCHANGED <<routeLease, routeJob>>
    BY <1>1, <1>2 DEF ReadIndex
  <1>5. task \in RouteTask /\ task.pc \notin Acquiring
    BY <1>1, <1>3 DEF RouteTask, RoutePcs, Acquiring
  <1> HIDE DEF task
  <1> QED BY <1>4, <1>5, RouteMoves

LEMMA ReadRouteSafe ==
    ASSUME RouteInv, NEW c \in RouteTasks, ReadRoute(c)
    PROVE  RoutesGoOn
  <1> DEFINE entry == RouteEntry(c[2])
             task == [routeTask[c] EXCEPT !.pc = "decide", !.entry = entry]
  <1>1. routeTask \in [RouteTasks -> RouteTask] /\ routeTask[c] \in RouteTask
    BY RouteFields
  <1>2. entry \in RouteRow \cup {NoRow}
    <2>1. CASE ~RouteReadable(c[2])
      BY <2>1 DEF RouteEntry
    <2>2. CASE RouteReadable(c[2])
      <3> DEFINE row == routes[c[2]]
                 status == IF row.status = "ok" THEN RouteStatus(row.route) ELSE row.status
      <3>1. row \in RouteRow
        BY <2>2, TaskOfBag DEF RouteReadable, RouteInv, RouteTypes, RouteTable
      <3>2. status \in {"ok", "partial", "missing", "failed"}
        BY <3>1 DEF RouteStatus, RouteRow
      <3>3. entry = [row EXCEPT !.status = status]
        BY <2>2, <3>1 DEF RouteEntry, RouteRow
      <3> HIDE DEF status
      <3> QED BY <3>1, <3>2, <3>3 DEF RouteRow
    <2> QED BY <2>1, <2>2
  <1> HIDE DEF entry
  <1>3. routeTask' = [routeTask EXCEPT ![c] = task] /\ UNCHANGED <<routeLease, routeJob>>
    BY <1>1 DEF ReadRoute, entry
  <1>4. task \in RouteTask /\ task.pc \notin Acquiring
    BY <1>1, <1>2 DEF RouteTask, RoutePcs, Acquiring
  <1> HIDE DEF task
  <1> QED BY <1>3, <1>4, RouteMoves

LEMMA RouteCachedSafe ==
    ASSUME RouteInv, NEW c \in RouteTasks, RouteCached(c)
    PROVE  RoutesGoOn
  <1> DEFINE route == Selected(KnownNow(c), routeTask[c].manifest)
             task == EndedRouteWith(route)
  <1>1. routeTask' = [routeTask EXCEPT ![c] = task] /\ UNCHANGED <<routeLease, routeJob>>
    BY DEF RouteCached, RouteEnds, EndedRouteWith
  <1>2. route \in Routes
    BY KnownRoute, RouteFields, SelectedRoute
  <1> HIDE DEF route
  <1>3. task \in RouteTask /\ task.pc \notin Acquiring
    BY <1>2, EndedRoute DEF Acquiring
  <1> HIDE DEF task
  <1> QED BY <1>1, <1>3, RouteMoves

LEMMA RouteBeginsSafe ==
    ASSUME RouteInv, NEW c \in RouteTasks, RouteBegins(c)
    PROVE  RoutesGoOn
  <1> DEFINE became(pc) == [routeTask[c] EXCEPT !.pc = pc, !.known = KnownNow(c), !.entry = NoRow]
  <1>1. routeTask \in [RouteTasks -> RouteTask] /\ routeTask[c] \in RouteTask
    BY RouteFields
  <1>2. \A pc \in {"permit", "waiting"} : became(pc) \in RouteTask /\ became(pc).pc = pc
    BY <1>1, KnownRoute DEF RouteTask, RoutePcs
  <1>3. UNCHANGED routeJob
    BY DEF RouteBegins
  <1>4. CASE /\ RouteLeases!Start(c, c[2])
             /\ routeTask' = [routeTask EXCEPT ![c].pc = "permit",
                   ![c].known = KnownNow(c), ![c].entry = NoRow]
    <2>1. routeTask' = [routeTask EXCEPT ![c] = became("permit")]
      BY <1>1, <1>4
    <2>2. became("permit") \in RouteTask
      BY <1>2
    <2> HIDE DEF became
    <2> QED BY <1>3, <1>4, <2>1, <2>2, RouteMoves
  <1>5. CASE /\ RouteLeases!Wait(c, c[2])
             /\ routeTask' = [routeTask EXCEPT ![c].pc = "waiting",
                   ![c].known = KnownNow(c), ![c].entry = NoRow]
    <2>1. routeTask' = [routeTask EXCEPT ![c] = became("waiting")]
      BY <1>1, <1>5
    <2>2. became("waiting") \in RouteTask /\ became("waiting").pc \notin Acquiring
      BY <1>2 DEF Acquiring
    <2> HIDE DEF became
    <2> QED BY <1>3, <1>5, <2>1, <2>2, RouteMoves
  <1> QED BY <1>4, <1>5 DEF RouteBegins

LEMMA RouteWakesSafe ==
    ASSUME RouteInv, NEW c \in RouteTasks, RouteWakes(c)
    PROVE  RoutesGoOn
  <1> DEFINE task == [routeTask[c] EXCEPT !.pc = "read", !.force = FALSE]
  <1>1. routeTask \in [RouteTasks -> RouteTask] /\ routeTask[c] \in RouteTask
    BY RouteFields
  <1>2. routeTask' = [routeTask EXCEPT ![c] = task] /\ UNCHANGED <<routeLease, routeJob>>
    BY <1>1 DEF RouteWakes
  <1>3. task \in RouteTask /\ task.pc \notin Acquiring
    BY <1>1 DEF RouteTask, RoutePcs, Acquiring
  <1> HIDE DEF task
  <1> QED BY <1>2, <1>3, RouteMoves

LEMMA RoutePermitSafe ==
    ASSUME RouteInv, NEW c \in RouteTasks, RoutePermit(c)
    PROVE  RoutesGoOn
  <1>1. /\ routeTask \in [RouteTasks -> RouteTask] /\ routeTask[c] \in RouteTask
        /\ routeTask[c].pc = "permit" /\ UNCHANGED routeJob
    BY RouteFields DEF RoutePermit, RouteAt
  <1>2. CASE RouteGoes(c, "label") /\ UNCHANGED routeLease
    <2> DEFINE task == [routeTask[c] EXCEPT !.pc = "label"]
    <2>1. routeTask' = [routeTask EXCEPT ![c] = task]
      BY <1>1, <1>2 DEF RouteGoes
    <2>2. task \in RouteTask /\ routeTask[c].pc \in Acquiring
      BY <1>1, RouteWithPc DEF RoutePcs, Acquiring
    <2> HIDE DEF task
    <2> QED BY <1>1, <1>2, <2>1, <2>2, RouteMoves
  <1>3. CASE /\ RouteEnds(c, Selected(routeTask[c].known, routeTask[c].manifest))
             /\ RouteLeases!Drop(c, c[2])
    <2> DEFINE route == Selected(routeTask[c].known, routeTask[c].manifest)
               task == EndedRouteWith(route)
    <2>1. routeTask' = [routeTask EXCEPT ![c] = task]
      BY <1>3 DEF RouteEnds, EndedRouteWith
    <2>2. route \in Routes
      BY RouteFields, SelectedRoute
    <2> HIDE DEF route
    <2>3. task \in RouteTask /\ task.pc \notin Acquiring
      BY <2>2, EndedRoute DEF Acquiring
    <2> HIDE DEF task
    <2> QED BY <1>1, <1>3, <2>1, <2>3, RouteMoves
  <1> QED BY <1>2, <1>3 DEF RoutePermit

LEMMA RouteFetchedSafe ==
    ASSUME RouteInv, NEW c \in RouteTasks, RouteFetched(c)
    PROVE  RoutesGoOn
  <1>1. PICK label \in Labels : routeJob' = [routeJob EXCEPT ![c] =
           [route |-> IF LabelRead(label) THEN LabelOffices(label) ELSE NoRoute]]
    BY DEF RouteFetched
  <1> DEFINE route == IF LabelRead(label) THEN LabelOffices(label) ELSE NoRoute
             job == [route |-> route]
             task == [routeTask[c] EXCEPT !.pc = "storing"]
  <1>2. /\ routeTask \in [RouteTasks -> RouteTask] /\ routeTask[c] \in RouteTask
        /\ routeTask[c].pc \in Acquiring /\ UNCHANGED routeLease
        /\ routeJob \in [RouteTasks -> RouteJob \cup {NoJob}]
    BY RouteFields DEF RouteInv, RouteTypes, RouteFetched, RouteAt, Acquiring
  <1>3. route \in Routes
    <2>1. LabelOffices(label) \in SUBSET Offices
      BY DEF LabelOffices, Offices
    <2> QED BY <2>1, NoRouteIsRoute DEF Routes
  <1>4. routeJob' = [routeJob EXCEPT ![c] = job]
    BY <1>1
  <1> HIDE DEF route
  <1>5. job \in RouteJob
    BY <1>3 DEF RouteJob
  <1> HIDE DEF job
  <1>6. routeJob' \in [RouteTasks -> RouteJob \cup {NoJob}]
    BY <1>2, <1>4, <1>5
  <1>7. routeTask' = [routeTask EXCEPT ![c] = task]
    BY <1>2 DEF RouteFetched, RouteGoes
  <1>8. task \in RouteTask
    BY <1>2, RouteWithPc DEF RoutePcs
  <1> HIDE DEF task
  <1>9. /\ routeLease' \in [Bags -> RouteLease] /\ routeTask' \in [RouteTasks -> RouteTask]
        /\ RoutesHeld'
    BY <1>2, <1>7, <1>8, MovedRoute
  <1> QED BY <1>6, <1>9 DEF RoutesGoOn

LEMMA RouteAnsweredSafe ==
    ASSUME RouteInv, NEW c \in RouteTasks, RouteAnswered(c)
    PROVE  RoutesGoOn
  <1> DEFINE route == Selected(routeTask[c].known, routeTask[c].manifest)
             task == EndedRouteWith(route)
  <1>1. /\ routeTask' = [routeTask EXCEPT ![c] = task]
        /\ RouteLeases!Drop(c, c[2]) /\ UNCHANGED routeJob
    BY DEF RouteAnswered, RouteEnds, EndedRouteWith
  <1>2. route \in Routes
    BY RouteFields, SelectedRoute
  <1> HIDE DEF route
  <1>3. task \in RouteTask /\ task.pc \notin Acquiring
    BY <1>2, EndedRoute DEF Acquiring
  <1> HIDE DEF task
  <1> QED BY <1>1, <1>3, RouteMoves

LEMMA RouteWrittenSafe ==
    ASSUME RouteInv, NEW c \in RouteTasks, RouteWritten(c)
    PROVE  RoutesGoOn /\ RoutesKept
  <1> DEFINE job == routeJob[c]
             known == RouteToStore(c[2], job.route).route
             task == [routeTask[c] EXCEPT !.pc = "stored", !.known = known]
  <1>1. /\ routeTask \in [RouteTasks -> RouteTask] /\ routeTask[c] \in RouteTask
        /\ routeJob \in [RouteTasks -> RouteJob \cup {NoJob}]
        /\ routeLease \in [Bags -> RouteLease] /\ RoutesHeld
        /\ RouteTypes /\ RouteRows /\ c[2] \in Bags
    BY RouteFields, TaskOfBag DEF RouteInv, RouteTypes
  <1>2. /\ job # NoJob /\ StoreRoute(c[2], job.route)
        /\ routeJob' = [routeJob EXCEPT ![c] = NoJob] /\ UNCHANGED routeLease
    BY DEF RouteWritten
  <1>3. job.route \in Routes
    BY <1>1, <1>2 DEF RouteJob
  <1>4. RoutesKept
    BY <1>1, <1>2, <1>3, WroteRoute
  <1>5. known \in Routes
    BY <1>1, <1>3, StoredRoute
  <1> HIDE DEF known
  <1>6. routeJob' \in [RouteTasks -> RouteJob \cup {NoJob}]
    BY <1>1, <1>2
  <1>7. CASE RouteAt(c, "storing")
    <2>1. routeTask' = [routeTask EXCEPT ![c] = task]
      BY <1>1, <1>7 DEF RouteWritten, known
    <2>2. task \in RouteTask /\ routeTask[c].pc \in Acquiring
      BY <1>1, <1>5, <1>7 DEF RouteTask, RoutePcs, RouteAt, Acquiring
    <2> HIDE DEF task
    <2>3. routeTask' \in [RouteTasks -> RouteTask] /\ RoutesHeld'
      BY <1>2, <2>1, <2>2, MovedRoute
    <2> QED BY <1>1, <1>2, <1>4, <1>6, <2>3 DEF RoutesGoOn
  <1>8. CASE ~RouteAt(c, "storing")
    <2>1. UNCHANGED routeTask
      BY <1>8 DEF RouteWritten
    <2> QED BY <1>1, <1>2, <1>4, <1>6, <2>1 DEF RoutesGoOn, RoutesHeld
  <1> QED BY <1>7, <1>8

\* Every task of a request ends, and with it what it had of its lease.
LEMMA RoutesDroppedSafe ==
    ASSUME RouteInv, NEW r, RoutesDropped(r)
    PROVE  RoutesGoOn
  <1> DEFINE mine == {c \in RouteTasks : c[1] = r /\ routeTask[c].pc \notin {"done", "gone"}}
             less(b) == RouteLeases!Without(<<r, b>>, b)
  <1>1. /\ routeTask' = [c \in RouteTasks |-> IF c \in mine THEN GoneRoute ELSE routeTask[c]]
        /\ routeLease' = [b \in Bags |-> IF <<r, b>> \in mine THEN less(b) ELSE routeLease[b]]
        /\ UNCHANGED routeJob
    BY DEF RoutesDropped, GoneRoute
  <1>2. /\ routeTask \in [RouteTasks -> RouteTask] /\ routeLease \in [Bags -> RouteLease]
        /\ routeJob \in [RouteTasks -> RouteJob \cup {NoJob}] /\ RoutesHeld
    BY DEF RouteInv, RouteTypes
  <1>3. ASSUME NEW b \in Bags
        PROVE  /\ less(b) \in RouteLease
               /\ routeLease[b].holder # <<r, b>> => less(b).holder = routeLease[b].holder
    <2>1. routeLease[b] \in RouteLease
      BY <1>2
    <2> QED BY <2>1 DEF RouteLeases!Without, RouteLeases!Free, RouteLease
  <1> HIDE DEF less
  <1>4. routeLease' \in [Bags -> RouteLease]
    BY <1>1, <1>2, <1>3
  <1>5. routeTask' \in [RouteTasks -> RouteTask]
    BY <1>1, <1>2, RouteGone
  <1>6. ASSUME NEW c \in RouteTasks, routeTask'[c].pc \in Acquiring
        PROVE  routeLease'[c[2]].holder = c
    <2>1. "gone" \notin Acquiring
      BY DEF Acquiring
    <2>2. c \notin mine
      BY <1>1, <1>6, <2>1, RouteGone
    <2>3. routeTask'[c] = routeTask[c]
      BY <1>1, <2>2
    <2>4. routeLease[c[2]].holder = c
      BY <1>2, <1>6, <2>3 DEF RoutesHeld
    <2>5. c[2] \in Bags
      BY TaskOfBag
    <2>6. CASE <<r, c[2]>> \in mine
      <3>1. less(c[2]).holder = c
        BY <1>3, <2>2, <2>4, <2>5, <2>6
      <3> QED BY <1>1, <2>5, <2>6, <3>1
    <2>7. CASE <<r, c[2]>> \notin mine
      BY <1>1, <2>4, <2>5, <2>7
    <2> QED BY <2>6, <2>7
  <1>7. RoutesHeld'
    BY <1>6 DEF RoutesHeld
  <1> QED BY <1>1, <1>2, <1>4, <1>5, <1>7 DEF RoutesGoOn

\* A restart leaves no lease and nobody acquiring.
LEMMA RouteRestart ==
    ASSUME RouteInv, Restart
    PROVE  RoutesGoOn /\ RoutesKept
  <1>1. RoutesKept
    BY OpenedRoutes DEF Restart
  <1> DEFINE cut(c) == \/ Running(routeTask[c])
                       \/ RouteAt(c, "idle") /\ c[1] \in Trackings /\ ~ContactAt(c[1], "idle")
  <1>2. /\ routeLease' = [b \in Bags |-> RouteLeases!Free]
        /\ routeTask' = [c \in RouteTasks |-> IF cut(c) THEN GoneRoute ELSE routeTask[c]]
        /\ routeJob' = [c \in RouteTasks |-> NoJob]
    BY DEF Restart, GoneRoute
  <1>3. RouteLeases!Free \in RouteLease
    BY DEF RouteLeases!Free, RouteLease
  <1>4. ASSUME NEW c \in RouteTasks
        PROVE  routeTask'[c] \in RouteTask /\ routeTask'[c].pc \notin Acquiring
    <2>1. routeTask[c] \in RouteTask /\ routeTask[c].pc \in RoutePcs
      BY RouteFields
    <2>2. CASE cut(c)
      BY <1>2, <2>2, RouteGone DEF Acquiring
    <2>3. CASE ~cut(c)
      <3>1. routeTask'[c] = routeTask[c] /\ ~Running(routeTask[c])
        BY <1>2, <2>3
      <3> QED BY <2>1, <3>1 DEF Running, Acquiring
    <2> QED BY <2>2, <2>3
  <1> HIDE DEF cut
  <1>5. RoutesGoOn
    BY <1>2, <1>3, <1>4 DEF RoutesGoOn, RoutesHeld
  <1> QED BY <1>1, <1>5

-----------------------------------------------------------------------------
(* Routes in every step of the service.                                    *)

LEMMA RouteParts ==
    ASSUME RoutesGoOn, RoutesKept
    PROVE  RouteInv'
  BY DEF RoutesGoOn, RoutesKept, RouteInv, RouteTypes

LEMMA SameRoutes ==
    ASSUME RouteInv, UNCHANGED routes
    PROVE  RoutesKept
  BY DEF RouteInv, RouteTypes, RoutesKept, RouteRows, RouteRoom, Rows, OfficesSurvive

LEMMA SameRouteTasks ==
    ASSUME RouteInv, UNCHANGED <<routeLease, routeTask, routeJob>>
    PROVE  RoutesGoOn
  BY DEF RouteInv, RouteTypes, RoutesGoOn, RoutesHeld

LEMMA RouteStepSafe ==
    ASSUME RouteInv, PrintInv, NEW c \in RouteTasks, RouteStep(c)
    PROVE  RoutesGoOn /\ RoutesKept
  <1>1. CASE BeginRoute(c)
    <2>1. UNCHANGED routes
      BY <1>1 DEF BeginRoute
    <2> QED BY <1>1, <2>1, BeginRouteSafe, SameRoutes
  <1>2. CASE ReadIndex(c)
    <2>1. UNCHANGED routes
      BY <1>2 DEF ReadIndex
    <2> QED BY <1>2, <2>1, ReadIndexSafe, SameRoutes
  <1>3. CASE ReadRoute(c)
    <2>1. GetRoute(c[2]) /\ c[2] \in Bags
      BY <1>3, TaskOfBag DEF ReadRoute
    <2> QED BY <1>3, <2>1, ReadRouteSafe, GotRoute
  <1>4. CASE RouteCached(c)
    <2>1. UNCHANGED routes
      BY <1>4 DEF RouteCached
    <2> QED BY <1>4, <2>1, RouteCachedSafe, SameRoutes
  <1>5. CASE RouteBegins(c)
    <2>1. UNCHANGED routes
      BY <1>5 DEF RouteBegins
    <2> QED BY <1>5, <2>1, RouteBeginsSafe, SameRoutes
  <1>6. CASE RouteWakes(c)
    <2>1. UNCHANGED routes
      BY <1>6 DEF RouteWakes
    <2> QED BY <1>6, <2>1, RouteWakesSafe, SameRoutes
  <1>7. CASE RoutePermit(c)
    <2>1. UNCHANGED routes
      BY <1>7 DEF RoutePermit
    <2> QED BY <1>7, <2>1, RoutePermitSafe, SameRoutes
  <1>8. CASE RouteFetched(c)
    <2>1. UNCHANGED routes
      BY <1>8 DEF RouteFetched
    <2> QED BY <1>8, <2>1, RouteFetchedSafe, SameRoutes
  <1>9. CASE RouteAnswered(c)
    <2>1. UNCHANGED routes
      BY <1>9 DEF RouteAnswered
    <2> QED BY <1>9, <2>1, RouteAnsweredSafe, SameRoutes
  <1> QED BY <1>1, <1>2, <1>3, <1>4, <1>5, <1>6, <1>7, <1>8, <1>9 DEF RouteStep

LEMMA RouteNextSafe ==
    ASSUME RouteInv, PrintInv, [Next]_vars
    PROVE  RoutesGoOn /\ RoutesKept
  <1>1. CASE UNCHANGED routeVars
    BY <1>1, SameRoutes, SameRouteTasks DEF routeVars
  <1>2. CASE \E c \in RouteTasks : RouteNext(c)
    BY <1>2, RouteStepSafe, RouteWrittenSafe DEF RouteNext
  <1>3. CASE \E r \in Trackings \cup BagLookups : RoutesDropped(r)
    <2>1. PICK r \in Trackings \cup BagLookups : RoutesDropped(r)
      BY <1>3
    <2>2. UNCHANGED routes
      BY <2>1 DEF RoutesDropped
    <2> QED BY <2>1, <2>2, RoutesDroppedSafe, SameRoutes
  <1>4. CASE \E b \in Bags : AgeRoute(b) /\ UNCHANGED <<routeLease, routeTask, routeJob>>
    BY <1>4, AgedRoute, SameRouteTasks
  <1>5. CASE Restart
    BY <1>5, RouteRestart
  <1> QED BY <1>1, <1>2, <1>3, <1>4, <1>5
          DEF Next, ContactNext, ManifestNext, ExchangeNext, Drops, Ages, vars

LEMMA RouteInitSafe ==
    ASSUME Init
    PROVE  RouteInv
  <1>1. PICK w \in Scenarios : RouteInit(w.routes)
    BY DEF Init
  <1>2. PICK table \in w.routes : routes \in RoutePrunings(table, {})
    BY <1>1 DEF RouteInit
  <1>3. /\ table \in RouteTable
        /\ \A b \in Bags : table[b] # NoRow => Labelled(table[b])
    BY <1>2, ScenarioAssumption, RouteAssumption DEF RouteTable
  <1>4. {} \in SUBSET Bags
    OBVIOUS
  <1>5. /\ routes \in RouteTable
        /\ \A b \in Bags : routes[b] \in {table[b], NoRow}
        /\ Cardinality(Rows(routes)) <= MaxRoutes
    BY <1>2, <1>3, <1>4, PrunedRoutes
  <1>6. RouteRows /\ RouteRoom
    BY <1>3, <1>5 DEF RouteRows, RouteRoom
  <1>7. /\ routeLease = [b \in Bags |-> RouteLeases!Free]
        /\ routeTask = [c \in RouteTasks |-> IdleRoute]
        /\ routeJob = [c \in RouteTasks |-> NoJob]
    BY DEF Init, RouteLeases!Init, Tasks
  <1>8. RouteLeases!Free \in RouteLease
    BY DEF RouteLeases!Free, RouteLease
  <1>9. RouteTypes /\ RoutesHeld
    BY <1>5, <1>7, <1>8, IdleRouteTask DEF RouteTypes, RoutesHeld, Acquiring
  <1> QED BY <1>6, <1>9 DEF RouteInv

-----------------------------------------------------------------------------
(* The invariant of the caches.                                            *)

CacheInv == ContactInv /\ PrintInv /\ RouteInv

LEMMA CachesStart == Init => CacheInv
  BY ContactInitSafe, PrintInitSafe, RouteInitSafe DEF CacheInv

LEMMA CachesStep == CacheInv /\ [Next]_vars => CacheInv'
  BY ContactNextSafe, ContactParts, PrintNextSafe, RouteNextSafe, RouteParts DEF CacheInv

LEMMA CachesSafe == Spec => []CacheInv
  BY CachesStart, CachesStep, PTL DEF Spec

(* Of the requests that enrich one shipment, or one bag, at most one is at *)
(* the source: each is the holder of the lease of its key, also when       *)
(* others are forced, dropped, retried or cut off by a restart             *)
(* (contact_cache.rs and bag_route_cache.rs, begin_fetch and Drop).        *)
THEOREM OneAcquires == Spec => []OneAcquisition
  <1>1. CacheInv => OneAcquisition
    BY DEF CacheInv, ContactInv, RouteInv, ContactsHeld, RoutesHeld, OneAcquisition
  <1> QED BY <1>1, CachesSafe, PTL

(* The index of the bags names exactly those of the stored snapshots,      *)
(* whatever is stored, replaced and evicted (manifest_cache.rs,            *)
(* store_manifest_async).                                                  *)
THEOREM IndexExact == Spec => []ManifestIndexed
  <1>1. CacheInv => ManifestIndexed
    BY DEF CacheInv, PrintInv
  <1> QED BY <1>1, CachesSafe, PTL

(* A contact names one source only when all its phones came from it,       *)
(* through every merge and every pruning (contact_cache.rs,                *)
(* store_with_source).                                                     *)
THEOREM SourcesTruthful == Spec => []SourceTruthful
  <1>1. CacheInv => SourceTruthful
    BY DEF CacheInv, ContactInv, ContactRows, AsStored, SourceTruthful
  <1> QED BY <1>1, CachesSafe, PTL

(* No step costs a phone or an office that was known, but the capacity of  *)
(* the cache in favour of another row (contact_cache.rs and                *)
(* bag_route_cache.rs, get, store and prune).                              *)
THEOREM KnownKept == Spec => KnownSurvives
  <1>1. CacheInv /\ [Next]_vars => PhonesSurvive /\ OfficesSurvive
    BY ContactNextSafe, RouteNextSafe DEF CacheInv, ContactsKept, RoutesKept
  <1>2. CacheInv /\ [Next]_vars => [PhonesSurvive /\ OfficesSurvive]_vars
    BY <1>1
  <1> QED BY <1>2, CachesSafe, PTL DEF Spec, KnownSurvives

-----------------------------------------------------------------------------
(* Waiters: a lease is held by a request that is at work for its key, and  *)
(* who waits, waits for a lease that is held; a task that waits for its    *)
(* blocking write has one.                                                 *)

ContactsServed ==
    /\ \A s \in Shipments :
          /\ contactLease[s].holder # Nobody =>
                /\ Shipment[contactLease[s].holder] = s
                /\ contactTask[contactLease[s].holder].pc \in Acquiring
          /\ contactLease[s].waiting # {} => contactLease[s].holder # Nobody
    /\ \A t \in Trackings : contactTask[t].pc = "storing" => contactJob[t] # NoJob
RoutesServed ==
    /\ \A b \in Bags :
          /\ routeLease[b].holder # Nobody =>
                /\ routeLease[b].holder[2] = b
                /\ routeTask[routeLease[b].holder].pc \in Acquiring
          /\ routeLease[b].waiting # {} => routeLease[b].holder # Nobody
    /\ \A c \in RouteTasks : routeTask[c].pc = "storing" => routeJob[c] # NoJob

\* Whoever still waits for a lease waits for a request at work, not for one
\* that waits itself: its blocking write, if it needs one, is on its way.
WaitersServed ==
    /\ \A t \in Trackings :
          ContactAt(t, "waiting") /\ ~ContactLeases!Notified(t, Shipment[t]) =>
             \E u \in Trackings :
                /\ Shipment[u] = Shipment[t] /\ contactTask[u].pc \in Acquiring
                /\ ContactAt(u, "storing") => contactJob[u] # NoJob
    /\ \A c \in RouteTasks :
          RouteAt(c, "waiting") /\ ~RouteLeases!Notified(c, c[2]) =>
             \E d \in RouteTasks :
                /\ d[2] = c[2] /\ routeTask[d].pc \in Acquiring
                /\ RouteAt(d, "storing") => routeJob[d] # NoJob

-----------------------------------------------------------------------------
\* The contacts' leases

LEMMA ServedMove ==
    ASSUME ContactInv, ContactsServed, NEW t \in Trackings,
           \A u \in Trackings \ {t} :
              contactTask'[u].pc = contactTask[u].pc /\ contactJob'[u] = contactJob[u],
           contactTask'[t].pc = "storing" => contactJob'[t] # NoJob,
           \/ UNCHANGED contactLease
              /\ (contactTask[t].pc \in Acquiring => contactTask'[t].pc \in Acquiring)
           \/ ContactLeases!Start(t, Shipment[t]) /\ contactTask'[t].pc \in Acquiring
           \/ ContactLeases!Wait(t, Shipment[t]) /\ contactTask[t].pc \notin Acquiring
           \/ ContactLeases!Drop(t, Shipment[t])
    PROVE  ContactsServed'
  <1> DEFINE s == Shipment[t]
  <1>1. /\ s \in Shipments /\ Nobody \notin Trackings
        /\ contactLease \in [Shipments -> ContactLease]
        /\ \A k \in Shipments : /\ contactLease[k].holder \in Trackings \cup {Nobody}
                                /\ contactLease[k].waiting \in SUBSET Trackings
    BY RequestsAssumption DEF ContactInv, ContactTypes, ContactLease
  <1>2. \A u \in Trackings : contactTask'[u].pc = "storing" => contactJob'[u] # NoJob
    BY DEF ContactsServed
  <1>3. ASSUME NEW k \in Shipments,
               contactLease'[k] = contactLease[k], 
               k = s => contactLease[k].holder # t \/ contactTask'[t].pc \in Acquiring
        PROVE  /\ contactLease'[k].holder # Nobody =>
                    /\ Shipment[contactLease'[k].holder] = k
                    /\ contactTask'[contactLease'[k].holder].pc \in Acquiring
               /\ contactLease'[k].waiting # {} => contactLease'[k].holder # Nobody
    BY <1>1, <1>3 DEF ContactsServed
  <1>4. CASE UNCHANGED contactLease
             /\ (contactTask[t].pc \in Acquiring => contactTask'[t].pc \in Acquiring)
    <2>1. \A k \in Shipments : contactLease[k].holder = t => contactTask[t].pc \in Acquiring
      BY <1>1 DEF ContactsServed
    <2> QED BY <1>1, <1>2, <1>3, <1>4, <2>1 DEF ContactsServed
  <1>5. CASE ContactLeases!Start(t, s) /\ contactTask'[t].pc \in Acquiring
    <2>1. /\ contactLease'[s] = [holder |-> t, waiting |-> {}]
          /\ \A k \in Shipments \ {s} : contactLease'[k] = contactLease[k]
      BY <1>1, <1>5 DEF ContactLeases!Start
    <2>2. contactLease'[s].holder = t /\ contactLease'[s].waiting = {}
      BY <2>1
    <2> QED BY <1>1, <1>2, <1>3, <1>5, <2>1, <2>2 DEF ContactsServed
  <1>6. CASE ContactLeases!Wait(t, s) /\ contactTask[t].pc \notin Acquiring
    <2>1. /\ contactLease[s].holder # Nobody /\ contactLease'[s].holder = contactLease[s].holder
          /\ \A k \in Shipments \ {s} : contactLease'[k] = contactLease[k]
      BY <1>1, <1>6 DEF ContactLeases!Wait, ContactLease
    <2>2. contactLease[s].holder # t
      BY <1>1, <1>6 DEF ContactsServed
    <2>3. /\ Shipment[contactLease[s].holder] = s
          /\ contactTask'[contactLease[s].holder].pc \in Acquiring
      BY <1>1, <2>1, <2>2 DEF ContactsServed
    <2> QED BY <1>1, <1>2, <1>3, <2>1, <2>3 DEF ContactsServed
  <1>7. CASE ContactLeases!Drop(t, s)
    <2>1. /\ contactLease'[s] = ContactLeases!Without(t, s)
          /\ \A k \in Shipments \ {s} : contactLease'[k] = contactLease[k]
      BY <1>1, <1>7 DEF ContactLeases!Drop
    <2>2. CASE contactLease[s].holder = t
      <3>1. contactLease'[s].holder = Nobody /\ contactLease'[s].waiting = {}
        BY <2>1, <2>2 DEF ContactLeases!Without, ContactLeases!Free
      <3> QED BY <1>1, <1>2, <1>3, <2>1, <3>1 DEF ContactsServed
    <2>3. CASE contactLease[s].holder # t
      <3>1. /\ contactLease'[s].holder = contactLease[s].holder
            /\ contactLease'[s].waiting \subseteq contactLease[s].waiting
        BY <1>1, <2>1, <2>3 DEF ContactLeases!Without, ContactLease
      <3>2. /\ contactLease'[s].holder # Nobody =>
                 /\ Shipment[contactLease'[s].holder] = s
                 /\ contactTask'[contactLease'[s].holder].pc \in Acquiring
            /\ contactLease'[s].waiting # {} => contactLease'[s].holder # Nobody
        BY <1>1, <2>3, <3>1 DEF ContactsServed
      <3> QED BY <1>1, <1>2, <1>3, <2>1, <3>2 DEF ContactsServed
    <2> QED BY <2>2, <2>3
  <1> QED BY <1>4, <1>5, <1>6, <1>7

LEMMA ContactStepServes ==
    ASSUME ContactInv, ContactsServed, NEW t \in Trackings,
           ContactStep(t) \/ ContactWritten(t) \/ ContactDropped(t)
    PROVE  ContactsServed'
  <1>1. /\ contactTask \in [Trackings -> ContactTask]
        /\ contactJob \in [Trackings -> ContactJob \cup {NoJob}]
    BY DEF ContactInv, ContactTypes
  <1>2. \A u \in Trackings : DOMAIN contactTask[u] = {"pc", "force", "have", "lacks", "entry"}
    BY <1>1 DEF ContactTask
  <1>3. CASE BeginContact(t)
    <2>1. /\ \A u \in Trackings \ {t} : contactTask'[u] = contactTask[u]
          /\ contactTask'[t].pc \in {"read", "done"} /\ contactTask[t].pc = "idle"
          /\ UNCHANGED <<contactLease, contactJob>>
      BY <1>1, <1>3 DEF BeginContact, ContactEnds, ContactAt, IdleContact
    <2> QED BY <2>1, ServedMove DEF Acquiring
  <1>4. CASE ReadContact(t) \/ ContactCached(t) \/ ContactWakes(t)
    <2>1. /\ \A u \in Trackings \ {t} : contactTask'[u] = contactTask[u]
          /\ contactTask'[t].pc \in {"read", "decide", "done"}
          /\ contactTask[t].pc \in {"read", "decide", "waiting"}
          /\ UNCHANGED <<contactLease, contactJob>>
      BY <1>1, <1>2, <1>4
         DEF ReadContact, ContactCached, ContactWakes, ContactEnds, ContactAt, IdleContact
    <2> QED BY <2>1, ServedMove DEF Acquiring
  <1>5. CASE ContactBegins(t)
    <2>1. /\ \A u \in Trackings \ {t} : contactTask'[u] = contactTask[u]
          /\ contactTask[t].pc = "decide" /\ UNCHANGED contactJob
          /\ \/ ContactLeases!Start(t, Shipment[t]) /\ contactTask'[t].pc = "permit"
             \/ ContactLeases!Wait(t, Shipment[t]) /\ contactTask'[t].pc = "waiting"
      BY <1>1, <1>2, <1>5 DEF ContactBegins, TakesLease, ContactAt
    <2> QED BY <2>1, ServedMove DEF Acquiring
  <1>6. CASE ContactPermit(t)
    <2>1. /\ \A u \in Trackings \ {t} : contactTask'[u] = contactTask[u]
          /\ UNCHANGED contactJob
          /\ \/ UNCHANGED contactLease /\ contactTask'[t].pc = "lacak_mitra"
             \/ ContactLeases!Drop(t, Shipment[t]) /\ contactTask'[t].pc = "done"
      BY <1>1, <1>2, <1>6 DEF ContactPermit, ContactGoes, ContactEnds, IdleContact
    <2> QED BY <2>1, ServedMove DEF Acquiring
  <1>7. CASE ContactFetched(t)
    <2>1. /\ \A u \in Trackings \ {t} :
                contactTask'[u] = contactTask[u] /\ contactJob'[u] = contactJob[u]
          /\ UNCHANGED contactLease
          /\ \/ contactTask'[t].pc = "pid_detail"
             \/ contactTask'[t].pc = "storing" /\ contactJob'[t] # NoJob
      <3>1. CASE ContactGoes(t, "pid_detail") /\ UNCHANGED contactJob
        BY <1>1, <1>2, <1>7, <3>1 DEF ContactFetched, ContactGoes
      <3>2. ASSUME NEW found, NEW failed, NEW source, Writes(t, found, failed, source)
            PROVE  <2>1
        <4>1. UNCHANGED contactLease
          BY <1>7 DEF ContactFetched
        <4> DEFINE job == [phones |-> [p \in Parties |-> IF p \in found THEN source ELSE NoPhone],
                           failed |-> failed, source |-> source]
        <4>2. job # NoJob
          BY DEF NoJob
        <4>3. contactJob' = [contactJob EXCEPT ![t] = job]
          BY <3>2 DEF Writes
        <4> HIDE DEF job
        <4> QED BY <1>1, <1>2, <3>2, <4>1, <4>2, <4>3 DEF Writes, ContactGoes
      <3> QED BY <1>7, <3>1, <3>2 DEF ContactFetched
    <2> QED BY <2>1, ServedMove DEF Acquiring
  <1>8. CASE ContactAnswered(t) \/ ContactDropped(t)
    <2>1. /\ \A u \in Trackings \ {t} : contactTask'[u] = contactTask[u]
          /\ UNCHANGED contactJob /\ ContactLeases!Drop(t, Shipment[t])
          /\ contactTask'[t].pc \in {"done", "gone"}
      BY <1>1, <1>8 DEF ContactAnswered, ContactDropped, ContactEnds, IdleContact
    <2> QED BY <2>1, ServedMove
  <1>9. CASE ContactWritten(t)
    <2>1. /\ \A u \in Trackings \ {t} :
                contactTask'[u] = contactTask[u] /\ contactJob'[u] = contactJob[u]
          /\ UNCHANGED contactLease
          /\ \/ contactTask[t].pc = "storing" /\ contactTask'[t].pc \in {"failed", "stored"}
             \/ contactTask[t].pc # "storing" /\ contactTask'[t].pc = contactTask[t].pc
      BY <1>1, <1>2, <1>9 DEF ContactWritten, ContactAt
    <2> QED BY <2>1, ServedMove DEF Acquiring
  <1> QED BY <1>3, <1>4, <1>5, <1>6, <1>7, <1>8, <1>9 DEF ContactStep

LEMMA ContactNextServes ==
    ASSUME ContactInv, ContactsServed, [Next]_vars
    PROVE  ContactsServed'
  <1>1. CASE UNCHANGED <<contactLease, contactTask, contactJob>>
    BY <1>1 DEF ContactsServed
  <1>2. CASE \E t \in Trackings : ContactStep(t) \/ ContactWritten(t) \/ ContactDropped(t)
    BY <1>2, ContactStepServes
  <1>3. CASE Restart
    <2>1. contactTask \in [Trackings -> ContactTask]
      BY DEF ContactInv, ContactTypes
    <2>2. /\ \A s \in Shipments :
                contactLease'[s].holder = Nobody /\ contactLease'[s].waiting = {}
          /\ \A t \in Trackings : contactTask'[t].pc # "storing"
      BY <1>3, <2>1 DEF Restart, Running, IdleContact, ContactLeases!Free
    <2> QED BY <2>2 DEF ContactsServed
  <1> QED BY <1>1, <1>2, <1>3
          DEF Next, ContactNext, RouteNext, ManifestNext, ExchangeNext, Drops, Ages, contactVars,
              vars

LEMMA ContactsStartServed ==
    ASSUME Init
    PROVE  ContactsServed
  <1>1. /\ contactLease = [s \in Shipments |-> ContactLeases!Free]
        /\ contactTask = [t \in Trackings |-> IdleContact]
    BY DEF Init, ContactLeases!Init, Tasks
  <1> QED BY <1>1 DEF ContactsServed, ContactLeases!Free, IdleContact

-----------------------------------------------------------------------------
\* The routes' leases

\* As ServedMove.
LEMMA RouteServedMove ==
    ASSUME RouteInv, RoutesServed, NEW c \in RouteTasks,
           \A d \in RouteTasks \ {c} :
              routeTask'[d].pc = routeTask[d].pc /\ routeJob'[d] = routeJob[d],
           routeTask'[c].pc = "storing" => routeJob'[c] # NoJob,
           \/ UNCHANGED routeLease
              /\ (routeTask[c].pc \in Acquiring => routeTask'[c].pc \in Acquiring)
           \/ RouteLeases!Start(c, c[2]) /\ routeTask'[c].pc \in Acquiring
           \/ RouteLeases!Wait(c, c[2]) /\ routeTask[c].pc \notin Acquiring
           \/ RouteLeases!Drop(c, c[2])
    PROVE  RoutesServed'
  <1> DEFINE b == c[2]
  <1>1. /\ b \in Bags /\ Nobody \notin RouteTasks
        /\ routeLease \in [Bags -> RouteLease]
        /\ \A k \in Bags : /\ routeLease[k].holder \in RouteTasks \cup {Nobody}
                           /\ routeLease[k].waiting \in SUBSET RouteTasks
    BY TaskOfBag, RequestsAssumption DEF RouteInv, RouteTypes, RouteLease
  <1>2. \A d \in RouteTasks : routeTask'[d].pc = "storing" => routeJob'[d] # NoJob
    BY DEF RoutesServed
  <1>3. ASSUME NEW k \in Bags,
               routeLease'[k] = routeLease[k],
               k = b => routeLease[k].holder # c \/ routeTask'[c].pc \in Acquiring
        PROVE  /\ routeLease'[k].holder # Nobody =>
                    /\ routeLease'[k].holder[2] = k
                    /\ routeTask'[routeLease'[k].holder].pc \in Acquiring
               /\ routeLease'[k].waiting # {} => routeLease'[k].holder # Nobody
    BY <1>1, <1>3 DEF RoutesServed
  <1>4. CASE UNCHANGED routeLease
             /\ (routeTask[c].pc \in Acquiring => routeTask'[c].pc \in Acquiring)
    <2>1. \A k \in Bags : routeLease[k].holder = c => routeTask[c].pc \in Acquiring
      BY <1>1 DEF RoutesServed
    <2> QED BY <1>1, <1>2, <1>3, <1>4, <2>1 DEF RoutesServed
  <1>5. CASE RouteLeases!Start(c, b) /\ routeTask'[c].pc \in Acquiring
    <2>1. /\ routeLease'[b] = [holder |-> c, waiting |-> {}]
          /\ \A k \in Bags \ {b} : routeLease'[k] = routeLease[k]
      BY <1>1, <1>5 DEF RouteLeases!Start
    <2>2. routeLease'[b].holder = c /\ routeLease'[b].waiting = {}
      BY <2>1
    <2> QED BY <1>1, <1>2, <1>3, <1>5, <2>1, <2>2 DEF RoutesServed
  <1>6. CASE RouteLeases!Wait(c, b) /\ routeTask[c].pc \notin Acquiring
    <2>1. /\ routeLease[b].holder # Nobody /\ routeLease'[b].holder = routeLease[b].holder
          /\ \A k \in Bags \ {b} : routeLease'[k] = routeLease[k]
      BY <1>1, <1>6 DEF RouteLeases!Wait, RouteLease
    <2>2. routeLease[b].holder # c
      BY <1>1, <1>6 DEF RoutesServed
    <2>3. /\ routeLease[b].holder[2] = b
          /\ routeTask'[routeLease[b].holder].pc \in Acquiring
      BY <1>1, <2>1, <2>2 DEF RoutesServed
    <2> QED BY <1>1, <1>2, <1>3, <2>1, <2>3 DEF RoutesServed
  <1>7. CASE RouteLeases!Drop(c, b)
    <2>1. /\ routeLease'[b] = RouteLeases!Without(c, b)
          /\ \A k \in Bags \ {b} : routeLease'[k] = routeLease[k]
      BY <1>1, <1>7 DEF RouteLeases!Drop
    <2>2. CASE routeLease[b].holder = c
      <3>1. routeLease'[b].holder = Nobody /\ routeLease'[b].waiting = {}
        BY <2>1, <2>2 DEF RouteLeases!Without, RouteLeases!Free
      <3> QED BY <1>1, <1>2, <1>3, <2>1, <3>1 DEF RoutesServed
    <2>3. CASE routeLease[b].holder # c
      <3>1. /\ routeLease'[b].holder = routeLease[b].holder
            /\ routeLease'[b].waiting \subseteq routeLease[b].waiting
        BY <1>1, <2>1, <2>3 DEF RouteLeases!Without, RouteLease
      <3>2. /\ routeLease'[b].holder # Nobody =>
                 /\ routeLease'[b].holder[2] = b
                 /\ routeTask'[routeLease'[b].holder].pc \in Acquiring
            /\ routeLease'[b].waiting # {} => routeLease'[b].holder # Nobody
        BY <1>1, <2>3, <3>1 DEF RoutesServed
      <3> QED BY <1>1, <1>2, <1>3, <2>1, <3>2 DEF RoutesServed
    <2> QED BY <2>2, <2>3
  <1> QED BY <1>4, <1>5, <1>6, <1>7

LEMMA RouteStepServes ==
    ASSUME RouteInv, RoutesServed, NEW c \in RouteTasks, RouteStep(c) \/ RouteWritten(c)
    PROVE  RoutesServed'
  <1>1. /\ routeTask \in [RouteTasks -> RouteTask]
        /\ routeJob \in [RouteTasks -> RouteJob \cup {NoJob}]
    BY DEF RouteInv, RouteTypes
  <1>2. \A d \in RouteTasks : DOMAIN routeTask[d] = {"pc", "force", "known", "manifest", "entry"}
    BY <1>1 DEF RouteTask
  <1>3. CASE BeginRoute(c) \/ ReadIndex(c) \/ ReadRoute(c) \/ RouteCached(c) \/ RouteWakes(c)
    <2>1. /\ \A d \in RouteTasks \ {c} : routeTask'[d] = routeTask[d]
          /\ routeTask'[c].pc \in {"index", "read", "decide", "done"}
          /\ routeTask[c].pc \in {"idle", "index", "read", "decide", "waiting"}
          /\ UNCHANGED <<routeLease, routeJob>>
      BY <1>1, <1>2, <1>3
         DEF BeginRoute, ReadIndex, ReadRoute, RouteCached, RouteWakes, RouteEnds, RouteAt,
             IdleRoute
    <2> QED BY <2>1, RouteServedMove DEF Acquiring
  <1>4. CASE RouteBegins(c)
    <2>1. /\ \A d \in RouteTasks \ {c} : routeTask'[d] = routeTask[d]
          /\ routeTask[c].pc = "decide" /\ UNCHANGED routeJob
          /\ \/ RouteLeases!Start(c, c[2]) /\ routeTask'[c].pc = "permit"
             \/ RouteLeases!Wait(c, c[2]) /\ routeTask'[c].pc = "waiting"
      BY <1>1, <1>2, <1>4 DEF RouteBegins, RouteAt
    <2> QED BY <2>1, RouteServedMove DEF Acquiring
  <1>5. CASE RoutePermit(c)
    <2>1. /\ \A d \in RouteTasks \ {c} : routeTask'[d] = routeTask[d]
          /\ UNCHANGED routeJob
          /\ \/ UNCHANGED routeLease /\ routeTask'[c].pc = "label"
             \/ RouteLeases!Drop(c, c[2]) /\ routeTask'[c].pc = "done"
      BY <1>1, <1>2, <1>5 DEF RoutePermit, RouteGoes, RouteEnds, IdleRoute
    <2> QED BY <2>1, RouteServedMove DEF Acquiring
  <1>6. CASE RouteFetched(c)
    <2>1. PICK label \in Labels : routeJob' = [routeJob EXCEPT ![c] =
             [route |-> IF LabelRead(label) THEN LabelOffices(label) ELSE NoRoute]]
      BY <1>6 DEF RouteFetched
    <2> DEFINE job == [route |-> IF LabelRead(label) THEN LabelOffices(label) ELSE NoRoute]
    <2>2. job # NoJob
      BY DEF NoJob
    <2>3. routeJob' = [routeJob EXCEPT ![c] = job]
      BY <2>1
    <2> HIDE DEF job
    <2>4. /\ \A d \in RouteTasks \ {c} :
                routeTask'[d] = routeTask[d] /\ routeJob'[d] = routeJob[d]
          /\ UNCHANGED routeLease
          /\ routeTask'[c].pc = "storing" /\ routeJob'[c] # NoJob
      BY <1>1, <1>2, <1>6, <2>2, <2>3 DEF RouteFetched, RouteGoes
    <2> QED BY <2>4, RouteServedMove DEF Acquiring
  <1>7. CASE RouteAnswered(c)
    <2>1. /\ \A d \in RouteTasks \ {c} : routeTask'[d] = routeTask[d]
          /\ UNCHANGED routeJob /\ RouteLeases!Drop(c, c[2])
          /\ routeTask'[c].pc = "done"
      BY <1>1, <1>7 DEF RouteAnswered, RouteEnds, IdleRoute
    <2> QED BY <2>1, RouteServedMove
  <1>8. CASE RouteWritten(c)
    <2>1. /\ \A d \in RouteTasks \ {c} :
                routeTask'[d] = routeTask[d] /\ routeJob'[d] = routeJob[d]
          /\ UNCHANGED routeLease
          /\ \/ routeTask[c].pc = "storing" /\ routeTask'[c].pc = "stored"
             \/ routeTask[c].pc # "storing" /\ routeTask'[c].pc = routeTask[c].pc
      BY <1>1, <1>2, <1>8 DEF RouteWritten, RouteAt
    <2> QED BY <2>1, RouteServedMove DEF Acquiring
  <1> QED BY <1>3, <1>4, <1>5, <1>6, <1>7, <1>8 DEF RouteStep

\* The tasks of a request end together, each with what it had of its lease.
LEMMA RoutesDroppedServe ==
    ASSUME RouteInv, RoutesServed, NEW r, RoutesDropped(r)
    PROVE  RoutesServed'
  <1> DEFINE mine == {c \in RouteTasks : c[1] = r /\ routeTask[c].pc \notin {"done", "gone"}}
             less(b) == RouteLeases!Without(<<r, b>>, b)
  <1>1. /\ routeTask' = [c \in RouteTasks |-> IF c \in mine THEN GoneRoute ELSE routeTask[c]]
        /\ routeLease' = [b \in Bags |-> IF <<r, b>> \in mine THEN less(b) ELSE routeLease[b]]
        /\ UNCHANGED routeJob
    BY DEF RoutesDropped, GoneRoute
  <1>2. /\ Nobody \notin RouteTasks
        /\ \A b \in Bags : /\ routeLease[b] \in RouteLease
                           /\ routeLease[b].holder \in RouteTasks \cup {Nobody}
                           /\ routeLease[b].waiting \in SUBSET RouteTasks
    BY RequestsAssumption DEF RouteInv, RouteTypes, RouteLease
  <1>3. \A c \in RouteTasks : routeTask'[c].pc = "storing" => routeJob'[c] # NoJob
    BY <1>1, RouteGone DEF RoutesServed
  <1>4. ASSUME NEW c \in RouteTasks, c[1] = r, routeTask[c].pc \in Acquiring
        PROVE  c \in mine
    BY <1>4 DEF Acquiring
  <1>5. \A c \in RouteTasks : c = <<c[1], c[2]>>
    BY TaskOfBag DEF RouteTasks
  <1>6. ASSUME NEW b \in Bags
        PROVE  /\ routeLease'[b].holder # Nobody =>
                    /\ routeLease'[b].holder[2] = b
                    /\ routeTask'[routeLease'[b].holder].pc \in Acquiring
               /\ routeLease'[b].waiting # {} => routeLease'[b].holder # Nobody
    <2> DEFINE h == routeLease[b].holder
    <2>1. h # Nobody => h \in RouteTasks /\ h[2] = b /\ routeTask[h].pc \in Acquiring
      BY <1>2 DEF RoutesServed
    <2>2. routeLease[b].waiting # {} => h # Nobody
      BY DEF RoutesServed
    <2>3. CASE h # Nobody /\ h[1] = r
      <3>1. h = <<r, b>> /\ h \in mine
        BY <1>4, <1>5, <2>1, <2>3
      <3>2. routeLease'[b] = RouteLeases!Free
        BY <1>1, <3>1 DEF RouteLeases!Without
      <3> QED BY <3>2 DEF RouteLeases!Free
    <2>4. CASE h # Nobody /\ h[1] # r
      <3>1. h # <<r, b>> /\ h \notin mine
        BY <2>1, <2>4
      <3>2. routeTask'[h] = routeTask[h]
        BY <1>1, <2>1, <2>4, <3>1
      <3>3. routeLease'[b].holder = h
        BY <1>1, <1>2, <3>1 DEF RouteLeases!Without, RouteLease
      <3> QED BY <2>1, <2>4, <3>2, <3>3
    <2>5. CASE h = Nobody
      <3>1. routeLease[b].waiting = {}
        BY <2>2, <2>5
      <3>2. CASE <<r, b>> \in mine
        <4>1. h # <<r, b>>
          BY <1>2, <2>5, <3>2
        <4>2. routeLease'[b] = less(b)
          BY <1>1, <3>2
        <4>3. less(b).holder = Nobody /\ less(b).waiting = {}
          BY <1>2, <2>5, <3>1, <4>1 DEF RouteLeases!Without, RouteLease
        <4> QED BY <4>2, <4>3
      <3>3. CASE <<r, b>> \notin mine
        BY <1>1, <2>5, <3>1, <3>3
      <3> QED BY <3>2, <3>3
    <2> QED BY <2>3, <2>4, <2>5
  <1> QED BY <1>3, <1>6 DEF RoutesServed

LEMMA RouteNextServes ==
    ASSUME RouteInv, RoutesServed, [Next]_vars
    PROVE  RoutesServed'
  <1>1. CASE UNCHANGED <<routeLease, routeTask, routeJob>>
    BY <1>1 DEF RoutesServed
  <1>2. CASE \E c \in RouteTasks : RouteStep(c) \/ RouteWritten(c)
    BY <1>2, RouteStepServes
  <1>3. CASE \E r \in Trackings \cup BagLookups : RoutesDropped(r)
    BY <1>3, RoutesDroppedServe
  <1>4. CASE Restart
    <2>1. /\ \A b \in Bags : routeLease'[b].holder = Nobody /\ routeLease'[b].waiting = {}
          /\ \A c \in RouteTasks : routeTask'[c].pc # "storing"
      BY <1>4 DEF Restart, Running, IdleRoute, RouteLeases!Free
    <2> QED BY <2>1 DEF RoutesServed
  <1> QED BY <1>1, <1>2, <1>3, <1>4
          DEF Next, ContactNext, RouteNext, ManifestNext, ExchangeNext, Drops, Ages, routeVars,
              vars

LEMMA RoutesStartServed ==
    ASSUME Init
    PROVE  RoutesServed
  <1>1. /\ routeLease = [b \in Bags |-> RouteLeases!Free]
        /\ routeTask = [c \in RouteTasks |-> IdleRoute]
    BY DEF Init, RouteLeases!Init, Tasks
  <1> QED BY <1>1 DEF RoutesServed, RouteLeases!Free, IdleRoute

-----------------------------------------------------------------------------
(* No wakeup is lost and no lease outlives its request: whoever waits for  *)
(* a lease without having been notified waits for a request that is at     *)
(* the source or writes what it found there, never for one that is gone,   *)
(* or that waits itself - whichever request is dropped, cut off by a       *)
(* restart or refused its permit in between (contact_cache.rs and          *)
(* bag_route_cache.rs, begin_fetch and the Drop of the lease).             *)
THEOREM NoneStranded == Spec => []WaitersServed
  <1>1. Init => ContactsServed /\ RoutesServed
    BY ContactsStartServed, RoutesStartServed
  <1>2. CacheInv /\ ContactsServed /\ RoutesServed /\ [Next]_vars
           => (ContactsServed /\ RoutesServed)'
    BY ContactNextServes, RouteNextServes DEF CacheInv
  <1>3. CacheInv /\ ContactsServed /\ RoutesServed => WaitersServed
    <2> SUFFICES ASSUME CacheInv, ContactsServed, RoutesServed
                 PROVE  WaitersServed
      OBVIOUS
    <2>1. ASSUME NEW t \in Trackings, ~ContactLeases!Notified(t, Shipment[t])
          PROVE  \E u \in Trackings :
                    /\ Shipment[u] = Shipment[t] /\ contactTask[u].pc \in Acquiring
                    /\ ContactAt(u, "storing") => contactJob[u] # NoJob
      <3> DEFINE s == Shipment[t]
      <3>1. s \in Shipments /\ contactLease[s].waiting # {}
        BY <2>1, RequestsAssumption DEF ContactLeases!Notified
      <3>2. contactLease[s].holder \in Trackings \cup {Nobody}
        BY <3>1 DEF CacheInv, ContactInv, ContactTypes, ContactLease
      <3> QED BY <3>1, <3>2 DEF ContactsServed, ContactAt
    <2>2. ASSUME NEW c \in RouteTasks, ~RouteLeases!Notified(c, c[2])
          PROVE  \E d \in RouteTasks :
                    /\ d[2] = c[2] /\ routeTask[d].pc \in Acquiring
                    /\ RouteAt(d, "storing") => routeJob[d] # NoJob
      <3> DEFINE b == c[2]
      <3>1. b \in Bags /\ routeLease[b].waiting # {}
        BY <2>2, TaskOfBag DEF RouteLeases!Notified
      <3>2. routeLease[b].holder \in RouteTasks \cup {Nobody}
        BY <3>1 DEF CacheInv, RouteInv, RouteTypes, RouteLease
      <3> QED BY <3>1, <3>2 DEF RoutesServed, RouteAt
    <2> QED BY <2>1, <2>2 DEF WaitersServed
  <1> QED BY <1>1, <1>2, <1>3, CachesSafe, PTL DEF Spec

-----------------------------------------------------------------------------
(* Exchanges: what was heard so far may pass and leaves attempts, an API   *)
(* is asked below its former routes only when its base names no version,   *)
(* and what an exchange came to is earned.                                 *)

TellsMissing(a, legacy) ==
    LET base == a.base
        versions == {base.root \o V1} \cup (IF base.versioned THEN {} ELSE {base.root})
        first == Normalized(base.path) \o V1
        last == Normalized(base.path) \o (IF legacy THEN <<>> ELSE V1)
    IN  ~External(a) \/ ({last, first} \cap a.served = {} => versions \cap a.served = {})

AllTransient(heard, n) == \A i \in 1 .. n : Transient(heard[i])
Earned(a, e) ==
    LET last == e.heard[Len(e.heard)] IN
    /\ AllTransient(e.heard, Len(e.heard) - 1)
    /\ Transient(last) => Len(e.heard) = MaxAttempts
    /\ e.answer = "found" => last \in 200 .. 299
    /\ e.answer \in {"rate_limited", "unavailable"} => Transient(last)
    /\ e.answer = "not_found" =>
          \/ last = 404 /\ TellsMissing(a, e.legacy)
          \/ last \in 200 .. 299 /\ "page" \in DOMAIN e.body /\ e.body.page.nothing

ExchangeFields == {"pc", "legacy", "flights", "heard", "answer", "body"}
ExchangeGood(a, e) ==
    /\ DOMAIN e = ExchangeFields /\ e.heard \in Seq(0 .. 999)
    /\ e.legacy => External(a) /\ ~PrefersV1(a.base.path)
    /\ e.pc = "idle" => e.heard = <<>>
    /\ e.pc \in {"send", "flight"} =>
          /\ Len(e.heard) < MaxAttempts /\ AllTransient(e.heard, Len(e.heard))
          /\ ~Refused(a)
    /\ e.pc = "done" /\ e.heard # <<>> => Earned(a, e)

ExchangeInv ==
    /\ exchange = [x \in DOMAIN exchange |-> exchange[x]]
    /\ \A x \in DOMAIN exchange : x \in DOMAIN Asked /\ ExchangeGood(Asked[x], exchange[x])

\* A sequence begins what it is continued to.
LEMMA Beginning ==
    ASSUME NEW S, NEW s \in Seq(S), NEW more \in Seq(S)
    PROVE  SubSeq(s \o more, 1, Len(s)) = s
  <1>1. /\ s \o more \in Seq(S) /\ Len(s \o more) = Len(s) + Len(more)
        /\ Len(s) \in Nat /\ Len(more) \in Nat
        /\ \A i \in 1 .. Len(s) : (s \o more)[i] = s[i]
    BY ConcatProperties, LenProperties
  <1>2. CASE Len(s) = 0
    <2>1. s = <<>> /\ SubSeq(s \o more, 1, Len(s)) = <<>>
      BY <1>2, EmptySeq, LenProperties
    <2> QED BY <2>1
  <1>3. CASE Len(s) > 0
    <2>1. SubSeq(s \o more, 1, Len(s)) = SubSeq(s, 1, Len(s))
      BY <1>1, <1>3, SubSeqOfConcat1
    <2> QED BY <2>1, SubSeqFull
  <1> QED BY <1>1, <1>2, <1>3

Segments == STRING \cup {"v1", "openapi.json"}
LEMMA Endings == V1 \in Seq(Segments) /\ Openapi \in Seq(Segments)
  BY DEF V1, Openapi, Segments

\* A base leads to its root, whatever it names beyond it.
LEMMA NormalizedRoot ==
    ASSUME NEW base, BaseNamed(base)
    PROVE  /\ Normalized(base.path) = base.root
           /\ base.versioned = PrefersV1(base.path)
  <1> DEFINE root == base.root
             path == base.path
             n == Len(path)
  <1>1. /\ root \in Seq(Segments) /\ path \in {root, root \o V1, root \o Openapi}
        /\ Len(root) > 0 => root[Len(root)] \notin {"v1", "openapi.json"}
        /\ base.versioned = PrefersV1(path)
    BY SeqMonotonic DEF BaseNamed, PrefersV1, Segments
  <1> HIDE DEF root, path
  <1>2. CASE path = root
    <2>1. n \in Nat /\ (n >= 1 => path[n] \notin {"v1", "openapi.json"})
      BY <1>1, <1>2
    <2>2. Normalized(path) = path
      BY <2>1 DEF Normalized
    <2> QED BY <1>1, <1>2, <2>2 DEF root, path
  <1>3. CASE path = root \o V1
    <2>1. n = Len(root) + 1 /\ path[n] = "v1" /\ n - 1 = Len(root) /\ n >= 1
      BY <1>1, <1>3 DEF V1
    <2>2. SubSeq(path, 1, Len(root)) = root
      BY <1>1, <1>3, Endings, Beginning
    <2>3. Normalized(path) = SubSeq(path, 1, n - 1)
      BY <2>1 DEF Normalized
    <2> QED BY <1>1, <2>1, <2>2, <2>3 DEF root, path
  <1>4. CASE path = root \o Openapi
    <2>1. /\ n = Len(root) + 2 /\ path[n - 1] = "v1" /\ path[n] = "openapi.json"
          /\ n - 2 = Len(root) /\ n >= 2
      BY <1>1, <1>4 DEF Openapi
    <2>2. SubSeq(path, 1, Len(root)) = root
      BY <1>1, <1>4, Endings, Beginning
    <2>3. Normalized(path) = SubSeq(path, 1, n - 2)
      BY <2>1 DEF Normalized
    <2> QED BY <1>1, <2>1, <2>2, <2>3 DEF root, path
  <1> QED BY <1>1, <1>2, <1>3, <1>4

\* A 404 with no other route to try tells the truth.
LEMMA LastRouteTells ==
    ASSUME NEW a, BaseNamed(a.base), NEW legacy,
           ~External(a) \/ legacy \/ PrefersV1(a.base.path)
    PROVE  TellsMissing(a, legacy)
  <1> DEFINE root == a.base.root
  <1>1. Normalized(a.base.path) = root /\ a.base.versioned = PrefersV1(a.base.path)
    BY NormalizedRoot
  <1>2. root \o <<>> = root
    BY ConcatEmptySeq DEF BaseNamed
  <1> QED BY <1>1, <1>2 DEF TellsMissing

LEMMA MovedExchange ==
    ASSUME ExchangeInv, NEW x, NEW e,
           x \in DOMAIN exchange => ExchangeGood(Asked[x], e),
           exchange' = [exchange EXCEPT ![x] = e]
    PROVE  ExchangeInv'
  BY DEF ExchangeInv

LEMMA ExchangeAt ==
    ASSUME ExchangeInv, NEW x \in DOMAIN exchange
    PROVE  /\ x \in DOMAIN Asked /\ ExchangeGood(Asked[x], exchange[x])
           /\ BaseNamed(Asked[x].base) /\ Asked[x].statuses \subseteq 0 .. 999
           /\ DOMAIN exchange[x] = ExchangeFields
           /\ exchange[x].heard \in Seq(0 .. 999)
  <1>1. x \in DOMAIN Asked /\ ExchangeGood(Asked[x], exchange[x])
    BY DEF ExchangeInv
  <1>2. BaseNamed(Asked[x].base) /\ Asked[x].statuses \subseteq 0 .. 999
    BY <1>1, AskedAssumption
  <1> QED BY <1>1, <1>2 DEF ExchangeGood

\* What is told missing is missing, as the exchange stands.
LEMMA ToldIsTelling ==
    ASSUME NEW x
    PROVE  Told404(x, Asked[x]) <=> TellsMissing(Asked[x], exchange[x].legacy)
  BY DEF Told404, TellsMissing, Route, V1

\* One more status is heard.
HeardOneMore(heard, status, more) ==
    /\ more \in Seq(0 .. 999) /\ Len(more) = Len(heard) + 1 /\ more # <<>>
    /\ Len(more) - 1 = Len(heard) /\ more[Len(more)] = status
    /\ AllTransient(more, Len(heard))
LEMMA HeardMore ==
    ASSUME NEW heard \in Seq(0 .. 999), NEW status \in 0 .. 999, AllTransient(heard, Len(heard))
    PROVE  HeardOneMore(heard, status, Append(heard, status))
  <1> DEFINE more == Append(heard, status)
  <1>1. Len(heard) \in Nat
    OBVIOUS
  <1>2. /\ more \in Seq(0 .. 999) /\ more # <<>> /\ Len(more) = Len(heard) + 1
        /\ \A i \in 1 .. Len(heard) : more[i] = heard[i]
        /\ more[Len(heard) + 1] = status
    <2> DEFINE S == 0 .. 999
    <2>1. heard \in Seq(S) /\ status \in S
      OBVIOUS
    <2> HIDE DEF S
    <2>2. /\ more \in Seq(S) /\ more # <<>> /\ Len(more) = Len(heard) + 1
          /\ \A i \in 1 .. Len(heard) : more[i] = heard[i]
          /\ more[Len(heard) + 1] = status
      BY <2>1, AppendProperties
    <2> QED BY <2>2 DEF S
  <1>3. HeardOneMore(heard, status, more)
    <2> HIDE DEF more
    <2> QED BY <1>1, <1>2 DEF AllTransient, HeardOneMore
  <1> QED BY <1>3

LEMMA TransientIsRetryable == \A status : Transient(status) <=> Retryable(status)
  BY DEF Transient, Retryable

LEMMA AskSafe ==
    ASSUME ExchangeInv, NEW x \in DOMAIN exchange, Ask(x, Asked[x])
    PROVE  ExchangeInv'
  <1>1. /\ ExchangeGood(Asked[x], exchange[x]) /\ exchange[x].heard = <<>>
        /\ DOMAIN exchange[x] = ExchangeFields
    BY ExchangeAt DEF Ask, At, ExchangeGood
  <1>2. CASE Refused(Asked[x])
    <2> DEFINE e == [exchange[x] EXCEPT !.pc = "done", !.flights = 0,
                                        !.answer = "bad_request", !.body = NoBody]
    <2>1. exchange' = [exchange EXCEPT ![x] = e]
      BY <1>2 DEF Ask, Answered
    <2>2. /\ DOMAIN e = ExchangeFields /\ e.pc = "done" /\ e.heard = exchange[x].heard
          /\ e.legacy = exchange[x].legacy
      BY <1>1 DEF ExchangeFields
    <2> HIDE DEF e
    <2>3. ExchangeGood(Asked[x], e)
      BY <1>1, <2>2 DEF ExchangeGood
    <2> QED BY <2>1, <2>3, MovedExchange
  <1>3. CASE ~Refused(Asked[x])
    <2> DEFINE e == [exchange[x] EXCEPT !.pc = "send"]
    <2>1. exchange' = [exchange EXCEPT ![x] = e]
      BY <1>3 DEF Ask
    <2>2. /\ DOMAIN e = ExchangeFields /\ e.pc = "send" /\ e.heard = exchange[x].heard
          /\ e.legacy = exchange[x].legacy
      BY <1>1 DEF ExchangeFields
    <2> HIDE DEF e
    <2>3. Len(<<>>) < MaxAttempts /\ AllTransient(<<>>, Len(<<>>))
      BY AskedAssumption DEF AllTransient
    <2>4. ExchangeGood(Asked[x], e)
      BY <1>1, <1>3, <2>2, <2>3 DEF ExchangeGood
    <2> QED BY <2>1, <2>4, MovedExchange
  <1> QED BY <1>2, <1>3

LEMMA SendSafe ==
    ASSUME ExchangeInv, NEW x \in DOMAIN exchange, Send(x) \/ Hedge(x, Asked[x])
    PROVE  ExchangeInv'
  <1>1. /\ ExchangeGood(Asked[x], exchange[x]) /\ DOMAIN exchange[x] = ExchangeFields
        /\ exchange[x].pc \in {"send", "flight"}
    BY ExchangeAt DEF Send, Hedge, At
  <1> DEFINE e == [exchange[x] EXCEPT !.pc = "flight", !.flights = 1]
             f == [exchange[x] EXCEPT !.flights = 2]
  <1>2. \/ exchange' = [exchange EXCEPT ![x] = e]
        \/ exchange' = [exchange EXCEPT ![x] = f]
    BY <1>1 DEF Send, Hedge, ExchangeInv
  <1>3. /\ DOMAIN e = ExchangeFields /\ e.pc = "flight" /\ e.heard = exchange[x].heard
        /\ e.legacy = exchange[x].legacy
    BY <1>1 DEF ExchangeFields
  <1>4. /\ DOMAIN f = ExchangeFields /\ f.pc = exchange[x].pc /\ f.heard = exchange[x].heard
        /\ f.legacy = exchange[x].legacy
    BY <1>1 DEF ExchangeFields
  <1> HIDE DEF e, f
  <1>5. ExchangeGood(Asked[x], e) /\ ExchangeGood(Asked[x], f)
    BY <1>1, <1>3, <1>4 DEF ExchangeGood
  <1> QED BY <1>2, <1>5, MovedExchange

\* A request may say a status of three figures, or fail.
LEMMA SaidStatuses ==
    ASSUME ExchangeInv, NEW x \in DOMAIN exchange
    PROVE  MaySay(x, Asked[x]) \subseteq 0 .. 999
  <1>1. Asked[x].statuses \subseteq 0 .. 999
    BY AskedAssumption DEF ExchangeInv
  <1> QED BY <1>1 DEF MaySay

LEMMA FlightAt ==
    ASSUME ExchangeInv, NEW x \in DOMAIN exchange, At(x, "flight")
    PROVE  /\ ExchangeGood(Asked[x], exchange[x]) /\ DOMAIN exchange[x] = ExchangeFields
           /\ exchange[x].heard \in Seq(0 .. 999) /\ Len(exchange[x].heard) \in Nat
           /\ AllTransient(exchange[x].heard, Len(exchange[x].heard))
           /\ ~Refused(Asked[x])
  <1>1. /\ ExchangeGood(Asked[x], exchange[x]) /\ DOMAIN exchange[x] = ExchangeFields
        /\ exchange[x].heard \in Seq(0 .. 999) /\ exchange[x].pc = "flight"
    BY ExchangeAt DEF At
  <1>2. Len(exchange[x].heard) \in Nat
    BY <1>1, LenProperties
  <1> QED BY <1>1, <1>2 DEF ExchangeGood

\* What an exchange comes to when one more status has been heard.
EndedWithMore(x, answer, body, status) ==
    [Answered(x, answer, body) EXCEPT !.heard = Append(@, status)]
LEMMA EndedMore ==
    ASSUME NEW x, DOMAIN exchange[x] = ExchangeFields, NEW answer, NEW body, NEW status
    PROVE  LET e == EndedWithMore(x, answer, body, status) IN
           /\ DOMAIN e = ExchangeFields /\ e.pc = "done" /\ e.legacy = exchange[x].legacy
           /\ e.answer = answer /\ e.body = body /\ e.heard = Append(exchange[x].heard, status)
  <1> DEFINE ended == [exchange[x] EXCEPT !.pc = "done", !.flights = 0, !.answer = answer,
                                          !.body = body]
             more == Append(ended.heard, status)
             e == [ended EXCEPT !.heard = more]
  <1>1. /\ DOMAIN ended = ExchangeFields /\ ended.pc = "done" /\ ended.legacy = exchange[x].legacy
        /\ ended.answer = answer /\ ended.body = body /\ ended.heard = exchange[x].heard
    BY DEF ExchangeFields
  <1>2. EndedWithMore(x, answer, body, status) = e
    BY DEF EndedWithMore, Answered
  <1> HIDE DEF ended
  <1>3. more = Append(exchange[x].heard, status)
    BY <1>1
  <1> HIDE DEF more
  <1>4. /\ DOMAIN e = ExchangeFields /\ e.pc = ended.pc /\ e.legacy = ended.legacy
        /\ e.answer = ended.answer /\ e.body = ended.body /\ e.heard = more
    BY <1>1 DEF ExchangeFields
  <1> QED BY <1>1, <1>2, <1>3, <1>4

LEMMA AgainSafe ==
    ASSUME ExchangeInv, NEW x \in DOMAIN exchange, At(x, "flight"),
           NEW status \in 0 .. 999, Again(x, status)
    PROVE  ExchangeInv'
  <1> DEFINE heard == exchange[x].heard
             more == Append(heard, status)
             e == [exchange[x] EXCEPT !.pc = "send", !.flights = 0, !.heard = more]
  <1>1. /\ ExchangeGood(Asked[x], exchange[x]) /\ DOMAIN exchange[x] = ExchangeFields
        /\ heard \in Seq(0 .. 999) /\ AllTransient(heard, Len(heard)) /\ Len(heard) \in Nat
        /\ ~Refused(Asked[x])
    BY FlightAt
  <1>2. Transient(status) /\ Len(heard) + 1 < MaxAttempts
    BY TransientIsRetryable DEF Again, Attempts
  <1>3. /\ more \in Seq(0 .. 999) /\ Len(more) = Len(heard) + 1 /\ more[Len(more)] = status
        /\ AllTransient(more, Len(heard))
    <2>1. HeardOneMore(heard, status, more)
      BY <1>1, HeardMore, Zenon
    <2> HIDE DEF heard, more
    <2> QED BY <2>1 DEF HeardOneMore
  <1>4. exchange' = [exchange EXCEPT ![x] = e]
    BY <1>1 DEF Again
  <1> HIDE DEF heard, more
  <1>5. /\ DOMAIN e = ExchangeFields /\ e.pc = "send" /\ e.heard = more
        /\ e.legacy = exchange[x].legacy
    BY <1>1 DEF ExchangeFields
  <1> HIDE DEF e
  <1>6. AllTransient(more, Len(more))
    BY <1>1, <1>2, <1>3 DEF AllTransient
  <1>7. ExchangeGood(Asked[x], e)
    BY <1>1, <1>2, <1>3, <1>5, <1>6 DEF ExchangeGood
  <1> QED BY <1>4, <1>7, MovedExchange

LEMMA FallBackSafe ==
    ASSUME ExchangeInv, NEW x \in DOMAIN exchange, At(x, "flight"),
           NEW status, FallBack(x, Asked[x], status)
    PROVE  ExchangeInv'
  <1> DEFINE e == [exchange[x] EXCEPT !.pc = "send", !.flights = 0, !.legacy = TRUE, !.heard = <<>>]
  <1>1. /\ DOMAIN exchange[x] = ExchangeFields
        /\ External(Asked[x]) /\ ~PrefersV1(Asked[x].base.path) /\ ~Refused(Asked[x])
    BY ExchangeAt, FlightAt DEF FallBack, HasLegacy
  <1>2. exchange' = [exchange EXCEPT ![x] = e]
    BY <1>1 DEF FallBack
  <1>3. DOMAIN e = ExchangeFields /\ e.pc = "send" /\ e.heard = <<>>
    BY <1>1 DEF ExchangeFields
  <1> HIDE DEF e
  <1>4. Len(<<>>) < MaxAttempts /\ AllTransient(<<>>, Len(<<>>)) /\ <<>> \in Seq(0 .. 999)
    BY AskedAssumption DEF AllTransient
  <1>5. ExchangeGood(Asked[x], e)
    BY <1>1, <1>3, <1>4 DEF ExchangeGood
  <1> QED BY <1>2, <1>5, MovedExchange

LEMMA FailSafe ==
    ASSUME ExchangeInv, NEW x \in DOMAIN exchange, At(x, "flight"),
           NEW status \in 0 .. 999, Fail(x, Asked[x], status)
    PROVE  ExchangeInv'
  <1> DEFINE a == Asked[x]
             heard == exchange[x].heard
             more == Append(heard, status)
             answer == StatusError(a, status)
             e == EndedWithMore(x, answer, NoBody, status)
  <1>1. /\ ExchangeGood(a, exchange[x]) /\ DOMAIN exchange[x] = ExchangeFields
        /\ heard \in Seq(0 .. 999) /\ AllTransient(heard, Len(heard)) /\ Len(heard) \in Nat
        /\ BaseNamed(a.base)
    BY FlightAt, ExchangeAt
  <1>2. /\ more \in Seq(0 .. 999) /\ Len(more) = Len(heard) + 1 /\ more # <<>>
        /\ Len(more) - 1 = Len(heard) /\ more[Len(more)] = status /\ AllTransient(more, Len(heard))
    <2>1. HeardOneMore(heard, status, more)
      BY <1>1, HeardMore, Zenon
    <2> HIDE DEF heard, more
    <2> QED BY <2>1 DEF HeardOneMore
  <1>3. exchange' = [exchange EXCEPT ![x] = e]
    BY DEF Fail, EndedWithMore
  <1>4. /\ status \notin 200 .. 299
        /\ Transient(status) => Len(more) = MaxAttempts
        /\ status = 404 => ~External(a) \/ exchange[x].legacy \/ PrefersV1(a.base.path)
    <2>1. /\ Ends(x, status) /\ ~Successful(status) /\ ~(status = 404 /\ HasLegacy(x, a))
      BY Zenon DEF Fail
    <2>2. Attempts(x) = Len(heard) + 1
      BY DEF Attempts
    <2> HIDE DEF heard, more
    <2> QED BY <1>2, <2>1, <2>2, TransientIsRetryable DEF Ends, Successful, HasLegacy
  <1>5. /\ answer # "found"
        /\ answer \in {"rate_limited", "unavailable"} => Transient(status)
        /\ answer = "not_found" => status = 404
    BY DEF StatusError, Transient
  <1> HIDE DEF heard, more, answer
  <1>6. /\ DOMAIN e = ExchangeFields /\ e.pc = "done" /\ e.heard = more /\ e.answer = answer
        /\ e.legacy = exchange[x].legacy
    BY <1>1, EndedMore DEF more, heard
  <1> HIDE DEF e
  <1>7. status = 404 => TellsMissing(a, exchange[x].legacy)
    BY <1>1, <1>4, LastRouteTells
  <1>8. Earned(a, e)
    <2>1. /\ e.heard[Len(e.heard)] = status /\ AllTransient(e.heard, Len(e.heard) - 1)
          /\ Transient(status) => Len(e.heard) = MaxAttempts
      <3>1. e.heard = more
        BY <1>6, Zenon
      <3>2. /\ more[Len(more)] = status /\ AllTransient(more, Len(more) - 1)
            /\ Transient(status) => Len(more) = MaxAttempts
        BY <1>2, <1>4
      <3> QED BY <3>1, <3>2, Zenon
    <2>2. /\ e.answer # "found"
          /\ e.answer \in {"rate_limited", "unavailable"} => Transient(status)
          /\ e.answer = "not_found" => status = 404 /\ TellsMissing(a, e.legacy)
      BY <1>5, <1>6, <1>7, Zenon
    <2> HIDE DEF a
    <2> QED BY <2>1, <2>2, Zenon DEF Earned
  <1>9. ExchangeGood(a, e)
    BY <1>1, <1>2, <1>6, <1>8 DEF ExchangeGood
  <1> QED BY <1>3, <1>9, MovedExchange

\* Only a page of a tracking says that there is nothing.
LEMMA ReadMissing ==
    ASSUME NEW x \in DOMAIN Asked, NEW body \in Asked[x].bodies, ~Refused(Asked[x])
    PROVE  /\ Read(Asked[x], body) \notin {"rate_limited", "unavailable"}
           /\ Read(Asked[x], body) = "not_found" => "page" \in DOMAIN body /\ body.page.nothing
  <1> DEFINE a == Asked[x]
  <1>1. /\ a.kind \in {"track", "bag", "manifest", "status", "html"}
        /\ a.kind = "track" /\ ~External(a) /\ body.text => "page" \in DOMAIN body
        /\ ~External(a) => a.kind # "status"
    BY AskedAssumption DEF External, Refused, OtherSource
  <1>2. \A items : ListOutcome(items) \in {"found", "upstream"}
    BY DEF ListOutcome
  <1>3. \A c : FoundIf(c) \in {"found", "upstream"}
    BY DEF FoundIf
  <1>4. /\ BagRead(body) \in {"found", "upstream"} /\ ManifestRead(body) \in {"found", "upstream"}
        /\ StatusRead(body) \in {"found", "upstream"} /\ ApiRead(a.kind, body) \in {"found", "upstream"}
    BY <1>2, <1>3 DEF BagRead, ManifestRead, StatusRead, ApiRead
  <1>5. /\ TrackRead(body) \in {"found", "upstream", "not_found"}
        /\ TrackRead(body) = "not_found" => body.page.nothing
    BY DEF TrackRead, PageOutcome
  <1>6. \/ Read(a, body) \in {"found", "upstream"}
        \/ body.text /\ ~External(a) /\ a.kind = "track" /\ Read(a, body) = TrackRead(body)
    <2>1. CASE ~body.text
      BY <2>1 DEF Read, Text
    <2>2. CASE body.text /\ External(a)
      BY <1>1, <1>4, <2>2 DEF Read, Text
    <2>3. CASE body.text /\ ~External(a)
      BY <1>1, <1>4, <2>3 DEF Read, Text
    <2> QED BY <2>1, <2>2, <2>3
  <1> QED BY <1>1, <1>5, <1>6

LEMMA ReceiveSafe ==
    ASSUME ExchangeInv, NEW x \in DOMAIN exchange, At(x, "flight"),
           NEW status \in 0 .. 999, Receive(x, Asked[x], status)
    PROVE  ExchangeInv'
  <1> DEFINE a == Asked[x]
             heard == exchange[x].heard
             more == Append(heard, status)
  <1>1. PICK body \in a.bodies :
           exchange' = [exchange EXCEPT ![x] = EndedWithMore(x, Read(a, body), body, status)]
    BY Zenon DEF Receive, EndedWithMore
  <1> DEFINE answer == Read(a, body)
             e == EndedWithMore(x, answer, body, status)
  <1>2. /\ ExchangeGood(a, exchange[x]) /\ DOMAIN exchange[x] = ExchangeFields
        /\ heard \in Seq(0 .. 999) /\ AllTransient(heard, Len(heard)) /\ Len(heard) \in Nat
        /\ ~Refused(a) /\ x \in DOMAIN Asked
    BY FlightAt, ExchangeAt
  <1>3. /\ more \in Seq(0 .. 999) /\ Len(more) = Len(heard) + 1 /\ more # <<>>
        /\ Len(more) - 1 = Len(heard) /\ more[Len(more)] = status /\ AllTransient(more, Len(heard))
    <2>1. HeardOneMore(heard, status, more)
      BY <1>2, HeardMore, Zenon
    <2> HIDE DEF heard, more
    <2> QED BY <2>1 DEF HeardOneMore
  <1>4. status \in 200 .. 299 /\ ~Transient(status)
    <2>1. status \in 200 .. 299
      BY Zenon DEF Receive, Successful
    <2> QED BY <2>1 DEF Transient
  <1>5. /\ answer \notin {"rate_limited", "unavailable"}
        /\ answer = "not_found" => "page" \in DOMAIN body /\ body.page.nothing
    BY <1>2, ReadMissing
  <1>6. /\ DOMAIN e = ExchangeFields /\ e.pc = "done" /\ e.legacy = exchange[x].legacy
        /\ e.answer = answer /\ e.body = body /\ e.heard = more
    BY <1>2, EndedMore
  <1>7. exchange' = [exchange EXCEPT ![x] = e]
    BY <1>1
  <1> HIDE DEF e, answer, more, heard
  <1>8. Earned(a, e)
    <2>1. e.heard[Len(e.heard)] = status /\ AllTransient(e.heard, Len(e.heard) - 1)
      BY <1>3, <1>6
    <2>2. e.answer = "not_found" => "page" \in DOMAIN e.body /\ e.body.page.nothing
      BY <1>5, <1>6
    <2> QED BY <1>4, <1>5, <1>6, <2>1, <2>2 DEF Earned
  <1>9. ExchangeGood(a, e)
    BY <1>2, <1>3, <1>6, <1>8 DEF ExchangeGood
  <1> QED BY <1>7, <1>9, MovedExchange

LEMMA UpstreamSafe ==
    ASSUME ExchangeInv, NEW x \in DOMAIN exchange, UpstreamStep(x, Asked[x])
    PROVE  ExchangeInv'
  <1>1. CASE Respond(x, Asked[x])
    <2>1. PICK status \in MaySay(x, Asked[x]) :
            \/ Again(x, status) \/ FallBack(x, Asked[x], status)
            \/ Fail(x, Asked[x], status) \/ Receive(x, Asked[x], status)
      BY <1>1, Zenon DEF Respond
    <2>2. At(x, "flight")
      BY <1>1, Zenon DEF Respond
    <2>3. status \in 0 .. 999
      BY SaidStatuses, Zenon
    <2>4. CASE Again(x, status)
      BY <2>2, <2>3, <2>4, AgainSafe, Zenon
    <2>5. CASE FallBack(x, Asked[x], status)
      BY <2>2, <2>5, FallBackSafe, Zenon
    <2>6. CASE Fail(x, Asked[x], status)
      BY <2>2, <2>3, <2>6, FailSafe, Zenon
    <2>7. CASE Receive(x, Asked[x], status)
      BY <2>2, <2>3, <2>7, ReceiveSafe, Zenon
    <2> QED BY <2>1, <2>4, <2>5, <2>6, <2>7
  <1>2. CASE ~Respond(x, Asked[x])
    BY <1>2, AskSafe, SendSafe, Zenon DEF UpstreamStep
  <1> QED BY <1>1, <1>2

\* A request that is dropped, or cut off, has nothing to answer for.
GoneExchange == [Idle EXCEPT !.pc = "gone"]
LEMMA ExchangeGone == \A a : ExchangeGood(a, GoneExchange)
  <1>1. /\ DOMAIN GoneExchange = ExchangeFields /\ GoneExchange.pc = "gone"
        /\ GoneExchange.legacy = FALSE /\ GoneExchange.heard = <<>>
    BY DEF GoneExchange, Idle, ExchangeFields
  <1> QED BY <1>1 DEF ExchangeGood

LEMMA DroppedSafe ==
    ASSUME ExchangeInv, NEW x, exchange' = Dropped(x)
    PROVE  ExchangeInv'
  <1>1. exchange' = [exchange EXCEPT ![x] = GoneExchange]
    BY DEF Dropped, GoneExchange
  <1> QED BY <1>1, ExchangeGone, MovedExchange

LEMMA CutShortSafe ==
    ASSUME ExchangeInv, exchange' = CutShort
    PROVE  ExchangeInv'
  <1>1. exchange' = [x \in DOMAIN exchange |-> IF Ongoing(x) THEN GoneExchange ELSE exchange[x]]
    BY DEF CutShort, GoneExchange
  <1> QED BY <1>1, ExchangeGone DEF ExchangeInv

LEMMA ExchangeNextSafe ==
    ASSUME ExchangeInv, [Next]_vars
    PROVE  ExchangeInv'
  <1>1. CASE UNCHANGED exchange
    BY <1>1 DEF ExchangeInv
  <1>2. CASE \E x \in Coming : ExchangeNext(x)
    BY <1>2, UpstreamSafe DEF ExchangeNext, Coming
  <1>3. CASE \E x \in Coming : HangUp(x)
    BY <1>3, DroppedSafe DEF HangUp
  <1>4. CASE \E m \in ManifestLookups : exchange' = IF Ongoing(m) THEN Dropped(m) ELSE exchange
    <2>1. PICK m \in ManifestLookups : exchange' = IF Ongoing(m) THEN Dropped(m) ELSE exchange
      BY <1>4
    <2> QED BY <1>1, <2>1, DroppedSafe
  <1>5. CASE Restart
    BY <1>5, CutShortSafe DEF Restart
  <1> QED BY <1>1, <1>2, <1>3, <1>4, <1>5
          DEF Next, ContactNext, RouteNext, ManifestNext, Drops, Ages, vars

LEMMA ExchangeInitSafe ==
    ASSUME Init
    PROVE  ExchangeInv
  <1>1. PICK w \in Scenarios :
           exchange = [x \in w.requests \cup w.asks |->
                          IF x \in w.asks THEN Idle ELSE Cached(Asked[x])]
    BY DEF Init
  <1>2. w.requests \cup w.asks \subseteq DOMAIN Asked
    BY ScenarioAssumption
  <1>3. \A a : ExchangeGood(a, Idle)
    <2>1. /\ DOMAIN Idle = ExchangeFields /\ Idle.pc = "idle"
          /\ Idle.legacy = FALSE /\ Idle.heard = <<>>
      BY DEF Idle, ExchangeFields
    <2> QED BY <2>1 DEF ExchangeGood
  <1>4. ASSUME NEW a
        PROVE  ExchangeGood(a, Cached(a))
    <2> DEFINE body == CHOOSE b \in a.bodies : Read(a, b) = "found"
               e == [Idle EXCEPT !.pc = "done", !.answer = "found", !.body = body]
    <2>1. Cached(a) = e
      BY DEF Cached
    <2> HIDE DEF body
    <2>2. /\ DOMAIN e = ExchangeFields /\ e.pc = "done" /\ e.legacy = FALSE /\ e.heard = <<>>
      BY DEF Idle, ExchangeFields
    <2> HIDE DEF e
    <2> QED BY <2>1, <2>2 DEF ExchangeGood
  <1> QED BY <1>1, <1>2, <1>3, <1>4 DEF ExchangeInv

(* Nothing that may pass is told before the last attempt, nothing is told  *)
(* found without a page, nor missing by an API that was asked the wrong    *)
(* route (upstream.rs, fetch_lookup_response,                              *)
(* fetch_external_api_response and the fallback to the former routes).     *)
THEOREM AnswersEarned == Spec => []AnswerEarned
  <1>1. Init => ExchangeInv
    BY ExchangeInitSafe
  <1>2. ExchangeInv /\ [Next]_vars => ExchangeInv'
    BY ExchangeNextSafe
  <1>3. ExchangeInv => AnswerEarned
    <2> SUFFICES ASSUME ExchangeInv, NEW x \in DOMAIN exchange, At(x, "done"),
                        exchange[x].heard # <<>>
                 PROVE  LET heard  == exchange[x].heard
                            last   == heard[Len(heard)]
                            answer == exchange[x].answer
                        IN  /\ \A i \in 1 .. Len(heard) - 1 : Transient(heard[i])
                            /\ Transient(last) => Len(heard) = MaxAttempts
                            /\ answer = "found" => last \in 200 .. 299
                            /\ answer \in {"rate_limited", "unavailable"} => Transient(last)
                            /\ answer = "not_found" =>
                                  \/ last = 404 /\ Told404(x, Asked[x])
                                  \/ last \in 200 .. 299 /\ "page" \in DOMAIN exchange[x].body
                                     /\ exchange[x].body.page.nothing
      BY DEF AnswerEarned
    <2>1. Earned(Asked[x], exchange[x])
      BY DEF ExchangeInv, ExchangeGood, At
    <2> QED BY <2>1, ToldIsTelling DEF Earned, AllTransient
  <1> QED BY <1>1, <1>2, <1>3, PTL DEF Spec

-----------------------------------------------------------------------------
(* What a history amounts to, whatever its texts say.                      *)

(* `out` says what is told of each of the places, in their order.          *)
InOrder(out, places, told) ==
    /\ out \in Seq({told[i] : i \in places})
    /\ \E at \in [DOMAIN out -> places] :
          /\ {at[k] : k \in DOMAIN out} = places
          /\ \A j, k \in DOMAIN out : j < k => at[j] < at[k]
          /\ \A k \in DOMAIN out : out[k] = told[at[k]]

Irregular(e) == Has(e.detail, <<"proses", "irregularity">>)
Listed7(e) == Has(e.detail, <<"proses", "manifestr7">>)
IrregularityTold(e) == [at |-> e.at, said |-> IrregularityOf(e.detail)]
ManifestTold(e) == [at |-> e.at, said |-> ManifestOf(e.detail)]

\* A bag that an entry moves, and how.
Packs(e) == Has(e.detail, <<"proses", "bagging">>) /\ Has(e.detail, <<"nomor", "bag">>)
Unpacks(e) == Has(e.detail, <<"proses", "unbagging">>) /\ Has(e.detail, <<"dari", "bag">>)
BagNamed(e) == WordAfter(e.detail, IF Packs(e) THEN <<"nomor", "bag">> ELSE <<"dari", "bag">>)
MovesBag(e) == (Packs(e) \/ Unpacks(e)) /\ BagNamed(e) # Nothing
MoveTold(e) == [at |-> e.at, by |-> OlehDi(e.detail)]

(* A bag has one line, where it is first named, with the last move of each *)
(* kind.                                                                   *)
Moves(h, m, id) == {i \in 1..m : MovesBag(h[i]) /\ BagNamed(h[i]) = id}
FirstMoves(h, m) ==
    {i \in 1..m : MovesBag(h[i]) /\ \A j \in Moves(h, m, BagNamed(h[i])) : i <= j}
LastMove(h, moves) == IF moves = {} THEN NoEvent ELSE MoveTold(h[Max(moves)])
BagTold(h, m, id) ==
    [id |-> id,
     bagging |-> LastMove(h, {i \in Moves(h, m, id) : Packs(h[i])}),
     unbagging |-> LastMove(h, {i \in Moves(h, m, id) : ~Packs(h[i])})]
BagLines(h, m) == [i \in 1..m |-> BagTold(h, m, BagNamed(h[i]))]

(* A runsheet opens a sheet, and so does an attempt or a delivery when     *)
(* there is none yet.  A sheet carries the last thing said before the next *)
(* one.                                                                    *)
RunSheet(e) == Has(e.detail, <<"proses", "deliveryrunsheet">>)
Tried(e) == Has(e.detail, <<"proses", "antaran">>)
Tells(e) == ~RunSheet(e) /\ (Tried(e) \/ IsDelivery(e.detail))
Reports(e) == /\ ~RunSheet(e) /\ ~Tells(e)
           /\ Has(e.detail, Delivered) /\ ~Has(e.detail, FailedToDelivered)
OutcomeTold(e) ==
    UpdateOf(e, IF Tried(e) THEN AttemptOf(e.detail)
                ELSE IF IsDelivery(e.detail) THEN DeliveryOf(e.detail) ELSE BareDelivery)
Opens(h, i) ==
    \/ RunSheet(h[i])
    \/ Tells(h[i]) /\ \A j \in 1..i - 1 : ~RunSheet(h[j]) /\ ~Tells(h[j])
SheetsOpened(h, m) == {i \in 1..m : Opens(h, i)}
Below(h, m, i) ==
    {j \in i..m : (Tells(h[j]) \/ Reports(h[j])) /\ \A k \in i + 1..j : ~Opens(h, k)}
OpenedWith(e) == IF RunSheet(e) THEN SheetOf(e) ELSE AnonymousSheet
SheetTold(h, m, i) ==
    [OpenedWith(h[i]) EXCEPT !.update =
        IF Below(h, m, i) = {} THEN NoUpdate ELSE OutcomeTold(h[Max(Below(h, m, i))])]
SheetLines(h, m) == [i \in 1..m |-> SheetTold(h, m, i)]

(* A final status DELIVERED that the last sheet does not report goes there.*)
SaysDelivered(sheet) == sheet.update # NoUpdate /\ sheet.update.said.status = Delivered
FinalTold(final, pod) ==
    [at |-> final.at,
     said |-> [petugas |-> final.officer, status |-> final.status, keterangan |-> Nothing],
     koordinat |-> IF pod.coordinate = "" THEN Nothing ELSE <<pod.coordinate>>]
SheetEnded(h, i, final, pod) ==
    LET sheet == SheetTold(h, Len(h), i)
        last == \A j \in SheetsOpened(h, Len(h)) : j <= i
    IN  IF last /\ final.status = Delivered /\ ~SaysDelivered(sheet)
        THEN [sheet EXCEPT !.update = FinalTold(final, pod)] ELSE sheet

SheetsEnded(h, final, pod) == [i \in 1..Len(h) |-> SheetEnded(h, i, final, pod)]

(* What the first entries of a history amount to, but for its end.         *)
Irregularities(h, m) == [i \in 1..m |-> IrregularityTold(h[i])]
ManifestLines(h, m) == [i \in 1..m |-> ManifestTold(h[i])]
Told(sum, h, m) ==
    /\ InOrder(sum.irregularity, {i \in 1..m : Irregular(h[i])}, Irregularities(h, m))
    /\ InOrder(sum.manifests, {i \in 1..m : Listed7(h[i])}, ManifestLines(h, m))
    /\ InOrder(sum.bags, FirstMoves(h, m), BagLines(h, m))

-----------------------------------------------------------------------------
\* Lists that tell of places in their order

LEMMA Least ==
    ASSUME NEW S \in SUBSET Nat, S # {}
    PROVE  Min(S) \in S /\ \A n \in S : Min(S) <= n
<1>1. \E n \in S : \A m \in S : n <= m
  <2>1. PICK n \in S : \A m \in S : ~(<<m, n>> \in OpToRel(<, Nat))
    BY NatLessThanWellFounded, WFMin, Zenon
  <2>2. \A m \in S : ~(m < n)
    BY <2>1 DEF OpToRel
  <2> QED BY <2>2
<1> QED BY <1>1 DEF Min

LEMMA Topmost ==
    ASSUME NEW m \in Nat, NEW S \in SUBSET (1..m), m \in S
    PROVE  Max(S) = m
<1>1. \A x \in S : x \in Int /\ x <= m
  OBVIOUS
<1>2. \A x \in S : (\A y \in S : x >= y) => x = m
  BY <1>1
<1>3. \A y \in S : m >= y
  BY <1>1
<1>4. Max(S) \in S /\ \A y \in S : Max(S) >= y
  BY <1>3 DEF Max
<1> QED BY <1>2, <1>4

LEMMA StillInOrder ==
    ASSUME NEW out, NEW S, NEW told, NEW after, InOrder(out, S, told),
           \A i \in S : after[i] = told[i]
    PROVE  InOrder(out, S, after)
<1>1. {after[i] : i \in S} = {told[i] : i \in S}
  OBVIOUS
<1> QED BY <1>1 DEF InOrder

\* One place more, behind all others.
LEMMA OneMore ==
    ASSUME NEW m \in Nat, NEW S \in SUBSET (1..m), NEW out, NEW told, NEW after,
           InOrder(out, S, told), \A i \in S : after[i] = told[i]
    PROVE  InOrder(Append(out, after[m + 1]), S \cup {m + 1}, after)
<1> DEFINE all == S \cup {m + 1}
           more == Append(out, after[m + 1])
           values == {after[i] : i \in all}
<1>1. out \in Seq(values)
  <2>1. {told[i] : i \in S} \subseteq values
    OBVIOUS
  <2>2. out \in Seq({told[i] : i \in S})
    BY DEF InOrder
  <2> DEFINE old == {told[i] : i \in S}
  <2> HIDE DEF values, old
  <2>3. \A U, V, s : U \subseteq V /\ s \in Seq(U) => s \in Seq(V)
    OBVIOUS
  <2> QED BY <2>1, <2>2, <2>3 DEF old
<1>2. PICK at \in [DOMAIN out -> S] :
          /\ {at[k] : k \in DOMAIN out} = S
          /\ \A j, k \in DOMAIN out : j < k => at[j] < at[k]
          /\ \A k \in DOMAIN out : out[k] = told[at[k]]
  BY DEF InOrder
<1> DEFINE n == Len(out)
           place == [k \in 1..n + 1 |-> IF k = n + 1 THEN m + 1 ELSE at[k]]
<1>3. n \in Nat /\ DOMAIN out = 1..n /\ after[m + 1] \in values
  BY <1>1
<1>4. /\ more \in Seq(values) /\ DOMAIN more = 1..n + 1 /\ more[n + 1] = after[m + 1]
      /\ \A k \in 1..n : more[k] = out[k]
  <2> HIDE DEF values
  <2> QED BY <1>1, <1>3
<1> HIDE DEF more, values, n
<1>5. \A k \in 1..n : k # n + 1 /\ k \in 1..n + 1 /\ at[k] \in S /\ at[k] \in 1..m
  <2>1. \A k \in 1..n : at[k] \in S
    BY <1>2, <1>3
  <2>2. \A k \in 1..n : k # n + 1 /\ k \in 1..n + 1
    BY <1>3
  <2> QED BY <2>1, <2>2
<1>6. place[n + 1] = m + 1 /\ \A k \in 1..n : place[k] = at[k]
  BY <1>3, <1>5
<1>7. place \in [1..n + 1 -> all]
  <2>1. \A k \in 1..n + 1 : k = n + 1 \/ k \in 1..n
    BY <1>3
  <2>2. \A k \in 1..n + 1 : (IF k = n + 1 THEN m + 1 ELSE at[k]) \in all
    BY <1>5, <2>1
  <2> QED BY <2>2
<1> HIDE DEF place
<1>8. {place[k] : k \in 1..n + 1} = all
  <2>1. \A i \in S : \E k \in 1..n : at[k] = i
    BY <1>2, <1>3
  <2>2. \A i \in S : \E k \in 1..n + 1 : place[k] = i
    BY <1>5, <1>6, <2>1
  <2>3. n + 1 \in 1..n + 1
    BY <1>3
  <2>4. \A k \in 1..n + 1 : place[k] \in all
    BY <1>7
  <2> QED BY <1>6, <2>2, <2>3, <2>4
<1>9. ASSUME NEW j \in 1..n + 1, NEW k \in 1..n + 1, j < k PROVE place[j] < place[k]
  <2>1. j \in 1..n
    BY <1>3, <1>9
  <2>2. CASE k = n + 1
    BY <1>5, <1>6, <2>1, <2>2
  <2>3. CASE k # n + 1
    <3>1. k \in 1..n
      BY <1>3, <2>3
    <3> QED BY <1>2, <1>3, <1>6, <1>9, <2>1, <3>1
  <2> QED BY <2>2, <2>3
<1>10. ASSUME NEW k \in 1..n + 1 PROVE more[k] = after[place[k]]
  <2>1. CASE k = n + 1
    BY <1>4, <1>6, <2>1
  <2>2. CASE k # n + 1
    <3>1. k \in 1..n
      BY <1>3, <2>2
    <3>2. more[k] = told[at[k]] /\ at[k] \in S /\ place[k] = at[k]
      BY <1>2, <1>3, <1>4, <1>5, <1>6, <3>1
    <3> QED BY <3>2
  <2> QED BY <2>1, <2>2
<1>11. more \in Seq({after[i] : i \in all})
  BY <1>4 DEF values
<1> HIDE DEF all
<1>12. InOrder(more, all, after)
  BY <1>4, <1>7, <1>8, <1>9, <1>10, <1>11 DEF InOrder
<1> QED BY <1>12 DEF more, all

(* Each place has its line, and the last place the last line.              *)
IsLineOf(k, out, S, told, x) ==
    /\ out[k] = told[x]
    /\ \A j \in DOMAIN out \ {k} : \E i \in S \ {x} : out[j] = told[i]
    /\ (\A i \in S : i <= x) => k = Len(out)
    /\ \A after : (\A i \in S \ {x} : after[i] = told[i]) =>
           InOrder([out EXCEPT ![k] = after[x]], S, after)
LEMMA LineOf ==
    ASSUME NEW m \in Nat, NEW S \in SUBSET (1..m), NEW out, NEW told,
           InOrder(out, S, told), NEW x \in S
    PROVE  \E k \in DOMAIN out : IsLineOf(k, out, S, told, x)
<1>1. /\ out \in Seq({told[i] : i \in S}) /\ DOMAIN out = 1..Len(out) /\ Len(out) \in Nat
  BY DEF InOrder
<1>2. PICK at \in [DOMAIN out -> S] :
          /\ {at[k] : k \in DOMAIN out} = S
          /\ \A j, k \in DOMAIN out : j < k => at[j] < at[k]
          /\ \A k \in DOMAIN out : out[k] = told[at[k]]
  BY DEF InOrder
<1>3. PICK k \in DOMAIN out : at[k] = x
  BY <1>2
<1>4. \A i \in S : i \in Int
  OBVIOUS
<1>5. ASSUME NEW j \in DOMAIN out, j # k PROVE at[j] # x
  <2>1. j < k \/ k < j
    BY <1>1, <1>5
  <2>2. at[j] \in S /\ at[k] \in S
    BY <1>2
  <2>3. at[j] < at[k] \/ at[k] < at[j]
    BY <1>2, <2>1
  <2>4. \A i \in Int : ~(i < i)
    OBVIOUS
  <2> QED BY <1>3, <1>4, <2>2, <2>3, <2>4
<1>6. (\A i \in S : i <= x) => k = Len(out)
  <2> SUFFICES ASSUME \A i \in S : i <= x, k # Len(out) PROVE FALSE
    OBVIOUS
  <2>1. k < Len(out) /\ Len(out) \in DOMAIN out
    BY <1>1
  <2>2. at[k] < at[Len(out)] /\ at[Len(out)] \in S
    BY <1>2, <2>1
  <2>3. at[Len(out)] <= x /\ x < at[Len(out)]
    BY <1>3, <2>2
  <2>4. \A i, j \in Int : ~(i <= j /\ j < i)
    OBVIOUS
  <2> QED BY <1>4, <2>2, <2>3, <2>4
<1>7. ASSUME NEW after, \A i \in S \ {x} : after[i] = told[i]
      PROVE  InOrder([out EXCEPT ![k] = after[x]], S, after)
  <2> DEFINE new == [out EXCEPT ![k] = after[x]]
             values == {after[i] : i \in S}
  <2>1. /\ DOMAIN new = DOMAIN out /\ new[k] = after[x]
        /\ \A j \in DOMAIN out : j # k => new[j] = out[j]
    BY <1>3
  <2>2. ASSUME NEW j \in DOMAIN out PROVE new[j] = after[at[j]] /\ at[j] \in S
    <3>1. CASE j = k
      BY <1>2, <1>3, <2>1, <3>1
    <3>2. CASE j # k
      <4>1. at[j] \in S \ {x} /\ new[j] = told[at[j]]
        BY <1>2, <1>5, <2>1, <3>2
      <4> QED BY <1>7, <4>1
    <3> QED BY <3>1, <3>2
  <2>3. \A j \in DOMAIN out : new[j] \in values
    BY <2>2
  <2>4. new = [j \in 1..Len(out) |-> new[j]]
    BY <1>1, <2>1
  <2> HIDE DEF new, values
  <2>5. new \in [1..Len(out) -> values]
    BY <1>1, <2>1, <2>3, <2>4
  <2>6. new \in Seq(values)
    BY <1>1, <2>5
  <2>7. new \in Seq({after[i] : i \in S})
    BY <2>6 DEF values
  <2>8. at \in [DOMAIN new -> S]
    BY <2>1
  <2> QED BY <1>2, <2>1, <2>2, <2>7, <2>8 DEF InOrder, new
<1>8. \A j \in DOMAIN out \ {k} : \E i \in S \ {x} : out[j] = told[i]
  BY <1>2, <1>5
<1>9. out[k] = told[x]
  BY <1>2, <1>3
<1> QED BY <1>3, <1>6, <1>7, <1>8, <1>9 DEF IsLineOf

-----------------------------------------------------------------------------
\* What one entry changes

SummaryFields == {"irregularity", "bags", "manifests", "sheets"}
Noted(sum, e) == WithDelivery(WithManifest(WithBag(WithIrregularity(sum, e), e), e), e)

BagsNoted(bags, e) ==
    IF MovesBag(e)
    THEN BagEvent(bags, BagNamed(e), IF Packs(e) THEN "bagging" ELSE "unbagging", MoveTold(e))
    ELSE bags
SheetsNoted(sheets, e) ==
    IF RunSheet(e) THEN Append(sheets, SheetOf(e))
    ELSE IF Tells(e) \/ (Reports(e) /\ sheets # <<>>) THEN Updated(sheets, OutcomeTold(e))
    ELSE sheets

LEMMA NotedFields ==
    ASSUME NEW sum, DOMAIN sum = SummaryFields, NEW e
    PROVE  /\ DOMAIN Noted(sum, e) = SummaryFields
           /\ Noted(sum, e).irregularity = IF Irregular(e)
                 THEN Append(sum.irregularity, IrregularityTold(e)) ELSE sum.irregularity
           /\ Noted(sum, e).manifests = IF Listed7(e)
                 THEN Append(sum.manifests, ManifestTold(e)) ELSE sum.manifests
           /\ Noted(sum, e).bags = BagsNoted(sum.bags, e)
           /\ Noted(sum, e).sheets = SheetsNoted(sum.sheets, e)
<1> DEFINE a == WithIrregularity(sum, e)
           b == WithBag(a, e)
           c == WithManifest(b, e)
           d == WithDelivery(c, e)
<1>1. /\ DOMAIN a = SummaryFields /\ a.bags = sum.bags /\ a.manifests = sum.manifests
      /\ a.sheets = sum.sheets
      /\ a.irregularity = IF Irregular(e) THEN Append(sum.irregularity, IrregularityTold(e))
                          ELSE sum.irregularity
  BY DEF WithIrregularity, Irregular, IrregularityTold, SummaryFields
<1> HIDE DEF a
<1>2. /\ DOMAIN b = SummaryFields /\ b.irregularity = a.irregularity
      /\ b.manifests = a.manifests /\ b.sheets = a.sheets
      /\ b.bags = BagsNoted(a.bags, e)
  <2>1. b = IF MovesBag(e)
            THEN [a EXCEPT !.bags = BagEvent(a.bags, BagNamed(e),
                              IF Packs(e) THEN "bagging" ELSE "unbagging", MoveTold(e))]
            ELSE a
    BY DEF WithBag, MovesBag, Packs, Unpacks, BagNamed, MoveTold
  <2> QED BY <1>1, <2>1 DEF BagsNoted, SummaryFields
<1> HIDE DEF b
<1>3. /\ DOMAIN c = SummaryFields /\ c.irregularity = b.irregularity
      /\ c.bags = b.bags /\ c.sheets = b.sheets
      /\ c.manifests = IF Listed7(e) THEN Append(b.manifests, ManifestTold(e)) ELSE b.manifests
  BY <1>2 DEF WithManifest, Listed7, ManifestTold, SummaryFields
<1> HIDE DEF c
<1>4. /\ DOMAIN d = SummaryFields /\ d.irregularity = c.irregularity
      /\ d.bags = c.bags /\ d.manifests = c.manifests
      /\ d.sheets = SheetsNoted(c.sheets, e)
  <2> DEFINE new == IF RunSheet(e) THEN Append(c.sheets, SheetOf(e))
                    ELSE IF Tried(e)
                         THEN Updated(c.sheets, UpdateOf(e, AttemptOf(e.detail)))
                    ELSE IF IsDelivery(e.detail)
                         THEN Updated(c.sheets, UpdateOf(e, DeliveryOf(e.detail)))
                    ELSE IF /\ Has(e.detail, Delivered) /\ ~Has(e.detail, FailedToDelivered)
                            /\ c.sheets # <<>>
                         THEN Updated(c.sheets, UpdateOf(e, BareDelivery))
                    ELSE c.sheets
  <2>2. d = [c EXCEPT !.sheets = new]
    BY DEF WithDelivery, RunSheet, Tried
  <2>3. new = SheetsNoted(c.sheets, e)
    <3>1. CASE RunSheet(e)
      BY <3>1 DEF SheetsNoted
    <3>2. CASE ~RunSheet(e) /\ Tried(e)
      <4>1. Tells(e) /\ OutcomeTold(e) = UpdateOf(e, AttemptOf(e.detail))
        BY <3>2 DEF Tells, OutcomeTold
      <4> QED BY <3>2, <4>1 DEF SheetsNoted
    <3>3. CASE ~RunSheet(e) /\ ~Tried(e) /\ IsDelivery(e.detail)
      <4>1. Tells(e) /\ OutcomeTold(e) = UpdateOf(e, DeliveryOf(e.detail))
        BY <3>3 DEF Tells, OutcomeTold
      <4> QED BY <3>3, <4>1 DEF SheetsNoted
    <3>4. CASE ~RunSheet(e) /\ ~Tried(e) /\ ~IsDelivery(e.detail)
      <4>1. /\ ~Tells(e) /\ OutcomeTold(e) = UpdateOf(e, BareDelivery)
            /\ Reports(e) <=> Has(e.detail, Delivered) /\ ~Has(e.detail, FailedToDelivered)
        BY <3>4 DEF Tells, OutcomeTold, Reports
      <4> QED BY <3>4, <4>1 DEF SheetsNoted
    <3> QED BY <3>1, <3>2, <3>3, <3>4
  <2> HIDE DEF new
  <2>1. d = [c EXCEPT !.sheets = SheetsNoted(c.sheets, e)]
    BY <2>2, <2>3
  <2> QED BY <1>3, <2>1 DEF SummaryFields
<1>5. Noted(sum, e) = d
  BY DEF Noted, a, b, c, d
<1> HIDE DEF d
<1> QED BY <1>1, <1>2, <1>3, <1>4, <1>5

LEMMA NoneTold == ASSUME NEW told PROVE InOrder(<<>>, {}, told)
<1>1. <<>> \in Seq({told[i] : i \in {}}) /\ DOMAIN <<>> = {} /\ <<>> \in [{} -> {}]
  OBVIOUS
<1>2. {<<>>[k] : k \in {}} = {}
  OBVIOUS
<1> QED BY <1>1, <1>2 DEF InOrder

-----------------------------------------------------------------------------
\* The lists of irregularities and manifests

LEMMA OneChosen ==
    ASSUME NEW m \in Nat, NEW S, NEW out, NEW told, NEW after,
           InOrder(out, {i \in 1..m : i \in S}, told), \A i \in 1..m : after[i] = told[i]
    PROVE  InOrder(IF m + 1 \in S THEN Append(out, after[m + 1]) ELSE out,
                   {i \in 1..m + 1 : i \in S}, after)
<1> DEFINE old == {i \in 1..m : i \in S}
           new == {i \in 1..m + 1 : i \in S}
<1>1. old \in SUBSET (1..m) /\ \A i \in old : after[i] = told[i]
  OBVIOUS
<1>2. CASE m + 1 \in S
  <2>1. new = old \cup {m + 1}
    BY <1>2
  <2> HIDE DEF old, new
  <2>2. InOrder(Append(out, after[m + 1]), old \cup {m + 1}, after)
    BY <1>1, OneMore DEF old
  <2> QED BY <1>2, <2>1, <2>2 DEF new
<1>3. CASE m + 1 \notin S
  <2>1. new = old
    BY <1>3
  <2> HIDE DEF old, new
  <2>2. InOrder(out, old, after)
    BY <1>1, StillInOrder DEF old
  <2> QED BY <1>3, <2>1, <2>2 DEF new
<1> QED BY <1>2, <1>3

-----------------------------------------------------------------------------
\* The bags

LEMMA LatestMove ==
    ASSUME NEW h, NEW m \in Nat, NEW moves \in SUBSET (1..m)
    PROVE  LastMove(h, moves \cup {m + 1}) = MoveTold(h[m + 1])
<1>1. moves \cup {m + 1} \in SUBSET (1..m + 1) /\ m + 1 \in Nat /\ moves \cup {m + 1} # {}
  OBVIOUS
<1>2. Max(moves \cup {m + 1}) = m + 1
  BY <1>1, Topmost
<1> QED BY <1>1, <1>2 DEF LastMove

LEMMA MovesNext ==
    ASSUME NEW h, NEW m \in Nat, NEW id
    PROVE  /\ Moves(h, m, id) \in SUBSET (1..m)
           /\ Moves(h, m + 1, id) =
                 IF MovesBag(h[m + 1]) /\ BagNamed(h[m + 1]) = id
                 THEN Moves(h, m, id) \cup {m + 1} ELSE Moves(h, m, id)
BY DEF Moves

\* What is told of a bag that the entry does not move is told as before.
LEMMA OtherBag ==
    ASSUME NEW h, NEW m \in Nat, NEW id, ~(MovesBag(h[m + 1]) /\ BagNamed(h[m + 1]) = id)
    PROVE  BagTold(h, m + 1, id) = BagTold(h, m, id)
<1>1. Moves(h, m + 1, id) = Moves(h, m, id)
  BY MovesNext
<1> QED BY <1>1 DEF BagTold

LEMMA MovedBag ==
    ASSUME NEW h, NEW m \in Nat, MovesBag(h[m + 1])
    PROVE  LET id == BagNamed(h[m + 1])
               kind == IF Packs(h[m + 1]) THEN "bagging" ELSE "unbagging"
           IN  BagTold(h, m + 1, id) = [BagTold(h, m, id) EXCEPT ![kind] = MoveTold(h[m + 1])]
<1> DEFINE e == h[m + 1]
           id == BagNamed(e)
           before == Moves(h, m, id)
           after == Moves(h, m + 1, id)
           packs(moves) == {i \in moves : Packs(h[i])}
           others(moves) == {i \in moves : ~Packs(h[i])}
<1>1. after = before \cup {m + 1} /\ before \in SUBSET (1..m)
  BY MovesNext
<1>2. /\ BagTold(h, m, id) = [id |-> id, bagging |-> LastMove(h, packs(before)),
                              unbagging |-> LastMove(h, others(before))]
      /\ BagTold(h, m + 1, id) = [id |-> id, bagging |-> LastMove(h, packs(after)),
                                  unbagging |-> LastMove(h, others(after))]
  BY DEF BagTold
<1>3. CASE Packs(e)
  <2>1. packs(after) = packs(before) \cup {m + 1} /\ others(after) = others(before)
    BY <1>1, <1>3
  <2>2. LastMove(h, packs(after)) = MoveTold(e)
    <3>1. packs(before) \in SUBSET (1..m)
      BY <1>1
    <3> HIDE DEF packs, before
    <3>2. LastMove(h, packs(before) \cup {m + 1}) = MoveTold(h[m + 1])
      BY <3>1, LatestMove
    <3> QED BY <2>1, <3>2
  <2> HIDE DEF before, after, packs, others
  <2> QED BY <1>2, <1>3, <2>1, <2>2
<1>4. CASE ~Packs(e)
  <2>1. others(after) = others(before) \cup {m + 1} /\ packs(after) = packs(before)
    BY <1>1, <1>4
  <2>2. LastMove(h, others(after)) = MoveTold(e)
    <3>1. others(before) \in SUBSET (1..m)
      BY <1>1
    <3> HIDE DEF others, before
    <3>2. LastMove(h, others(before) \cup {m + 1}) = MoveTold(h[m + 1])
      BY <3>1, LatestMove
    <3> QED BY <2>1, <3>2
  <2> HIDE DEF before, after, packs, others
  <2> QED BY <1>2, <1>4, <2>1, <2>2
<1> QED BY <1>3, <1>4

LEMMA BagsAfter ==
    ASSUME NEW h, NEW m \in Nat, NEW bags, InOrder(bags, FirstMoves(h, m), BagLines(h, m))
    PROVE  InOrder(BagsNoted(bags, h[m + 1]), FirstMoves(h, m + 1), BagLines(h, m + 1))
<1> DEFINE e == h[m + 1]
           id == BagNamed(e)
           first == FirstMoves(h, m)
           told == BagLines(h, m)
           after == BagLines(h, m + 1)
           named == {k \in DOMAIN bags : bags[k].id = id}
           kind == IF Packs(e) THEN "bagging" ELSE "unbagging"
<1>1. /\ first \in SUBSET (1..m) /\ \A i \in first : MovesBag(h[i])
      /\ \A i \in 1..m : told[i] = BagTold(h, m, BagNamed(h[i]))
      /\ \A i \in 1..m + 1 : after[i] = BagTold(h, m + 1, BagNamed(h[i]))
      /\ \A i \in 1..m : i \in 1..m + 1
      /\ m + 1 \in 1..m + 1
  BY DEF FirstMoves, BagLines
<1>2. \A i \in 1..m + 1 : i \in 1..m \/ i = m + 1
  OBVIOUS
<1>3. \A i \in first : BagNamed(h[i]) # id \/ ~MovesBag(e) => after[i] = told[i]
  BY <1>1, OtherBag
<1>4. \A i \in 1..m : MovesBag(h[i]) => i \in Moves(h, m, BagNamed(h[i]))
  BY DEF Moves
<1>5. /\ bags \in Seq({told[i] : i \in first})
      /\ \A k \in DOMAIN bags : \E i \in first : bags[k] = told[i]
  BY DEF InOrder
<1>6. \A i \in first : told[i].id = BagNamed(h[i])
  <2>1. ASSUME NEW id0 PROVE BagTold(h, m, id0).id = id0
    BY DEF BagTold
  <2>2. \A i \in first : told[i] = BagTold(h, m, BagNamed(h[i]))
    BY <1>1
  <2> HIDE DEF first, told
  <2> QED BY <2>1, <2>2
<1>7. CASE ~MovesBag(e)
  <2>1. FirstMoves(h, m + 1) = first
    <3>1. \A i \in 1..m : Moves(h, m + 1, BagNamed(h[i])) = Moves(h, m, BagNamed(h[i]))
      BY <1>7, MovesNext
    <3> QED BY <1>1, <1>2, <1>7, <3>1 DEF FirstMoves
  <2>2. BagsNoted(bags, e) = bags
    BY <1>7 DEF BagsNoted
  <2>3. \A i \in first : after[i] = told[i]
    BY <1>3, <1>7
  <2> HIDE DEF first, told, after
  <2>4. InOrder(bags, first, after)
    BY <2>3, StillInOrder DEF first, told
  <2> QED BY <2>1, <2>2, <2>4 DEF after
<1>8. CASE MovesBag(e) /\ Moves(h, m, id) = {}
  <2>1. \A i \in 1..m : MovesBag(h[i]) => BagNamed(h[i]) # id
    BY <1>4, <1>8
  <2>2. FirstMoves(h, m + 1) = first \cup {m + 1}
    <3>1. \A i \in 1..m : MovesBag(h[i]) =>
              Moves(h, m + 1, BagNamed(h[i])) = Moves(h, m, BagNamed(h[i]))
      BY <2>1, MovesNext
    <3>2. Moves(h, m + 1, id) = {m + 1}
      BY <1>8, MovesNext
    <3>3. m + 1 \in FirstMoves(h, m + 1)
      BY <1>1, <1>8, <3>2 DEF FirstMoves
    <3> QED BY <1>1, <1>2, <3>1, <3>3 DEF FirstMoves
  <2>3. named = {}
    BY <1>1, <1>5, <1>6, <2>1
  <2>4. BagsNoted(bags, e) = Append(bags, after[m + 1])
    <3> DEFINE none == [id |-> id, bagging |-> NoEvent, unbagging |-> NoEvent]
    <3>1. BagsNoted(bags, e) = Append(bags, [none EXCEPT ![kind] = MoveTold(e)])
      <4>1. FirstOf(named) = 0
        BY <2>3 DEF FirstOf
      <4> HIDE DEF none, named, kind
      <4>2. BagEvent(bags, id, kind, MoveTold(e)) = Append(bags, [none EXCEPT ![kind] = MoveTold(e)])
        BY <4>1 DEF BagEvent, none, named
      <4> QED BY <1>8, <4>2 DEF BagsNoted, kind
    <3>2. BagTold(h, m, id) = none
      BY <1>8 DEF BagTold, LastMove
    <3>3. after[m + 1] = [BagTold(h, m, id) EXCEPT ![kind] = MoveTold(e)]
      BY <1>1, <1>8, MovedBag
    <3> HIDE DEF none, kind, after
    <3> QED BY <3>1, <3>2, <3>3
  <2>5. \A i \in first : after[i] = told[i]
    BY <1>1, <1>3, <2>1
  <2> HIDE DEF first, told, after
  <2>6. InOrder(Append(bags, after[m + 1]), first \cup {m + 1}, after)
    BY <1>1, <2>5, OneMore DEF first, told
  <2> QED BY <2>2, <2>4, <2>6 DEF after
<1>9. CASE MovesBag(e) /\ Moves(h, m, id) # {}
  <2> DEFINE x == Min(Moves(h, m, id))
  <2>1. x \in Moves(h, m, id) /\ \A i \in Moves(h, m, id) : x <= i
    <3>1. Moves(h, m, id) \in SUBSET Nat
      BY DEF Moves
    <3> QED BY <1>9, <3>1, Least
  <2> HIDE DEF x
  <2>2. x \in 1..m /\ MovesBag(h[x]) /\ BagNamed(h[x]) = id
    BY <2>1 DEF Moves
  <2>3. x \in first
    BY <2>1, <2>2 DEF FirstMoves
  <2>4. \A i \in first \ {x} : BagNamed(h[i]) # id
    <3> SUFFICES ASSUME NEW i \in first \ {x}, BagNamed(h[i]) = id PROVE FALSE
      OBVIOUS
    <3>1. i \in Moves(h, m, id) /\ i \in 1..m
      BY <1>1, <1>4
    <3>2. i <= x
      BY <2>1 DEF FirstMoves
    <3>3. x <= i
      BY <2>1, <3>1
    <3> QED BY <2>2, <3>1, <3>2, <3>3
  <2>5. FirstMoves(h, m + 1) = first
    <3>1. \A i \in first : i \in FirstMoves(h, m + 1)
      <4> SUFFICES ASSUME NEW i \in first, NEW j \in Moves(h, m + 1, BagNamed(h[i])) PROVE i <= j
        BY <1>1 DEF FirstMoves
      <4>1. j \in Moves(h, m, BagNamed(h[i])) \/ j = m + 1
        BY MovesNext
      <4>2. i \in 1..m
        BY <1>1
      <4> QED BY <4>1, <4>2 DEF FirstMoves
    <3>2. \A i \in 1..m : i \in FirstMoves(h, m + 1) => i \in first
      BY <1>1, MovesNext DEF FirstMoves
    <3>3. m + 1 \notin FirstMoves(h, m + 1)
      <4>1. x \in Moves(h, m + 1, id)
        BY <2>1, MovesNext
      <4>2. ~(m + 1 <= x)
        BY <2>2
      <4> QED BY <4>1, <4>2 DEF FirstMoves
    <3>4. \A i \in FirstMoves(h, m + 1) : i \in 1..m + 1
      BY DEF FirstMoves
    <3> HIDE DEF first
    <3> QED BY <1>2, <3>1, <3>2, <3>3, <3>4
  <2>6. PICK k \in DOMAIN bags : IsLineOf(k, bags, first, told, x)
    <3>1. InOrder(bags, first, told)
      OBVIOUS
    <3> HIDE DEF first, told
    <3> QED BY <1>1, <2>3, <3>1, LineOf
  <2>13. /\ bags[k] = told[x]
         /\ \A j \in DOMAIN bags \ {k} : \E i \in first \ {x} : bags[j] = told[i]
    BY <2>6 DEF IsLineOf
  <2>7. named = {k} /\ k \in Nat \ {0}
    BY <1>5, <1>6, <2>2, <2>3, <2>4, <2>13
  <2>8. FirstOf(named) = k
    <3>1. Min({k}) \in {k}
      BY <2>7, Least
    <3> HIDE DEF named
    <3> QED BY <2>7, <3>1 DEF FirstOf
  <2>9. after[x] = [bags[k] EXCEPT ![kind] = MoveTold(e)]
    <3>1. after[x] = BagTold(h, m + 1, id) /\ bags[k] = BagTold(h, m, id)
      BY <1>1, <2>2, <2>13
    <3>2. BagTold(h, m + 1, id) = [BagTold(h, m, id) EXCEPT ![kind] = MoveTold(e)]
      BY <1>9, MovedBag
    <3> HIDE DEF after, kind
    <3> QED BY <3>1, <3>2
  <2>10. BagsNoted(bags, e) = [bags EXCEPT ![k] = after[x]]
    <3> HIDE DEF kind, after, named
    <3>1. BagsNoted(bags, e) = BagEvent(bags, id, kind, MoveTold(e))
      BY <1>9 DEF BagsNoted, kind
    <3>2. BagEvent(bags, id, kind, MoveTold(e)) = [bags EXCEPT ![k][kind] = MoveTold(e)]
      BY <2>7, <2>8 DEF BagEvent, named
    <3> QED BY <2>9, <3>1, <3>2
  <2>11. \A i \in first \ {x} : after[i] = told[i]
    BY <1>3, <2>4
  <2> HIDE DEF first, told, after
  <2>12. InOrder([bags EXCEPT ![k] = after[x]], first, after)
    BY <2>6, <2>11 DEF IsLineOf
  <2> QED BY <2>5, <2>10, <2>12 DEF after
<1> QED BY <1>7, <1>8, <1>9

-----------------------------------------------------------------------------
\* The sheets

LEMMA Latest ==
    ASSUME NEW m \in Nat, NEW S \in SUBSET (1..m), S # {}
    PROVE  \E x \in S : \A i \in S : i <= x
<1> DEFINE Above == {n \in Nat : \A i \in S : i <= n}
           x == Min(Above)
<1>1. x \in Above /\ \A n \in Above : x <= n
  <2>1. Above \in SUBSET Nat /\ m \in Above
    OBVIOUS
  <2> HIDE DEF Above
  <2> QED BY <2>1, Least
<1> HIDE DEF x
<1>2. x \in Nat /\ \A i \in S : i <= x
  BY <1>1
<1>3. x \in S
  <2> SUFFICES ASSUME x \notin S PROVE FALSE
    OBVIOUS
  <2>1. \A i \in S : i \in Int /\ i >= 1 /\ i # x
    OBVIOUS
  <2>2. x - 1 \in Nat
    <3>1. PICK i \in S : TRUE
      OBVIOUS
    <3> QED BY <1>2, <2>1, <3>1
  <2>4. \A i \in S : i <= x - 1
    <3> SUFFICES ASSUME NEW i \in S PROVE i <= x - 1
      OBVIOUS
    <3>1. i \in Int /\ i # x /\ i <= x
      BY <1>2, <2>1
    <3> QED BY <1>2, <3>1
  <2>3. x - 1 \in Above
    BY <2>2, <2>4
  <2> QED BY <1>1, <1>2, <2>3
<1> QED BY <1>2, <1>3

\* The first entry that could open a sheet opens one.
LEMMA NoSheet ==
    ASSUME NEW h, NEW m \in Nat
    PROVE  SheetsOpened(h, m) = {} <=> \A j \in 1..m : ~RunSheet(h[j]) /\ ~Tells(h[j])
<1> DEFINE first == {j \in 1..m : RunSheet(h[j]) \/ Tells(h[j])}
<1>1. \A i \in SheetsOpened(h, m) : i \in first
  BY DEF SheetsOpened, Opens
<1>2. ASSUME first # {} PROVE SheetsOpened(h, m) # {}
  <2> DEFINE i == Min(first)
  <2>1. i \in first /\ \A j \in first : i <= j
    <3>1. first \in SUBSET Nat
      OBVIOUS
    <3> HIDE DEF first
    <3> QED BY <1>2, <3>1, Least
  <2> HIDE DEF i
  <2>2. \A j \in 1..i - 1 : j \notin first /\ j \in 1..m
    BY <2>1
  <2>3. Opens(h, i)
    BY <2>1, <2>2 DEF Opens
  <2> QED BY <2>1, <2>3 DEF SheetsOpened
<1> QED BY <1>1, <1>2

LEMMA OpenedNext ==
    ASSUME NEW h, NEW m \in Nat
    PROVE  /\ SheetsOpened(h, m) \in SUBSET (1..m)
           /\ SheetsOpened(h, m + 1) = IF Opens(h, m + 1) THEN SheetsOpened(h, m) \cup {m + 1}
                                       ELSE SheetsOpened(h, m)
BY DEF SheetsOpened

\* An entry is below an earlier sheet if it says something and none is opened in between.
LEMMA BelowNext ==
    ASSUME NEW h, NEW m \in Nat, NEW i \in 1..m
    PROVE  /\ Below(h, m, i) \in SUBSET (1..m)
           /\ Below(h, m + 1, i) =
                 IF /\ Tells(h[m + 1]) \/ Reports(h[m + 1])
                    /\ \A k \in i + 1..m + 1 : ~Opens(h, k)
                 THEN Below(h, m, i) \cup {m + 1} ELSE Below(h, m, i)
<1>1. \A j : j \in i..m + 1 <=> j \in i..m \/ j = m + 1
  OBVIOUS
<1>2. m + 1 \notin i..m /\ i..m \subseteq 1..m
  OBVIOUS
<1> QED BY <1>1, <1>2 DEF Below

LEMMA EmptyList ==
    ASSUME NEW out, NEW S, NEW told, InOrder(out, S, told)
    PROVE  out = <<>> <=> S = {}
<1>1. out \in Seq({told[i] : i \in S}) /\ DOMAIN out = 1..Len(out) /\ Len(out) \in Nat
  BY DEF InOrder
<1>2. PICK at \in [DOMAIN out -> S] : {at[k] : k \in DOMAIN out} = S
  BY DEF InOrder
<1>3. CASE out = <<>>
  <2>1. DOMAIN out = {}
    BY <1>3
  <2> QED BY <1>2, <1>3, <2>1
<1>4. CASE S = {}
  <2>1. DOMAIN out = {}
    BY <1>2, <1>4
  <2> QED BY <1>1, <1>4, <2>1
<1> QED BY <1>3, <1>4

LEMMA SheetsAfter ==
    ASSUME NEW h, NEW m \in Nat, NEW sheets, InOrder(sheets, SheetsOpened(h, m), SheetLines(h, m))
    PROVE  InOrder(SheetsNoted(sheets, h[m + 1]), SheetsOpened(h, m + 1), SheetLines(h, m + 1))
<1> DEFINE e == h[m + 1]
           opened == SheetsOpened(h, m)
           told == SheetLines(h, m)
           after == SheetLines(h, m + 1)
<1>1. /\ opened \in SUBSET (1..m) /\ m + 1 \in 1..m + 1
      /\ \A i \in 1..m : told[i] = SheetTold(h, m, i) /\ after[i] = SheetTold(h, m + 1, i)
      /\ after[m + 1] = SheetTold(h, m + 1, m + 1)
  <2>1. opened \in SUBSET (1..m) /\ m + 1 \in 1..m + 1 /\ \A i \in 1..m : i \in 1..m + 1
    BY DEF SheetsOpened
  <2>2. ASSUME NEW n \in Nat, NEW i \in 1..n PROVE SheetLines(h, n)[i] = SheetTold(h, n, i)
    BY DEF SheetLines
  <2> HIDE DEF opened
  <2> QED BY <2>1, <2>2
<1>2. ASSUME NEW i \in 1..m, Below(h, m + 1, i) = Below(h, m, i)
      PROVE  after[i] = told[i]
  BY <1>1, <1>2 DEF SheetTold
<1>3. InOrder(sheets, opened, told)
  OBVIOUS
<1>4. sheets = <<>> <=> opened = {}
  <2> HIDE DEF opened, told
  <2> QED BY <1>3, EmptyList
<1>5. CASE ~RunSheet(e) /\ ~Tells(e) /\ (~Reports(e) \/ opened = {})
  <2>1. SheetsNoted(sheets, e) = sheets
    BY <1>4, <1>5 DEF SheetsNoted
  <2>2. SheetsOpened(h, m + 1) = opened
    BY <1>5, OpenedNext DEF Opens
  <2>3. \A i \in opened : Below(h, m + 1, i) = Below(h, m, i)
    BY <1>1, <1>5, BelowNext
  <2>4. \A i \in opened : after[i] = told[i]
    BY <1>1, <1>2, <2>3
  <2> HIDE DEF opened, told, after
  <2>5. InOrder(sheets, opened, after)
    BY <1>3, <2>4, StillInOrder
  <2> QED BY <2>1, <2>2, <2>5 DEF after
<1>6. ASSUME Opens(h, m + 1), SheetsNoted(sheets, e) = Append(sheets, after[m + 1])
      PROVE  InOrder(SheetsNoted(sheets, e), SheetsOpened(h, m + 1), after)
  <2>1. SheetsOpened(h, m + 1) = opened \cup {m + 1}
    BY <1>6, OpenedNext
  <2>2. \A i \in opened : Below(h, m + 1, i) = Below(h, m, i)
    <3>1. \A i \in 1..m : m + 1 \in i + 1..m + 1
      OBVIOUS
    <3> QED BY <1>1, <1>6, <3>1, BelowNext
  <2>3. \A i \in opened : after[i] = told[i]
    BY <1>1, <1>2, <2>2
  <2> HIDE DEF opened, told, after
  <2>4. InOrder(Append(sheets, after[m + 1]), opened \cup {m + 1}, after)
    BY <1>1, <1>3, <2>3, OneMore
  <2> QED BY <1>6, <2>1, <2>4
<1>7. /\ Tells(e) \/ Reports(e) => Below(h, m + 1, m + 1) = {m + 1}
      /\ ~Tells(e) /\ ~Reports(e) => Below(h, m + 1, m + 1) = {}
  <2>1. (m + 1)..(m + 1) = {m + 1} /\ m + 1 + 1..m + 1 = {}
    OBVIOUS
  <2> QED BY <2>1 DEF Below
<1>8. CASE RunSheet(e)
  <2>1. Opens(h, m + 1) /\ ~Tells(e) /\ ~Reports(e)
    BY <1>8 DEF Opens, Tells, Reports
  <2>2. after[m + 1] = [SheetOf(e) EXCEPT !.update = NoUpdate]
    BY <1>1, <1>7, <1>8, <2>1 DEF SheetTold, OpenedWith
  <2>3. [SheetOf(e) EXCEPT !.update = NoUpdate] = SheetOf(e)
    <3> DEFINE by == OlehDi(e.detail)
               kurir == CourierOf(e.detail)
               xy == CoordinateOf(e.detail)
               sheet == [mandor |-> by.petugas, kurir |-> kurir, lokasi |-> by.lokasi,
                         at |-> e.at, koordinat |-> xy, update |-> NoUpdate]
    <3>1. SheetOf(e) = [AnonymousSheet EXCEPT !.mandor = by.petugas, !.kurir = kurir,
                            !.lokasi = by.lokasi, !.at = e.at, !.koordinat = xy]
      BY DEF SheetOf
    <3> HIDE DEF by, kurir, xy
    <3>2. SheetOf(e) = sheet
      BY <3>1 DEF AnonymousSheet
    <3>3. [sheet EXCEPT !.update = NoUpdate] = sheet
      OBVIOUS
    <3> QED BY <3>2, <3>3
  <2>4. SheetsNoted(sheets, e) = Append(sheets, SheetOf(e))
    BY <1>8 DEF SheetsNoted
  <2> HIDE DEF after
  <2>5. SheetsNoted(sheets, e) = Append(sheets, after[m + 1])
    BY <2>2, <2>3, <2>4
  <2> QED BY <1>6, <2>1, <2>5 DEF after
<1>9. CASE Tells(e) /\ opened = {}
  <2>1. Opens(h, m + 1) /\ ~RunSheet(e)
    <3>1. \A j \in 1..m + 1 - 1 : ~RunSheet(h[j]) /\ ~Tells(h[j])
      BY <1>9, NoSheet
    <3> QED BY <1>9, <3>1 DEF Opens, Tells
  <2>2. Max({m + 1}) = m + 1
    BY <1>1, Topmost
  <2>3. after[m + 1] = [AnonymousSheet EXCEPT !.update = OutcomeTold(e)]
    BY <1>1, <1>7, <1>9, <2>1, <2>2 DEF SheetTold, OpenedWith
  <2>4. SheetsNoted(sheets, e) = <<[AnonymousSheet EXCEPT !.update = OutcomeTold(e)]>>
    BY <1>4, <1>9, <2>1 DEF SheetsNoted, Updated
  <2> HIDE DEF after
  <2>5. \A u : <<u>> = Append(<<>>, u)
    OBVIOUS
  <2>6. SheetsNoted(sheets, e) = Append(sheets, after[m + 1])
    BY <1>4, <1>9, <2>3, <2>4, <2>5
  <2> QED BY <1>6, <2>1, <2>6 DEF after
<1>10. CASE (Tells(e) \/ Reports(e)) /\ ~RunSheet(e) /\ opened # {}
  <2>1. PICK x \in opened : \A i \in opened : i <= x
    <3> HIDE DEF opened
    <3> QED BY <1>1, <1>10, Latest
  <2>2. x \in 1..m
    BY <1>1
  <2>3. ~Opens(h, m + 1)
    <3>1. \E j \in 1..m : RunSheet(h[j]) \/ Tells(h[j])
      BY <1>10, NoSheet
    <3> QED BY <1>10, <3>1 DEF Opens
  <2>4. SheetsOpened(h, m + 1) = opened
    BY <2>3, OpenedNext
  <2>5. Below(h, m + 1, x) = Below(h, m, x) \cup {m + 1} /\ Below(h, m, x) \in SUBSET (1..m)
    <3>1. ASSUME NEW k \in x + 1..m + 1 PROVE ~Opens(h, k)
      <4>1. k \in 1..m \/ k = m + 1
        BY <2>2
      <4>2. k \in 1..m => k \notin opened
        BY <2>1, <2>2
      <4> QED BY <2>3, <4>1, <4>2 DEF SheetsOpened
    <3> QED BY <1>10, <2>2, <3>1, BelowNext
  <2>6. \A i \in opened \ {x} : Below(h, m + 1, i) = Below(h, m, i)
    <3> SUFFICES ASSUME NEW i \in opened \ {x} PROVE Below(h, m + 1, i) = Below(h, m, i)
      OBVIOUS
    <3>1. i \in 1..m /\ i <= x /\ i # x
      BY <1>1, <2>1
    <3>2. x \in i + 1..m + 1 /\ Opens(h, x)
      BY <2>2, <3>1 DEF SheetsOpened
    <3> QED BY <3>1, <3>2, BelowNext
  <2>7. \A i \in opened \ {x} : after[i] = told[i]
    BY <1>1, <1>2, <2>6
  <2>8. PICK k \in DOMAIN sheets : IsLineOf(k, sheets, opened, told, x)
    <3> HIDE DEF opened, told
    <3> QED BY <1>1, <1>3, LineOf
  <2>9. k = Len(sheets) /\ sheets[k] = told[x]
    BY <2>1, <2>8 DEF IsLineOf
  <2>10. Max(Below(h, m, x) \cup {m + 1}) = m + 1
    <3> DEFINE S == Below(h, m, x) \cup {m + 1}
    <3>1. S \in SUBSET (1..m + 1) /\ m + 1 \in S
      BY <2>5
    <3> HIDE DEF S
    <3>2. Max(S) = m + 1
      BY <3>1, Topmost
    <3> QED BY <3>2 DEF S
  <2>11. after[x] = [OpenedWith(h[x]) EXCEPT !.update = OutcomeTold(e)]
    <3>1. after[x] = SheetTold(h, m + 1, x)
      BY <1>1, <2>2
    <3>2. Below(h, m + 1, x) # {} /\ Max(Below(h, m + 1, x)) = m + 1
      BY <2>5, <2>10
    <3> HIDE DEF after
    <3> QED BY <3>1, <3>2 DEF SheetTold
  <2>12. after[x] = [sheets[k] EXCEPT !.update = OutcomeTold(e)]
    <3>1. sheets[k] = SheetTold(h, m, x)
      BY <1>1, <2>2, <2>9
    <3> HIDE DEF after
    <3> QED BY <2>11, <3>1 DEF SheetTold
  <2>13. SheetsNoted(sheets, e) = [sheets EXCEPT ![k] = after[x]]
    <3>1. SheetsNoted(sheets, e) = Updated(sheets, OutcomeTold(e)) /\ sheets # <<>>
      BY <1>4, <1>10 DEF SheetsNoted
    <3>2. Updated(sheets, OutcomeTold(e)) = [sheets EXCEPT ![k].update = OutcomeTold(e)]
      BY <2>9, <3>1 DEF Updated
    <3> HIDE DEF after
    <3> QED BY <2>12, <3>1, <3>2
  <2> HIDE DEF opened, told, after
  <2>14. InOrder([sheets EXCEPT ![k] = after[x]], opened, after)
    BY <2>7, <2>8 DEF IsLineOf
  <2> QED BY <2>4, <2>13, <2>14 DEF after
<1> QED BY <1>5, <1>8, <1>9, <1>10

-----------------------------------------------------------------------------
\* The whole history, and its end

(* Where the entries lead, one after another.                              *)
Notes(history) ==
    CHOOSE g : g = [S \in SUBSET DOMAIN history |->
        IF S = {} THEN NoSummary ELSE Noted(g[S \ {Max(S)}], history[Max(S)])]

LEMMA NotesEach ==
    ASSUME NEW E, NEW history \in Seq(E)
    PROVE  /\ Notes(history)[{}] = NoSummary
           /\ \A m \in 1..Len(history) :
                 Notes(history)[1..m] = Noted(Notes(history)[1..m - 1], history[m])
<1> DEFINE Solves(g, n) ==
              g = [S \in SUBSET (1..n) |->
                      IF S = {} THEN NoSummary ELSE Noted(g[S \ {Max(S)}], history[Max(S)])]
           Solved(n) == \E g : Solves(g, n)
           Unsolved == {n \in 0..Len(history) : ~Solved(n)}
<1>1. Len(history) \in Nat /\ DOMAIN history = 1..Len(history)
  OBVIOUS
<1>2. Unsolved = {}
  <2> SUFFICES ASSUME Unsolved # {} PROVE FALSE
    OBVIOUS
  <2> DEFINE n == Min(Unsolved)
  <2>1. n \in Unsolved /\ \A m \in Unsolved : n <= m
    <3>1. Unsolved \in SUBSET Nat
      BY <1>1
    <3> HIDE DEF Unsolved
    <3> QED BY <3>1, Least
  <2> HIDE DEF n
  <2>2. n \in 0..Len(history) /\ ~Solved(n)
    <3> HIDE DEF Solved
    <3> QED BY <2>1
  <2>3. CASE n = 0
    <3> DEFINE g == [S \in SUBSET (1..n) |-> NoSummary]
    <3>1. \A S \in SUBSET (1..n) : S = {}
      BY <2>3
    <3>2. Solves(g, n)
      BY <3>1
    <3> QED BY <2>2, <3>2
  <2>4. CASE n # 0
    <3>1. n \in 1..Len(history) /\ Solved(n - 1)
      <4> HIDE DEF Solved
      <4> QED BY <1>1, <2>1, <2>2, <2>4
    <3>2. PICK g : Solves(g, n - 1)
      BY <3>1
    <3> DEFINE h == [S \in SUBSET (1..n) |->
                        IF n \notin S THEN g[S] ELSE Noted(g[S \ {n}], history[n])]
    <3>3. ASSUME NEW S \in SUBSET (1..n)
          PROVE  h[S] = IF S = {} THEN NoSummary ELSE Noted(h[S \ {Max(S)}], history[Max(S)])
      <4>1. h[S] = IF n \notin S THEN g[S] ELSE Noted(g[S \ {n}], history[n])
        OBVIOUS
      <4>2. CASE n \notin S
        <5>1. S \in SUBSET (1..(n - 1))
          BY <3>1, <4>2
        <5>2. g[S] = IF S = {} THEN NoSummary ELSE Noted(g[S \ {Max(S)}], history[Max(S)])
          BY <3>2, <5>1
        <5>3. h[S \ {Max(S)}] = g[S \ {Max(S)}]
          <6> DEFINE R == S \ {Max(S)}
          <6>1. R \in SUBSET (1..n) /\ n \notin R
            BY <4>2
          <6> HIDE DEF R
          <6>2. h[R] = g[R]
            BY <6>1
          <6> QED BY <6>2 DEF R
        <5> HIDE DEF h
        <5> QED BY <4>1, <4>2, <5>2, <5>3
      <4>3. CASE n \in S
        <5>1. Max(S) = n
          BY <3>1, <4>3, Topmost
        <5> DEFINE R == S \ {n}
        <5>2. R \in SUBSET (1..n) /\ n \notin R
          OBVIOUS
        <5> HIDE DEF R
        <5>3. h[R] = g[R]
          BY <5>2
        <5> HIDE DEF h
        <5> QED BY <4>1, <4>3, <5>1, <5>3 DEF R
      <4> QED BY <4>2, <4>3
    <3>4. Solves(h, n)
      <4>1. h = [S \in SUBSET (1..n) |-> h[S]]
        OBVIOUS
      <4> HIDE DEF h
      <4> QED BY <3>3, <4>1
    <3> HIDE DEF h
    <3> QED BY <2>2, <3>4
  <2> QED BY <2>3, <2>4
<1>3. Solved(Len(history))
  <2> HIDE DEF Solved
  <2> QED BY <1>1, <1>2
<1> DEFINE notes == Notes(history)
<1>4. Solves(notes, Len(history))
  BY <1>1, <1>3 DEF Notes
<1> HIDE DEF notes
<1>5. notes[{}] = NoSummary
  BY <1>4
<1>6. ASSUME NEW m \in 1..Len(history) PROVE notes[1..m] = Noted(notes[1..m - 1], history[m])
  <2>1. Max(1..m) = m
    <3>1. 1..m \in SUBSET (1..m) /\ m \in 1..m /\ m \in Nat
      BY <1>1
    <3> QED BY <3>1, Topmost
  <2>2. 1..m \in SUBSET (1..Len(history)) /\ 1..m # {} /\ (1..m) \ {m} = 1..m - 1
    <3>1. m \in Nat /\ m > 0 /\ m <= Len(history) /\ Len(history) \in Nat
      BY <1>1
    <3>2. 1..m \in SUBSET (1..Len(history))
      BY <3>1
    <3>3. m \in 1..m /\ \A k : k \in (1..m) \ {m} <=> k \in 1..m - 1
      BY <3>1
    <3> QED BY <3>2, <3>3
  <2>3. \A S \in SUBSET (1..Len(history)) :
            notes[S] = IF S = {} THEN NoSummary ELSE Noted(notes[S \ {Max(S)}], history[Max(S)])
    BY <1>4
  <2> QED BY <2>1, <2>2, <2>3
<1> QED BY <1>5, <1>6 DEF notes

LEMMA SummaryIs ==
    ASSUME NEW E, NEW history \in Seq(E), NEW final, NEW pod
    PROVE  SummaryOf(history, final, pod) = WithFinal(Notes(history)[DOMAIN history], final, pod)
BY DEF SummaryOf, Notes, Noted, FoldLeft, MapThenFoldSet

\* What is told of the entries up to one is told of those up to the next.
Kept(sum, h, m) ==
    /\ DOMAIN sum = SummaryFields
    /\ Told(sum, h, m)
    /\ InOrder(sum.sheets, SheetsOpened(h, m), SheetLines(h, m))

LEMMA NotedKeeps ==
    ASSUME NEW h, NEW m \in Nat, NEW sum, Kept(sum, h, m)
    PROVE  Kept(Noted(sum, h[m + 1]), h, m + 1)
<1> DEFINE e == h[m + 1]
           new == Noted(sum, e)
<1>1. /\ DOMAIN new = SummaryFields
      /\ new.irregularity = IF Irregular(e)
            THEN Append(sum.irregularity, IrregularityTold(e)) ELSE sum.irregularity
      /\ new.manifests = IF Listed7(e)
            THEN Append(sum.manifests, ManifestTold(e)) ELSE sum.manifests
      /\ new.bags = BagsNoted(sum.bags, e)
      /\ new.sheets = SheetsNoted(sum.sheets, e)
  <2>1. DOMAIN sum = SummaryFields
    BY DEF Kept
  <2> QED BY <2>1, NotedFields
<1> HIDE DEF new
<1>2. InOrder(new.irregularity, {i \in 1..m + 1 : Irregular(h[i])}, Irregularities(h, m + 1))
  <2> DEFINE S == {i \in 1..m + 1 : Irregular(h[i])}
             told == Irregularities(h, m)
             after == Irregularities(h, m + 1)
  <2>1. /\ {i \in 1..m : i \in S} = {i \in 1..m : Irregular(h[i])}
        /\ {i \in 1..m + 1 : i \in S} = S
        /\ m + 1 \in S <=> Irregular(e)
    OBVIOUS
  <2>2. after[m + 1] = IrregularityTold(e) /\ \A i \in 1..m : after[i] = told[i]
    BY DEF Irregularities
  <2>3. InOrder(sum.irregularity, {i \in 1..m : i \in S}, told)
    <3> HIDE DEF S
    <3> QED BY <2>1 DEF Kept, Told
  <2> HIDE DEF S, told, after
  <2>4. InOrder(IF m + 1 \in S THEN Append(sum.irregularity, after[m + 1]) ELSE sum.irregularity,
                {i \in 1..m + 1 : i \in S}, after)
    BY <2>2, <2>3, OneChosen
  <2> QED BY <1>1, <2>1, <2>2, <2>4 DEF S, after
<1>3. InOrder(new.manifests, {i \in 1..m + 1 : Listed7(h[i])}, ManifestLines(h, m + 1))
  <2> DEFINE S == {i \in 1..m + 1 : Listed7(h[i])}
             told == ManifestLines(h, m)
             after == ManifestLines(h, m + 1)
  <2>1. /\ {i \in 1..m : i \in S} = {i \in 1..m : Listed7(h[i])}
        /\ {i \in 1..m + 1 : i \in S} = S
        /\ m + 1 \in S <=> Listed7(e)
    OBVIOUS
  <2>2. after[m + 1] = ManifestTold(e) /\ \A i \in 1..m : after[i] = told[i]
    BY DEF ManifestLines
  <2>3. InOrder(sum.manifests, {i \in 1..m : i \in S}, told)
    <3> HIDE DEF S
    <3> QED BY <2>1 DEF Kept, Told
  <2> HIDE DEF S, told, after
  <2>4. InOrder(IF m + 1 \in S THEN Append(sum.manifests, after[m + 1]) ELSE sum.manifests,
                {i \in 1..m + 1 : i \in S}, after)
    BY <2>2, <2>3, OneChosen
  <2> QED BY <1>1, <2>1, <2>2, <2>4 DEF S, after
<1>4. InOrder(new.bags, FirstMoves(h, m + 1), BagLines(h, m + 1))
  <2>1. InOrder(sum.bags, FirstMoves(h, m), BagLines(h, m))
    BY DEF Kept, Told
  <2> QED BY <1>1, <2>1, BagsAfter
<1>5. InOrder(new.sheets, SheetsOpened(h, m + 1), SheetLines(h, m + 1))
  <2>1. InOrder(sum.sheets, SheetsOpened(h, m), SheetLines(h, m))
    BY DEF Kept
  <2> QED BY <1>1, <2>1, SheetsAfter
<1> QED BY <1>1, <1>2, <1>3, <1>4, <1>5 DEF Kept, Told, new

LEMMA NoneKept == ASSUME NEW h PROVE Kept(NoSummary, h, 0)
<1>1. 1..0 = {}
  OBVIOUS
<1>2. /\ {i \in 1..0 : Irregular(h[i])} = {} /\ {i \in 1..0 : Listed7(h[i])} = {}
      /\ FirstMoves(h, 0) = {} /\ SheetsOpened(h, 0) = {}
  BY <1>1 DEF FirstMoves, SheetsOpened
<1>3. /\ DOMAIN NoSummary = SummaryFields
      /\ NoSummary.irregularity = <<>> /\ NoSummary.manifests = <<>>
      /\ NoSummary.bags = <<>> /\ NoSummary.sheets = <<>>
  BY DEF NoSummary, SummaryFields
<1> QED BY <1>2, <1>3, NoneTold DEF Kept, Told

LEMMA NotesKept ==
    ASSUME NEW E, NEW history \in Seq(E)
    PROVE  Kept(Notes(history)[DOMAIN history], history, Len(history))
<1> DEFINE notes == Notes(history)
           Strays == {m \in 0..Len(history) : ~Kept(notes[1..m], history, m)}
<1>1. Len(history) \in Nat /\ DOMAIN history = 1..Len(history)
  OBVIOUS
<1>2. Strays = {}
  <2> SUFFICES ASSUME Strays # {} PROVE FALSE
    OBVIOUS
  <2> DEFINE m == Min(Strays)
  <2>1. m \in Strays /\ \A k \in Strays : m <= k
    <3>1. Strays \in SUBSET Nat
      BY <1>1
    <3> HIDE DEF Strays
    <3> QED BY <3>1, Least
  <2> HIDE DEF m
  <2>2. m \in 0..Len(history) /\ ~Kept(notes[1..m], history, m)
    BY <2>1
  <2>3. m # 0
    <3>1. 1..0 = {}
      OBVIOUS
    <3> QED BY <2>2, <3>1, NotesEach, NoneKept
  <2>4. m \in 1..Len(history) /\ m - 1 \in Nat /\ m - 1 + 1 = m
    BY <1>1, <2>2, <2>3
  <2>5. Kept(notes[1..m - 1], history, m - 1)
    <3>1. m - 1 \in 0..Len(history) /\ ~(m <= m - 1)
      BY <1>1, <2>4
    <3> QED BY <2>1, <3>1
  <2>6. notes[1..m] = Noted(notes[1..m - 1], history[m])
    BY <2>4, NotesEach
  <2> HIDE DEF notes
  <2>7. Kept(Noted(notes[1..m - 1], history[m - 1 + 1]), history, m - 1 + 1)
    BY <2>4, <2>5, NotedKeeps
  <2> QED BY <2>2, <2>4, <2>6, <2>7
<1> QED BY <1>1, <1>2

\* The final status goes to the last sheet, if that does not say it already.
LEMMA EndTold ==
    ASSUME NEW E, NEW h \in Seq(E), NEW final, NEW pod, NEW sum, Kept(sum, h, Len(h))
    PROVE  LET end == WithFinal(sum, final, pod) IN
           /\ DOMAIN end = SummaryFields
           /\ \A f \in SummaryFields \ {"sheets"} : end[f] = sum[f]
           /\ InOrder(end.sheets, SheetsOpened(h, Len(h)), SheetsEnded(h, final, pod))
<1> DEFINE m == Len(h)
           sheets == sum.sheets
           n == Len(sheets)
           opened == SheetsOpened(h, m)
           told == SheetLines(h, m)
           after == SheetsEnded(h, final, pod)
           end == WithFinal(sum, final, pod)
           said == n # 0 /\ SaysDelivered(sheets[n])
<1>1. /\ m \in Nat /\ opened \in SUBSET (1..m) /\ DOMAIN sum = SummaryFields
      /\ InOrder(sheets, opened, told)
  BY DEF Kept, SheetsOpened
<1>2. \A i \in 1..m : told[i] = SheetTold(h, m, i) /\ after[i] = SheetEnded(h, i, final, pod)
  BY DEF SheetLines, SheetsEnded
<1>3. n \in Nat /\ (n = 0 <=> opened = {})
  <2>1. sheets \in Seq({told[i] : i \in opened}) /\ (sheets = <<>> <=> opened = {})
    <3> HIDE DEF sheets, opened, told
    <3>1. sheets = <<>> <=> opened = {}
      BY <1>1, EmptyList
    <3>2. sheets \in Seq({told[i] : i \in opened})
      BY <1>1 DEF InOrder
    <3> QED BY <3>1, <3>2
  <2> HIDE DEF sheets, opened, told
  <2> QED BY <2>1
<1>4. end = IF final.status # Delivered \/ n = 0 \/ said THEN sum
            ELSE [sum EXCEPT !.sheets[n].update = FinalTold(final, pod)]
  <2>1. CASE n = 0
    BY <2>1 DEF WithFinal
  <2>2. CASE n # 0
    <3>1. said <=> sum.sheets[n].update # NoUpdate /\ sum.sheets[n].update.said.status = Delivered
      BY <2>2 DEF SaysDelivered
    <3> QED BY <2>2, <3>1, Zenon DEF WithFinal, FinalTold
  <2> QED BY <2>1, <2>2
<1>5. \A i \in 1..m :
         LET last == \A j \in opened : j <= i IN
         after[i] = IF last /\ final.status = Delivered /\ ~SaysDelivered(told[i])
                    THEN [told[i] EXCEPT !.update = FinalTold(final, pod)] ELSE told[i]
  BY <1>2 DEF SheetEnded
<1>6. CASE final.status # Delivered \/ n = 0
  <2>1. \A i \in opened : after[i] = told[i]
    BY <1>1, <1>3, <1>5, <1>6
  <2>2. end = sum
    BY <1>4, <1>6
  <2> HIDE DEF opened, told, after, end, sheets
  <2>3. InOrder(sheets, opened, after)
    BY <1>1, <2>1, StillInOrder
  <2> QED BY <1>1, <2>2, <2>3 DEF end, sheets, opened, after
<1>7. CASE final.status = Delivered /\ n # 0
  <2>1. PICK x \in opened : \A i \in opened : i <= x
    <3> HIDE DEF opened
    <3> QED BY <1>1, <1>3, <1>7, Latest
  <2>2. PICK k \in DOMAIN sheets : IsLineOf(k, sheets, opened, told, x)
    <3> HIDE DEF opened, told, sheets
    <3> QED BY <1>1, LineOf
  <2>3. k = n /\ sheets[n] = told[x] /\ n \in DOMAIN sheets
    BY <2>1, <2>2 DEF IsLineOf
  <2>4. \A i \in opened \ {x} : after[i] = told[i]
    <3> SUFFICES ASSUME NEW i \in opened \ {x} PROVE after[i] = told[i]
      OBVIOUS
    <3>1. i \in 1..m /\ x \in 1..m /\ i <= x /\ i # x
      BY <1>1, <2>1
    <3>2. ~(x <= i)
      BY <1>1, <3>1
    <3> QED BY <1>5, <3>1, <3>2
  <2>5. x \in 1..m
    BY <1>1
  <2>6. CASE said
    <3>1. after[x] = told[x]
      BY <1>5, <2>3, <2>5, <2>6
    <3>2. end = sum
      BY <1>4, <2>6
    <3> HIDE DEF opened, told, after, end, sheets
    <3>3. InOrder(sheets, opened, after)
      BY <1>1, <2>4, <3>1, StillInOrder
    <3> QED BY <1>1, <3>2, <3>3 DEF end, sheets, opened, after
  <2>7. CASE ~said
    <3>1. after[x] = [told[x] EXCEPT !.update = FinalTold(final, pod)]
      BY <1>5, <1>7, <2>1, <2>3, <2>5, <2>7
    <3>2. end = [sum EXCEPT !.sheets[n].update = FinalTold(final, pod)]
      BY <1>4, <1>7, <2>7
    <3> DEFINE new == [sheets EXCEPT ![n] = after[x]]
    <3>3. end = [sum EXCEPT !.sheets = new]
      <4> HIDE DEF n, after, told, end
      <4>1. new = [sum.sheets EXCEPT ![n].update = FinalTold(final, pod)]
        BY <2>3, <3>1
      <4> HIDE DEF new
      <4> QED BY <3>2, <4>1
    <3>4. InOrder(new, opened, after)
      <4> HIDE DEF opened, told, after, n, sheets
      <4> QED BY <2>2, <2>3, <2>4 DEF IsLineOf
    <3> HIDE DEF new, opened, after, end
    <3>5. DOMAIN end = SummaryFields /\ end.sheets = new
          /\ \A f \in SummaryFields \ {"sheets"} : end[f] = sum[f]
      BY <1>1, <3>3 DEF SummaryFields
    <3> QED BY <3>4, <3>5 DEF end, opened, after
  <2> QED BY <2>6, <2>7
<1> QED BY <1>6, <1>7

(* What a history amounts to, for any entries with any texts, in the order *)
(* of the page (parser.rs, build_history_summary): the irregularities and  *)
(* the manifests one by one; of each bag one line, where it is first       *)
(* named, with its last bagging and its last unbagging; a sheet for each   *)
(* runsheet, and one without a name for what is said of a delivery before  *)
(* the first, each with the last thing said before the next; and a final   *)
(* status DELIVERED that the last sheet does not report is reported there. *)
THEOREM HistorySummed ==
    ASSUME NEW E, NEW history \in Seq(E), NEW final, NEW pod
    PROVE  LET sum == SummaryOf(history, final, pod) IN
           /\ Told(sum, history, Len(history))
           /\ InOrder(sum.sheets, SheetsOpened(history, Len(history)),
                      SheetsEnded(history, final, pod))
<1> DEFINE notes == Notes(history)[DOMAIN history]
           sum == SummaryOf(history, final, pod)
<1>1. Kept(notes, history, Len(history))
  BY NotesKept
<1>2. sum = WithFinal(notes, final, pod)
  BY SummaryIs
<1> HIDE DEF notes, sum
<1>3. /\ \A f \in SummaryFields \ {"sheets"} : sum[f] = notes[f]
      /\ InOrder(sum.sheets, SheetsOpened(history, Len(history)), SheetsEnded(history, final, pod))
  BY <1>1, <1>2, EndTold
<1>4. /\ sum.irregularity = notes.irregularity /\ sum.manifests = notes.manifests
      /\ sum.bags = notes.bags
  BY <1>3 DEF SummaryFields
<1>5. Told(sum, history, Len(history))
  BY <1>1, <1>4 DEF Kept, Told
<1> QED BY <1>3, <1>5 DEF sum
=============================================================================
