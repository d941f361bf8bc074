----------------------------- MODULE Enrichment -----------------------------
(***************************************************************************)
(* A request from its lookup to its enrichment                             *)
(* (crates/shipflow-service-runtime/src/lookup_cache.rs and http_api.rs):  *)
(* the source is asked, or the lookup cache answers; a tracking request    *)
(* completes its contacts, then the routes of its bags, in tasks of their  *)
(* own; a bag request completes one route; a manifest request joins the    *)
(* Print snapshot to the operational page.  The requests share the         *)
(* contact, bag-route and manifest caches and race at every await: a       *)
(* blocking read has returned before the task goes on, and a blocking      *)
(* write runs to its end after its request is dropped.                     *)
(*                                                                         *)
(* Requests that are enriched are those of a service with the default      *)
(* tracking source: with another source there is nothing to enrich.  Each  *)
(* request runs once.                                                      *)
(***************************************************************************)
EXTENDS ContactCache, BagRouteCache, ManifestCache, Upstream, PageReports

CONSTANTS
    Trackings, BagLookups, ManifestLookups,   \* the requests
    Shipment, BagsOf, Bag, Manifest,          \* what each asks for
    Primary,          \* the phones the primary answer of a tracking may carry
    ContactPages, Labels, Lists, PrintPages,  \* the pages of the other sources
    MaxRouteTasks,    \* MAX_CONCURRENT_BAG_ROUTE_ENRICHMENTS_PER_TRACK
    Forced,           \* bound: the requests that may force a refresh
    Scenarios,        \* bound: the requests that come together, and the
                      \* tables an earlier process left for them
    MaxRestarts,      \* bound: restarts of the service process
    Nobody

ASSUME ScenarioAssumption ==
    /\ Trackings \cup BagLookups \cup ManifestLookups \subseteq DOMAIN Asked
    /\ \A w \in Scenarios :
          /\ w.requests \cup w.asks \subseteq DOMAIN Asked
          /\ w.contacts \subseteq BootContacts /\ w.routes \subseteq BootRoutes

(* The tasks that complete a route: the owner of each, and its bag, one of *)
(* those that its page says it was put into.                               *)
BaggedIn(page) ==
    LET told == ReportOf(page).summary.bags
    IN  {told[i].id[1] : i \in {j \in DOMAIN told : told[j].bagging # NoEvent}}
ASSUME BagsAssumption ==
    \A t \in Trackings : \A body \in Asked[t].bodies : BaggedIn(body.page) = BagsOf[t]

RouteTasks == (UNION {{<<t, b>> : b \in BagsOf[t]} : t \in Trackings})
              \cup {<<l, Bag[l]>> : l \in BagLookups}

ASSUME RequestsAssumption ==
    /\ Shipment \in [Trackings -> Shipments] /\ Manifest \in [ManifestLookups -> Manifests]
    /\ BagsOf \in [Trackings -> SUBSET Bags] /\ Bag \in [BagLookups -> Bags]
    /\ Primary \in [Trackings -> SUBSET SUBSET Parties]
    /\ \A print \in PrintPages : \A i \in DOMAIN print.bags : print.bags[i].offices \subseteq Offices
    /\ Nobody \notin Trackings \cup RouteTasks

VARIABLES
    contactLease, routeLease,    \* in_flight of the two caches
    contactTask,                 \* enrich_tracking_contacts of each tracking
    contactJob,                  \* its blocking write, if it has one
    routeTask,                   \* resolve_cached_bag_route
    routeJob,
    manifestTask,                \* resolve_manifest_request_cached
    restarts

contactVars == <<contacts, contactLease, contactTask, contactJob>>
routeVars == <<routes, routeLease, routeTask, routeJob>>
manifestVars == <<prints, printBags, manifestTask>>
vars == <<exchange, contactVars, routeVars, manifestVars, restarts>>

ContactLeases == INSTANCE FetchLeases
    WITH Keys <- Shipments, Clients <- Trackings, lease <- contactLease
RouteLeases == INSTANCE FetchLeases
    WITH Keys <- Bags, Clients <- RouteTasks, lease <- routeLease

ForceOf(r) == IF r \in Forced THEN BOOLEAN ELSE {FALSE}
NoJob == [none |-> TRUE]
Coming == DOMAIN exchange   \* the requests of the scenario
Running(task) == task.pc \notin {"idle", "done", "gone"}

-----------------------------------------------------------------------------
(* Contacts.  `have` are the parties whose phone the response carries,     *)
(* `lacks` those it had none for when the enrichment began.                *)

IdleContact == [pc |-> "idle", force |-> FALSE, have |-> {}, lacks |-> {},
                entry |-> NoContact]

ContactAt(t, label) == contactTask[t].pc = label
ContactGoes(t, label) == contactTask' = [contactTask EXCEPT ![t].pc = label]
(* A task that has ended keeps only what its response carries.             *)
ContactEnds(t, have) ==
    contactTask' = [contactTask EXCEPT ![t] = [IdleContact EXCEPT !.pc = "done",
                                                                  !.have = have]]

\* The primary lookup is answered; both phones present: nothing to enrich.
BeginContact(t) ==
    /\ ContactAt(t, "idle")
    /\ t \in Coming /\ Found(t)
    /\ \E have \in Primary[t], force \in ForceOf(t) :
          IF have = Parties THEN ContactEnds(t, have)
          ELSE contactTask' = [contactTask EXCEPT ![t] =
                 [IdleContact EXCEPT !.pc = "read", !.force = force,
                                     !.have = have, !.lacks = Parties \ have]]
    /\ UNCHANGED <<contacts, contactLease, contactJob>>

ReadContact(t) ==
    /\ ContactAt(t, "read")
    /\ GetContact(Shipment[t])
    /\ contactTask' = [contactTask EXCEPT ![t].pc = "decide",
                                          ![t].entry = ContactEntry(Shipment[t])]
    /\ UNCHANGED <<contactLease, contactJob>>

\* apply_cached_contact.
Applied(t) == IF contactTask[t].entry = NoContact THEN contactTask[t].have
              ELSE contactTask[t].have \cup Known(contactTask[t].entry.phones)

ContactSuffices(t) ==
    /\ ~contactTask[t].force
    /\ contactTask[t].entry # NoContact
    /\ ~RetryDue(contactTask[t].entry) \/ Applied(t) = Parties

ContactCached(t) ==
    /\ ContactAt(t, "decide") /\ ContactSuffices(t)
    /\ ContactEnds(t, Applied(t))
    /\ UNCHANGED <<contacts, contactLease, contactJob>>

TakesLeaseIfForced(t, s) ==                                     \* mutant
    \/ ContactLeases!Start(t, s)
    \/ /\ contactTask[t].force
       /\ contactLease' = [contactLease EXCEPT ![s].holder = t]
TakesLease(t, s) == ContactLeases!Start(t, s)

ContactBegins(t) ==
    /\ ContactAt(t, "decide") /\ ~ContactSuffices(t)
    /\ \/ TakesLease(t, Shipment[t])
          /\ contactTask' = [contactTask EXCEPT ![t].pc = "permit",
                 ![t].have = Applied(t), ![t].entry = NoContact]
       \/ ContactLeases!Wait(t, Shipment[t])
          /\ contactTask' = [contactTask EXCEPT ![t].pc = "waiting",
                 ![t].have = Applied(t), ![t].entry = NoContact]
    /\ UNCHANGED <<contacts, contactJob>>

ContactWakes(t) ==
    /\ ContactAt(t, "waiting") /\ ContactLeases!Notified(t, Shipment[t])
    /\ contactTask' = [contactTask EXCEPT ![t].pc = "read", ![t].force = FALSE]
    /\ UNCHANGED <<contacts, contactLease, contactJob>>

\* The contact lane grants its permit, or refuses: the lookup still answers.
ContactPermit(t) ==
    /\ ContactAt(t, "permit")
    /\ \/ ContactGoes(t, "lacak_mitra") /\ UNCHANGED contactLease
       \/ ContactEnds(t, contactTask[t].have)
          /\ ContactLeases!Drop(t, Shipment[t])
    /\ UNCHANGED <<contacts, contactJob>>

Writes(t, found, failed, source) ==
    /\ contactJob' = [contactJob EXCEPT ![t] =
           [phones |-> [p \in Parties |-> IF p \in found THEN source ELSE NoPhone],
            failed |-> failed, source |-> source]]
    /\ ContactGoes(t, "storing")

\* fetch_contact_from_sources: lacak mitra, then PID detail when it fails.
ContactFetched(t) ==
    /\ \E source \in Sources : ContactAt(t, source)
    /\ \/ \E page \in ContactPages :
             ContactRead(page, Shipment[t])
             /\ Writes(t, ContactPhones(page), FALSE, contactTask[t].pc)
       \/ ContactAt(t, "lacak_mitra")
          /\ ContactGoes(t, "pid_detail") /\ UNCHANGED contactJob
       \/ ContactAt(t, "pid_detail")
          /\ Writes(t, {}, TRUE, "lacak_mitra")
    /\ UNCHANGED <<contacts, contactLease>>

\* The blocking write, whether or not its request still waits for it.
ContactWritten(t) ==
    /\ contactJob[t] # NoJob
    /\ StoreContact(Shipment[t], contactJob[t].phones, contactJob[t].failed,
                    contactJob[t].source)
    /\ contactJob' = [contactJob EXCEPT ![t] = NoJob]
    /\ IF ContactAt(t, "storing")
       THEN contactTask' = [contactTask EXCEPT
                ![t].pc = IF contactJob[t].failed THEN "failed" ELSE "stored",
                ![t].entry = ContactToStore(Shipment[t], contactJob[t].phones,
                                            contactJob[t].failed, contactJob[t].source)]
       ELSE UNCHANGED contactTask
    /\ UNCHANGED contactLease

\* A fresh result replaces the phones the response lacked; a failure adds.
ContactAnswered(t) ==
    /\ ContactAt(t, "stored") \/ ContactAt(t, "failed")
    /\ LET found == Known(contactTask[t].entry.phones) IN
       ContactEnds(t, IF ContactAt(t, "stored")
                      THEN (contactTask[t].have \ contactTask[t].lacks)
                           \cup (found \cap contactTask[t].lacks)
                      ELSE contactTask[t].have \cup found)
    /\ ContactLeases!Drop(t, Shipment[t])
    /\ UNCHANGED <<contacts, contactJob>>

\* The deadline, or the client's hanging up, drops the future.
ContactDropped(t) ==
    /\ Running(contactTask[t])
    /\ contactTask' = [contactTask EXCEPT ![t] = [IdleContact EXCEPT !.pc = "gone"]]
    /\ ContactLeases!Drop(t, Shipment[t])
    /\ UNCHANGED <<contacts, contactJob>>

ContactStep(t) ==
    \/ BeginContact(t) \/ ReadContact(t) \/ ContactCached(t) \/ ContactBegins(t)
    \/ ContactWakes(t) \/ ContactPermit(t) \/ ContactFetched(t)
    \/ ContactAnswered(t)

-----------------------------------------------------------------------------
(* Bag routes.  `manifest` is the route of the Print index, read once;     *)
(* `known` the offices of the label cached so far.                         *)

IdleRoute == [pc |-> "idle", force |-> FALSE, known |-> NoRoute,
              manifest |-> NoRoute, entry |-> NoRow]

RouteAt(c, label) == routeTask[c].pc = label
RouteGoes(c, label) == routeTask' = [routeTask EXCEPT ![c].pc = label]
RouteEnds(c, route) ==
    routeTask' = [routeTask EXCEPT ![c] = [IdleRoute EXCEPT !.pc = "done",
                                                            !.known = route]]

(* enrich_tracking_bag_routes: a tracking spawns at most MaxRouteTasks at  *)
(* a time, once its contacts are done.                                     *)
MaySpawn(c) ==
    IF c[1] \notin Trackings THEN Found(c[1])
    ELSE
        /\ contactTask[c[1]].pc = "done"
        /\ Cardinality({d \in RouteTasks : d[1] = c[1] /\ Running(routeTask[d])})
               < MaxRouteTasks

BeginRoute(c) ==
    /\ c[1] \in Coming /\ RouteAt(c, "idle") /\ MaySpawn(c)
    /\ \E force \in ForceOf(c[1]) :
          routeTask' = [routeTask EXCEPT ![c].pc = "index", ![c].force = force]
    /\ UNCHANGED <<routes, routeLease, routeJob>>

ReadIndex(c) ==
    /\ RouteAt(c, "index")
    /\ \E route \in ManifestRoutes(c[2], NoRoute) :
          routeTask' = [routeTask EXCEPT ![c].pc = "read", ![c].manifest = route]
    /\ UNCHANGED <<routes, routeLease, routeJob>>

ReadRoute(c) ==
    /\ RouteAt(c, "read")
    /\ GetRoute(c[2])
    /\ routeTask' = [routeTask EXCEPT ![c].pc = "decide", ![c].entry = RouteEntry(c[2])]
    /\ UNCHANGED <<routeLease, routeJob>>

(* select_bag_route: a complete label, a complete manifest, either.        *)
Selected(label, manifest) ==
    IF Complete(label) THEN label
    ELSE IF Complete(manifest) THEN manifest
    ELSE IF label # NoRoute THEN label ELSE manifest

KnownNow(c) == IF routeTask[c].entry = NoRow THEN routeTask[c].known
               ELSE routeTask[c].entry.route

RouteSuffices(c) ==
    /\ ~routeTask[c].force
    /\ \/ routeTask[c].entry # NoRow /\ ~RouteRetryDue(routeTask[c].entry)
       \/ Complete(routeTask[c].manifest)

RouteCached(c) ==
    /\ RouteAt(c, "decide") /\ RouteSuffices(c)
    /\ RouteEnds(c, Selected(KnownNow(c), routeTask[c].manifest))
    /\ UNCHANGED <<routes, routeLease, routeJob>>

RouteBegins(c) ==
    /\ RouteAt(c, "decide") /\ ~RouteSuffices(c)
    /\ \/ RouteLeases!Start(c, c[2])
          /\ routeTask' = [routeTask EXCEPT ![c].pc = "permit",
                 ![c].known = KnownNow(c), ![c].entry = NoRow]
       \/ RouteLeases!Wait(c, c[2])
          /\ routeTask' = [routeTask EXCEPT ![c].pc = "waiting",
                 ![c].known = KnownNow(c), ![c].entry = NoRow]
    /\ UNCHANGED <<routes, routeJob>>

RouteWakes(c) ==
    /\ RouteAt(c, "waiting") /\ RouteLeases!Notified(c, c[2])
    /\ routeTask' = [routeTask EXCEPT ![c].pc = "read", ![c].force = FALSE]
    /\ UNCHANGED <<routes, routeLease, routeJob>>

RoutePermit(c) ==
    /\ RouteAt(c, "permit")
    /\ \/ RouteGoes(c, "label") /\ UNCHANGED routeLease
       \/ RouteEnds(c, Selected(routeTask[c].known, routeTask[c].manifest))
          /\ RouteLeases!Drop(c, c[2])
    /\ UNCHANGED <<routes, routeJob>>

(* scrape_pos_bag_route under its timeout: a label without an office is an *)
(* error (parse_bag_route_html), and every error is a failure.             *)
RouteFetched(c) ==
    /\ RouteAt(c, "label")
    /\ \E label \in Labels : routeJob' = [routeJob EXCEPT ![c] =
           [route |-> IF LabelRead(label) THEN LabelOffices(label) ELSE NoRoute]]
    /\ RouteGoes(c, "storing")
    /\ UNCHANGED <<routes, routeLease>>

RouteWritten(c) ==
    /\ routeJob[c] # NoJob
    /\ StoreRoute(c[2], routeJob[c].route)
    /\ routeJob' = [routeJob EXCEPT ![c] = NoJob]
    /\ IF RouteAt(c, "storing")
       THEN routeTask' = [routeTask EXCEPT ![c].pc = "stored",
                ![c].known = RouteToStore(c[2], routeJob[c].route).route]
       ELSE UNCHANGED routeTask
    /\ UNCHANGED routeLease

RouteAnswered(c) ==
    /\ RouteAt(c, "stored")
    /\ RouteEnds(c, Selected(routeTask[c].known, routeTask[c].manifest))
    /\ RouteLeases!Drop(c, c[2])
    /\ UNCHANGED <<routes, routeJob>>

(* The 20-second budget, or the client's hanging up, aborts every task of  *)
(* the request: those not begun never run.                                 *)
RoutesDropped(r) ==
    LET mine == {c \in RouteTasks : c[1] = r /\ routeTask[c].pc \notin {"done", "gone"}} IN
    /\ \E c \in mine : Running(routeTask[c])
    /\ routeTask' = [c \in RouteTasks |->
           IF c \in mine THEN [IdleRoute EXCEPT !.pc = "gone"] ELSE routeTask[c]]
    /\ routeLease' = [b \in Bags |-> IF <<r, b>> \in mine
                                     THEN RouteLeases!Without(<<r, b>>, b)
                                     ELSE routeLease[b]]
    /\ UNCHANGED <<routes, routeJob>>

RouteStep(c) ==
    \/ BeginRoute(c) \/ ReadIndex(c) \/ ReadRoute(c) \/ RouteCached(c)
    \/ RouteBegins(c) \/ RouteWakes(c) \/ RoutePermit(c) \/ RouteFetched(c)
    \/ RouteAnswered(c)

-----------------------------------------------------------------------------
(* Manifests: the PID page and the Print snapshot are fetched together.    *)

IdleManifest == [pc |-> "idle", force |-> FALSE, cached |-> NoPrint,
                 job |-> NoJob, answer |-> "none"]

ManifestAt(m, label) == manifestTask[m].pc = label

BeginManifest(m) ==
    /\ m \in Coming /\ ManifestAt(m, "idle")
    /\ \E force \in ForceOf(m) :
          manifestTask' = [manifestTask EXCEPT ![m].pc = "read", ![m].force = force]
    /\ UNCHANGED <<prints, printBags>>

(* resolve_manifest_snapshot: a snapshot below 24 hours is used as it is,  *)
(* unless the request forces a refresh.                                    *)
ReadPrint(m) ==
    /\ ManifestAt(m, "read")
    /\ LET entry == PrintEntry(Manifest[m]) IN
       manifestTask' = [manifestTask EXCEPT
           ![m].pc = IF ~manifestTask[m].force /\ entry # NoPrint
                        /\ entry.status = "cache_hit"
                     THEN "print" ELSE "fetching",
           ![m].cached = entry]
    /\ UNCHANGED <<prints, printBags>>

(* The list leads to the Print.  A failed fetch serves the snapshot read   *)
(* before it, if there was one.                                            *)
PrintFetched(m) ==
    /\ ManifestAt(m, "fetching")
    /\ \/ \E list \in Lists, print \in PrintPages :
             /\ PrintRead(list, print, Manifest[m])
             /\ manifestTask' = [manifestTask EXCEPT ![m].pc = "storing", ![m].job =
                    [items |-> PrintRoutes(print), date |-> print.date, valid |-> ~print.big]]
       \/ manifestTask' = [manifestTask EXCEPT
              ![m].pc = IF manifestTask[m].cached # NoPrint THEN "print" ELSE "no print"]
    /\ UNCHANGED <<prints, printBags>>

PrintWritten(m) ==
    /\ manifestTask[m].job # NoJob
    /\ StoreManifest(Manifest[m], manifestTask[m].job)
    /\ manifestTask' = [manifestTask EXCEPT ![m].job = NoJob,
                            ![m].pc = IF @ = "storing" THEN "print" ELSE @]

(* merge_manifest_sources *)
MergedSources(pid, print) ==
    IF print THEN (IF pid THEN "print with pid status" ELSE "print")
    ELSE IF pid THEN "pid" ELSE "error"

ManifestAnswered(m) ==
    /\ ManifestAt(m, "print") \/ ManifestAt(m, "no print")
    /\ At(m, "done")
    /\ manifestTask' = [manifestTask EXCEPT ![m] = [IdleManifest EXCEPT !.pc = "done",
           !.answer = MergedSources(Found(m), ManifestAt(m, "print"))]]
    /\ UNCHANGED <<prints, printBags>>

ManifestDropped(m) ==
    /\ Running(manifestTask[m])
    /\ manifestTask' = [manifestTask EXCEPT ![m] =
           [IdleManifest EXCEPT !.pc = "gone", !.job = manifestTask[m].job]]
    /\ UNCHANGED <<prints, printBags>>

ManifestStep(m) ==
    BeginManifest(m) \/ ReadPrint(m) \/ PrintFetched(m) \/ ManifestAnswered(m)

-----------------------------------------------------------------------------
Tasks(contact, route, manifest) ==
    /\ contactTask = [t \in Trackings |-> contact]
    /\ routeTask = [c \in RouteTasks |-> route]
    /\ manifestTask = [m \in ManifestLookups |-> manifest]

(* A request that the lookup cache answers, from an earlier answer.        *)
Cached(a) == [Idle EXCEPT !.pc = "done", !.answer = "found",
                          !.body = CHOOSE b \in a.bodies : Read(a, b) = "found"]

Init ==
    /\ \E w \in Scenarios :
          /\ exchange = [x \in w.requests \cup w.asks |->
                            IF x \in w.asks THEN Idle ELSE Cached(Asked[x])]
          /\ ContactInit(w.contacts) /\ RouteInit(w.routes) /\ ManifestInit
    /\ ContactLeases!Init /\ RouteLeases!Init
    /\ Tasks(IdleContact, IdleRoute, IdleManifest)
    /\ contactJob = [t \in Trackings |-> NoJob]
    /\ routeJob = [c \in RouteTasks |-> NoJob]
    /\ restarts = 0

(* The process ends; what was in memory is gone, a blocking write that had *)
(* not begun too, and the stores are opened again.  A request that the     *)
(* source had answered and that was not yet being enriched goes on after   *)
(* it: it is asked again and finds its answer in the lookup cache.         *)
Restart ==
    /\ restarts < MaxRestarts /\ restarts' = restarts + 1
    /\ exchange' = CutShort
    /\ OpenContacts /\ OpenRoutes /\ UNCHANGED <<prints, printBags>>
    /\ contactLease' = [s \in Shipments |-> ContactLeases!Free]
    /\ routeLease' = [b \in Bags |-> RouteLeases!Free]
    /\ contactTask' = [t \in Trackings |->
           IF Running(contactTask[t]) THEN [IdleContact EXCEPT !.pc = "gone"]
           ELSE contactTask[t]]
    /\ routeTask' = [c \in RouteTasks |->
           IF Running(routeTask[c])
              \/ (RouteAt(c, "idle") /\ c[1] \in Trackings
                  /\ ~ContactAt(c[1], "idle"))
           THEN [IdleRoute EXCEPT !.pc = "gone"] ELSE routeTask[c]]
    /\ manifestTask' = [m \in ManifestLookups |->
           IF Running(manifestTask[m]) \/ manifestTask[m].job # NoJob
           THEN [IdleManifest EXCEPT !.pc = "gone"] ELSE manifestTask[m]]
    /\ contactJob' = [t \in Trackings |-> NoJob]
    /\ routeJob' = [c \in RouteTasks |-> NoJob]

ContactNext(t) ==
    /\ ContactStep(t) \/ ContactWritten(t)
    /\ UNCHANGED <<exchange, routeVars, manifestVars, restarts>>
RouteNext(c) ==
    /\ RouteStep(c) \/ RouteWritten(c)
    /\ UNCHANGED <<exchange, contactVars, manifestVars, restarts>>
ManifestNext(m) ==
    /\ ManifestStep(m) \/ PrintWritten(m)
    /\ UNCHANGED <<exchange, contactVars, routeVars, restarts>>

Drops ==
    \/ /\ \E t \in Trackings : ContactDropped(t)
       /\ UNCHANGED <<exchange, routeVars, manifestVars, restarts>>
    \/ /\ \E r \in Trackings \cup BagLookups : RoutesDropped(r)
       /\ UNCHANGED <<exchange, contactVars, manifestVars, restarts>>
    \/ /\ \E m \in ManifestLookups :
             ManifestDropped(m) /\ exchange' = IF Ongoing(m) THEN Dropped(m) ELSE exchange
       /\ UNCHANGED <<contactVars, routeVars, restarts>>
    \/ /\ \E x \in Coming \ ManifestLookups : HangUp(x)
       /\ UNCHANGED <<contactVars, routeVars, manifestVars, restarts>>

Ages ==
    \/ /\ \E s \in Shipments : AgeContact(s)
       /\ UNCHANGED <<exchange, contactLease, contactTask, contactJob, routeVars, manifestVars,
                      restarts>>
    \/ /\ \E b \in Bags : AgeRoute(b)
       /\ UNCHANGED <<exchange, routeLease, routeTask, routeJob, contactVars, manifestVars,
                      restarts>>
    \/ /\ \E m \in Manifests : AgePrint(m)
       /\ UNCHANGED <<exchange, manifestTask, contactVars, routeVars, restarts>>

(* The source is asked; a manifest's page, beside the Print.               *)
ExchangeNext(x) ==
    /\ x \in ManifestLookups => Running(manifestTask[x])
    /\ UpstreamStep(x, Asked[x])
    /\ UNCHANGED <<contactVars, routeVars, manifestVars, restarts>>

Next == \/ \E x \in Coming : ExchangeNext(x)
        \/ \E t \in Trackings : ContactNext(t)
        \/ \E c \in RouteTasks : RouteNext(c)
        \/ \E m \in ManifestLookups : ManifestNext(m)
        \/ Drops \/ Ages \/ Restart

(* The runtime polls every task that can go on; every fetch has a timeout, *)
(* every wait for a permit a deadline, and SQLite a busy timeout.  Nobody  *)
(* has to hang up, to grow old or to restart.                              *)
Fairness == /\ WF_vars(\E x \in Coming : ExchangeNext(x))
            /\ \A t \in Trackings : WF_vars(ContactNext(t))
            /\ \A c \in RouteTasks : WF_vars(RouteNext(c))
            /\ \A m \in ManifestLookups : WF_vars(ManifestNext(m))

Spec == Init /\ [][Next]_vars /\ Fairness

-----------------------------------------------------------------------------
\* Properties

(* A failed or an emptier acquisition never costs a phone or an office     *)
(* that was known: a shipment's phones are lost only at 90 days, a bag's   *)
(* offices never, and both to the capacity of the cache, when another row  *)
(* takes their place (contact_cache.rs, store_with_source and get;         *)
(* bag_route_cache.rs, store and get; docs/service-api-v1.md:613).         *)
PhonesSurvive ==
    \A s \in Shipments : Stored(s) /\ contacts[s].decodes /\ contacts[s].age < Aged =>
        IF Stored(s)' THEN Known(contacts[s].phones) \subseteq Known(contacts'[s].phones)
        ELSE \/ Known(contacts[s].phones) = {}
             \/ \E n \in Shipments : ~Stored(n) /\ Stored(n)'
OfficesSurvive ==
    \A b \in Bags : routes[b] # NoRow /\ routes[b].decodes =>
        IF routes'[b] # NoRow
        THEN OfficesOf(routes[b].route) \subseteq OfficesOf(routes'[b].route)
        ELSE \/ OfficesOf(routes[b].route) = {}
             \/ \E n \in Bags : routes[n] = NoRow /\ routes'[n] # NoRow
KnownSurvives == [][PhonesSurvive /\ OfficesSurvive]_vars

(* The source a contact is attributed to is the one all its phones came    *)
(* from, whatever was merged in whatever order; otherwise it is "mixed"    *)
(* (contact_cache.rs, store_with_source; docs/service-api-v1.md:636).      *)
SourceTruthful ==
    \A s \in Shipments : Stored(s) /\ contacts[s].decodes => Truthful(contacts[s])

(* Of the requests that enrich one shipment, or one bag, at most one is at *)
(* the source, forced or not, also when others are dropped and retried     *)
(* (begin_fetch and the Drop of the lease in both caches;                  *)
(* docs/service-api-v1.md:576).                                            *)
Acquiring == {"permit", "lacak_mitra", "pid_detail", "label", "storing", "stored", "failed"}
OneAcquisition ==
    /\ \A t, u \in Trackings :
          /\ contactTask[t].pc \in Acquiring /\ contactTask[u].pc \in Acquiring
          /\ Shipment[t] = Shipment[u]
          => t = u
    /\ \A c, d \in RouteTasks :
          routeTask[c].pc \in Acquiring /\ routeTask[d].pc \in Acquiring /\ c[2] = d[2]
          => c = d

(* Every request is answered or dropped in the end: a waiter is woken when *)
(* the request it waits for ends in any way (the leases' Drop), and none   *)
(* goes round the loop of begin_fetch for ever.                            *)
RequestsAnswered ==
    <>[](/\ \A x \in Coming : ~Ongoing(x)
         /\ \A t \in Trackings : ~Running(contactTask[t])
         /\ \A c \in RouteTasks : ~Running(routeTask[c])
         /\ \A m \in ManifestLookups : ~Running(manifestTask[m]))

(* A page is read as it is meant: every page that tells a story is found,  *)
(* and the report says what the story says: of each runsheet the last that *)
(* became of it, of each bag its last moves, the packages by their latest  *)
(* entries and not by the order of the page, a final status where the      *)
(* history has none, a bag's columns wherever they stand (parser.rs,       *)
(* parse_tracking_html; bag.rs, parse_bag_html).                           *)
ReadAsTold(kind, body) ==
    IF kind = "bag" THEN BagItems(body.tables) = body.story.items
    ELSE Reported(ReportOf(body.page), body.story)
PageRead ==
    \A x \in Coming : At(x, "done") /\ exchange[x].body # NoBody =>
        LET body == exchange[x].body IN
        "story" \in DOMAIN body =>
            exchange[x].answer = "found" /\ ReadAsTold(Asked[x].kind, body)
=============================================================================
