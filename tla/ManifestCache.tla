--------------------------- MODULE ManifestCache ---------------------------
(***************************************************************************)
(* Validated Print snapshots of manifests, and the index from bags to them *)
(* (crates/shipflow-service-runtime/src/manifest_cache.rs).  A snapshot is *)
(* the route its Print gives to each of its bags; its age is below 24      *)
(* hours, below 90 days, or above.  SQLite makes a transaction one step.   *)
(***************************************************************************)
EXTENDS Naturals, FiniteSets

CONSTANTS Manifests, MaxSnapshots

VARIABLES prints,      \* manifest_print_cache
          printBags    \* manifest_print_bags: pairs of a manifest and a bag

NoPrint == [none |-> TRUE]
FreshPrint == 0    StalePrint == 1    AgedPrint == 2

ASSUME PrintAssumption ==
    MaxSnapshots \in Nat \ {0}

Snapshots == {m \in Manifests : prints[m] # NoPrint}

ManifestInit == prints = [m \in Manifests |-> NoPrint] /\ printBags = {}

-----------------------------------------------------------------------------
\* get_manifest_async

PrintEntry(m) ==
    IF m \in Snapshots /\ prints[m].age < AgedPrint
    THEN [items |-> prints[m].items,
          status |-> IF prints[m].age >= StalePrint THEN "stale" ELSE "cache_hit"]
    ELSE NoPrint

-----------------------------------------------------------------------------
(* store_manifest_async.  An invalid snapshot (identity, count, size, or a *)
(* bag named twice) changes nothing.  Deleting a snapshot deletes its      *)
(* bags: ON DELETE CASCADE.                                                *)

Retained(table) ==
    {m \in Manifests : table[m] # NoPrint /\ table[m].age < AgedPrint}

(* The snapshots the eviction keeps; m, just stored, is the youngest.      *)
KeptSnapshots(table, m) ==
    {K \in SUBSET Retained(table) :
        /\ m \in K
        /\ \/ K = Retained(table) /\ Cardinality(K) <= MaxSnapshots
           \/ /\ Cardinality(K) = MaxSnapshots
              /\ \A out \in Retained(table) \ K : \A in \in K \ {m} :
                    table[out].age >= table[in].age}

OverOldBags(m, items) == printBags \cup {<<m, b>> : b \in DOMAIN items}  \* mutant
ReplacedBags(m, items) ==
    {pair \in printBags : pair[1] # m} \cup {<<m, b>> : b \in DOMAIN items}

StoreManifest(m, p) ==
    IF ~p.valid THEN UNCHANGED <<prints, printBags>>
    ELSE LET table == [prints EXCEPT ![m] = [items |-> p.items, date |-> p.date,
                                             age |-> FreshPrint]]
         IN  \E K \in KeptSnapshots(table, m) :
                /\ prints' = [n \in Manifests |-> IF n \in K THEN table[n] ELSE NoPrint]
                /\ printBags' = {pair \in ReplacedBags(m, p.items) : pair[1] \in K}

-----------------------------------------------------------------------------
(* get_manifest_bag_route_async: the route in the snapshot with the latest *)
(* date, then the latest fetch, among those below 90 days that the index   *)
(* names.  Of two of one age class, either may be the later.               *)

Naming(b) == {m \in Retained(prints) : <<m, b>> \in printBags}
Later(m, n) ==
    \/ prints[m].date > prints[n].date
    \/ prints[m].date = prints[n].date /\ prints[m].age <= prints[n].age
ManifestRoutes(b, noRoute) ==
    LET latest == {m \in Naming(b) : \A n \in Naming(b) : Later(m, n)} IN
    IF latest = {} THEN {noRoute} ELSE {prints[m].items[b] : m \in latest}

AgePrint(m) ==
    /\ m \in Snapshots /\ prints[m].age < AgedPrint
    /\ prints' = [prints EXCEPT ![m].age = @ + 1]
    /\ UNCHANGED printBags

(* The index names exactly the bags of the snapshots that are stored: a    *)
(* route is never served from a snapshot that was replaced or evicted      *)
(* (manifest_cache.rs, store_manifest_async: upsert, DELETE, INSERTs,      *)
(* retention and eviction in one transaction).                             *)
ManifestIndexed ==
    printBags = UNION {{<<m, b>> : b \in DOMAIN prints[m].items} : m \in Snapshots}
=============================================================================
