--------------------------- MODULE BagRouteCache ---------------------------
(***************************************************************************)
(* The persistent cache of bag-label routes                                *)
(* (crates/shipflow-service-runtime/src/bag_route_cache.rs).  A route is   *)
(* the set of its offices the label names.  A row is below or above five   *)
(* minutes old; one with a known office has no other age.                  *)
(***************************************************************************)
EXTENDS Naturals, FiniteSets, FiniteSetsExt

CONSTANTS Bags, MaxRoutes, BootRoutes

VARIABLE routes   \* the table bag_route_cache

Offices == {"lokasi_asal", "tujuan"}
NoRoute == {"no route"}   \* route_json NULL
Routes == (SUBSET Offices) \cup {NoRoute}
OfficesOf(route) == IF route = NoRoute THEN {} ELSE route
Complete(route) == OfficesOf(route) = Offices

RouteRow == [route : Routes, due : BOOLEAN, decodes : BOOLEAN,
             status : {"ok", "partial", "missing", "failed"}]
NoRow == [none |-> TRUE]

(* The rows an earlier process left are such as store writes: a failed or  *)
(* a missing one names no office.                                          *)
Labelled(row) ==
    row.decodes => (row.status \in {"failed", "missing"} => OfficesOf(row.route) = {})

ASSUME RouteAssumption ==
    /\ MaxRoutes \in Nat \ {0} /\ IsFiniteSet(Bags)
    /\ BootRoutes \subseteq [Bags -> RouteRow \cup {NoRow}]
    /\ \A table \in BootRoutes : \A b \in Bags :
          table[b] # NoRow => Labelled(table[b])

RouteStatus(route) ==
    IF Complete(route) THEN "ok" ELSE IF OfficesOf(route) # {} THEN "partial" ELSE "missing"

RouteRetryDue(row) == row.status # "ok" /\ row.due
RouteExpired(row) == row.status \in {"missing", "failed"} /\ row.due

-----------------------------------------------------------------------------
\* get

RouteReadable(b) == routes[b] # NoRow /\ routes[b].decodes /\ ~RouteExpired(routes[b])

RouteEntry(b) ==
    IF ~RouteReadable(b) THEN NoRow
    ELSE [routes[b] EXCEPT
            !.status = IF @ = "ok" THEN RouteStatus(routes[b].route) ELSE @]

GetRoute(b) ==
    routes' = IF RouteReadable(b) THEN routes ELSE [routes EXCEPT ![b] = NoRow]

-----------------------------------------------------------------------------
(* store: a failure (NoRoute) keeps the previous offices, a fresh route is *)
(* completed by them.                                                      *)

PreviousRoute(b) ==
    IF routes[b] # NoRow /\ routes[b].decodes THEN routes[b].route ELSE NoRoute

ReplacedRoute(b, route) ==                       \* mutant: no merge
    [route |-> route, due |-> FALSE, decodes |-> TRUE,
     status |-> IF route = NoRoute THEN "failed" ELSE RouteStatus(route)]
RouteToStore(b, route) ==
    LET previous == PreviousRoute(b)
        merged == IF previous = NoRoute THEN route ELSE OfficesOf(route) \cup previous
    IN  [route |-> merged, due |-> FALSE, decodes |-> TRUE,
         status |-> IF route # NoRoute THEN RouteStatus(merged)
                    ELSE IF previous = NoRoute THEN "failed" ELSE "partial"]

RoutePrunings(table, recent) ==
    LET live == {b \in Bags : table[b] # NoRow /\ ~RouteExpired(table[b])}
        room == IF Cardinality(live) < MaxRoutes THEN Cardinality(live) ELSE MaxRoutes
    IN  {[b \in Bags |-> IF b \in S THEN table[b] ELSE NoRow] :
            S \in {K \in kSubset(room, live) : recent \cap live \subseteq K}}

StoreRoute(b, route) ==
    routes' \in RoutePrunings([routes EXCEPT ![b] = RouteToStore(b, route)], {b})

RouteInit(boot) == \E table \in boot : routes \in RoutePrunings(table, {})
OpenRoutes == routes' \in RoutePrunings(routes, {})

AgeRoute(b) ==
    /\ routes[b] # NoRow /\ ~routes[b].due
    /\ routes' = [routes EXCEPT ![b].due = TRUE]
=============================================================================
