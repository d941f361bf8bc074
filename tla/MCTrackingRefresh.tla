------------------------- MODULE MCTrackingRefresh -------------------------
(* Instances of TrackingRefresh for TLC.                                   *)
EXTENDS TrackingRefresh, TLC

CONSTANTS r1, r2, r3, sA, sB, lA, lB

Saved(s, l, st, has) == [sheet |-> s, lookup |-> l, status |-> st, shipment |-> has]
Present(s, l) ==
    [sheet |-> s, lookup |-> l, gen |-> 0, status |-> "empty", record |-> NoRecord]

(* A document saved while its first row was being refreshed; it reuses the *)
(* row ids of the document it replaces.                                    *)
MCDocuments == {(r1 :> Saved(sA, lA, "loading", TRUE))
                    @@ (r2 :> Saved(sA, lB, "loaded", TRUE))}
TwoLookups == (r1 :> Present(sA, lA)) @@ (r2 :> Present(sA, lB))
SharedLookup == (r1 :> Present(sA, lA)) @@ (r2 :> Present(sA, lA))
                    @@ (r3 :> Present(sA, lB))
=============================================================================
