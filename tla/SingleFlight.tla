---------------------------- MODULE SingleFlight ----------------------------
(***************************************************************************)
(* What the lookup cache promises about source acquisitions, with no slot, *)
(* notification, capacity or expiry in sight: of the fetches that may      *)
(* still publish their result, at most one runs for each key.  An          *)
(* invalidation abandons them all: they run on, but publish nothing.       *)
(***************************************************************************)
CONSTANTS Requests, Keys

VARIABLE flight   \* flight[k]: the fetches of k that may publish

Init == flight = [k \in Keys |-> {}]

Begin(r, k) ==
    /\ flight[k] = {}
    /\ \A j \in Keys : r \notin flight[j]
    /\ flight' = [flight EXCEPT ![k] = {r}]

\* The fetch publishes a result, or is given up.
End(r, k) ==
    /\ flight[k] = {r}
    /\ flight' = [flight EXCEPT ![k] = {}]

AbandonAll == flight' = [k \in Keys |-> {}]

Next == \/ \E r \in Requests, k \in Keys : Begin(r, k) \/ End(r, k)
        \/ AbandonAll

Spec == Init /\ [][Next]_flight
=============================================================================
