---------------------------- MODULE FetchLeases ----------------------------
(***************************************************************************)
(* The in_flight table that the contact cache and the bag-route cache each *)
(* keep: at most one lease per key, and the waiters its Notify will wake.  *)
(* Every operator is one section under the mutex of in_flight; Drop sends  *)
(* notify_waiters before it unlocks, so the two are one step.              *)
(***************************************************************************)
CONSTANTS Keys, Clients, Nobody

VARIABLE lease   \* lease[k]: who holds it, and who awaits its Notify

Free == [holder |-> Nobody, waiting |-> {}]

Init == lease = [k \in Keys |-> Free]

\* begin_fetch: Start when the table has no entry, Wait otherwise.
Start(c, k) ==
    /\ lease[k].holder = Nobody
    /\ lease' = [lease EXCEPT ![k] = [holder |-> c, waiting |-> {}]]
Wait(c, k) ==
    /\ lease[k].holder # Nobody
    /\ lease' = [lease EXCEPT ![k].waiting = @ \cup {c}]

Notified(c, k) == c \notin lease[k].waiting

\* The table once c is gone from k: its lease dropped, or its wait.
DropWithoutNotify(c, k) ==
    IF lease[k].holder = c THEN [lease[k] EXCEPT !.holder = Nobody]
    ELSE [lease[k] EXCEPT !.waiting = @ \ {c}]
Without(c, k) ==
    IF lease[k].holder = c THEN Free
    ELSE [lease[k] EXCEPT !.waiting = @ \ {c}]
Drop(c, k) == lease' = [lease EXCEPT ![k] = Without(c, k)]
=============================================================================
