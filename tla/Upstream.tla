------------------------------ MODULE Upstream ------------------------------
(***************************************************************************)
(* How a lookup is asked of its source (crates/shipflow-core/src/          *)
(* upstream.rs): a page of POS or an API of another ShipFlow service, with *)
(* retries, a second request when the API is slow, the API's former routes *)
(* when it does not know the new ones, and the kind of answer or error     *)
(* that becomes of it.                                                     *)
(*                                                                         *)
(* What is asked is a record: `kind`; `source`; whether the identifier is  *)
(* valid; `base`, the path of the API's base URL, and whether that URL is  *)
(* acceptable; whether there is a token; and of the other side `served`,   *)
(* the prefixes below which it has its routes, the statuses and the bodies *)
(* it may answer with.  A status is an HTTP status, or 0 for a request     *)
(* that failed or timed out.                                               *)
(***************************************************************************)
EXTENDS TrackingPage, LookupPages

CONSTANTS
    Asked,          \* what is asked, and of whom, by who asks
    MaxAttempts     \* TRACKING_MAX_ATTEMPTS

(* The base of an API names its root, a version of it or the description   *)
(* of a version; a page of POS that is text is a page.                     *)
V1 == <<"v1">>
Openapi == <<"v1", "openapi.json">>
BaseNamed(base) ==
    /\ base.path \in {base.root, base.root \o V1, base.root \o Openapi}
    /\ base.versioned = (Range(base.path) \cap {"v1", "openapi.json"} # {})
    /\ base.root \in Seq(STRING)
    /\ LET n == Len(base.root) IN
       n > 0 => base.root[n] \notin {"v1", "openapi.json"}
ASSUME AskedAssumption ==
    /\ MaxAttempts \in Nat \ {0}
    /\ \A x \in DOMAIN Asked : LET a == Asked[x] IN
          /\ a.kind \in {"track", "bag", "manifest", "status", "html"}
          /\ a.source \in {"default", "external"} /\ BaseNamed(a.base)
          /\ a.statuses \subseteq 0 .. 999
          /\ \A body \in a.bodies :
                a.kind = "track" /\ a.source = "default" /\ body.text => "page" \in DOMAIN body

VARIABLE exchange   \* the requests of each lookup that is asked, and what they came to

External(a) == a.source = "external"    \* `a` is what is asked

(* A body: whether it is text within the limit of its size, and what the   *)
(* parser of its kind reads from it.                                       *)
NoBody == [none |-> TRUE]

Idle == [pc |-> "idle", legacy |-> FALSE, flights |-> 0, heard |-> <<>>,
         answer |-> "none", body |-> NoBody]

At(x, label) == exchange[x].pc = label
Answered(x, answer, body) ==
    [exchange[x] EXCEPT !.pc = "done", !.flights = 0, !.answer = answer, !.body = body]

-----------------------------------------------------------------------------
(* Where an API is asked: its base loses a final v1 or v1/openapi.json,    *)
(* and one that names a version has no former routes.                      *)

Normalized(path) ==
    LET n == Len(path)
        doc == n >= 2 /\ path[n - 1] = "v1" /\ path[n] = "openapi.json"
    IN  IF doc THEN SubSeq(path, 1, n - 2)
        ELSE IF n >= 1 /\ path[n] = "v1" THEN SubSeq(path, 1, n - 1)
        ELSE path
PrefersV1(path) == Range(path) \cap {"v1", "openapi.json"} # {}
Route(x, a) == Normalized(a.base.path) \o (IF exchange[x].legacy THEN <<>> ELSE <<"v1">>)

(* Nothing is sent for an identifier that is not one (the status of a      *)
(* service has none), to an API whose base is not acceptable or whose      *)
(* token is missing, or for what the source does not have.                 *)
BadId(a) == a.kind # "status" /\ ~a.id
BadBase(a) == External(a) /\ ~a.base.ok
NoToken(a) == External(a) /\ ~a.token
OtherSource(a) == a.kind = IF External(a) THEN "html" ELSE "status"
Refused(a) == BadId(a) \/ BadBase(a) \/ NoToken(a) \/ OtherSource(a)

Ask(x, a) ==
    /\ At(x, "idle")
    /\ exchange' = [exchange EXCEPT ![x] =
           IF Refused(a) THEN Answered(x, "bad_request", NoBody)
           ELSE [@ EXCEPT !.pc = "send"]]

(* The first request, or the next one when the delay is over.              *)
Send(x) ==
    /\ At(x, "send")
    /\ exchange' = [exchange EXCEPT ![x].pc = "flight", ![x].flights = 1]

(* An API that is slow is asked a second time; the first to end, answered  *)
(* or failed, counts and the other is dropped.                             *)
Hedge(x, a) ==
    /\ At(x, "flight") /\ External(a) /\ exchange[x].flights = 1
    /\ exchange' = [exchange EXCEPT ![x].flights = 2]

-----------------------------------------------------------------------------
\* What a status comes to

Successful(status) == status \in 200 .. 299
RetryableOnly5xx(status) == status >= 500 \/ status = 0           \* mutant
Retryable(status) == status = 429 \/ status \in 500 .. 599 \/ status = 0

StatusError(a, status) ==
    CASE status = 429                      -> "rate_limited"
      [] status = 404                      -> "not_found"
      [] status = 503                      -> "unavailable"
      [] status = 504 /\ ~External(a)      -> "unavailable"
      [] status = 400 /\ External(a)       -> "bad_request"
      [] OTHER                             -> "upstream"

(* The lists of a bag and of a manifest are limited, whoever sent them; so *)
(* is the history on a page of POS.                                        *)
ListOutcome(items) == IF Len(items) > MaxItems THEN "upstream" ELSE "found"
FoundIf(condition) == IF condition THEN "found" ELSE "upstream"

\* read_response_text_limited: the size and the encoding.
Text(body) == body.text

TrackRead(body) == PageOutcome(body.page)
BagRead(body) ==
    IF Headed(body.tables, BagHeadings) = 0 THEN "upstream"
    ELSE ListOutcome(BagItems(body.tables))
ManifestRead(body) ==
    IF Headed(body.tables, ManifestHeadings) = 0 THEN "upstream"
    ELSE ListOutcome(ManifestItems(body.tables))
StatusRead(body) == FoundIf(body.parses /\ body.running)
ApiRead(kind, body) ==
    IF body.parses /\ kind \in {"bag", "manifest"} THEN ListOutcome(body.items)
    ELSE FoundIf(body.parses)

Read(a, body) ==
    LET pos == Text(body) /\ ~External(a)
        api == Text(body) /\ External(a)
    IN  CASE ~Text(body)                       -> "upstream"
          [] api /\ a.kind = "status"          -> StatusRead(body)
          [] api /\ a.kind # "status"          -> ApiRead(a.kind, body)
          [] pos /\ a.kind = "html"            -> "found"
          [] pos /\ a.kind = "track"           -> TrackRead(body)
          [] pos /\ a.kind = "bag"             -> BagRead(body)
          [] pos /\ a.kind = "manifest"        -> ManifestRead(body)

-----------------------------------------------------------------------------
(* An answer, or the end of a request without one: again while it may pass *)
(* and attempts are left, once more below the former routes, or the end.   *)

Attempts(x) == Len(exchange[x].heard) + 1

Again(x, status) ==
    /\ Retryable(status) /\ Attempts(x) < MaxAttempts
    /\ exchange' = [exchange EXCEPT ![x].pc = "send", ![x].flights = 0,
                                    ![x].heard = Append(@, status)]

Ends(x, status) == ~Retryable(status) \/ Attempts(x) = MaxAttempts
HasLegacy(x, a) ==
    External(a) /\ ~exchange[x].legacy /\ ~PrefersV1(a.base.path)

FallBack(x, a, status) ==
    /\ Ends(x, status) /\ status = 404 /\ HasLegacy(x, a)
    /\ exchange' = [exchange EXCEPT ![x].pc = "send", ![x].flights = 0,
                                    ![x].legacy = TRUE, ![x].heard = <<>>]

Fail(x, a, status) ==
    /\ Ends(x, status) /\ ~Successful(status) /\ ~(status = 404 /\ HasLegacy(x, a))
    /\ exchange' = [exchange EXCEPT ![x] =
           [Answered(x, StatusError(a, status), NoBody) EXCEPT !.heard = Append(@, status)]]

Receive(x, a, status) ==
    /\ Successful(status)
    /\ \E body \in a.bodies :
          exchange' = [exchange EXCEPT ![x] =
              [Answered(x, Read(a, body), body) EXCEPT !.heard = Append(@, status)]]

(* Below a prefix it does not serve, an API answers 404 to everything.     *)
MaySay(x, a) ==
    IF External(a) /\ Route(x, a) \notin a.served
    THEN {s \in a.statuses : ~Successful(s)} \cup {404}
    ELSE a.statuses

Respond(x, a) ==
    /\ At(x, "flight")
    /\ \E status \in MaySay(x, a) :
          Again(x, status) \/ FallBack(x, a, status) \/ Fail(x, a, status) \/ Receive(x, a, status)

(* The deadline of the handler, or the client's hanging up, at any await.  *)
Ongoing(x) == At(x, "send") \/ At(x, "flight")
Dropped(x) == [exchange EXCEPT ![x] = [Idle EXCEPT !.pc = "gone"]]
HangUp(x) == Ongoing(x) /\ exchange' = Dropped(x)

UpstreamStep(x, a) == Ask(x, a) \/ Send(x) \/ Hedge(x, a) \/ Respond(x, a)

Found(x) == At(x, "done") /\ exchange[x].answer = "found"

(* What is left of the exchanges when the process ends.                    *)
CutShort == [x \in DOMAIN exchange |->
             IF Ongoing(x) THEN [Idle EXCEPT !.pc = "gone"] ELSE exchange[x]]

(* Every answer is earned: nothing that may pass is told before the last   *)
(* attempt, only a page that was read is told as found, and a shipment is  *)
(* told missing only by a page that says so, or by the API when a route    *)
(* it serves was asked, unless it serves none of them: a client whose      *)
(* base names the wrong version, or none, does not lose a shipment to the  *)
(* 404 of a route that is not there (upstream.rs, fetch_lookup_response,   *)
(* fetch_external_api_response and the fallback to the former routes).     *)
Transient(status) == status \in {0, 429} \cup 500 .. 599
Told404(x, a) ==
    LET base == a.base
        versions == {base.root \o <<"v1">>} \cup (IF base.versioned THEN {} ELSE {base.root})
        asked == {Route(x, a), Normalized(base.path) \o <<"v1">>}
    IN  ~External(a) \/ (asked \cap a.served = {} => versions \cap a.served = {})
AnswerEarned ==
    \A x \in DOMAIN exchange : At(x, "done") /\ exchange[x].heard # <<>> =>
        LET heard  == exchange[x].heard
            last   == heard[Len(heard)]
            answer == exchange[x].answer
        IN  /\ \A i \in 1 .. Len(heard) - 1 : Transient(heard[i])
            /\ Transient(last) => Len(heard) = MaxAttempts
            /\ answer = "found" => last \in 200 .. 299
            /\ answer \in {"rate_limited", "unavailable"} => Transient(last)
            /\ answer = "not_found" =>
                  \/ last = 404 /\ Told404(x, Asked[x])
                  \/ last \in 200 .. 299 /\ "page" \in DOMAIN exchange[x].body
                     /\ exchange[x].body.page.nothing
=============================================================================
