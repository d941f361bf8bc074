-------------------------- MODULE MCServiceProcess --------------------------
(* Instances of ServiceProcess for TLC.                                    *)
EXTENDS ServiceProcess, TLC

CONSTANTS k1, k2, h1, h2, h3, i1, i2, sd, ui, uh, ux

MCMethod == [r \in Requests |-> IF r = h3 THEN "readiness"
                               ELSE IF r \in {sd, ux} THEN "shutdown" ELSE "lookup"]
MCKey == [r \in Requests |-> k1]

Options(public, required) ==
    [httpConcurrency |-> 128, httpQueue |-> 512, lookupConcurrency |-> 20,
     lookupQueue |-> 200, publicConcurrency |-> public, contactConcurrency |-> 10,
     cacheEntries |-> 10000, cacheMiB |-> 64, persistentEntries |-> 2000,
     ttls |-> {60, 300, 1800, 86400}, requirePersistence |-> required,
     absoluteDirectory |-> TRUE]
External(url, insecure, addresses) ==
    [external |-> TRUE, url |-> url, insecure |-> insecure, token |-> TRUE,
     addresses |-> addresses]
Scraping == [external |-> FALSE, url |-> "", insecure |-> FALSE, token |-> FALSE, addresses |-> {}]
Config(options, endpoint, file) ==
    [options |-> options, authToken |-> TRUE, endpoint |-> endpoint,
     internalToken |-> endpoint, source |-> Scraping, port |-> 18422, file |-> file]

(* What the desktop application writes, a container's command line; a      *)
(* public share above the lookups' own concurrency, and an external API in *)
(* the local network that was not allowed for.                             *)
Desktop == Config(Options(10, FALSE), TRUE, TRUE)
Required == Config(Options(10, TRUE), TRUE, TRUE)
Container == Config(Options(10, TRUE), FALSE, FALSE)
Local == [Container EXCEPT !.source = External("https", FALSE, {"public", "private"})]
Wrong == Config(Options(21, FALSE), TRUE, TRUE)

Empty == k1 :> NoRow @@ k2 :> NoRow
Stored == [by |-> "earlier", life |-> "fresh"]
Fresh == k1 :> Stored @@ k2 :> NoRow
Old == k1 :> [Stored EXCEPT !.life = "old"] @@ k2 :> NoRow
MCBootLegacy == {k1 :> Stored @@ k2 :> Stored}

Scenario(c, p, t, requests, n) ==
    [config |-> c, path |-> p, table |-> t, requests |-> requests, relaunches |-> n]

(* Two lookups of a key, over either server; a lookup with a readiness     *)
(* probe, and with a shutdown, over HTTP and over the socket; a shutdown   *)
(* and lookups without the token; restarts; and refused launches.          *)
MCScenarios ==
    {Scenario(Container, "absent", Empty, {h1, h2}, 0),
     Scenario(Container, "absent", Empty, {h1, h3}, 0),
     Scenario(Container, "absent", Old, {h1}, 1),
     Scenario(Required, "socket", Old, {h1, sd}, 0),
     Scenario(Required, "socket", Old, {i1, sd}, 0),
     Scenario(Desktop, "socket", Empty, {sd, ux}, 0),
     Scenario(Desktop, "absent", Empty, {ui, uh}, 0),
     Scenario(Required, "absent", Fresh, {i1, i2}, 0),
     Scenario(Desktop, "absent", Old, {i1}, 1),
     Scenario(Desktop, "blocked", Old, {h1}, 0),
     Scenario(Local, "absent", Empty, {h1}, 0),
     Scenario(Wrong, "absent", Empty, {h1}, 0)}
=============================================================================
