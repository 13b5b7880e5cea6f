---- MODULE MCBackground ----
(***************************************************************************)
(* Background for TLC.  Each quota is a scenario: what happens in it, and   *)
(* how often; a "bad" answer is a request that was wrong.                   *)
(***************************************************************************)
EXTENDS Background

CONSTANTS alice, carol, n1, n2, d1, d2, d3, s1, s2, s3, whole

Sections3 == [d \in Docs |-> IF d = d1 THEN {s1, s2} ELSE IF d = d2 THEN {s1} ELSE {s2, s3}]

Nothing == [write |-> 0, find |-> 0, onward |-> "none", triage |-> FALSE, bad |-> 0, other |-> 0, outage |-> 0,
            restart |-> 0, ingest |-> {}, queued |-> FALSE, day |-> 0, ends |-> 0, extend |-> 0, prune |-> 0, tenants |-> None]

\* Entries are written and linked, and handed over or sorted.
Linking == [Nothing EXCEPT !.write = 3]
LinkingFound == [Nothing EXCEPT !.write = 2, !.find = 1]
HandingOver == [Nothing EXCEPT !.onward = "intake", !.triage = TRUE, !.write = 2, !.find = 1]
Sorting == [Nothing EXCEPT !.onward = "review", !.write = 2, !.bad = 1]
Restarting == [Nothing EXCEPT !.onward = "intake", !.write = 2, !.restart = 1]
\* The models fail, and go out.
Failing == [Nothing EXCEPT !.onward = "intake", !.triage = TRUE, !.write = 1, !.bad = 3]
Outages == [Nothing EXCEPT !.onward = "intake", !.triage = TRUE, !.write = 1, !.outage = 1, !.other = 1]
\* Documents are ingested, one after the other, and pruned and swept.
Ingesting3 == [Nothing EXCEPT !.ingest = Docs, !.bad = 1, !.restart = 1]
Waiting == [Nothing EXCEPT !.ingest = {d1, d3}, !.queued = TRUE, !.day = 1, !.prune = 1]
Pruning == [Nothing EXCEPT !.ingest = {d1, d3}, !.ends = 2, !.extend = 1, !.prune = 1]
IngestOutage == [Nothing EXCEPT !.ingest = {d1, d2}, !.outage = 1, !.other = 1]
\* Roles come and go while passes break off and calls fail.
Users == [t \in Tenants |-> "user"]
Losing == [Nothing EXCEPT !.tenants = [first |-> Users, role |-> 1, fault |-> 1, restart |-> 1]]
Nobody == [t \in Tenants |-> "none"]
Gaining == [Nothing EXCEPT !.tenants = [first |-> Nobody, role |-> 2, fault |-> 1, restart |-> 0]]
Scenarios == {Linking, LinkingFound, HandingOver, Sorting, Restarting, Failing, Outages,
              Ingesting3, Waiting, Pruning, IngestOutage, Losing, Gaining}

====
