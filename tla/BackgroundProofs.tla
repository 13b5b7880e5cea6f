---- MODULE BackgroundProofs ----
(***************************************************************************)
(* Proofs about what goes on by itself: the types of all of it, that no        *)
(* entry is forgotten by the jobs, and that no document loses what it is       *)
(* made of, for any jobs, documents, tenants and scenarios.                    *)
(***************************************************************************)
EXTENDS Background, FiniteSetTheorems, WellFoundedInduction, TLAPS

--------------------------------------------------------------------------
(* What is called on                                                       *)

HealthInv == HealthTypeOK /\ quota \in QuotaUse

--------------------------------------------------------------------------
(* Jobs                                                                    *)

Answers == {"ok", "bad", "outage"}
TickRec == [due : SUBSET JobIds, at : JobIds \cup {None}, seen : 0 .. MaxText, answer : {None} \cup Answers,
            step : {"rest", "claim", "read", "mentions", "embed", "link", "triage", "fresh", "look", "insert"}]

JobsTypes ==
    /\ text \in [Notes -> 0 .. MaxText] /\ linked \in [Notes -> 0 .. MaxText] /\ handed \in [Notes -> 0 .. MaxText]
    /\ bare \subseteq Notes /\ lost \subseteq Notes
    /\ \A e \in bare : text[e] = 0 /\ MaxText > 0
    /\ job \in [JobIds -> {None} \cup JobRow]
    /\ queueing \in [Queueings -> {None} \cup Enqueued]
    /\ tick \in TickRec
    /\ calls \in 0 .. DailyCalls

\* A job that is tried may be tried once more.
TriesLeft == \A j \in JobIds : job[j] # None /\ job[j].status \in {"pending", "running"} => job[j].attempts < GiveUp

\* The one job that runs is the tick's, those it is to claim wait.
TickWorks ==
    /\ tick.step \in {"rest", "claim"} <=> tick.at = None
    /\ tick.at # None => Mine(tick.at) /\ job[tick.at].status = "running"
    /\ \A j \in tick.due : Mine(j) /\ job[j].status = "pending"
    /\ \A j \in JobIds : Mine(j) /\ job[j].status = "running" => tick.at = j

\* An entry is linked and handed over no further than it was written, nor, while a job is at it, than
\* that has read; and once that made its links, just as far.
Linking ==
    /\ \A e \in Notes : linked[e] <= text[e] /\ handed[e] <= text[e]
    /\ tick.step \notin {"rest", "claim", "read"} =>
          /\ tick.seen <= text[job[tick.at].e]
          /\ linked[job[tick.at].e] <= tick.seen /\ handed[job[tick.at].e] <= tick.seen
    /\ tick.step \in {"triage", "fresh", "look", "insert"} => linked[job[tick.at].e] = tick.seen

\* A job that is to see an entry's last text, and an enqueue that is to bring one.
Serves(j, e) ==
    /\ Mine(j) /\ job[j].e = e
    /\ \/ job[j].status \in {"pending", "failed"}
       \/ tick.at = j /\ (tick.step = "read" \/ tick.seen = text[e])
Asks(n, e) == queueing[n] # None /\ queueing[n].q.e = e

\* EntryNotForgotten, by jobs and enqueues.
ToLink(e) == \/ linked[e] = text[e]
             \/ \E n \in Queueings : Asks(n, e)
             \/ \E j \in JobIds : Serves(j, e)
ToHand(e) == \/ handed[e] = text[e]
             \/ \E n \in Queueings : Asks(n, e) /\ queueing[n].q.intake
             \/ \E j \in JobIds : Serves(j, e) /\ job[j].intake
NoneForgotten == \A e \in Notes \ lost : ToLink(e) /\ (quota.onward = "intake" => ToHand(e))

Working == JobsTypes /\ TriesLeft /\ TickWorks /\ Linking
JobsInv == Working /\ NoneForgotten

--------------------------------------------------------------------------
(* Documents                                                               *)

Writes == {"none", "asked", "direct", "pending", "executing", "started", "approved", "rejected", "dropped", "gone"}
Read == [r : Rows, doc : Docs]
IngestRec == [step : {"none", "entry", "entered", "sections", "sectioned", "drop", "facts", "ready"},
              before : Docs \cup {None}, left : SUBSET Names]
PruneRec == [step : {"rest", "archive", "delete"}, batch : SUBSET Read, gone : SUBSET Read]
SweepRec == [step : {"rest", "rows", "pending", "remove"}, stored : SUBSET Docs, live : SUBSET Docs]

DocsTypes ==
    /\ store \subseteq Docs /\ aged \subseteq Docs /\ loose \subseteq Docs /\ pruned \subseteq Rows
    /\ row \in [Rows -> {None} \cup Entry]
    /\ status \in {"none", "ingesting", "ready", "failed"}
    /\ write \in [Docs -> Writes]
    /\ ingests \in Seq(Docs) /\ ingest \in IngestRec /\ prune \in PruneRec /\ sweep \in SweepRec

\* What is in the graph, is being ingested, or was read by a pruning was given in and not put off.
Given(d) == write[d] \in {"direct", "started", "approved"}
GivenIn ==
    /\ \A r \in Rows : row[r] # None => Given(row[r].doc)
    /\ \A i \in DOMAIN ingests : Given(ingests[i])
    /\ ingest.before # None => Given(ingest.before)
    /\ \A x \in prune.batch \cup prune.gone : Given(x.doc)

\* A text that is waited for, and no sweep missed, is in the store: it is not a day old, unknown to the sweep, or known to it to be alive.
Waits(d) == write[d] \in {"asked", "pending", "executing"} /\ d \notin loose
TextsKept ==
    /\ \A d \in Docs : Waits(d) => d \in store
    /\ \A d \in Docs : (write[d] = "none" => d \notin store) /\ (write[d] \in {"none", "asked"} => d \notin aged)
    /\ sweep.step = "remove" => \A d \in Docs : Waits(d) => d \in sweep.live \/ d \notin aged \cap sweep.stored

HasWhole == row[Whole] # None
Of(n, d) == row[n] # None /\ row[n].doc = d
Past == ingest.step \in {"entered", "sections", "sectioned", "drop", "facts", "ready"}
AtSections == ingest.step \in {"entered", "sections", "sectioned"}

\* The ingest at work: its title's entry is its own from when it is written, or was pruned; and of its
\* sections it has written all but those left.
IngestRight ==
    /\ ingest.step # "none" => ingests # << >>
    /\ ingest.step = "entry" => ingest.left = SectionsOf[Doing] /\ (HasWhole => row[Whole].doc = ingest.before)
    /\ Past => /\ status # "ready" /\ ingest.left \subseteq SectionsOf[Doing]
               /\ IF HasWhole THEN row[Whole].doc = Doing ELSE Doing \in loose
               /\ \A n \in SectionsOf[Doing] \ ingest.left : n \in pruned \/ Of(n, Doing)
    /\ ingest.step \in {"drop", "facts", "ready"} => ingest.left = {}

\* Every section is the title's entry's, or one the ingest at work will replace, or loose.
SectionsKnown ==
    \A n \in Names : row[n] # None => \/ row[n].doc \in loose
                                      \/ HasWhole /\ row[n].doc = row[Whole].doc
                                      \/ AtSections /\ row[n].doc = ingest.before

Ready == status = "ready" => HasWhole /\ \A n \in SectionsOf[row[Whole].doc] \ pruned : Of(n, row[Whole].doc)

DocsInv == DocsTypes /\ GivenIn /\ TextsKept /\ IngestRight /\ SectionsKnown /\ Ready

--------------------------------------------------------------------------
(* Tenants                                                                 *)

Steps == {"objects", "token", "identity", "container", "stop", "deny", "deactivate", "empty"}
Notices == [Tenants -> {"none", "tenant", "identity"}]
PassRec == [pc : {"idle", "next"} \cup Steps, wanted : [Tenants -> Tiers \cup {"none"}],
            seen : [Tenants -> {"none", "stopped", "running"}], notes : Notices, todo : SUBSET Tenants, at : Tenants \cup {"none"}]

TenantsInv ==
    /\ chances \in {None} \cup TenantUse
    /\ role \in [Tenants -> Tiers \cup {"none"}] /\ container \in [Tenants -> {"none", "stopped", "running"}]
    /\ recorded \in Notices /\ group \subseteq Tenants \ Seed /\ account \subseteq Sandboxed
    /\ token \in [Tenants -> Tiers \cup {"none", "denied"}]
    /\ pass \in PassRec
    /\ pass.pc \in Steps => pass.at \in Tenants
    /\ pass.pc = "identity" => pass.at \in Sandboxed
    /\ pass.pc = "empty" => pass.at \notin Seed

--------------------------------------------------------------------------
(* What the helpers return                                                 *)

Counted == {"write", "find", "bad", "other", "outage", "restart", "day", "ends", "extend", "prune"}

\* What may still happen is counted down, and nothing else of a scenario changes.
LEMMA SpendKeeps ==
    ASSUME quota \in QuotaUse, NEW what \in Counted, Spend(what)
    PROVE  quota' \in QuotaUse /\ quota'.onward = quota.onward
  <1>1. quota[what] \in Nat /\ quota[what] > 0 /\ quota' = [quota EXCEPT ![what] = quota[what] - 1]
      BY DEF Spend, Counted, QuotaUse
  <1> DEFINE n == quota[what] - 1
  <1>2. n \in Nat
      BY <1>1
  <1> HIDE DEF n
  <1>3. quota' = [quota EXCEPT ![what] = n]
      BY <1>1 DEF n
  <1> QED BY <1>2, <1>3 DEF Counted, QuotaUse

\* A wrong request is counted.
LEMMA ChargeKeeps ==
    ASSUME quota \in QuotaUse, NEW d \in Deps, NEW answer \in Served(d), Charge(answer)
    PROVE  quota' \in QuotaUse /\ quota'.onward = quota.onward /\ answer \in Answers
  <1>1. answer \in Answers
      BY DEF Served, Answers
  <1>2. CASE answer = "bad"
    <2>1. quota.bad > 0 /\ quota.bad \in Nat
        BY <1>2 DEF Served, QuotaUse
    <2> DEFINE n == quota.bad - 1
    <2>2. n \in Nat /\ quota' = [quota EXCEPT !.bad = n]
        BY <2>1, <1>2 DEF Charge
    <2> HIDE DEF n
    <2> QED BY <1>1, <2>2 DEF QuotaUse
  <1>3. CASE answer # "bad"
      BY <1>1, <1>3 DEF Charge
  <1> QED BY <1>2, <1>3

DepRec == [pause : 0 .. MaxPause, paused : BOOLEAN]

\* What is heard of a dependency.
LEMMA HeardKeeps ==
    ASSUME dep \in [Deps -> DepRec], NEW d \in Deps, NEW answer
    PROVE  Heard(d, answer) \in [Deps -> DepRec] /\ Ok(d) \in [Deps -> DepRec] /\ Fail(d) \in [Deps -> DepRec]
  <1>1. Well \in DepRec
      BY HealthAssumption DEF Well, DepRec
  <1>2. dep[d].pause \in 0 .. MaxPause
      BY DEF DepRec
  <1>3. Longer(dep[d].pause) \in 0 .. MaxPause
      BY <1>2, HealthAssumption DEF Longer
  <1> DEFINE paused == [pause |-> Longer(dep[d].pause), paused |-> TRUE]
  <1>4. paused \in DepRec
      BY <1>3 DEF DepRec
  <1>5. Fail(d) = [dep EXCEPT ![d] = paused]
      BY DEF Fail
  <1> HIDE DEF paused
  <1>6. Ok(d) \in [Deps -> DepRec] /\ Fail(d) \in [Deps -> DepRec]
      BY <1>1, <1>4, <1>5 DEF Ok
  <1> QED BY <1>6 DEF Heard

\* Of numbers there is a least.
LEMMA LeastOf ==
    ASSUME NEW S \in SUBSET Nat, S # {}
    PROVE  \E n \in S : \A k \in S : n <= k
  <1>1. \E n \in S : \A k \in S : ~(<<k, n>> \in OpToRel(<, Nat))
      BY NatLessThanWellFounded, WFMin
  <1>2. \A k, n \in Nat : (<<k, n>> \in OpToRel(<, Nat)) <=> k < n
      BY Zenon DEF OpToRel
  <1>3. \E n \in S : \A k \in S : ~(k < n)
      BY <1>1, <1>2, Zenon
  <1> QED BY <1>3

\* Of jobs there is a first.
LEMMA FirstIsOne ==
    ASSUME NEW S \in SUBSET JobIds, S # {}, \A j \in S : job[j].high \in BOOLEAN
    PROVE  First(S) \in S
  <1> DEFINE high == {j \in S : job[j].high}
  <1>0. \A j \in JobIds : j \in Nat
      BY JobsAssumption DEF JobIds
  <1>1. S \in SUBSET Nat /\ high \in SUBSET Nat /\ high \subseteq S
      BY <1>0
  <1>2. \E n \in S : \A k \in S : Sooner(n, k)
    <2>1. CASE high # {}
      <3>1. PICK n \in high : \A k \in high : n <= k
          BY <1>1, <2>1, LeastOf
      <3>2. n \in S /\ job[n].high /\ \A k \in S : job[k].high => n <= k
          BY <3>1
      <3>3. ASSUME NEW k \in S PROVE Sooner(n, k)
        <4>1. CASE job[k].high = job[n].high
            BY <3>2, <4>1 DEF Sooner
        <4>2. CASE job[k].high # job[n].high /\ ~job[k].high
            BY <3>2, <4>2 DEF Sooner
        <4>3. CASE job[k].high # job[n].high /\ job[k].high
            BY <3>2, <4>3 DEF Sooner
        <4> QED BY <4>1, <4>2, <4>3
      <3> QED BY <3>2, <3>3
    <2>2. CASE high = {}
      <3>1. \A k \in S : ~job[k].high
          BY <2>2
      <3>2. S \in SUBSET Nat
          BY <1>1
      <3> HIDE DEF high
      <3>3. PICK n \in S : \A k \in S : n <= k
          BY <3>2, LeastOf
      <3> QED BY <3>1, <3>3 DEF Sooner
    <2> QED BY <2>1, <2>2
  <1> QED BY <1>2 DEF First

\* A row of the queue that is free.
LEMMA FreeJobIsFree ==
    ASSUME HasJob
    PROVE  FreeJob \in JobIds /\ job[FreeJob] = None
  <1> DEFINE S == {j \in JobIds : job[j] = None}
  <1>1. S \in SUBSET Nat /\ S # {}
      BY JobsAssumption DEF HasJob, JobIds
  <1>2. PICK n \in S : \A k \in S : n <= k
      BY <1>1, LeastOf
  <1>3. n \in JobIds /\ job[n] = None /\ \A i \in 1 .. (n - 1) : job[i] # None
    <2>1. \A i \in 1 .. (n - 1) : i \in JobIds /\ ~(n <= i)
        BY <1>2, JobsAssumption DEF JobIds
    <2> QED BY <1>2, <2>1
  <1> QED BY <1>3 DEF FreeJob

--------------------------------------------------------------------------
(* Health                                                                  *)

OtherRec == [dep : Deps, answer : {"ok", "outage"}]

\* A step that changes what is heard of dependencies, or what is still to happen.
LEMMA HealthMoves ==
    ASSUME HealthInv, dep' \in [Deps -> DepRec], out' \subseteq Deps, quota' \in QuotaUse,
           \A o \in Others : other'[o] = None \/ other'[o] \in OtherRec
    PROVE  HealthInv'
  BY DEF HealthInv, HealthTypeOK, DepRec, OtherRec

\* A step that calls on nothing.
LEMMA HealthSame == ASSUME HealthInv, UNCHANGED healthVars, quota' \in QuotaUse PROVE HealthInv'
  BY DEF HealthInv, HealthTypeOK, healthVars

\* A step that hears of one dependency (ok, fail).
LEMMA HealthHears ==
    ASSUME HealthInv, NEW d \in Deps, NEW answer, dep' = Heard(d, answer) \/ dep' = Ok(d) \/ dep' = Fail(d) \/ dep' = dep,
           UNCHANGED <<out, other>>, quota' \in QuotaUse
    PROVE  HealthInv'
  <1>1. dep \in [Deps -> DepRec]
      BY DEF HealthInv, HealthTypeOK, DepRec
  <1>2. dep' \in [Deps -> DepRec]
      BY <1>1, HeardKeeps
  <1> QED BY <1>2, HealthMoves DEF HealthInv, HealthTypeOK, OtherRec

\* Calls of others, pauses and outages.
LEMMA HealthStepKeeps == ASSUME HealthInv, HealthStep PROVE HealthInv' /\ quota'.onward = quota.onward
  <1>0. /\ dep \in [Deps -> DepRec] /\ out \subseteq Deps /\ quota \in QuotaUse
        /\ \A o \in Others : other[o] = None \/ other[o] \in OtherRec
      BY DEF HealthInv, HealthTypeOK, DepRec, OtherRec
  <1>1. ASSUME NEW o \in Others, NEW d \in Deps, OtherCall(o, d) PROVE HealthInv' /\ quota'.onward = quota.onward
    <2> DEFINE made == [dep |-> d, answer |-> IF d \in out THEN "outage" ELSE "ok"]
    <2>1. Spend("other") /\ other' = [other EXCEPT ![o] = made] /\ UNCHANGED <<out, dep>>
        BY <1>1 DEF OtherCall
    <2>2. made \in OtherRec
        BY DEF OtherRec
    <2> HIDE DEF made
    <2>3. \A p \in Others : other'[p] = None \/ other'[p] \in OtherRec
        BY <1>0, <2>1, <2>2
    <2>4. quota' \in QuotaUse /\ quota'.onward = quota.onward
      <3>1. "other" \in Counted
          BY DEF Counted
      <3> QED BY <1>0, <2>1, <3>1, SpendKeeps
    <2> QED BY <1>0, <2>1, <2>3, <2>4, HealthMoves
  <1>2. ASSUME NEW o \in Others, OtherAnswered(o) PROVE HealthInv' /\ quota'.onward = quota.onward
    <2>1. other[o] \in OtherRec /\ dep' = Heard(other[o].dep, other[o].answer) /\ other' = [other EXCEPT ![o] = None]
        BY <1>0, <1>2 DEF OtherAnswered
    <2>2. other[o].dep \in Deps
        BY <2>1 DEF OtherRec
    <2>3. dep' \in [Deps -> DepRec]
        BY <1>0, <2>1, <2>2, HeardKeeps
    <2>4. \A p \in Others : other'[p] = None \/ other'[p] \in OtherRec
        BY <1>0, <2>1
    <2> QED BY <1>0, <1>2, <2>3, <2>4, HealthMoves DEF OtherAnswered
  <1>3. ASSUME NEW d \in Deps, PauseEnds(d) PROVE HealthInv' /\ quota'.onward = quota.onward
    <2>1. dep' \in [Deps -> DepRec]
        BY <1>0, <1>3 DEF PauseEnds, DepRec
    <2> QED BY <1>0, <1>3, <2>1, HealthMoves DEF PauseEnds
  <1>4. ASSUME NEW d \in Deps, GoesOut(d) PROVE HealthInv' /\ quota'.onward = quota.onward
    <2>1. Spend("outage") /\ out' = out \cup {d} /\ UNCHANGED <<dep, other>>
        BY <1>4 DEF GoesOut
    <2>2. "outage" \in Counted
        BY DEF Counted
    <2>3. quota' \in QuotaUse /\ quota'.onward = quota.onward
        BY <1>0, <2>1, <2>2, SpendKeeps
    <2> QED BY <1>0, <2>1, <2>3, HealthMoves
  <1>5. ASSUME NEW d \in Deps, ComesBack(d) PROVE HealthInv' /\ quota'.onward = quota.onward
      BY <1>0, <1>5, HealthMoves DEF ComesBack
  <1> QED BY <1>1, <1>2, <1>3, <1>4, <1>5 DEF HealthStep


--------------------------------------------------------------------------
(* Tenants                                                                 *)

\* One chance less.
LEMMA ChanceKeeps ==
    ASSUME chances \in {None} \cup TenantUse, chances # None, NEW q \in {"role", "fault", "restart"}, Chance(q)
    PROVE  chances' \in {None} \cup TenantUse
  <1>1. chances \in TenantUse /\ chances[q] \in Nat /\ chances[q] > 0 /\ chances' = [chances EXCEPT ![q] = chances[q] - 1]
      BY DEF Chance, TenantUse
  <1> DEFINE n == chances[q] - 1
  <1>2. n \in Nat
      BY <1>1
  <1> HIDE DEF n
  <1>3. chances' = [chances EXCEPT ![q] = n]
      BY <1>1 DEF n
  <1> QED BY <1>1, <1>2, <1>3 DEF TenantUse

\* What a step that only moves a pass, or not even that, keeps.
LEMMA PassMoves ==
    ASSUME TenantsInv, UNCHANGED <<role, recorded, group, token, account, container>>,
           chances' \in {None} \cup TenantUse, pass' \in PassRec,
           pass'.pc \in Steps => pass'.at \in Tenants,
           pass'.pc = "identity" => pass'.at \in Sandboxed, pass'.pc = "empty" => pass'.at \notin Seed
    PROVE  TenantsInv'
  BY DEF TenantsInv

\* Where a pass stands and goes.
LEMMA ProceedsTo ==
    ASSUME pass \in PassRec, NEW pc \in {"idle", "next"} \cup Steps, Proceeds(pc)
    PROVE  pass' \in PassRec /\ pass'.pc = pc /\ pass'.at = pass.at /\ pass'.notes = pass.notes
  BY DEF Proceeds, PassRec

\* No pass is one that is idle.
LEMMA NoPassIsPass == NoPass \in PassRec /\ NoPass.pc = "idle"
  BY DEF NoPass, PassRec, Notices

\* A step of a pass (reconcile).
LEMMA PassStepTypes == ASSUME TenantsInv, chances # None, PassStep PROVE TenantsInv'
  <1>0. /\ chances \in {None} \cup TenantUse /\ pass \in PassRec /\ pass.notes \in Notices /\ pass.todo \subseteq Tenants
        /\ pass.wanted \in [Tenants -> Tiers \cup {"none"}] /\ pass.seen \in [Tenants -> {"none", "stopped", "running"}]
        /\ role \in [Tenants -> Tiers \cup {"none"}] /\ container \in [Tenants -> {"none", "stopped", "running"}]
        /\ recorded \in Notices /\ group \subseteq Tenants \ Seed /\ account \subseteq Sandboxed
        /\ token \in [Tenants -> Tiers \cup {"none", "denied"}]
        /\ pass.pc \in Steps => pass.at \in Tenants
        /\ pass.pc = "identity" => pass.at \in Sandboxed
        /\ pass.pc = "empty" => pass.at \notin Seed
      BY DEF TenantsInv, PassRec
  <1>f. Chance("fault") => chances' \in {None} \cup TenantUse
      BY <1>0, ChanceKeeps
  <1>1. CASE PassBegin
    <2> DEFINE notes == [t \in Tenants |-> IF recorded[t] = "none" /\ t \in Known(role) THEN "tenant" ELSE recorded[t]]
               todo == Known(role)
    <2>1. todo \subseteq Tenants /\ notes \in Notices
        BY <1>0, TenantsAssumption DEF Known, Notices
    <2>2. pass' = [pc |-> "next", wanted |-> role, seen |-> container, todo |-> todo, at |-> "none", notes |-> notes]
        BY <1>1 DEF PassBegin
    <2> HIDE DEF notes, todo
    <2>3. pass' \in PassRec /\ pass'.pc = "next"
        BY <1>0, <2>1, <2>2 DEF PassRec
    <2> QED BY <1>0, <1>1, <2>3, PassMoves DEF PassBegin, Steps
  <1>2. CASE PassFails
      BY <1>0, <1>f, <1>2, NoPassIsPass, PassMoves DEF PassFails, Steps
  <1>3. CASE TenantFails
    <2>1. pass' \in PassRec /\ pass'.pc = "next"
        BY <1>0, <1>3, ProceedsTo DEF TenantFails
    <2> QED BY <1>0, <1>f, <1>3, <2>1, PassMoves DEF TenantFails, Steps
  <1>4. CASE PassEnds
    <2>1. recorded' \in Notices /\ pass' = NoPass /\ UNCHANGED <<chances, role, group, token, account, container>>
        BY <1>0, <1>4 DEF PassEnds
    <2> QED BY <1>0, <2>1, NoPassIsPass DEF TenantsInv, Steps
  <1>5. ASSUME NEW t \in Tenants, NextTenant(t) PROVE TenantsInv'
    <2> DEFINE todo == pass.todo \ {t}
               pc == IF pass.wanted[t] # "none" THEN "objects" ELSE "stop"
    <2>1. todo \subseteq Tenants /\ pc \in {"objects", "stop"}
        BY <1>0
    <2>2. pass' = [pass EXCEPT !.todo = todo, !.at = t, !.pc = pc]
        BY <1>5 DEF NextTenant
    <2> HIDE DEF todo, pc
    <2>3. pass' \in PassRec /\ pass'.pc = pc /\ pass'.at = t
        BY <1>0, <2>1, <2>2 DEF PassRec, Steps
    <2> QED BY <1>0, <1>5, <2>1, <2>3, PassMoves DEF NextTenant
  <1>6. CASE EnsureObjects
    <2>1. pass' \in PassRec /\ pass'.pc = "token" /\ pass'.at = pass.at
        BY <1>0, <1>6, ProceedsTo DEF EnsureObjects, Steps
    <2>2. group' \subseteq Tenants \ Seed /\ pass.at \in Tenants
        BY <1>0, <1>6 DEF EnsureObjects, AtStep, Steps
    <2>3. UNCHANGED <<chances, role, recorded, token, account, container>>
        BY <1>6 DEF EnsureObjects
    <2> QED BY <1>0, <2>1, <2>2, <2>3 DEF TenantsInv
  <1>7. CASE EnsureToken
    <2> DEFINE pc == IF pass.at \in Sandboxed THEN "identity" ELSE "container"
    <2>1. Proceeds(pc) /\ pass.at \in Tenants /\ token' = [token EXCEPT ![pass.at] = pass.wanted[pass.at]]
        BY <1>0, <1>7 DEF EnsureToken, AtStep, Steps
    <2>2. pc \in {"identity", "container"} /\ (pc = "identity" => pass.at \in Sandboxed)
        OBVIOUS
    <2> HIDE DEF pc
    <2>3. pass' \in PassRec /\ pass'.pc = pc /\ pass'.at = pass.at
        BY <1>0, <2>1, <2>2, ProceedsTo DEF Steps
    <2>4. token' \in [Tenants -> Tiers \cup {"none", "denied"}]
        BY <1>0, <2>1
    <2>5. UNCHANGED <<chances, role, recorded, group, account, container>>
        BY <1>7 DEF EnsureToken
    <2> QED BY <1>0, <2>1, <2>2, <2>3, <2>4, <2>5 DEF TenantsInv
  <1>8. CASE EnsureIdentity
    <2> DEFINE t == pass.at
    <2>1. t \in Sandboxed /\ t \in Tenants /\ account' = account \cup {t}
        BY <1>0, <1>8 DEF EnsureIdentity, AtStep, Steps
    <2>2. chances' \in {None} \cup TenantUse
        BY <1>0, <1>f, <1>8 DEF EnsureIdentity
    <2>3. pass' \in PassRec /\ pass'.pc \in {"container", "next"} /\ pass'.at = t
      <3>1. CASE pass' = [pass EXCEPT !.notes[t] = "identity", !.pc = "container"]
        <4> DEFINE notes == [pass.notes EXCEPT ![t] = "identity"]
        <4>1. notes \in Notices /\ pass' = [pass EXCEPT !.notes = notes, !.pc = "container"]
            BY <1>0, <3>1 DEF Notices
        <4> HIDE DEF notes
        <4> QED BY <1>0, <4>1 DEF PassRec, Steps
      <3>2. CASE Proceeds("next")
          BY <1>0, <3>2, ProceedsTo
      <3> QED BY <1>8, <3>1, <3>2 DEF EnsureIdentity
    <2>4. UNCHANGED <<role, recorded, group, token, container>>
        BY <1>8 DEF EnsureIdentity
    <2> QED BY <1>0, <2>1, <2>2, <2>3, <2>4 DEF TenantsInv
  <1>9. CASE EnsureContainer
    <2>1. pass' \in PassRec /\ pass'.pc = "next"
        BY <1>0, <1>9, ProceedsTo DEF EnsureContainer
    <2>2. pass.at \in Tenants /\ container' \in [Tenants -> {"none", "stopped", "running"}]
        BY <1>0, <1>9 DEF EnsureContainer, AtStep, Steps
    <2>3. chances' \in {None} \cup TenantUse /\ UNCHANGED <<role, recorded, group, token, account>>
        BY <1>0, <1>f, <1>9 DEF EnsureContainer
    <2> QED BY <1>0, <2>1, <2>2, <2>3 DEF TenantsInv, Steps
  <1>10. CASE LockContainer
    <2>1. pass' \in PassRec /\ pass'.pc = "deny" /\ pass'.at = pass.at /\ pass.at \in Tenants
        BY <1>0, <1>10, ProceedsTo DEF LockContainer, Steps, AtStep
    <2>2. container' \in [Tenants -> {"none", "stopped", "running"}]
        BY <1>0, <1>10 DEF LockContainer
    <2>3. UNCHANGED <<chances, role, recorded, group, token, account>>
        BY <1>10 DEF LockContainer
    <2> QED BY <1>0, <2>1, <2>2, <2>3 DEF TenantsInv
  <1>11. CASE LockToken
    <2> DEFINE pc == IF pass.notes[pass.at] = "identity" THEN "deactivate" ELSE IF pass.at \in Seed THEN "next" ELSE "empty"
    <2>1. Proceeds(pc) /\ pass.at \in Tenants /\ pc \in {"deactivate", "next", "empty"} /\ (pc = "empty" => pass.at \notin Seed)
        BY <1>0, <1>11 DEF LockToken, AtStep, Steps
    <2> HIDE DEF pc
    <2>2. pass' \in PassRec /\ pass'.pc = pc /\ pass'.at = pass.at
        BY <1>0, <2>1, ProceedsTo DEF Steps
    <2>3. token' \in [Tenants -> Tiers \cup {"none", "denied"}]
        BY <1>0, <1>11 DEF LockToken
    <2>4. UNCHANGED <<chances, role, recorded, group, account, container>>
        BY <1>11 DEF LockToken
    <2> QED BY <1>0, <2>1, <2>2, <2>3, <2>4 DEF TenantsInv
  <1>12. CASE LockIdentity
    <2> DEFINE pc == IF pass.at \in Seed THEN "next" ELSE "empty"
    <2>1. Proceeds(pc) /\ pass.at \in Tenants /\ pc \in {"next", "empty"} /\ (pc = "empty" => pass.at \notin Seed)
        BY <1>0, <1>12 DEF LockIdentity, AtStep, Steps
    <2> HIDE DEF pc
    <2>2. pass' \in PassRec /\ pass'.pc = pc /\ pass'.at = pass.at
        BY <1>0, <2>1, ProceedsTo DEF Steps
    <2>3. account' \subseteq Sandboxed /\ UNCHANGED <<chances, role, recorded, group, token, container>>
        BY <1>0, <1>12 DEF LockIdentity
    <2> QED BY <1>0, <2>1, <2>2, <2>3 DEF TenantsInv
  <1>13. CASE EmptyGroup
    <2>1. pass' \in PassRec /\ pass'.pc = "next"
        BY <1>0, <1>13, ProceedsTo DEF EmptyGroup
    <2>2. group' \subseteq Tenants \ Seed /\ UNCHANGED <<chances, role, recorded, token, account, container>>
        BY <1>0, <1>13 DEF EmptyGroup
    <2> QED BY <1>0, <2>1, <2>2 DEF TenantsInv, Steps
  <1> QED BY <1>1, <1>2, <1>3, <1>4, <1>5, <1>6, <1>7, <1>8, <1>9, <1>10, <1>11, <1>12, <1>13 DEF PassStep

\* Restarts of the provisioner, the token map read, containers and roles changed.
LEMMA TenantStepTypes == ASSUME TenantsInv, chances # None, TenantStep PROVE TenantsInv'
  <1>0. /\ chances \in {None} \cup TenantUse
        /\ role \in [Tenants -> Tiers \cup {"none"}] /\ container \in [Tenants -> {"none", "stopped", "running"}]
      BY DEF TenantsInv
  <1>f. \A q \in {"role", "fault", "restart"} : Chance(q) => chances' \in {None} \cup TenantUse
      BY <1>0, ChanceKeeps
  <1>1. CASE ProvisionerRestart
    <2>1. pass' = NoPass /\ chances' \in {None} \cup TenantUse /\ UNCHANGED <<role, recorded, group, token, account, container>>
        BY <1>f, <1>1 DEF ProvisionerRestart
    <2> QED BY <2>1, NoPassIsPass, PassMoves DEF Steps
  <1>2. CASE LoadTokenMap
      BY <1>2 DEF LoadTokenMap, TenantsInv
  <1>3. ASSUME NEW t \in Tenants, ContainerChanges(t) PROVE TenantsInv'
    <2>1. container' \in [Tenants -> {"none", "stopped", "running"}] /\ chances' \in {None} \cup TenantUse
        BY <1>0, <1>f, <1>3 DEF ContainerChanges
    <2> QED BY <1>3, <2>1 DEF TenantsInv, ContainerChanges
  <1>4. ASSUME NEW t \in Tenants, NEW r \in Tiers \cup {"none"}, RoleChanges(t, r) PROVE TenantsInv'
    <2>1. role' \in [Tenants -> Tiers \cup {"none"}] /\ chances' \in {None} \cup TenantUse
        BY <1>0, <1>f, <1>4 DEF RoleChanges
    <2> QED BY <1>4, <2>1 DEF TenantsInv, RoleChanges
  <1> QED BY <1>1, <1>2, <1>3, <1>4, PassStepTypes DEF TenantStep

--------------------------------------------------------------------------
(* Documents                                                               *)

\* What the graph says of the title, and the ingest at work.
GraphRight == IngestRight /\ SectionsKnown /\ Ready

\* The title's own entry is none of its sections.
LEMMA SectionIsNotWhole == \A n \in Names : n # Whole /\ n \in Rows
  BY DocumentsAssumption DEF Names, Rows

\* None is no document.
LEMMA NoneIsNoDoc == None \notin Docs
  BY BackgroundAssumption

\* The document at work is one that was given in.
LEMMA DoingGiven == ASSUME DocsInv, ingests # << >> PROVE Doing \in Docs /\ Given(Doing) /\ SectionsOf[Doing] \subseteq Names
  <1>1. ingests \in Seq(Docs) /\ \A i \in DOMAIN ingests : Given(ingests[i])
      BY DEF DocsInv, DocsTypes, GivenIn
  <1>2. 1 \in DOMAIN ingests /\ Doing = ingests[1] /\ ingests[1] \in Docs
      BY <1>1 DEF Doing
  <1>3. SectionsOf[Doing] \subseteq Names
      BY <1>2 DEF Names
  <1> QED BY <1>1, <1>2, <1>3

\* Texts stay as they are when nothing of them changes.
LEMMA TextsStand == ASSUME TextsKept, UNCHANGED <<store, aged, write, sweep>>, loose \subseteq loose' PROVE TextsKept'
  BY DEF TextsKept, Waits

\* What the graph says stays when its entries keep their documents and nothing else but the queue's end moves.
LEMMA GraphStands ==
    ASSUME DocsInv, UNCHANGED <<status, ingest, pruned>>, loose \subseteq loose',
           \A r \in Rows : (row'[r] = None <=> row[r] = None) /\ (row[r] # None => row'[r].doc = row[r].doc),
           ingests' = ingests \/ \E d \in Docs : ingests' = Append(ingests, d)
    PROVE  GraphRight'
  <1>1. IngestRight /\ SectionsKnown /\ Ready /\ ingests \in Seq(Docs)
      BY DEF DocsInv, DocsTypes
  <1>2. ingests # << >> => ingests' # << >> /\ Doing' = Doing
      BY <1>1 DEF Doing
  <1>3. Whole \in Rows /\ Names \subseteq Rows /\ \A d \in Docs : SectionsOf[d] \subseteq Names
      BY DEF Rows, Names
  <1>4. (HasWhole' <=> HasWhole) /\ (HasWhole => row'[Whole].doc = row[Whole].doc)
      BY <1>3 DEF HasWhole
  <1>5. \A n \in Rows, d \in Docs : Of(n, d)' <=> Of(n, d)
      BY DEF Of
  <1>6. ingests # << >> => Doing \in Docs
      BY DoingGiven
  <1>7. (Past' <=> Past) /\ (AtSections' <=> AtSections)
      BY DEF Past, AtSections
  <1>8. IngestRight'
    <2>1. ingest.step # "none" => ingests # << >>
        BY <1>1 DEF IngestRight
    <2>2. Past => ingest.step # "none"
        BY DEF Past
    <2>4. ASSUME Past PROVE \A n \in SectionsOf[Doing'] \ ingest'.left : n \in pruned' \/ Of(n, Doing)'
      <3>1. ingests # << >> /\ Doing' = Doing
          BY <1>2, <2>1, <2>2, <2>4
      <3>2. PICK d \in Docs : d = Doing
          BY <1>6, <3>1
      <3>3. \A n \in SectionsOf[d] \ ingest.left : n \in pruned \/ Of(n, d)
          BY <1>1, <2>4, <3>2 DEF IngestRight
      <3>4. \A n \in SectionsOf[d] \ ingest.left : n \in pruned \/ Of(n, d)'
          BY <1>3, <1>5, <3>3
      <3>5. \A n \in SectionsOf[d] \ ingest.left : n \in pruned' \/ Of(n, Doing)'
          BY <3>1, <3>2, <3>4 DEF Of
      <3> QED BY <3>1, <3>2, <3>5
    <2>5. Past' => Past /\ ingests # << >> /\ Doing' = Doing
        BY <1>2, <1>7, <2>1, <2>2
    <2>6. Past' => IF HasWhole' THEN row'[Whole].doc = Doing' ELSE Doing' \in loose'
        BY <1>1, <1>4, <2>5 DEF IngestRight
    <2>7. Past' => status' # "ready" /\ ingest'.left \subseteq SectionsOf[Doing']
        BY <1>1, <2>5 DEF IngestRight
    <2>8. ingest'.step = "entry" => ingest'.left = SectionsOf[Doing'] /\ (HasWhole' => row'[Whole].doc = ingest'.before)
        BY <1>1, <1>2, <1>4, <2>1 DEF IngestRight
    <2>9. (ingest'.step # "none" => ingests' # << >>) /\ (ingest'.step \in {"drop", "facts", "ready"} => ingest'.left = {})
        BY <1>1, <1>2, <2>1 DEF IngestRight
    <2> QED BY <2>4, <2>5, <2>6, <2>7, <2>8, <2>9 DEF IngestRight
  <1>9. SectionsKnown'
      BY <1>1, <1>3, <1>4, <1>7 DEF SectionsKnown
  <1>10. Ready'
    <2>1. status = "ready" => HasWhole /\ \A n \in SectionsOf[row[Whole].doc] \ pruned : Of(n, row[Whole].doc)
        BY <1>1 DEF Ready
    <2>2. row \in [Rows -> {None} \cup Entry]
        BY DEF DocsInv, DocsTypes
    <2>3. HasWhole => row[Whole].doc \in Docs
        BY <1>3, <2>2 DEF HasWhole, Entry
    <2>4. ASSUME status = "ready" PROVE \A n \in SectionsOf[row'[Whole].doc] \ pruned' : Of(n, row[Whole].doc)'
      <3>1. PICK d \in Docs : d = row[Whole].doc /\ d = row'[Whole].doc
          BY <1>4, <2>1, <2>3, <2>4
      <3>2. \A n \in SectionsOf[d] \ pruned : Of(n, d)
          BY <2>1, <2>4, <3>1
      <3>3. \A n \in SectionsOf[d] \ pruned : Of(n, d)'
          BY <1>3, <1>5, <3>2
      <3> QED BY <3>1, <3>3 DEF Of
    <2> QED BY <1>4, <2>1, <2>4 DEF Ready
  <1> QED BY <1>8, <1>9, <1>10 DEF GraphRight

\* An ingest that breaks off, and what it leaves behind.
LEMMA BreaksOff ==
    ASSUME DocsInv, UNCHANGED <<row, pruned>>, ingest' = NoIngest, loose' = loose \cup Behind, status' \in {status, "failed"}
    PROVE  GraphRight'
  <1>1. IngestRight /\ SectionsKnown /\ Ready /\ ingest.before \in Docs \cup {None}
      BY DEF DocsInv, DocsTypes, IngestRec
  <1>2. IngestRight'
      BY DEF IngestRight, NoIngest, Past
  <1>3. SectionsKnown'
    <2> SUFFICES ASSUME NEW n \in Names, row[n] # None
                 PROVE  row[n].doc \in loose' \/ (HasWhole /\ row[n].doc = row[Whole].doc)
        BY DEF SectionsKnown, HasWhole
    <2>1. CASE AtSections /\ row[n].doc = ingest.before
      <3>1. Past
          BY <2>1 DEF AtSections, Past
      <3>2. CASE ingest.before = Doing
          BY <1>1, <2>1, <3>1, <3>2 DEF IngestRight
      <3>3. CASE ingest.before # Doing
        <4>1. row[n].doc # None
          <5>1. row[n] \in Entry
              BY SectionIsNotWhole DEF DocsInv, DocsTypes
          <5> QED BY <5>1, NoneIsNoDoc DEF Entry
        <4> QED BY <2>1, <3>3, <4>1 DEF Behind, AtSections
      <3> QED BY <3>2, <3>3
    <2>2. CASE row[n].doc \in loose \/ (HasWhole /\ row[n].doc = row[Whole].doc)
        BY <2>2
    <2> QED BY <1>1, <2>1, <2>2 DEF SectionsKnown
  <1>4. Ready'
      BY <1>1 DEF Ready, HasWhole, Of
  <1> QED BY <1>2, <1>3, <1>4 DEF GraphRight

\* What was given in stays given, as long as no call is answered otherwise.
LEMMA GivenStands ==
    ASSUME DocsInv, \A d \in Docs : Given(d) => Given(d)',
           \A r \in Rows : row'[r] # None => row[r] # None /\ row'[r].doc = row[r].doc,
           UNCHANGED <<ingests, ingest>>, prune'.batch \cup prune'.gone \subseteq prune.batch \cup prune.gone
    PROVE  GivenIn'
  <1>1. /\ GivenIn /\ row \in [Rows -> {None} \cup Entry] /\ ingests \in Seq(Docs) /\ ingest \in IngestRec /\ prune \in PruneRec
      BY DEF DocsInv, DocsTypes
  <1>2. \A r \in Rows : row'[r] # None => Given(row[r].doc)'
    <2> SUFFICES ASSUME NEW r \in Rows, row'[r] # None PROVE Given(row[r].doc)'
        OBVIOUS
    <2>1. row[r] # None /\ row'[r].doc = row[r].doc /\ row[r].doc \in Docs /\ Given(row[r].doc)
        BY <1>1 DEF GivenIn, Entry
    <2>2. PICK d \in Docs : d = row[r].doc /\ d = row'[r].doc
        BY <2>1
    <2> QED BY <2>1, <2>2 DEF Given
  <1>3. \A i \in DOMAIN ingests : ingests[i] \in Docs
      BY <1>1
  <1>4. \A i \in DOMAIN ingests' : Given(ingests[i])'
    <2> SUFFICES ASSUME NEW i \in DOMAIN ingests PROVE Given(ingests[i])'
        OBVIOUS
    <2>1. PICK d \in Docs : d = ingests[i] /\ d = ingests'[i]
        BY <1>3
    <2> QED BY <1>1, <2>1 DEF Given, GivenIn
  <1>5. ingest'.before # None => Given(ingest.before)'
    <2> SUFFICES ASSUME ingest.before # None PROVE Given(ingest.before)'
        OBVIOUS
    <2>1. PICK d \in Docs : d = ingest.before /\ d = ingest'.before
        BY <1>1 DEF IngestRec
    <2> QED BY <1>1, <2>1 DEF Given, GivenIn
  <1>6. \A x \in prune'.batch \cup prune'.gone : Given(x.doc)'
    <2> SUFFICES ASSUME NEW x \in prune.batch \cup prune.gone PROVE Given(x.doc)'
        OBVIOUS
    <2>1. x.doc \in Docs /\ Given(x.doc)
        BY <1>1 DEF PruneRec, Read, GivenIn
    <2>2. PICK d \in Docs : d = x.doc
        BY <2>1
    <2> QED BY <2>1, <2>2
  <1> QED BY <1>2, <1>4, <1>5, <1>6 DEF GivenIn

\* The documents are right when each part of what is said of them is.
LEMMA DocsRight == ASSUME DocsTypes', GivenIn', TextsKept', GraphRight' PROVE DocsInv'
  BY DEF DocsInv, GraphRight

\* What waits, or has gone its way, with a document's call.
LEMMA WriteMoves ==
    ASSUME DocsInv, NEW d \in Docs, NEW w \in Writes \ {"none"}, write' = [write EXCEPT ![d] = w],
           UNCHANGED <<aged, row, status, ingest, prune, sweep, loose, pruned>>,
           ingests' = ingests \/ (ingests' = Append(ingests, d) /\ w \in {"direct", "started"}),
           store' \subseteq Docs, store' \ {d} = store \ {d},
           Given(d) => w \in {"direct", "started", "approved"},
           w = "asked" => write[d] = "none",
           w \in {"asked", "pending", "executing"} => d \in store' \cup loose /\ write[d] \in {"none", "asked", "pending", "executing"}
    PROVE  DocsInv'
  <1>0. DocsTypes /\ GivenIn /\ TextsKept /\ write \in [Docs -> Writes] /\ ingests \in Seq(Docs)
      BY DEF DocsInv, DocsTypes
  <1>1. ingests' \in Seq(Docs)
      BY <1>0
  <1>2. DocsTypes'
    <2>1. write' \in [Docs -> Writes]
        BY <1>0
    <2> QED BY <1>0, <1>1, <2>1 DEF DocsTypes
  <1>3. write'[d] = w /\ \A c \in Docs \ {d} : write'[c] = write[c]
      BY <1>0
  <1>4. \A c \in Docs : Given(c) => Given(c)'
      BY <1>3 DEF Given
  <1>5. GivenIn'
    <2>1. CASE ingests' = ingests
        BY <1>4, <2>1, GivenStands
    <2>2. CASE ingests' = Append(ingests, d) /\ w \in {"direct", "started"}
      <3>1. Given(d)'
          BY <1>3, <2>2 DEF Given
      <3>2. \A i \in DOMAIN ingests' : ingests'[i] = d \/ (i \in DOMAIN ingests /\ ingests'[i] = ingests[i])
          BY <1>0, <2>2
      <3>3. \A i \in DOMAIN ingests : ingests[i] \in Docs /\ Given(ingests[i])
          BY <1>0 DEF GivenIn
      <3>4. \A i \in DOMAIN ingests' : Given(ingests[i])'
        <4> SUFFICES ASSUME NEW i \in DOMAIN ingests' PROVE Given(ingests[i])'
            OBVIOUS
        <4>1. PICK c \in Docs : c = ingests'[i] /\ Given(c)'
            BY <1>4, <3>1, <3>2, <3>3
        <4> QED BY <4>1 DEF Given
      <3>5. \A r \in Rows : row[r] # None => Given(row[r].doc)'
        <4> SUFFICES ASSUME NEW r \in Rows, row[r] # None PROVE Given(row[r].doc)'
            OBVIOUS
        <4>1. PICK c \in Docs : c = row[r].doc /\ Given(c)'
            BY <1>0, <1>4 DEF DocsTypes, Entry, GivenIn
        <4> QED BY <4>1 DEF Given
      <3>6. ingest.before # None => Given(ingest.before)'
        <4> SUFFICES ASSUME ingest.before # None PROVE Given(ingest.before)'
            OBVIOUS
        <4>1. PICK c \in Docs : c = ingest.before /\ Given(c)'
            BY <1>0, <1>4 DEF DocsTypes, IngestRec, GivenIn
        <4> QED BY <4>1 DEF Given
      <3>7. \A x \in prune.batch \cup prune.gone : x.doc \in Docs /\ Given(x.doc)
          BY <1>0 DEF DocsTypes, PruneRec, Read, GivenIn
      <3>8. \A x \in prune.batch \cup prune.gone : Given(x.doc)'
          BY <1>4, <3>7
      <3> QED BY <3>4, <3>5, <3>6, <3>8 DEF GivenIn
    <2> QED BY <2>1, <2>2
  <1>6. TextsKept'
    <2>0. \A c \in Docs : c # d => (c \in store' <=> c \in store)
        OBVIOUS
    <2>1. \A c \in Docs : Waits(c)' => c \in store'
        BY <1>0, <1>3, <2>0 DEF Waits, TextsKept
    <2>2. \A c \in Docs : (write'[c] = "none" => c \notin store') /\ (write'[c] \in {"none", "asked"} => c \notin aged')
        BY <1>0, <1>3, <2>0 DEF TextsKept
    <2>3. sweep'.step = "remove" => \A c \in Docs : Waits(c)' => c \in sweep'.live \/ c \notin aged' \cap sweep'.stored
        BY <1>0, <1>3 DEF Waits, TextsKept
    <2> QED BY <2>1, <2>2, <2>3 DEF TextsKept
  <1>7. GraphRight'
      BY GraphStands
  <1> QED BY <1>2, <1>5, <1>6, <1>7, DocsRight

\* Giving a document in, and the person's answer.
LEMMA CallKeeps ==
    ASSUME DocsInv, NEW d \in Docs,
           RequestIngest(d) \/ IngestAsked(d) \/ ApproveIngest(d) \/ StartApproved(d) \/ ApproveDone(d)
               \/ RejectIngest(d) \/ RejectedText(d)
    PROVE  DocsInv'
  <1>0. store \subseteq Docs /\ TextsKept
      BY DEF DocsInv, DocsTypes
  <1>1. CASE RequestIngest(d)
    <2> DEFINE w == "asked"
    <2>1. w \in Writes \ {"none"} /\ write' = [write EXCEPT ![d] = w] /\ w = "asked" /\ w \notin {"direct", "started"}
        BY <1>1 DEF RequestIngest, Writes
    <2>2. /\ UNCHANGED <<aged, row, status, ingests, ingest, prune, sweep, loose, pruned>>
          /\ store' = store \cup {d} /\ write[d] = "none"
        BY <1>1 DEF RequestIngest
    <2> HIDE DEF w
    <2> QED BY <1>0, <2>1, <2>2, WriteMoves DEF Given
  <1>2. CASE IngestAsked(d)
    <2>0. /\ UNCHANGED <<store, aged, row, status, ingest, prune, sweep, loose, pruned>>
          /\ write[d] = "asked" /\ d \in store \cup loose
        BY <1>0, <1>2 DEF IngestAsked, TextsKept, Waits
    <2>1. CASE write' = [write EXCEPT ![d] = "direct"] /\ ingests' = Append(ingests, d)
      <3> DEFINE w == "direct"
      <3>1. w \in Writes \ {"none"} /\ write' = [write EXCEPT ![d] = w] /\ w = "direct" /\ ingests' = Append(ingests, d)
          BY <2>1 DEF Writes
      <3> HIDE DEF w
      <3> QED BY <1>0, <2>0, <3>1, WriteMoves DEF Given
    <2>2. CASE write' = [write EXCEPT ![d] = "pending"] /\ UNCHANGED ingests
      <3> DEFINE w == "pending"
      <3>1. w \in Writes \ {"none"} /\ write' = [write EXCEPT ![d] = w] /\ w = "pending" /\ ingests' = ingests
          BY <2>2 DEF Writes
      <3> HIDE DEF w
      <3> QED BY <1>0, <2>0, <3>1, WriteMoves DEF Given
    <2> QED BY <1>2, <2>1, <2>2 DEF IngestAsked
  <1>3. CASE ApproveIngest(d)
    <2> DEFINE w == "executing"
    <2>0. /\ UNCHANGED <<store, aged, row, status, ingests, ingest, prune, sweep, loose, pruned>>
          /\ write[d] = "pending" /\ d \in store \cup loose
        BY <1>0, <1>3 DEF ApproveIngest, TextsKept, Waits
    <2>1. w \in Writes \ {"none"} /\ write' = [write EXCEPT ![d] = w] /\ w = "executing"
        BY <1>3 DEF ApproveIngest, Writes
    <2> HIDE DEF w
    <2> QED BY <1>0, <2>0, <2>1, WriteMoves DEF Given
  <1>4. CASE StartApproved(d)
    <2> DEFINE w == "started"
    <2>0. UNCHANGED <<store, aged, row, status, ingest, prune, sweep, loose, pruned>> /\ write[d] = "executing"
        BY <1>4 DEF StartApproved
    <2>1. w \in Writes \ {"none"} /\ write' = [write EXCEPT ![d] = w] /\ w = "started" /\ ingests' = Append(ingests, d)
        BY <1>4 DEF StartApproved, Writes
    <2> HIDE DEF w
    <2> QED BY <1>0, <2>0, <2>1, WriteMoves DEF Given
  <1>5. CASE ApproveDone(d)
    <2> DEFINE w == "approved"
    <2>0. UNCHANGED <<store, aged, row, status, ingests, ingest, prune, sweep, loose, pruned>> /\ write[d] = "started"
        BY <1>5 DEF ApproveDone
    <2>1. w \in Writes \ {"none"} /\ write' = [write EXCEPT ![d] = w] /\ w = "approved"
        BY <1>5 DEF ApproveDone, Writes
    <2> HIDE DEF w
    <2> QED BY <1>0, <2>0, <2>1, WriteMoves DEF Given
  <1>6. CASE RejectIngest(d)
    <2> DEFINE w == "rejected"
    <2>0. UNCHANGED <<store, aged, row, status, ingests, ingest, prune, sweep, loose, pruned>> /\ write[d] = "pending"
        BY <1>6 DEF RejectIngest
    <2>1. w \in Writes \ {"none"} /\ write' = [write EXCEPT ![d] = w] /\ w = "rejected"
        BY <1>6 DEF RejectIngest, Writes
    <2> HIDE DEF w
    <2> QED BY <1>0, <2>0, <2>1, WriteMoves DEF Given
  <1>7. CASE RejectedText(d)
    <2> DEFINE w == "dropped"
    <2>0. /\ UNCHANGED <<aged, row, status, ingests, ingest, prune, sweep, loose, pruned>>
          /\ write[d] = "rejected" /\ store' = store \ {d}
        BY <1>7 DEF RejectedText
    <2>1. w \in Writes \ {"none"} /\ write' = [write EXCEPT ![d] = w] /\ w = "dropped"
        BY <1>7 DEF RejectedText, Writes
    <2> HIDE DEF w
    <2> QED BY <1>0, <2>0, <2>1, WriteMoves DEF Given
  <1> QED BY <1>1, <1>2, <1>3, <1>4, <1>5, <1>6, <1>7

\* A step of the pruning, the sweep or the days that leaves the graph, the calls and the queue alone.
LEMMA TextMoves ==
    ASSUME DocsInv, UNCHANGED <<row, status, write, ingests, ingest, pruned>>, loose \subseteq loose', loose' \subseteq Docs,
           store' \subseteq store, \A d \in Docs : Waits(d) => d \in store', aged' \in {aged, store},
           aged' # aged => (\A d \in Docs : write[d] # "asked") /\ sweep' = NoSweep,
           prune' \in PruneRec, sweep' \in SweepRec, \A x \in prune'.batch \cup prune'.gone : Given(x.doc),
           sweep'.step = "remove" => \A d \in Docs \ loose' : Waits(d) => d \in sweep'.live \/ d \notin aged \cap sweep'.stored
    PROVE  DocsInv'
  <1>0. DocsTypes /\ GivenIn /\ TextsKept
      BY DEF DocsInv
  <1>1. DocsTypes'
      BY <1>0 DEF DocsTypes
  <1>2. GivenIn'
      BY <1>0 DEF GivenIn, Given
  <1>3. NoSweep.step # "remove"
      BY DEF NoSweep
  <1>4. TextsKept'
      BY <1>0, <1>3 DEF TextsKept, Waits
  <1>5. GraphRight'
      BY GraphStands
  <1> QED BY <1>1, <1>2, <1>4, <1>5, DocsRight

\* Nothing is pruned, swept or ingested.
LEMMA NothingIsRead ==
    /\ NoPrune \in PruneRec /\ NoPrune.batch = {} /\ NoPrune.gone = {}
    /\ NoSweep \in SweepRec /\ NoSweep.step = "rest"
    /\ NoIngest \in IngestRec /\ NoIngest.step = "none" /\ NoIngest.before = None
  BY DEF NoPrune, NoSweep, NoIngest, PruneRec, SweepRec, IngestRec

\* A day goes by.
LEMMA DayKeeps == ASSUME DocsInv, DayPasses PROVE DocsInv'
  <1>0. DocsTypes /\ GivenIn /\ TextsKept
      BY DEF DocsInv
  <1>1. /\ UNCHANGED <<store, row, status, write, ingests, ingest, prune, sweep, loose, pruned>>
        /\ aged' = store /\ sweep = NoSweep /\ \A d \in Docs : write[d] # "asked"
      BY DEF DayPasses
  <1>2. prune \in PruneRec /\ \A x \in prune.batch \cup prune.gone : Given(x.doc)
      BY <1>0 DEF DocsTypes, GivenIn
  <1>3. loose \subseteq Docs /\ \A d \in Docs : Waits(d) => d \in store
      BY <1>0 DEF TextsKept, DocsTypes
  <1> QED BY <1>1, <1>2, <1>3, NothingIsRead, TextMoves

\* An entry's end comes, or is put off.
LEMMA EndsMove ==
    ASSUME DocsInv, NEW r \in Rows, NEW due \in BOOLEAN, row[r] # None, row' = [row EXCEPT ![r].due = due],
           UNCHANGED <<store, aged, status, write, ingests, ingest, prune, sweep, loose, pruned>>
    PROVE  DocsInv'
  <1>0. DocsTypes /\ GivenIn /\ TextsKept /\ row[r] \in Entry
      BY DEF DocsInv, DocsTypes
  <1> DEFINE new == [row[r] EXCEPT !.due = due]
  <1>1. new \in Entry /\ new.doc = row[r].doc
      BY <1>0 DEF Entry
  <1>2. new # None
      BY <1>1, BackgroundAssumption
  <1>3. row' = [row EXCEPT ![r] = new] /\ row \in [Rows -> {None} \cup Entry]
      BY <1>0 DEF DocsTypes
  <1> HIDE DEF new
  <1>4. row' \in [Rows -> {None} \cup Entry]
      BY <1>1, <1>3
  <1>5. \A q \in Rows : (row'[q] = None <=> row[q] = None) /\ (row[q] # None => row'[q].doc = row[q].doc)
      BY <1>1, <1>2, <1>3
  <1>6. DocsTypes'
      BY <1>0, <1>4 DEF DocsTypes
  <1>7. GivenIn'
    <2>1. \A d \in Docs : Given(d) => Given(d)'
        BY DEF Given
    <2> QED BY <1>5, <2>1, GivenStands
  <1>8. TextsKept'
      BY <1>0, TextsStand
  <1>9. GraphRight'
      BY <1>5, GraphStands
  <1> QED BY <1>6, <1>7, <1>8, <1>9, DocsRight

\* An entry falls due, or is given a later end.
LEMMA EndsKeep == ASSUME DocsInv, NEW r \in Rows, RowDue(r) \/ RowExtended(r) PROVE DocsInv'
  <1>1. CASE RowDue(r)
    <2> DEFINE due == TRUE
    <2>1. due \in BOOLEAN /\ row' = [row EXCEPT ![r].due = due]
        BY <1>1 DEF RowDue
    <2> HIDE DEF due
    <2> QED BY <1>1, <2>1, EndsMove DEF RowDue
  <1>2. CASE RowExtended(r)
    <2> DEFINE due == FALSE
    <2>1. due \in BOOLEAN /\ row' = [row EXCEPT ![r].due = due]
        BY <1>2 DEF RowExtended
    <2> HIDE DEF due
    <2> QED BY <1>2, <2>1, EndsMove DEF RowExtended
  <1> QED BY <1>1, <1>2

\* What the pruning reads, and its steps but for the deletions.
LEMMA PruneKeeps ==
    ASSUME DocsInv, PruneReads \/ PruneArchives \/ PruneEnds \/ (\E x \in Read : PruneCleans(x))
    PROVE  DocsInv'
  <1>0. DocsTypes /\ GivenIn /\ TextsKept
      BY DEF DocsInv
  <1>1. prune \in PruneRec /\ (\A x \in prune.batch \cup prune.gone : Given(x.doc)) /\ sweep \in SweepRec /\ store \subseteq Docs
        /\ loose \subseteq Docs
      BY <1>0 DEF DocsTypes, GivenIn
  <1>2. (\A d \in Docs : Waits(d) => d \in store)
        /\ (sweep.step = "remove" => \A d \in Docs : Waits(d) => d \in sweep.live \/ d \notin aged \cap sweep.stored)
      BY <1>0 DEF TextsKept
  <1>3. CASE PruneReads
    <2> DEFINE batch == {[r |-> r, doc |-> row[r].doc] : r \in {r \in Rows : row[r] # None /\ row[r].due}}
    <2>1. batch \subseteq Read /\ \A x \in batch : Given(x.doc)
      <3> SUFFICES ASSUME NEW r \in Rows, row[r] # None PROVE [r |-> r, doc |-> row[r].doc] \in Read /\ Given(row[r].doc)
          OBVIOUS
      <3>1. row[r].doc \in Docs /\ Given(row[r].doc)
          BY <1>0 DEF DocsTypes, Entry, GivenIn
      <3> QED BY <3>1 DEF Read
    <2>2. prune' = [step |-> "archive", batch |-> batch, gone |-> {}]
          /\ UNCHANGED <<store, aged, row, status, write, ingests, ingest, sweep, loose, pruned>>
        BY <1>3 DEF PruneReads
    <2> HIDE DEF batch
    <2>3. prune' \in PruneRec /\ prune'.batch = batch /\ prune'.gone = {}
        BY <2>1, <2>2 DEF PruneRec
    <2> QED BY <1>1, <1>2, <2>1, <2>2, <2>3, TextMoves
  <1>4. CASE PruneArchives
    <2>1. prune' \in PruneRec /\ prune'.batch = prune.batch /\ prune'.gone = prune.gone
        BY <1>1, <1>4 DEF PruneArchives, PruneRec
    <2> QED BY <1>1, <1>2, <1>4, <2>1, TextMoves DEF PruneArchives
  <1>5. CASE PruneEnds
    <2>1. sweep' \in SweepRec /\ sweep'.step # "remove"
        BY <1>1, <1>5, NothingIsRead DEF PruneEnds, SweepRec
    <2> QED BY <1>1, <1>2, <1>5, <2>1, NothingIsRead, TextMoves DEF PruneEnds
  <1>6. ASSUME NEW x \in Read, PruneCleans(x) PROVE DocsInv'
    <2>1. prune' \in PruneRec /\ prune'.batch = prune.batch /\ prune'.gone = {} /\ x \in prune.gone
        BY <1>1, <1>6 DEF PruneCleans, PruneRec
    <2>2. Given(x.doc) /\ x.doc \in Docs
        BY <1>1, <2>1 DEF Read
    <2>3. \A d \in Docs : Waits(d) => d \in store'
        BY <1>2, <1>6, <2>2 DEF PruneCleans, Waits, Given
    <2>4. store' \subseteq store /\ UNCHANGED <<aged, row, status, write, ingests, ingest, sweep, loose, pruned>>
        BY <1>6 DEF PruneCleans
    <2> QED BY <1>1, <1>2, <2>1, <2>3, <2>4, TextMoves
  <1> QED BY <1>3, <1>4, <1>5, <1>6

\* The sweep, which takes no text that is waited for.
LEMMA SweepKeeps == ASSUME DocsInv, SweepRows \/ SweepPending \/ SweepRemoves PROVE DocsInv'
  <1>0. DocsTypes /\ GivenIn /\ TextsKept
      BY DEF DocsInv
  <1>1. prune \in PruneRec /\ (\A x \in prune.batch \cup prune.gone : Given(x.doc)) /\ sweep \in SweepRec
        /\ loose \subseteq Docs /\ aged \subseteq Docs /\ NoSweep \in SweepRec /\ NoSweep.step # "remove"
      BY <1>0, NothingIsRead DEF DocsTypes, GivenIn
  <1>2. /\ \A d \in Docs : Waits(d) => d \in store
        /\ \A d \in Docs : write[d] \in {"none", "asked"} => d \notin aged
        /\ sweep.step = "remove" => \A d \in Docs : Waits(d) => d \in sweep.live \/ d \notin aged \cap sweep.stored
      BY <1>0 DEF TextsKept
  <1>3. CASE SweepRows
    <2> DEFINE live == {d \in Docs : OfDoc(d) # {}}
    <2>1. live \in SUBSET Docs /\ sweep' \in {NoSweep, [sweep EXCEPT !.step = "pending", !.live = live]}
        BY <1>3 DEF SweepRows
    <2> HIDE DEF live
    <2>2. sweep' \in SweepRec /\ sweep'.step # "remove"
        BY <1>1, <2>1 DEF SweepRec
    <2> QED BY <1>1, <1>2, <1>3, <2>2, TextMoves DEF SweepRows
  <1>4. CASE SweepPending
    <2> DEFINE live == sweep.live \cup Awaited
    <2>0. live \in SUBSET Docs /\ \A d \in Docs : write[d] \in {"pending", "executing"} => d \in live
        BY <1>1 DEF Awaited, SweepRec
    <2>1. CASE sweep' = [sweep EXCEPT !.step = "remove", !.live = live] /\ UNCHANGED loose
      <3> HIDE DEF live
      <3>1. sweep' \in SweepRec /\ sweep'.live = live
          BY <1>1, <2>0, <2>1 DEF SweepRec
      <3>2. \A d \in Docs : Waits(d) => d \in sweep'.live \/ d \notin aged \cap sweep'.stored
          BY <1>2, <2>0, <3>1 DEF Waits
      <3> QED BY <1>1, <1>2, <1>4, <2>1, <3>1, <3>2, TextMoves DEF SweepPending
    <2>2. CASE sweep' = [sweep EXCEPT !.step = "remove"] /\ loose' = loose \cup (Awaited \cap sweep.stored \cap aged)
      <3>1. sweep' \in SweepRec
          BY <1>1, <2>2 DEF SweepRec
      <3>2. \A d \in Docs \ loose' : Waits(d) => d \in sweep'.live \/ d \notin aged \cap sweep'.stored
          BY <1>2, <2>0, <2>2 DEF Waits, Awaited
      <3> QED BY <1>1, <1>2, <1>4, <2>2, <3>1, <3>2, TextMoves DEF SweepPending
    <2> QED BY <1>4, <2>1, <2>2 DEF SweepPending
  <1>5. CASE SweepRemoves
    <2>1. \A d \in Docs : Waits(d) => d \in store'
        BY <1>2, <1>5 DEF SweepRemoves
    <2>2. store' \subseteq store /\ sweep' = NoSweep
        BY <1>5 DEF SweepRemoves
    <2> QED BY <1>1, <1>5, <2>1, <2>2, NothingIsRead, TextMoves DEF SweepRemoves
  <1> QED BY <1>3, <1>4, <1>5

\* A deletion leaves what is of the document loose when it takes the title's own entry.
LEMMA DeletionKeeps == ASSUME DocsInv, NEW x \in Read, PruneDeletes(x) PROVE DocsInv'
  <1>0. DocsTypes /\ GivenIn /\ TextsKept /\ IngestRight /\ SectionsKnown /\ Ready
      BY DEF DocsInv
  <1>1. /\ prune \in PruneRec /\ row \in [Rows -> {None} \cup Entry] /\ x.r \in Rows /\ x \in prune.batch
        /\ loose \subseteq Docs /\ pruned \subseteq Rows
        /\ UNCHANGED <<store, aged, write, ingests, ingest, sweep>>
      BY <1>0 DEF DocsTypes, Read, PruneDeletes
  <1>l. loose \subseteq loose'
      BY DEF PruneDeletes
  <1>2. TextsKept'
      BY <1>0, <1>1, <1>l, TextsStand
  <1>3. prune' \in PruneRec /\ prune'.batch \cup prune'.gone \subseteq prune.batch \cup prune.gone
    <2> DEFINE batch == prune.batch \ {x}
               gone == {x}
    <2>1. batch \in SUBSET Read /\ gone \in SUBSET Read
        BY <1>1 DEF PruneRec
    <2>2. prune' = [prune EXCEPT !.batch = batch, !.gone = gone] \/ prune' = [prune EXCEPT !.batch = batch]
        BY DEF PruneDeletes
    <2>3. batch \cup gone \subseteq prune.batch
        BY <1>1
    <2> HIDE DEF batch, gone
    <2> QED BY <1>1, <2>1, <2>2, <2>3 DEF PruneRec
  <1>4. \A d \in Docs : Given(d) => Given(d)'
      BY <1>1 DEF Given
  <1>5. CASE ~StillDue(x.r)
    <2>1. UNCHANGED <<row, pruned, status, loose>>
        BY <1>5 DEF PruneDeletes
    <2>2. DocsTypes'
        BY <1>0, <1>1, <1>3, <2>1 DEF DocsTypes
    <2>3. GivenIn'
        BY <1>1, <1>3, <1>4, <2>1, GivenStands
    <2>4. GraphRight'
        BY <1>1, <2>1, GraphStands
    <2> QED BY <1>2, <2>2, <2>3, <2>4, DocsRight
  <1>6. CASE StillDue(x.r)
    <2>1. /\ row' = [row EXCEPT ![x.r] = None] /\ pruned' = pruned \cup {x.r}
          /\ (x.r = Whole => status' = "none" /\ loose' = loose \cup {row[Whole].doc})
          /\ (x.r # Whole => UNCHANGED <<status, loose>>)
        BY <1>6 DEF PruneDeletes
    <2>2. row[x.r] # None /\ row[x.r] \in Entry
        BY <1>1, <1>6 DEF StillDue
    <2>3. row'[x.r] = None /\ \A q \in Rows \ {x.r} : row'[q] = row[q]
        BY <1>1, <2>1
    <2>4. DocsTypes'
      <3>1. row' \in [Rows -> {None} \cup Entry]
          BY <1>1, <2>1
      <3>2. loose' \subseteq Docs /\ status' \in {"none", "ingesting", "ready", "failed"}
          BY <1>0, <2>1, <2>2 DEF DocsTypes, Entry
      <3> QED BY <1>0, <1>1, <1>3, <2>1, <3>1, <3>2 DEF DocsTypes
    <2>5. GivenIn'
        BY <1>1, <1>3, <1>4, <2>3, GivenStands
    <2>6. Whole \in Rows /\ (HasWhole' => HasWhole /\ x.r # Whole /\ row'[Whole] = row[Whole] /\ loose' = loose /\ status' = status)
        BY <2>1, <2>3 DEF HasWhole, Rows
    <2>7. loose \subseteq loose' /\ pruned \subseteq pruned' /\ (HasWhole /\ ~HasWhole' => row[Whole].doc \in loose')
        BY <2>1, <2>3, <2>6 DEF HasWhole
    <2>8. Doing' = Doing /\ (Past' <=> Past) /\ (AtSections' <=> AtSections)
        BY <1>1 DEF Doing, Past, AtSections
    <2>9. \A n \in Rows, d \in Docs : Of(n, d) => Of(n, d)' \/ n \in pruned'
        BY <2>1, <2>3 DEF Of
    <2>10. IngestRight'
      <3>1. ASSUME Past PROVE \A n \in SectionsOf[Doing] \ ingest.left : n \in pruned' \/ Of(n, Doing)'
        <4>1. ingests # << >>
            BY <1>0, <3>1 DEF IngestRight, Past
        <4>2. PICK d \in Docs : d = Doing
            BY <4>1, DoingGiven
        <4>3. SectionsOf[d] \subseteq Rows
            BY DEF Rows, Names
        <4>4. \A n \in SectionsOf[d] \ ingest.left : n \in pruned \/ Of(n, d)
            BY <1>0, <3>1, <4>2 DEF IngestRight
        <4>5. \A n \in SectionsOf[d] \ ingest.left : n \in pruned' \/ Of(n, d)'
            BY <2>7, <2>9, <4>3, <4>4
        <4> QED BY <2>8, <4>2, <4>5 DEF Of
      <3>2. ASSUME Past PROVE IF HasWhole' THEN row'[Whole].doc = Doing ELSE Doing \in loose'
          BY <1>0, <2>6, <2>7, <3>2 DEF IngestRight
      <3>3. ASSUME Past PROVE status' # "ready"
          BY <1>0, <2>1, <3>3 DEF IngestRight
      <3>4. Past => ingest.left \subseteq SectionsOf[Doing]
          BY <1>0 DEF IngestRight
      <3>5. ingest.step = "entry" => ingest.left = SectionsOf[Doing] /\ (HasWhole' => row'[Whole].doc = ingest.before)
          BY <1>0, <2>6 DEF IngestRight
      <3>6. (ingest.step # "none" => ingests # << >>) /\ (ingest.step \in {"drop", "facts", "ready"} => ingest.left = {})
          BY <1>0 DEF IngestRight
      <3>7. UNCHANGED <<ingests, ingest>>
          BY <1>1
      <3> QED BY <2>8, <3>1, <3>2, <3>3, <3>4, <3>5, <3>6, <3>7 DEF IngestRight
    <2>11. SectionsKnown'
        BY <1>0, <1>1, <2>3, <2>6, <2>7, <2>8, SectionIsNotWhole DEF SectionsKnown
    <2>12. Ready'
      <3> SUFFICES ASSUME status' = "ready" PROVE HasWhole' /\ \A n \in SectionsOf[row'[Whole].doc] \ pruned' : Of(n, row[Whole].doc)'
          BY DEF Ready
      <3>1. x.r # Whole /\ status = "ready" /\ HasWhole
          BY <1>0, <2>1 DEF Ready
      <3>2. HasWhole' /\ row'[Whole] = row[Whole]
          BY <2>3, <2>6, <3>1 DEF HasWhole
      <3>3. PICK d \in Docs : d = row[Whole].doc
          BY <1>1, <2>6, <3>1 DEF HasWhole, Entry
      <3>4. SectionsOf[d] \subseteq Rows
          BY DEF Rows, Names
      <3>5. \A n \in SectionsOf[d] \ pruned : Of(n, d)
          BY <1>0, <3>1, <3>3 DEF Ready
      <3>6. \A n \in SectionsOf[d] \ pruned' : Of(n, d)'
          BY <2>7, <2>9, <3>4, <3>5
      <3> QED BY <3>2, <3>3, <3>6 DEF Of
    <2>13. GraphRight'
        BY <2>10, <2>11, <2>12 DEF GraphRight
    <2> QED BY <1>2, <2>4, <2>5, <2>13, DocsRight
  <1> QED BY <1>5, <1>6

--------------------------------------------------------------------------
(* The ingest                                                              *)

\* A step of the ingest that leaves the texts, the calls and the pruning alone.
LEMMA IngestMoves ==
    ASSUME DocsInv, UNCHANGED <<aged, write, prune, sweep>>, loose \subseteq loose',
           store' \subseteq store, \A d \in Docs : Waits(d) => d \in store',
           row' \in [Rows -> {None} \cup Entry], \A r \in Rows : row'[r] # None => Given(row'[r].doc),
           status' \in {"none", "ingesting", "ready", "failed"}, loose' \subseteq Docs, pruned' \subseteq Rows,
           ingests' \in {ingests, Tail(ingests), << >>}, ingests # << >> \/ ingests' # Tail(ingests),
           ingest' \in IngestRec, ingest'.before # None => Given(ingest'.before),
           GraphRight'
    PROVE  DocsInv'
  <1>0. DocsTypes /\ GivenIn /\ TextsKept /\ ingests \in Seq(Docs)
      BY DEF DocsInv, DocsTypes
  <1>1. ingests' \in Seq(Docs) /\ \A i \in DOMAIN ingests' : \E k \in DOMAIN ingests : ingests'[i] = ingests[k]
    <2>1. CASE ingests' = Tail(ingests) /\ ingests # << >>
      <3>1. ingests' \in Seq(Docs) /\ Len(ingests') = Len(ingests) - 1 /\ \A i \in 1 .. Len(ingests') : ingests'[i] = ingests[i + 1]
          BY <1>0, <2>1
      <3>2. \A i \in 1 .. Len(ingests') : (i + 1) \in 1 .. Len(ingests)
          BY <1>0, <3>1
      <3> QED BY <1>0, <3>1, <3>2
    <2>2. CASE ingests' = << >>
        BY <2>2
    <2>3. CASE ingests' = ingests
        BY <1>0, <2>3
    <2> QED BY <2>1, <2>2, <2>3
  <1>2. DocsTypes'
      BY <1>0, <1>1 DEF DocsTypes
  <1>3. GivenIn'
    <2>1. \A i \in DOMAIN ingests' : Given(ingests'[i])
        BY <1>0, <1>1 DEF GivenIn
    <2>2. \A x \in prune.batch \cup prune.gone : Given(x.doc)
        BY <1>0 DEF GivenIn
    <2> QED BY <2>1, <2>2 DEF GivenIn, Given
  <1>4. TextsKept'
      BY <1>0 DEF TextsKept, Waits
  <1> QED BY <1>2, <1>3, <1>4, DocsRight

\* What holds of the documents, for the steps of the ingest.
LEMMA DocsFacts ==
    ASSUME DocsInv
    PROVE  /\ store \subseteq Docs /\ loose \subseteq Docs /\ pruned \subseteq Rows /\ row \in [Rows -> {None} \cup Entry]
           /\ status \in {"none", "ingesting", "ready", "failed"} /\ ingests \in Seq(Docs) /\ ingest \in IngestRec
           /\ ingest.before \in Docs \cup {None} /\ ingest.left \subseteq Names
           /\ \A r \in Rows : row[r] # None => row[r].doc \in Docs /\ Given(row[r].doc)
           /\ ingest.before # None => Given(ingest.before)
           /\ \A d \in Docs : Waits(d) => d \in store
           /\ IngestRight /\ SectionsKnown /\ Ready
           /\ Whole \in Rows /\ Names \subseteq Rows
  BY DEF DocsInv, DocsTypes, GivenIn, TextsKept, IngestRec, Entry, Rows

\* It fails, wherever it is.
LEMMA FailsKeep ==
    ASSUME DocsInv, ingests # << >>, IngestFails, UNCHANGED <<store, aged, row, write, prune, sweep, pruned>>
    PROVE  DocsInv'
  <1>1. /\ status' \in {status, "failed"} /\ loose' = loose \cup Behind /\ ingests' = Tail(ingests) /\ ingest' = NoIngest
      BY DEF IngestFails
  <1>2. Behind \subseteq Docs
      BY DocsFacts DEF Behind
  <1>3. GraphRight'
      BY <1>1, BreaksOff
  <1> QED BY <1>1, <1>2, <1>3, DocsFacts, NothingIsRead, IngestMoves

\* An ingest begins: it is the document's at the head of the queue, and notes whose entry the title has.
LEMMA BeginKeeps == ASSUME DocsInv, IngestBegin PROVE DocsInv'
  <1>0. ingests # << >> /\ ingest.step = "none" /\ UNCHANGED <<store, aged, row, write, prune, sweep, pruned>>
      BY DEF IngestBegin, Ingesting
  <1>1. CASE Doing \in store
    <2> DEFINE before == IF row[Whole] = None THEN None ELSE row[Whole].doc
               left == SectionsOf[Doing]
    <2>1. ingest' = [step |-> "entry", before |-> before, left |-> left] /\ UNCHANGED <<status, loose, ingests>>
        BY <1>1 DEF IngestBegin
    <2>2. before \in Docs \cup {None} /\ (before # None => Given(before)) /\ (HasWhole => before = row[Whole].doc)
        BY DocsFacts DEF HasWhole
    <2>3. left \subseteq Names
        BY <1>0, DoingGiven
    <2>4. Doing' = Doing
        BY <2>1 DEF Doing
    <2> HIDE DEF before
    <2>5. ingest'.before = before /\ ingest'.step = "entry" /\ ingest'.left = SectionsOf[Doing]
        BY <2>1
    <2> HIDE DEF left
    <2>6. ingest' \in IngestRec
        BY <2>1, <2>2, <2>3 DEF IngestRec
    <2>7. ~Past' /\ ~AtSections' /\ ~AtSections
        BY <1>0, <2>5 DEF Past, AtSections
    <2>8. IngestRight'
        BY <1>0, <2>1, <2>2, <2>4, <2>5, <2>7 DEF IngestRight, HasWhole
    <2>9. SectionsKnown' /\ Ready'
        BY <1>0, <2>1, <2>7, DocsFacts DEF SectionsKnown, Ready, HasWhole, Of
    <2>10. GraphRight'
        BY <2>8, <2>9 DEF GraphRight
    <2> QED BY <1>0, <2>1, <2>2, <2>5, <2>6, <2>10, DocsFacts, IngestMoves
  <1>2. CASE Doing \notin store
      BY <1>0, <1>2, FailsKeep DEF IngestBegin
  <1> QED BY <1>1, <1>2

\* An entry that is written is the document's at work.
LEMMA WrittenIs ==
    ASSUME DocsInv, ingests # << >>, NEW r \in Rows, Written(r)
    PROVE  /\ row' \in [Rows -> {None} \cup Entry] /\ row'[r] # None /\ row'[r].doc = Doing
           /\ \A q \in Rows \ {r} : row'[q] = row[q]
           /\ pruned' = pruned \ {r}
           /\ \A q \in Rows : row'[q] # None => Given(row'[q].doc)
  <1>1. Doing \in Docs /\ Given(Doing)
      BY DoingGiven
  <1>2. row \in [Rows -> {None} \cup Entry]
      BY DocsFacts
  <1>3. PICK due \in {FALSE} \cup IF row[r] = None THEN {} ELSE {row[r].due} : row' = [row EXCEPT ![r] = [doc |-> Doing, due |-> due]]
      BY DEF Written
  <1>4. due \in BOOLEAN
      BY <1>2, <1>3 DEF Entry
  <1> DEFINE new == [doc |-> Doing, due |-> due]
  <1>5. new \in Entry /\ new.doc = Doing /\ row' = [row EXCEPT ![r] = new]
      BY <1>1, <1>3, <1>4 DEF Entry
  <1> HIDE DEF new
  <1>6. new # None
      BY <1>5, BackgroundAssumption
  <1>7. /\ row' \in [Rows -> {None} \cup Entry] /\ row'[r] # None /\ row'[r].doc = Doing
        /\ \A q \in Rows \ {r} : row'[q] = row[q]
      BY <1>2, <1>5, <1>6
  <1>8. \A q \in Rows : row'[q] # None => Given(row'[q].doc)
      BY <1>1, <1>7, DocsFacts
  <1> QED BY <1>7, <1>8 DEF Written

\* The title's entry becomes its own.
LEMMA EntryKeeps == ASSUME DocsInv, IngestEntry PROVE DocsInv'
  <1>0. /\ ingests # << >> /\ ingest.step = "entry" /\ Written(Whole) /\ status' = "ingesting"
        /\ ingest' = [ingest EXCEPT !.step = "entered"]
        /\ UNCHANGED <<store, aged, write, ingests, prune, sweep, loose>>
      BY DEF IngestEntry, Ingesting, IngestGoes
  <1>1. /\ row' \in [Rows -> {None} \cup Entry] /\ row'[Whole] # None /\ row'[Whole].doc = Doing
        /\ \A q \in Rows \ {Whole} : row'[q] = row[q]
        /\ pruned' = pruned \ {Whole}
        /\ \A q \in Rows : row'[q] # None => Given(row'[q].doc)
      BY <1>0, DocsFacts, WrittenIs
  <1>2. ingest' \in IngestRec /\ ingest'.step = "entered" /\ ingest'.before = ingest.before /\ ingest'.left = ingest.left
      BY <1>0, DocsFacts DEF IngestRec
  <1>3. Doing' = Doing
      BY <1>0 DEF Doing
  <1>4. ingest.left = SectionsOf[Doing] /\ (HasWhole => row[Whole].doc = ingest.before)
      BY <1>0, DocsFacts DEF IngestRight
  <1>5. IngestRight'
      BY <1>0, <1>1, <1>2, <1>3, <1>4 DEF IngestRight, HasWhole
  <1>6. SectionsKnown'
    <2>1. ~AtSections /\ AtSections'
        BY <1>0, <1>2 DEF AtSections
    <2> QED BY <1>0, <1>1, <1>2, <1>4, <2>1, DocsFacts, SectionIsNotWhole DEF SectionsKnown
  <1>7. Ready'
      BY <1>0 DEF Ready
  <1>8. GraphRight'
      BY <1>5, <1>6, <1>7 DEF GraphRight
  <1> QED BY <1>0, <1>1, <1>2, <1>8, DocsFacts, IngestMoves

\* A section is written.
LEMMA SectionsKeep == ASSUME DocsInv, IngestSections PROVE DocsInv'
  <1>0. /\ ingests # << >> /\ ingest.step = "sections"
        /\ UNCHANGED <<store, aged, status, write, ingests, prune, sweep, loose>>
      BY DEF IngestSections, Ingesting
  <1>1. PICK n \in ingest.left : Written(n) /\ ingest' = [ingest EXCEPT !.left = ingest.left \ {n}, !.step = "sectioned"]
      BY DEF IngestSections
  <1>2. n \in Names /\ n \in Rows /\ n # Whole
      BY <1>1, DocsFacts, SectionIsNotWhole
  <1>3. /\ row' \in [Rows -> {None} \cup Entry] /\ row'[n] # None /\ row'[n].doc = Doing
        /\ \A q \in Rows \ {n} : row'[q] = row[q]
        /\ pruned' = pruned \ {n}
        /\ \A q \in Rows : row'[q] # None => Given(row'[q].doc)
      BY <1>0, <1>1, <1>2, WrittenIs
  <1> DEFINE left == ingest.left \ {n}
  <1>4. left \in SUBSET Names /\ ingest' = [ingest EXCEPT !.left = left, !.step = "sectioned"]
      BY <1>1, DocsFacts
  <1>5. \A m : m \notin left <=> m \notin ingest.left \/ m = n
      OBVIOUS
  <1>6. left \subseteq ingest.left
      OBVIOUS
  <1> HIDE DEF left
  <1>7. ingest' \in IngestRec /\ ingest'.step = "sectioned" /\ ingest'.before = ingest.before /\ ingest'.left = left
      BY <1>4, DocsFacts DEF IngestRec
  <1>8. Doing' = Doing /\ Past /\ Past' /\ AtSections /\ AtSections'
      BY <1>0, <1>7 DEF Doing, Past, AtSections
  <1>9. (HasWhole' <=> HasWhole) /\ row'[Whole] = row[Whole]
      BY <1>2, <1>3, DocsFacts DEF HasWhole
  <1>10. /\ status # "ready" /\ ingest.left \subseteq SectionsOf[Doing]
         /\ IF HasWhole THEN row[Whole].doc = Doing ELSE Doing \in loose
      BY <1>8, DocsFacts DEF IngestRight
  <1>11. \A m \in SectionsOf[Doing] \ left : m \in pruned' \/ Of(m, Doing)'
    <2>1. PICK d \in Docs : d = Doing
        BY <1>0, DoingGiven
    <2>2. SectionsOf[d] \subseteq Rows
        BY DEF Rows, Names
    <2>3. \A m \in SectionsOf[d] \ ingest.left : m \in pruned \/ Of(m, d)
        BY <1>8, <2>1, DocsFacts DEF IngestRight
    <2>4. \A m \in SectionsOf[d] \ left : m \in pruned' \/ Of(m, d)'
        BY <1>3, <1>5, <2>1, <2>2, <2>3 DEF Of
    <2> QED BY <1>8, <2>1, <2>4 DEF Of
  <1>12. IngestRight'
      BY <1>0, <1>6, <1>7, <1>8, <1>9, <1>10, <1>11 DEF IngestRight
  <1>13. SectionsKnown'
    <2> SUFFICES ASSUME NEW m \in Names, row'[m] # None
                 PROVE  row'[m].doc \in loose' \/ (HasWhole' /\ row'[m].doc = row'[Whole].doc) \/ row'[m].doc = ingest'.before
        BY <1>8 DEF SectionsKnown
    <2>1. CASE m = n
        BY <1>0, <1>3, <1>9, <1>10, <2>1
    <2>2. CASE m # n
      <3>1. row'[m] = row[m]
          BY <1>3, <2>2, SectionIsNotWhole
      <3> QED BY <1>0, <1>7, <1>9, <3>1, DocsFacts DEF SectionsKnown
    <2> QED BY <2>1, <2>2
  <1>14. Ready'
      BY <1>0, <1>10 DEF Ready
  <1>15. GraphRight'
      BY <1>12, <1>13, <1>14 DEF GraphRight
  <1> QED BY <1>0, <1>3, <1>7, <1>15, DocsFacts, IngestMoves

\* The ingest goes on to a step that says no more than the last.
LEMMA GoesOn ==
    ASSUME DocsInv, ingests # << >>, NEW then, IngestGoes(then), UNCHANGED <<status, ingests, loose, aged, row, write, prune, sweep, pruned>>,
           \/ ingest.step \in {"entered", "sectioned"} /\ then = "sections"
           \/ ingest.step = "drop" /\ then \in {"facts", "ready"}
           \/ ingest.step = "facts" /\ then = "ready",
           store' \subseteq store, \A d \in Docs : Waits(d) => d \in store'
    PROVE  DocsInv'
  <1>1. then \in {"sections", "facts", "ready"}
      OBVIOUS
  <1>2. ingest' \in IngestRec /\ ingest'.step = then /\ ingest'.before = ingest.before /\ ingest'.left = ingest.left
      BY <1>1, DocsFacts DEF IngestRec, IngestGoes
  <1>3. Doing' = Doing /\ Past /\ Past' /\ (AtSections' <=> AtSections) /\ (HasWhole' <=> HasWhole)
      BY <1>2 DEF Doing, Past, AtSections, HasWhole
  <1>4. IngestRight'
      BY <1>2, <1>3, DocsFacts DEF IngestRight, Of
  <1>5. SectionsKnown' /\ Ready'
      BY <1>2, <1>3, DocsFacts DEF SectionsKnown, Ready, Of
  <1>6. GraphRight'
      BY <1>4, <1>5 DEF GraphRight
  <1> QED BY <1>2, <1>6, DocsFacts, IngestMoves

\* What was written is embedded, or the ingest fails.
LEMMA EmbedsKeep == ASSUME DocsInv, IngestEmbeds \/ IngestFacts PROVE DocsInv'
  <1>0. ingests # << >> /\ UNCHANGED <<store, aged, row, write, prune, sweep, pruned>>
      BY DEF IngestEmbeds, IngestFacts, Ingesting
  <1>1. CASE IngestFails
      BY <1>0, <1>1, FailsKeep
  <1>2. CASE IngestEmbeds /\ IngestGoes("sections") /\ UNCHANGED <<ingests, status, loose>>
    <2> DEFINE then == "sections"
    <2>1. IngestGoes(then) /\ ingest.step \in {"entered", "sectioned"} /\ then = "sections"
        BY <1>2 DEF IngestEmbeds, Ingesting
    <2> HIDE DEF then
    <2> QED BY <1>0, <1>2, <2>1, DocsFacts, GoesOn
  <1>3. CASE IngestFacts /\ IngestGoes("ready") /\ UNCHANGED <<ingests, status, loose>>
    <2> DEFINE then == "ready"
    <2>1. IngestGoes(then) /\ ingest.step = "facts" /\ then = "ready"
        BY <1>3 DEF IngestFacts, Ingesting
    <2> HIDE DEF then
    <2> QED BY <1>0, <1>3, <2>1, DocsFacts, GoesOn
  <1>4. \A then : Embedding(then) => IngestFails \/ (IngestGoes(then) /\ UNCHANGED <<ingests, status, loose>>)
      BY DEF Embedding
  <1>5. IngestEmbeds => Embedding("sections")
      BY DEF IngestEmbeds
  <1>6. IngestFacts => Embedding("ready")
      BY DEF IngestFacts
  <1> QED BY <1>1, <1>2, <1>3, <1>4, <1>5, <1>6

\* The text of the document before it goes, which nobody waits for.
LEMMA DropsKeep == ASSUME DocsInv, IngestDrops PROVE DocsInv'
  <1> DEFINE then == IF Doing \in Extracts THEN "facts" ELSE "ready"
  <1>1. ingests # << >> /\ ingest.step = "drop" /\ IngestGoes(then) /\ then \in {"facts", "ready"}
      BY DEF IngestDrops, Ingesting
  <1>2. UNCHANGED <<status, ingests, loose, aged, row, write, prune, sweep, pruned>>
      BY DEF IngestDrops
  <1>3. store' \subseteq store /\ \A d \in Docs : Waits(d) => d \in store'
    <2>1. \A d \in Docs : Waits(d) => d # ingest.before
        BY DocsFacts, NoneIsNoDoc DEF Waits, Given
    <2> QED BY <2>1, DocsFacts DEF IngestDrops
  <1> HIDE DEF then
  <1> QED BY <1>1, <1>2, <1>3, GoesOn

\* What is left of the document before it goes.
LEMMA ReplacesKeep == ASSUME DocsInv, IngestReplaces PROVE DocsInv'
  <1>0. /\ ingests # << >> /\ ingest.step = "sections" /\ ingest.left = {}
        /\ ingest' = [ingest EXCEPT !.step = "drop"]
        /\ \/ row' = [r \in Rows |-> IF r \in Replaced THEN None ELSE row[r]] /\ loose' = loose
           \/ row' = row /\ Replaced # {} /\ loose' = loose \cup {ingest.before}
        /\ UNCHANGED <<store, aged, status, write, ingests, prune, sweep, pruned>>
      BY DEF IngestReplaces, Ingesting, IngestGoes
  <1>1. ingest' \in IngestRec /\ ingest'.step = "drop" /\ ingest'.before = ingest.before /\ ingest'.left = {}
      BY <1>0, DocsFacts DEF IngestRec
  <1>2. /\ row' \in [Rows -> {None} \cup Entry]
        /\ \A r \in Rows : row'[r] = None \/ row'[r] = row[r]
        /\ \A r \in Rows : r \notin Replaced => row'[r] = row[r]
      BY <1>0, DocsFacts
  <1>3. \A r \in Rows : row'[r] # None => Given(row'[r].doc)
      BY <1>2, DocsFacts
  <1>l. loose \subseteq loose' /\ loose' \subseteq Docs
    <2>1. Replaced # {} => ingest.before # None
        BY DEF Replaced
    <2> QED BY <1>0, <2>1, DocsFacts
  <1>4. \A r \in Rows : r \in Replaced <=> ingest.before \notin {None, Doing} /\ r # Whole /\ row[r] # None /\ row[r].doc = ingest.before
      BY DEF Replaced, SectionsIn, OfDoc
  <1>5. row'[Whole] = row[Whole] /\ (HasWhole' <=> HasWhole)
      BY <1>2, <1>4, DocsFacts DEF HasWhole
  <1>6. Doing' = Doing /\ Past /\ Past' /\ AtSections /\ ~AtSections'
      BY <1>0, <1>1 DEF Doing, Past, AtSections
  <1>7. status # "ready" /\ IF HasWhole THEN row[Whole].doc = Doing ELSE Doing \in loose
      BY <1>6, DocsFacts DEF IngestRight
  <1>8. \A m \in SectionsOf[Doing] : m \in pruned' \/ Of(m, Doing)'
    <2>1. PICK d \in Docs : d = Doing
        BY <1>0, DoingGiven
    <2>2. SectionsOf[d] \subseteq Rows
        BY DEF Rows, Names
    <2>3. \A m \in SectionsOf[d] : m \in pruned \/ Of(m, d)
        BY <1>0, <1>6, <2>1, DocsFacts DEF IngestRight
    <2>4. \A m \in SectionsOf[d] : m \in pruned' \/ Of(m, d)'
        BY <1>0, <1>2, <1>4, <2>1, <2>2, <2>3 DEF Of
    <2> QED BY <1>6, <2>1, <2>4 DEF Of
  <1>9. IngestRight'
      BY <1>0, <1>1, <1>5, <1>6, <1>7, <1>8, <1>l DEF IngestRight
  <1>10. SectionsKnown'
    <2> SUFFICES ASSUME NEW m \in Names, row'[m] # None
                 PROVE  row'[m].doc \in loose' \/ (HasWhole /\ row'[m].doc = row[Whole].doc)
        BY <1>0, <1>5 DEF SectionsKnown
    <2>1. m \in Rows /\ m # Whole /\ row'[m] = row[m] /\ (m \notin Replaced \/ ingest.before \in loose')
      <3>1. m \in Rows /\ m # Whole
          BY SectionIsNotWhole
      <3> QED BY <1>0, <1>2, <3>1
    <2>2. row[m].doc # None
        BY <2>1, DocsFacts, NoneIsNoDoc
    <2>3. row[m].doc \in loose \/ (HasWhole /\ row[m].doc = row[Whole].doc) \/ row[m].doc = ingest.before
        BY <2>1, DocsFacts DEF SectionsKnown
    <2> QED BY <1>4, <1>7, <1>l, <2>1, <2>2, <2>3
  <1>11. Ready'
      BY <1>0, <1>7 DEF Ready
  <1>12. GraphRight'
      BY <1>9, <1>10, <1>11 DEF GraphRight
  <1> QED BY <1>0, <1>1, <1>2, <1>3, <1>12, <1>l, DocsFacts, IngestMoves

\* The document is ready.
LEMMA ReadyKeeps == ASSUME DocsInv, IngestReady PROVE DocsInv'
  <1>0. /\ ingests # << >> /\ ingest.step = "ready" /\ status' = (IF row[Whole] # None THEN "ready" ELSE status)
        /\ ingests' = Tail(ingests) /\ ingest' = NoIngest
        /\ UNCHANGED <<store, aged, row, write, prune, sweep, loose, pruned>>
      BY DEF IngestReady, Ingesting
  <1>1. Past /\ ~Past' /\ ~AtSections /\ ~AtSections' /\ ingest.left = {} /\ (HasWhole' <=> HasWhole)
      BY <1>0, NothingIsRead, DocsFacts DEF Past, AtSections, IngestRight, HasWhole
  <1>2. IngestRight'
      BY <1>0, <1>1, NothingIsRead DEF IngestRight
  <1>3. SectionsKnown'
      BY <1>0, <1>1, DocsFacts DEF SectionsKnown
  <1>4. Ready'
    <2> SUFFICES ASSUME status' = "ready" PROVE HasWhole /\ \A n \in SectionsOf[row[Whole].doc] \ pruned : Of(n, row[Whole].doc)
        BY <1>0, <1>1 DEF Ready, Of
    <2>1. HasWhole
        BY <1>0, <1>1, DocsFacts DEF HasWhole, IngestRight
    <2>2. row[Whole].doc = Doing
        BY <1>1, <2>1, DocsFacts DEF IngestRight
    <2>3. \A n \in SectionsOf[Doing] \ pruned : Of(n, Doing)
        BY <1>1, DocsFacts DEF IngestRight
    <2> QED BY <2>1, <2>2, <2>3
  <1>5. GraphRight'
      BY <1>2, <1>3, <1>4 DEF GraphRight
  <1> QED BY <1>0, <1>5, DocsFacts, NothingIsRead, IngestMoves

\* A step of the ingest (ingestDocument).
LEMMA IngestKeeps == ASSUME DocsInv, IngestStep PROVE DocsInv'
  BY BeginKeeps, EntryKeeps, SectionsKeep, EmbedsKeep, ReplacesKeep, DropsKeep, ReadyKeeps DEF IngestStep

\* A step of the pruning or the sweep (pruneExpired, sweepOrphanDocuments).
LEMMA PruneStepKeeps == ASSUME DocsInv, PruneStep PROVE DocsInv'
  <1>1. \A r \in Rows, d \in Docs : [r |-> r, doc |-> d] \in Read
      BY DEF Read
  <1> QED BY <1>1, PruneKeeps, SweepKeeps, DeletionKeeps DEF PruneStep

\* A step of the calls, the days or the entries' ends.
LEMMA DocumentStepKeeps == ASSUME DocsInv, DocumentStep PROVE DocsInv'
  BY CallKeeps, DayKeeps, EndsKeep DEF DocumentStep

\* A restart breaks the ingest off, and forgets the calls that had not got further than the text.
LEMMA DocumentsRestartKeeps == ASSUME DocsInv, DocumentsRestart PROVE DocsInv'
  <1>0. /\ ingests' = << >> /\ ingest' = NoIngest /\ prune' = NoPrune /\ sweep' = NoSweep
        /\ write' = [d \in Docs |-> IF write[d] = "asked" THEN "gone" ELSE write[d]]
        /\ loose' = loose \cup Behind /\ UNCHANGED <<store, aged, row, status, pruned>>
      BY DEF DocumentsRestart
  <1>1. DocsTypes /\ GivenIn /\ TextsKept /\ write \in [Docs -> Writes]
      BY DEF DocsInv, DocsTypes
  <1>2. write' \in [Docs -> Writes] /\ \A d \in Docs : write'[d] = IF write[d] = "asked" THEN "gone" ELSE write[d]
      BY <1>0, <1>1 DEF Writes
  <1>3. Behind \subseteq Docs
      BY DocsFacts DEF Behind
  <1>4. DocsTypes'
      BY <1>0, <1>1, <1>2, <1>3, NothingIsRead DEF DocsTypes
  <1>5. \A d \in Docs : Given(d) => Given(d)'
      BY <1>2 DEF Given
  <1>6. GivenIn'
    <2>1. \A r \in Rows : row[r] # None => Given(row[r].doc)'
      <3> SUFFICES ASSUME NEW r \in Rows, row[r] # None PROVE Given(row[r].doc)'
          OBVIOUS
      <3>1. PICK d \in Docs : d = row[r].doc /\ Given(d)'
          BY <1>5, DocsFacts
      <3> QED BY <1>0, <3>1 DEF Given
    <2> QED BY <1>0, <2>1, NothingIsRead DEF GivenIn
  <1>7. TextsKept'
      BY <1>0, <1>1, <1>2, NothingIsRead DEF TextsKept, Waits
  <1>8. GraphRight'
      BY <1>0, BreaksOff
  <1> QED BY <1>4, <1>6, <1>7, <1>8, DocsRight

--------------------------------------------------------------------------
(* Jobs                                                                    *)

AtWork == {"mentions", "embed", "link", "triage", "fresh", "look", "insert"}
Deciding == {"triage", "fresh", "look", "insert"}

\* What holds of the jobs, for their steps.
LEMMA JobsFacts ==
    ASSUME JobsInv
    PROVE  /\ text \in [Notes -> 0 .. MaxText] /\ linked \in [Notes -> 0 .. MaxText] /\ handed \in [Notes -> 0 .. MaxText]
           /\ bare \subseteq Notes /\ lost \subseteq Notes /\ \A e \in bare : text[e] = 0 /\ MaxText > 0
           /\ job \in [JobIds -> {None} \cup JobRow] /\ queueing \in [Queueings -> {None} \cup Enqueued]
           /\ tick \in TickRec /\ calls \in 0 .. DailyCalls
           /\ tick.step \in {"rest", "claim", "read"} \cup AtWork /\ tick.due \subseteq JobIds
           /\ tick.at \in JobIds \cup {None} /\ None \notin JobIds /\ None \notin JobRow /\ None \notin Enqueued
           /\ TriesLeft /\ TickWorks /\ Linking /\ NoneForgotten
           /\ tick.seen \in 0 .. MaxText
  <1>1. None \notin JobIds /\ None \notin JobRow /\ None \notin Enqueued
      BY BackgroundAssumption
  <1> QED BY <1>1 DEF JobsInv, Working, JobsTypes, TickRec, AtWork

\* While a job is at work it is the tick's, and runs.
LEMMA AtFacts ==
    ASSUME JobsInv, tick.step \notin {"rest", "claim"}
    PROVE  /\ tick.at \in JobIds /\ job[tick.at] \in JobRow /\ job[tick.at] # None /\ job[tick.at].kind = "mentions"
           /\ job[tick.at].status = "running" /\ job[tick.at].e \in Notes /\ job[tick.at].attempts \in 0 .. (GiveUp - 1)
           /\ At = job[tick.at] /\ tick.at \notin tick.due
  <1>1. tick.at \in JobIds /\ Mine(tick.at) /\ job[tick.at].status = "running"
      BY JobsFacts DEF TickWorks
  <1>2. job[tick.at] \in JobRow /\ job[tick.at] # None /\ job[tick.at].kind = "mentions"
      BY <1>1, JobsFacts DEF Mine
  <1>3. job[tick.at].e \in Notes /\ job[tick.at].attempts \in 0 .. GiveUp
      BY <1>2 DEF JobRow
  <1>4. job[tick.at].attempts < GiveUp
      BY <1>1, <1>2, JobsFacts DEF TriesLeft
  <1>5. tick.at \notin tick.due
      BY <1>1, JobsFacts DEF TickWorks
  <1> QED BY <1>1, <1>2, <1>3, <1>4, <1>5, JobsAssumption DEF At

\* No entry is forgotten when the jobs that are to see it still are, or it has been seen.
LEMMA WayKept ==
    ASSUME NoneForgotten, UNCHANGED <<text, lost>>, quota'.onward = quota.onward,
           \A n \in Queueings : queueing[n] # None => queueing'[n] # None /\ queueing'[n].q = queueing[n].q,
           \A e \in Notes, j \in JobIds : Serves(j, e) =>
              \/ Serves(j, e)' /\ job'[j].intake = job[j].intake
              \/ linked'[e] = text[e] /\ (job[j].intake => handed'[e] = text[e]),
           \A e \in Notes : (linked[e] = text[e] => linked'[e] = text[e]) /\ (handed[e] = text[e] => handed'[e] = text[e])
    PROVE  NoneForgotten'
  <1>1. \A n \in Queueings, e \in Notes : Asks(n, e) => Asks(n, e)' /\ queueing'[n].q.intake = queueing[n].q.intake
      BY DEF Asks
  <1> SUFFICES ASSUME NEW e \in Notes \ lost PROVE ToLink(e)' /\ (quota.onward = "intake" => ToHand(e)')
      BY DEF NoneForgotten
  <1>2. ToLink(e)'
      BY <1>1 DEF ToLink, NoneForgotten
  <1>3. ASSUME quota.onward = "intake" PROVE ToHand(e)'
      BY <1>1, <1>3 DEF ToHand, NoneForgotten
  <1> QED BY <1>2, <1>3

\* The job at work goes on.
LEMMA GoesOnAt ==
    ASSUME JobsInv, UNCHANGED <<text, bare, linked, handed, job, queueing, lost>>,
           calls' \in 0 .. DailyCalls, quota'.onward = quota.onward,
           tick' \in TickRec, tick'.at = tick.at, tick'.due = tick.due, tick'.seen = tick.seen,
           tick.step \in AtWork, tick'.step \in AtWork,
           tick'.step \in Deciding => linked[job[tick.at].e] = tick.seen
    PROVE  JobsInv'
  <1>1. JobsTypes' /\ TriesLeft'
      BY DEF JobsInv, Working, JobsTypes, TriesLeft
  <1>2. TickWorks'
      BY JobsFacts DEF TickWorks, Mine, AtWork
  <1>3. Linking'
      BY JobsFacts DEF Linking, AtWork, Deciding
  <1>4. \A e \in Notes, j \in JobIds : Serves(j, e) => Serves(j, e)'
      BY DEF Serves, Mine, AtWork
  <1>5. NoneForgotten'
      BY <1>4, WayKept, JobsFacts
  <1> QED BY <1>1, <1>2, <1>3, <1>5 DEF JobsInv, Working

\* The job at work waits again, or is given up.
LEMMA PutsBack ==
    ASSUME JobsInv, UNCHANGED <<text, bare, linked, handed, queueing, lost>>,
           calls' \in 0 .. DailyCalls, quota'.onward = quota.onward, tick.step \in AtWork,
           NEW new \in JobRow, job' = [job EXCEPT ![tick.at] = new],
           new.kind = job[tick.at].kind, new.e = job[tick.at].e, new.intake = job[tick.at].intake,
           new.status \in {"pending", "failed"}, new.status = "pending" => new.attempts < GiveUp,
           tick' \in TickRec, tick'.at = None, tick'.step \in {"rest", "claim"}, tick'.due \subseteq tick.due
    PROVE  JobsInv'
  <1>0. /\ tick.at \in JobIds /\ job[tick.at] # None /\ job[tick.at].kind = "mentions"
        /\ job[tick.at].status = "running" /\ tick.at \notin tick.due
      BY AtFacts DEF AtWork
  <1>1. new # None
      BY JobsFacts
  <1>2. job' \in [JobIds -> {None} \cup JobRow] /\ job'[tick.at] = new /\ \A j \in JobIds \ {tick.at} : job'[j] = job[j]
      BY <1>0, JobsFacts
  <1>3. JobsTypes'
      BY <1>2, JobsFacts DEF JobsTypes
  <1>4. TriesLeft'
      BY <1>2, JobsFacts DEF TriesLeft
  <1>5. TickWorks'
      BY <1>0, <1>1, <1>2, JobsFacts DEF TickWorks, Mine
  <1>6. Linking'
      BY JobsFacts DEF Linking
  <1>7. \A e \in Notes, j \in JobIds : Serves(j, e) => Serves(j, e)' /\ job'[j].intake = job[j].intake
      BY <1>0, <1>1, <1>2 DEF Serves, Mine
  <1>8. NoneForgotten'
      BY <1>7, WayKept, JobsFacts
  <1> QED BY <1>3, <1>4, <1>5, <1>6, <1>8 DEF JobsInv, Working

\* The job at work is done: its entry is linked as it was read, and handed over if that was to be.
LEMMA Finishes ==
    ASSUME JobsInv, UNCHANGED <<text, bare, queueing, calls, lost>>, quota'.onward = quota.onward,
           tick.step \in Deciding \cup {"link"},
           job' \in [JobIds -> {None} \cup JobRow], job'[tick.at] # None,
           job'[tick.at].status = "done",
           \A j \in JobIds \ {tick.at} :
              job'[j] = job[j] \/ (job[j] = None /\ job'[j] \in JobRow /\ job'[j].kind # "mentions" /\ job'[j].attempts = 0),
           linked' \in [Notes -> 0 .. MaxText], handed' \in [Notes -> 0 .. MaxText],
           \A e \in Notes \ {job[tick.at].e} : linked'[e] = linked[e] /\ handed'[e] = handed[e],
           linked'[job[tick.at].e] = tick.seen,
           handed'[job[tick.at].e] = tick.seen \/ (handed' = handed /\ ~job[tick.at].intake),
           tick' \in TickRec, tick'.at = None, tick'.step = "claim", tick'.due = tick.due
    PROVE  JobsInv'
  <1>0. /\ tick.at \in JobIds /\ job[tick.at] # None /\ job[tick.at].kind = "mentions"
        /\ job[tick.at].status = "running" /\ tick.at \notin tick.due /\ job[tick.at].e \in Notes
      BY AtFacts DEF Deciding
  <1>1. JobsTypes'
      BY JobsFacts DEF JobsTypes
  <1>2. TriesLeft'
      BY JobsFacts, JobsAssumption DEF TriesLeft
  <1>3. TickWorks'
      BY <1>0, JobsFacts DEF TickWorks, Mine
  <1>4. tick.seen <= text[job[tick.at].e] /\ linked[job[tick.at].e] <= tick.seen /\ handed[job[tick.at].e] <= tick.seen
      BY JobsFacts DEF Linking, Deciding
  <1>5. Linking'
      BY <1>0, <1>4, JobsFacts DEF Linking
  <1>6. \A e \in Notes : (linked[e] = text[e] => linked'[e] = text[e]) /\ (handed[e] = text[e] => handed'[e] = text[e])
    <2> SUFFICES ASSUME NEW e \in Notes
                 PROVE  (linked[e] = text[e] => linked'[e] = text[e]) /\ (handed[e] = text[e] => handed'[e] = text[e])
        OBVIOUS
    <2>1. CASE e # job[tick.at].e
        BY <2>1
    <2>2. CASE e = job[tick.at].e
        BY <1>4, <2>2, JobsFacts
    <2> QED BY <2>1, <2>2
  <1>7. ASSUME NEW e \in Notes, NEW j \in JobIds, Serves(j, e)
        PROVE  \/ Serves(j, e)' /\ job'[j].intake = job[j].intake
               \/ linked'[e] = text[e] /\ (job[j].intake => handed'[e] = text[e])
    <2>1. CASE j = tick.at
        BY <1>0, <1>7, <2>1 DEF Serves, Deciding
    <2>2. CASE j # tick.at
      <3>1. job[j] # None /\ job'[j] = job[j] /\ job[j].status \in {"pending", "failed"}
          BY <1>7, <2>2 DEF Serves, Mine
      <3> QED BY <1>7, <3>1 DEF Serves, Mine
    <2> QED BY <2>1, <2>2
  <1>8. NoneForgotten'
      BY <1>6, <1>7, WayKept, JobsFacts
  <1> QED BY <1>1, <1>2, <1>3, <1>5, <1>8 DEF JobsInv, Working

\* Where the tick goes, and what it hears.
LEMMA GoesTo ==
    ASSUME tick \in TickRec, NEW step \in AtWork, Goes(step)
    PROVE  tick' \in TickRec /\ tick'.step = step /\ tick'.at = tick.at /\ tick'.due = tick.due /\ tick'.seen = tick.seen
  BY DEF Goes, TickRec, AtWork

\* It is answered.
LEMMA Hears ==
    ASSUME tick \in TickRec, NEW answer \in Answers, tick' = [tick EXCEPT !.answer = answer]
    PROVE  tick' \in TickRec /\ tick'.step = tick.step /\ tick'.at = tick.at /\ tick'.due = tick.due /\ tick'.seen = tick.seen
  BY DEF TickRec

\* A job that failed, or is put off.
LEMMA FailedOrLater ==
    ASSUME JobsInv, UNCHANGED <<text, bare, linked, handed, queueing, lost>>,
           calls' \in 0 .. DailyCalls, quota'.onward = quota.onward, tick.step \in AtWork, Failed \/ Later
    PROVE  JobsInv'
  <1>0. /\ tick.at \in JobIds /\ job[tick.at] \in JobRow /\ job[tick.at].attempts \in 0 .. (GiveUp - 1)
        /\ job \in [JobIds -> {None} \cup JobRow] /\ tick \in TickRec
      BY AtFacts, JobsFacts DEF AtWork
  <1>1. CASE Failed
    <2> DEFINE ending == IF GivesUp(job[tick.at].attempts + 1) THEN "failed" ELSE "pending"
               attempts == job[tick.at].attempts + 1
               new == [job[tick.at] EXCEPT !.attempts = attempts, !.due = FALSE, !.status = ending]
    <2>1. attempts \in 0 .. GiveUp /\ ending \in {"pending", "failed"} /\ (ending = "pending" => attempts < GiveUp)
        BY <1>0, JobsAssumption DEF GivesUp
    <2>2. job' = [job EXCEPT ![tick.at] = new]
        BY <1>0, <1>1 DEF Failed
    <2> HIDE DEF ending, attempts
    <2>3. /\ new \in JobRow /\ new.kind = job[tick.at].kind /\ new.e = job[tick.at].e /\ new.intake = job[tick.at].intake
          /\ new.status = ending /\ new.attempts = attempts
        BY <1>0, <2>1 DEF JobRow
    <2> HIDE DEF new
    <2>4. tick' \in TickRec /\ tick'.at = None /\ tick'.step = "claim" /\ tick'.due = tick.due
        BY <1>0, <1>1 DEF Failed, TickRec
    <2> QED BY <2>1, <2>2, <2>3, <2>4, PutsBack
  <1>2. CASE Later
    <2> DEFINE new == [job[tick.at] EXCEPT !.status = "pending", !.due = FALSE]
    <2>1. job' = [job EXCEPT ![tick.at] = new]
        BY <1>0, <1>2 DEF Later, PutOff
    <2>2. /\ new \in JobRow /\ new.kind = job[tick.at].kind /\ new.e = job[tick.at].e /\ new.intake = job[tick.at].intake
          /\ new.status = "pending" /\ new.attempts = job[tick.at].attempts
        BY <1>0 DEF JobRow
    <2>3. new.attempts < GiveUp
        BY <1>0, <2>2, JobsAssumption
    <2> HIDE DEF new
    <2>4. tick' \in TickRec /\ tick'.at = None /\ tick'.step = "rest" /\ tick'.due = {}
        BY <1>2, JobsAssumption DEF Later, Resting, TickRec
    <2> QED BY <2>1, <2>2, <2>3, <2>4, PutsBack
  <1> QED BY <1>1, <1>2

\* It is done, and its entry linked and handed over as far as it was read.
LEMMA FinishedAt ==
    ASSUME JobsInv, UNCHANGED <<text, bare, queueing, calls, lost>>, quota'.onward = quota.onward,
           tick.step \in Deciding \cup {"link"}, Finished,
           linked' = [linked EXCEPT ![job[tick.at].e] = tick.seen] \/ (UNCHANGED linked /\ tick.step \in Deciding),
           handed' = [handed EXCEPT ![job[tick.at].e] = tick.seen] \/ (UNCHANGED handed /\ ~job[tick.at].intake)
    PROVE  JobsInv'
  <1>0. /\ tick.at \in JobIds /\ job[tick.at] \in JobRow /\ job[tick.at].e \in Notes
        /\ job \in [JobIds -> {None} \cup JobRow] /\ tick \in TickRec
        /\ linked \in [Notes -> 0 .. MaxText] /\ handed \in [Notes -> 0 .. MaxText] /\ tick.seen \in 0 .. MaxText
      BY AtFacts, JobsFacts DEF Deciding
  <1> DEFINE new == [job[tick.at] EXCEPT !.status = "done"]
  <1>1. new \in JobRow /\ new.status = "done"
      BY <1>0 DEF JobRow
  <1>2. new # None
      BY <1>1, JobsFacts
  <1>3. job' = [job EXCEPT ![tick.at] = new]
      BY <1>0 DEF Finished
  <1> HIDE DEF new
  <1>4. /\ job' \in [JobIds -> {None} \cup JobRow] /\ job'[tick.at] # None /\ job'[tick.at].status = "done"
        /\ \A j \in JobIds \ {tick.at} : job'[j] = job[j]
      BY <1>0, <1>1, <1>2, <1>3
  <1>5. tick.step \in Deciding => linked[job[tick.at].e] = tick.seen
      BY JobsFacts DEF Linking, Deciding
  <1>6. /\ linked' \in [Notes -> 0 .. MaxText] /\ linked'[job[tick.at].e] = tick.seen
        /\ \A e \in Notes \ {job[tick.at].e} : linked'[e] = linked[e]
      BY <1>0, <1>5
  <1>7. /\ handed' \in [Notes -> 0 .. MaxText]
        /\ handed'[job[tick.at].e] = tick.seen \/ (handed' = handed /\ ~job[tick.at].intake)
        /\ \A e \in Notes \ {job[tick.at].e} : handed'[e] = handed[e]
      BY <1>0
  <1>8. tick' \in TickRec /\ tick'.at = None /\ tick'.step = "claim" /\ tick'.due = tick.due
      BY <1>0 DEF Finished, TickRec
  <1> QED BY <1>4, <1>6, <1>7, <1>8, Finishes

\* A model is called for the job.
LEMMA CallsKeep ==
    ASSUME JobsInv, UNCHANGED <<text, bare, linked, handed, queueing, lost>>,
           calls' \in 0 .. DailyCalls, quota'.onward = quota.onward, tick.step \in AtWork, NEW d \in Deps, Calls(d)
    PROVE  JobsInv'
  <1>1. CASE Later
      BY <1>1, FailedOrLater
  <1>2. ASSUME NEW answer \in Served(d), tick' = [tick EXCEPT !.answer = answer], UNCHANGED job PROVE JobsInv'
    <2>1. answer \in Answers
        BY DEF Served, Answers
    <2>2. tick.step \in Deciding => linked[job[tick.at].e] = tick.seen
        BY JobsFacts DEF Linking, Deciding
    <2>3. tick' \in TickRec /\ tick'.step = tick.step /\ tick'.at = tick.at /\ tick'.due = tick.due /\ tick'.seen = tick.seen
        BY <1>2, <2>1, JobsFacts, Hears
    <2> QED BY <1>2, <2>2, <2>3, GoesOnAt
  <1> QED BY <1>1, <1>2 DEF Calls

\* The job goes on with its entry as it was read.
LEMMA StepGoesOn ==
    ASSUME JobsInv, UNCHANGED <<text, bare, linked, handed, job, queueing, lost, calls>>,
           quota'.onward = quota.onward, tick.step \in AtWork, NEW step \in AtWork, Goes(step),
           step \in Deciding => tick.step \in Deciding
    PROVE  JobsInv'
  <1>1. tick' \in TickRec /\ tick'.step = step /\ tick'.at = tick.at /\ tick'.due = tick.due /\ tick'.seen = tick.seen
      BY JobsFacts, GoesTo
  <1>2. step \in Deciding => linked[job[tick.at].e] = tick.seen
      BY JobsFacts DEF Linking, Deciding
  <1> QED BY <1>1, <1>2, JobsFacts, GoesOnAt

\* The worker's model is called within the day's budget, the embedder for what it found.
LEMMA CallStepKeeps ==
    ASSUME JobsInv, quota'.onward = quota.onward, JobCall \/ JobEmbed
    PROVE  JobsInv'
  <1>0. Linker \in Deps /\ Embedder \in Deps /\ calls \in 0 .. DailyCalls
      BY JobsAssumption, JobsFacts
  <1>1. CASE JobCall
    <2>1. tick.step \in AtWork /\ UNCHANGED <<text, bare, linked, handed, queueing, lost>>
        BY <1>1 DEF JobCall, AtWork
    <2>2. CASE calls >= DailyCalls
        BY <1>0, <1>1, <2>1, <2>2, FailedOrLater DEF JobCall
    <2>3. CASE ~(calls >= DailyCalls)
      <3>1. calls' = calls + 1 /\ Calls(Linker)
          BY <1>1, <2>3 DEF JobCall
      <3>2. calls' \in 0 .. DailyCalls
          BY <1>0, <2>3, <3>1, JobsAssumption
      <3> QED BY <1>0, <2>1, <3>1, <3>2, CallsKeep
    <2> QED BY <2>2, <2>3
  <1>2. CASE JobEmbed
    <2>1. tick.step \in AtWork /\ UNCHANGED <<text, bare, linked, handed, queueing, calls, lost>> /\ Calls(Embedder)
        BY <1>2 DEF JobEmbed, AtWork
    <2> QED BY <1>0, <2>1, CallsKeep
  <1> QED BY <1>1, <1>2

\* The worker's model has answered (jobMentions).
LEMMA MentionsKeep ==
    ASSUME JobsInv, quota'.onward = quota.onward, JobMentions
    PROVE  JobsInv'
  <1>0. tick.step \in AtWork /\ tick.step \notin Deciding /\ UNCHANGED <<text, bare, linked, handed, queueing, calls, lost>>
      BY DEF JobMentions, AtWork, Deciding
  <1>1. Failed \/ Later \/ (UNCHANGED job /\ \E step \in {"embed", "link"} : Goes(step))
      BY DEF JobMentions, Answered
  <1>2. CASE Failed \/ Later
      BY <1>0, <1>2, JobsFacts, FailedOrLater
  <1>3. ASSUME UNCHANGED job, NEW step \in {"embed", "link"}, Goes(step) PROVE JobsInv'
    <2>1. step \in AtWork /\ step \notin Deciding
        BY DEF AtWork, Deciding
    <2> QED BY <1>0, <1>3, <2>1, StepGoesOn
  <1> QED BY <1>1, <1>2, <1>3

\* The embedder has: for the things that are known, or for the new ones.
LEMMA EmbeddedKeeps ==
    ASSUME JobsInv, quota'.onward = quota.onward, JobEmbedded
    PROVE  JobsInv'
  <1>0. tick.step \in AtWork /\ UNCHANGED <<text, bare, linked, queueing, calls, lost>>
      BY DEF JobEmbedded, AtWork
  <1>1. CASE tick.step = "embed"
    <2>1. UNCHANGED handed /\ (Failed \/ Later \/ (UNCHANGED job /\ Goes("link")))
        BY <1>1 DEF JobEmbedded, Answered
    <2>2. CASE Failed \/ Later
        BY <1>0, <2>1, <2>2, JobsFacts, FailedOrLater
    <2>3. CASE UNCHANGED job /\ Goes("link")
      <3> DEFINE step == "link"
      <3>1. step \in AtWork /\ step \notin Deciding /\ Goes(step)
          BY <2>3 DEF AtWork, Deciding
      <3> HIDE DEF step
      <3> QED BY <1>0, <2>1, <2>3, <3>1, StepGoesOn
    <2> QED BY <2>1, <2>2, <2>3
  <1>2. CASE tick.step = "fresh"
    <2>0. tick.step \in Deciding /\ At = job[tick.at]
        BY <1>2 DEF Deciding, At
    <2>1. tick.answer = "ok" \/ UNCHANGED handed
        BY <1>2 DEF JobEmbedded
    <2>2. CASE tick.answer = "ok"
      <3>1. Finished /\ handed' = [handed EXCEPT ![job[tick.at].e] = tick.seen]
          BY <1>2, <2>0, <2>2 DEF JobEmbedded, Answered
      <3> QED BY <1>0, <2>0, <3>1, FinishedAt
    <2>3. CASE tick.answer # "ok"
      <3>1. Failed \/ Later
          BY <1>2, <2>3 DEF JobEmbedded, Answered
      <3> QED BY <1>0, <2>1, <2>3, <3>1, JobsFacts, FailedOrLater
    <2> QED BY <2>2, <2>3
  <1> QED BY <1>1, <1>2 DEF JobEmbedded

\* The links are made of what was read.
LEMMA LinkKeeps ==
    ASSUME JobsInv, quota'.onward = quota.onward, JobLink
    PROVE  JobsInv'
  <1>0. /\ tick.step = "link" /\ linked' = [linked EXCEPT ![job[tick.at].e] = tick.seen]
        /\ UNCHANGED <<text, bare, handed, queueing, calls, lost>>
      BY DEF JobLink, At
  <1>1. tick.step \in AtWork /\ tick.step \in Deciding \cup {"link"}
      BY <1>0 DEF AtWork
  <1>2. /\ tick.at \in JobIds /\ job[tick.at] \in JobRow /\ job[tick.at] # None /\ job[tick.at].e \in Notes /\ At = job[tick.at]
        /\ job[tick.at].status = "running"
      BY <1>0, AtFacts
  <1>3. (Finished /\ ~job[tick.at].intake) \/ (UNCHANGED job /\ \E step \in {"triage", "look"} : Goes(step))
    <2>1. CASE At.intake
        BY <2>1 DEF JobLink
    <2>2. CASE ~At.intake
        BY <1>2, <2>2 DEF JobLink
    <2> QED BY <2>1, <2>2
  <1>4. CASE Finished /\ ~job[tick.at].intake
      BY <1>0, <1>1, <1>4, FinishedAt
  <1>5. ASSUME UNCHANGED job, NEW step \in {"triage", "look"}, Goes(step) PROVE JobsInv'
    <2>1. step \in AtWork
        BY DEF AtWork
    <2>2. tick' \in TickRec /\ tick'.step = step /\ tick'.at = tick.at /\ tick'.due = tick.due /\ tick'.seen = tick.seen
        BY <1>5, <2>1, JobsFacts, GoesTo
    <2>3. tick.seen <= text[job[tick.at].e] /\ linked[job[tick.at].e] <= tick.seen /\ handed[job[tick.at].e] <= tick.seen
        BY <1>0, JobsFacts DEF Linking
    <2>4. /\ linked' \in [Notes -> 0 .. MaxText] /\ linked'[job[tick.at].e] = tick.seen
          /\ \A e \in Notes \ {job[tick.at].e} : linked'[e] = linked[e]
        BY <1>0, <1>2, JobsFacts
    <2>5. JobsTypes' /\ TriesLeft'
        BY <1>0, <1>5, <2>2, <2>4, JobsFacts DEF JobsTypes, TriesLeft
    <2>6. TickWorks'
        BY <1>0, <1>5, <2>1, <2>2, JobsFacts DEF TickWorks, Mine, AtWork
    <2>7. Linking'
      <3>1. \A e \in Notes : linked'[e] <= text'[e] /\ handed'[e] <= text'[e]
          BY <1>0, <2>3, <2>4, JobsFacts DEF Linking
      <3> QED BY <1>0, <1>5, <2>2, <2>3, <2>4, <3>1 DEF Linking
    <2>8. \A e \in Notes, j \in JobIds : Serves(j, e) => Serves(j, e)'
        BY <1>0, <1>5, <2>2 DEF Serves, Mine
    <2>9. \A e \in Notes : linked[e] = text[e] => linked'[e] = text[e]
      <3> SUFFICES ASSUME NEW e \in Notes, linked[e] = text[e] PROVE linked'[e] = text[e]
          OBVIOUS
      <3>1. CASE e = job[tick.at].e
          BY <2>3, <2>4, <3>1, JobsFacts
      <3>2. CASE e # job[tick.at].e
          BY <2>4, <3>2
      <3> QED BY <3>1, <3>2
    <2>10. NoneForgotten'
        BY <1>0, <1>5, <2>8, <2>9, WayKept, JobsFacts
    <2> QED BY <2>5, <2>6, <2>7, <2>10 DEF JobsInv, Working
  <1> QED BY <1>3, <1>4, <1>5

\* The decision model is asked and answers (intakeWithTriage).
LEMMA TriageKeeps ==
    ASSUME JobsInv, quota'.onward = quota.onward, JobTriage \/ JobTriaged
    PROVE  JobsInv'
  <1>0. /\ tick.step = "triage" /\ tick.step \in AtWork /\ tick.step \in Deciding
        /\ UNCHANGED <<text, bare, linked, queueing, calls, lost>> /\ At = job[tick.at]
      BY DEF JobTriage, JobTriaged, AtWork, Deciding, At
  <1>1. \A step \in {"look", "fresh"} : step \in AtWork
      BY DEF AtWork
  <1>2. ASSUME UNCHANGED <<job, handed>>, NEW step \in {"look", "fresh"}, Goes(step) PROVE JobsInv'
      BY <1>0, <1>1, <1>2, StepGoesOn
  <1>3. ASSUME UNCHANGED <<job, handed>>, NEW answer \in Served(Decider), tick' = [tick EXCEPT !.answer = answer] PROVE JobsInv'
    <2>1. answer \in Answers
        BY DEF Served, Answers
    <2>2. linked[job[tick.at].e] = tick.seen
        BY <1>0, JobsFacts DEF Linking
    <2>3. tick' \in TickRec /\ tick'.step = tick.step /\ tick'.at = tick.at /\ tick'.due = tick.due /\ tick'.seen = tick.seen
        BY <1>3, <2>1, JobsFacts, Hears
    <2> QED BY <1>0, <1>3, <2>2, <2>3, JobsFacts, GoesOnAt
  <1>4. CASE JobTriage
    <2>1. UNCHANGED <<job, handed>>
        BY <1>4 DEF JobTriage
    <2>2. Goes("look") \/ \E answer \in Served(Decider) : tick' = [tick EXCEPT !.answer = answer]
        BY <1>4 DEF JobTriage
    <2> QED BY <1>2, <1>3, <2>1, <2>2
  <1>5. CASE JobTriaged
    <2>1. CASE Finished /\ handed' = [handed EXCEPT ![job[tick.at].e] = tick.seen]
        BY <1>0, <2>1, FinishedAt
    <2>2. \/ Goes("look") /\ UNCHANGED <<job, handed>>
          \/ Goes("fresh") /\ UNCHANGED <<job, handed>>
          \/ Finished /\ handed' = [handed EXCEPT ![job[tick.at].e] = tick.seen]
        BY <1>0, <1>5 DEF JobTriaged
    <2> QED BY <1>2, <2>1, <2>2
  <1> QED BY <1>4, <1>5

\* What is queued for an entry is a row of the queue.
LEMMA NewJobIsRow ==
    ASSUME NEW q, q.kind \in Kinds, q.e \in Notes, q.intake \in BOOLEAN, q.high \in BOOLEAN
    PROVE  /\ NewJob(q) \in JobRow /\ NewJob(q) # None
           /\ NewJob(q).kind = q.kind /\ NewJob(q).e = q.e /\ NewJob(q).intake = q.intake
           /\ NewJob(q).status = "pending" /\ NewJob(q).attempts = 0
  <1>1. NewJob(q) = [kind |-> q.kind, e |-> q.e, intake |-> q.intake, high |-> q.high, status |-> "pending", attempts |-> 0, due |-> TRUE]
      BY DEF NewJob
  <1>2. NewJob(q) \in JobRow
      BY <1>1, JobsAssumption DEF JobRow
  <1>3. NewJob(q) # None
      BY <1>2, BackgroundAssumption
  <1> QED BY <1>1, <1>2, <1>3

\* The entry goes onward, or is found to be on its way already.
LEMMA OnwardKeeps ==
    ASSUME JobsInv, quota'.onward = quota.onward, JobLook \/ JobInsert
    PROVE  JobsInv'
  <1>0. /\ tick.step \in AtWork /\ tick.step \in Deciding /\ UNCHANGED <<text, bare, linked, queueing, calls, lost>>
        /\ At = job[tick.at]
      BY DEF JobLook, JobInsert, AtWork, Deciding, At
  <1>1. /\ tick.at \in JobIds /\ job[tick.at] \in JobRow /\ job[tick.at] # None /\ job[tick.at].e \in Notes
        /\ job \in [JobIds -> {None} \cup JobRow] /\ tick \in TickRec
        /\ linked[job[tick.at].e] = tick.seen /\ tick.seen \in 0 .. MaxText
      BY <1>0, AtFacts, JobsFacts DEF Linking, Deciding
  <1>2. CASE JobLook
    <2>1. CASE Finished /\ handed' = [handed EXCEPT ![job[tick.at].e] = tick.seen]
        BY <1>0, <2>1, FinishedAt
    <2>2. CASE UNCHANGED <<job, handed>> /\ Goes("insert")
      <3> DEFINE step == "insert"
      <3>1. step \in AtWork /\ Goes(step)
          BY <2>2 DEF AtWork
      <3> HIDE DEF step
      <3> QED BY <1>0, <2>2, <3>1, StepGoesOn
    <2> QED BY <1>0, <1>2, <2>1, <2>2 DEF JobLook
  <1>3. CASE JobInsert
    <2> DEFINE kind == IF job[tick.at].intake THEN "intake" ELSE "review"
               q == Onward
               new == NewJob(q)
    <2>1. HasJob /\ job' = [job EXCEPT ![FreeJob] = new, ![tick.at].status = "done"]
        BY <1>3 DEF JobInsert
    <2>2. q.kind = kind /\ q.e = job[tick.at].e /\ q.intake = FALSE /\ q.high = FALSE /\ kind \in Kinds /\ kind # "mentions"
        BY <1>0 DEF Onward, Asked, Kinds
    <2> HIDE DEF kind, q
    <2>3. new \in JobRow /\ new # None /\ new.kind = q.kind /\ new.attempts = 0 /\ new.kind # "mentions"
      <3>1. q.kind \in Kinds /\ q.e \in Notes /\ q.intake \in BOOLEAN /\ q.high \in BOOLEAN
          BY <1>1, <2>2
      <3> QED BY <2>2, <3>1, NewJobIsRow
    <2> HIDE DEF new
    <2>4. FreeJob \in JobIds /\ job[FreeJob] = None /\ FreeJob # tick.at
        BY <1>1, <2>1, FreeJobIsFree
    <2> DEFINE f == FreeJob
               done == [job[tick.at] EXCEPT !.status = "done"]
    <2>5. done \in JobRow /\ done.status = "done"
        BY <1>1 DEF JobRow
    <2>6. done # None
        BY <2>5, BackgroundAssumption
    <2>7. f \in JobIds /\ job[f] = None /\ f # tick.at /\ job' = [job EXCEPT ![f] = new, ![tick.at] = done]
        BY <1>1, <2>1, <2>4
    <2> HIDE DEF f, done
    <2>8. /\ job' \in [JobIds -> {None} \cup JobRow] /\ job'[tick.at] = done /\ job'[f] = new
          /\ \A j \in JobIds \ {tick.at, f} : job'[j] = job[j]
        BY <1>1, <2>3, <2>5, <2>7
    <2>9. \A j \in JobIds \ {tick.at} :
              job'[j] = job[j] \/ (job[j] = None /\ job'[j] \in JobRow /\ job'[j].kind # "mentions" /\ job'[j].attempts = 0)
        BY <2>3, <2>7, <2>8
    <2>10. handed' = [handed EXCEPT ![job[tick.at].e] = tick.seen]
        BY <1>0, <1>3 DEF JobInsert
    <2>11. /\ handed' \in [Notes -> 0 .. MaxText] /\ handed'[job[tick.at].e] = tick.seen
           /\ \A e \in Notes \ {job[tick.at].e} : handed'[e] = handed[e]
        BY <1>1, <2>10, JobsFacts
    <2>12. tick' \in TickRec /\ tick'.at = None /\ tick'.step = "claim" /\ tick'.due = tick.due
        BY <1>1, <1>3 DEF JobInsert, TickRec
    <2>13. linked' \in [Notes -> 0 .. MaxText] /\ linked' = linked
        BY <1>0, JobsFacts
    <2> QED BY <1>0, <1>1, <2>5, <2>6, <2>8, <2>9, <2>11, <2>12, <2>13, Finishes
  <1> QED BY <1>2, <1>3

\* The job at work reads its entry.
LEMMA ReadKeeps ==
    ASSUME JobsInv, quota'.onward = quota.onward, JobRead
    PROVE  JobsInv'
  <1>0. /\ tick.step = "read" /\ tick' = [tick EXCEPT !.seen = text[job[tick.at].e], !.step = "mentions"]
        /\ UNCHANGED <<text, bare, linked, handed, job, queueing, calls, lost>>
      BY DEF JobRead, At
  <1>1. job[tick.at].e \in Notes /\ tick.at \in JobIds
      BY <1>0, AtFacts
  <1> DEFINE seen == text[job[tick.at].e]
  <1>2. seen \in 0 .. MaxText /\ linked[job[tick.at].e] <= seen /\ handed[job[tick.at].e] <= seen
      BY <1>1, JobsFacts DEF Linking
  <1>3. tick' = [tick EXCEPT !.seen = seen, !.step = "mentions"]
      BY <1>0
  <1> HIDE DEF seen
  <1>4. tick' \in TickRec /\ tick'.at = tick.at /\ tick'.due = tick.due /\ tick'.seen = seen /\ tick'.step = "mentions"
      BY <1>2, <1>3, JobsFacts DEF TickRec
  <1>5. JobsTypes' /\ TriesLeft'
      BY <1>0, <1>4, JobsFacts DEF JobsTypes, TriesLeft
  <1>6. TickWorks'
      BY <1>0, <1>4, JobsFacts DEF TickWorks, Mine
  <1>7. seen <= text[job[tick.at].e]
      BY <1>1, JobsFacts DEF seen
  <1>8. Linking'
      BY <1>0, <1>2, <1>4, <1>7, JobsFacts DEF Linking
  <1>9. \A e \in Notes, j \in JobIds : Serves(j, e) => Serves(j, e)'
      BY <1>0, <1>4 DEF Serves, Mine, seen
  <1>10. NoneForgotten'
      BY <1>0, <1>9, WayKept, JobsFacts
  <1> QED BY <1>5, <1>6, <1>8, <1>10 DEF JobsInv, Working

\* A tick begins and ends without a job.
LEMMA BeginsOrEnds ==
    ASSUME JobsInv, quota'.onward = quota.onward, TickBegin \/ TickEnds
    PROVE  JobsInv'
  <1>0. UNCHANGED <<text, bare, linked, handed, job, queueing, calls, lost>>
      BY DEF TickBegin, TickEnds
  <1>1. tick.step \in {"rest", "claim"} /\ tick.at = None
      BY JobsFacts DEF TickBegin, TickEnds, Ticking, TickWorks
  <1>2. /\ tick' \in TickRec /\ tick'.at = None /\ tick'.step \in {"rest", "claim"}
        /\ \A j \in tick'.due : Mine(j) /\ job[j].status = "pending"
    <2>1. CASE TickBegin
      <3> DEFINE due == {j \in JobIds : Mine(j) /\ job[j].status = "pending" /\ job[j].due}
      <3>1. due \in SUBSET JobIds /\ \A j \in due : Mine(j) /\ job[j].status = "pending"
          OBVIOUS
      <3>2. tick' = [Resting EXCEPT !.due = due, !.step = "claim"]
          BY <2>1 DEF TickBegin
      <3> HIDE DEF due
      <3>3. tick' = [due |-> due, at |-> None, step |-> "claim", seen |-> 0, answer |-> None]
          BY <3>2 DEF Resting
      <3>4. 0 \in 0 .. MaxText
          BY JobsAssumption
      <3>5. tick' \in TickRec /\ tick'.at = None /\ tick'.step = "claim" /\ tick'.due = due
          BY <3>1, <3>3, <3>4 DEF TickRec
      <3> QED BY <3>1, <3>5
    <2>2. CASE TickEnds
        BY <2>2, JobsAssumption DEF TickEnds, Resting, TickRec
    <2> QED BY <2>1, <2>2
  <1>3. JobsTypes' /\ TriesLeft'
      BY <1>0, <1>2, JobsFacts DEF JobsTypes, TriesLeft
  <1>4. TickWorks'
      BY <1>0, <1>1, <1>2, JobsFacts DEF TickWorks, Mine
  <1>5. Linking'
      BY <1>0, <1>2, JobsFacts DEF Linking
  <1>6. \A e \in Notes, j \in JobIds : Serves(j, e) => Serves(j, e)'
      BY <1>0, <1>1, JobsFacts DEF Serves, Mine
  <1>7. NoneForgotten'
      BY <1>0, <1>6, WayKept, JobsFacts
  <1> QED BY <1>3, <1>4, <1>5, <1>7 DEF JobsInv, Working

\* The first of those that are due is claimed.
LEMMA ClaimKeeps ==
    ASSUME JobsInv, quota'.onward = quota.onward, TickClaim
    PROVE  JobsInv'
  <1> DEFINE c == First(tick.due)
  <1>0. /\ tick.step = "claim" /\ tick.due # {} /\ tick.at = None
        /\ UNCHANGED <<text, bare, linked, handed, queueing, calls, lost>>
        /\ job' = [job EXCEPT ![c].status = "running"]
        /\ tick' = [tick EXCEPT !.due = tick.due \ {c}, !.at = c, !.step = "read"]
      BY JobsFacts DEF TickClaim, TickWorks
  <1>1. c \in tick.due
    <2>1. tick.due \in SUBSET JobIds /\ \A j \in tick.due : Mine(j) /\ job[j] \in {None} \cup JobRow
        BY JobsFacts DEF TickWorks
    <2>2. \A j \in tick.due : job[j].high \in BOOLEAN
        BY <2>1 DEF Mine, JobRow
    <2> QED BY <1>0, <2>1, <2>2, FirstIsOne
  <1> HIDE DEF c
  <1>2. c \in JobIds /\ job[c] # None /\ job[c] \in JobRow /\ job[c].kind = "mentions" /\ job[c].status = "pending"
        /\ job[c].attempts < GiveUp
      BY <1>1, JobsFacts DEF TickWorks, Mine, TriesLeft
  <1> DEFINE new == [job[c] EXCEPT !.status = "running"]
             due == tick.due \ {c}
  <1>3. /\ new \in JobRow /\ new.kind = "mentions" /\ new.e = job[c].e /\ new.intake = job[c].intake
        /\ new.status = "running" /\ new.attempts = job[c].attempts
      BY <1>2 DEF JobRow
  <1>4. new # None
      BY <1>3, JobsFacts
  <1>5. job' = [job EXCEPT ![c] = new]
      BY <1>0, <1>2
  <1>6. due \in SUBSET JobIds /\ tick' = [tick EXCEPT !.due = due, !.at = c, !.step = "read"]
        /\ due \subseteq tick.due /\ c \notin due
      BY <1>0, JobsFacts
  <1> HIDE DEF new, due
  <1>7. tick' \in TickRec /\ tick'.at = c /\ tick'.due = due /\ tick'.step = "read"
      BY <1>2, <1>6, JobsFacts DEF TickRec
  <1>8. job' \in [JobIds -> {None} \cup JobRow] /\ job'[c] = new /\ \A j \in JobIds \ {c} : job'[j] = job[j]
      BY <1>2, <1>3, <1>5, JobsFacts
  <1>9. JobsTypes'
      BY <1>0, <1>7, <1>8, JobsFacts DEF JobsTypes
  <1>10. TriesLeft'
      BY <1>2, <1>3, <1>8, JobsFacts DEF TriesLeft
  <1>11. TickWorks'
      BY <1>0, <1>2, <1>3, <1>4, <1>6, <1>7, <1>8, JobsFacts DEF TickWorks, Mine
  <1>12. Linking'
      BY <1>0, <1>7, JobsFacts DEF Linking
  <1>13. \A e \in Notes, j \in JobIds : Serves(j, e) => Serves(j, e)' /\ job'[j].intake = job[j].intake
      BY <1>0, <1>2, <1>3, <1>4, <1>7, <1>8, JobsFacts DEF Serves, Mine
  <1>14. NoneForgotten'
      BY <1>0, <1>13, WayKept, JobsFacts
  <1> QED BY <1>9, <1>10, <1>11, <1>12, <1>14 DEF JobsInv, Working

\* A step of workerTick.
LEMMA TickStepKeeps == ASSUME JobsInv, quota'.onward = quota.onward, TickStep PROVE JobsInv'
  BY BeginsOrEnds, ClaimKeeps, ReadKeeps, CallStepKeeps, MentionsKeep, EmbeddedKeeps, LinkKeeps, TriageKeeps, OnwardKeeps
     DEF TickStep

--------------------------------------------------------------------------
(* Entries written, enqueues, waits and restarts                           *)

\* What is asked of the queue for an entry's links.
AskedFor == [kind : {"mentions"}, e : Notes, intake : BOOLEAN, high : BOOLEAN]

\* An enqueue is begun.
LEMMA QueueAdds ==
    ASSUME JobsInv, NEW q \in AskedFor, Queue(q)
    PROVE  /\ queueing' \in [Queueings -> {None} \cup Enqueued]
           /\ \A n \in Queueings : queueing[n] # None => queueing'[n] # None /\ queueing'[n].q = queueing[n].q
           /\ \E n \in Queueings : queueing'[n] # None /\ queueing'[n].q = q
  <1>1. PICK n \in Queueings : queueing[n] = None /\ queueing' = [queueing EXCEPT ![n] = [q |-> q, looked |-> FALSE]]
      BY DEF Queue
  <1> DEFINE new == [q |-> q, looked |-> FALSE]
  <1>2. new \in Enqueued /\ new.q = q
      BY DEF Enqueued, AskedFor
  <1>3. new # None
      BY <1>2, JobsFacts
  <1>4. queueing' = [queueing EXCEPT ![n] = new]
      BY <1>1
  <1> HIDE DEF new
  <1>5. queueing'[n] = new /\ (\A m \in Queueings \ {n} : queueing'[m] = queueing[m]) /\ queueing' \in [Queueings -> {None} \cup Enqueued]
      BY <1>2, <1>4, JobsFacts
  <1> QED BY <1>1, <1>2, <1>3, <1>5

\* An entry has one text more.
LEMMA TextAdds ==
    ASSUME JobsInv, NEW e0 \in Notes, text[e0] < MaxText, text' = [text EXCEPT ![e0] = @ + 1], bare' = bare \ {e0},
           UNCHANGED <<linked, handed, job, tick, calls>>, quota'.onward = quota.onward,
           queueing' \in [Queueings -> {None} \cup Enqueued],
           \A n \in Queueings : queueing[n] # None => queueing'[n] # None /\ queueing'[n].q = queueing[n].q,
           \/ lost' = lost \cup {e0}
           \/ /\ lost' = lost
              /\ \E n \in Queueings : Asks(n, e0)' /\ (quota.onward = "intake" => queueing'[n].q.intake)
    PROVE  JobsInv'
  <1>1. /\ text' \in [Notes -> 0 .. MaxText] /\ text'[e0] = text[e0] + 1 /\ \A e \in Notes \ {e0} : text'[e] = text[e]
        /\ \A e \in Notes : text[e] <= text'[e]
    <2>1. text \in [Notes -> 0 .. MaxText] /\ text[e0] + 1 \in 0 .. MaxText
        BY JobsFacts, JobsAssumption
    <2> DEFINE more == text[e0] + 1
    <2>2. more \in 0 .. MaxText /\ text' = [text EXCEPT ![e0] = more] /\ text[e0] <= more
        BY <2>1, JobsAssumption
    <2> HIDE DEF more
    <2>3. text' \in [Notes -> 0 .. MaxText] /\ text'[e0] = more /\ \A e \in Notes \ {e0} : text'[e] = text[e]
        BY <2>1, <2>2
    <2>4. \A e \in Notes : text[e] \in Nat
        BY <2>1, JobsAssumption
    <2>5. \A e \in Notes : text[e] <= text'[e]
        BY <2>2, <2>3, <2>4
    <2> QED BY <2>3, <2>5 DEF more
  <1>2. JobsTypes' /\ TriesLeft' /\ TickWorks'
      BY <1>1, JobsFacts DEF JobsTypes, TriesLeft, TickWorks, Mine
  <1>3. Linking'
    <2>1. \A e \in Notes : linked[e] <= text'[e] /\ handed[e] <= text'[e]
        BY <1>1, JobsFacts, JobsAssumption DEF Linking
    <2>2. ASSUME tick.step \notin {"rest", "claim", "read"}
          PROVE  tick.seen <= text'[job[tick.at].e] /\ linked[job[tick.at].e] <= tick.seen /\ handed[job[tick.at].e] <= tick.seen
      <3>1. job[tick.at].e \in Notes
          BY <2>2, AtFacts
      <3> QED BY <1>1, <2>2, <3>1, JobsFacts, JobsAssumption DEF Linking
    <2>3. tick.step \in Deciding => linked[job[tick.at].e] = tick.seen
        BY JobsFacts DEF Linking, Deciding
    <2> QED BY <2>1, <2>2, <2>3 DEF Linking, Deciding
  <1>4. NoneForgotten'
    <2> SUFFICES ASSUME NEW e \in Notes \ lost' PROVE ToLink(e)' /\ (quota.onward = "intake" => ToHand(e)')
        BY DEF NoneForgotten
    <2>1. CASE e = e0
        BY <2>1 DEF ToLink, ToHand
    <2>2. CASE e # e0
      <3>1. e \in Notes \ lost /\ text'[e] = text[e]
          BY <1>1, <2>2
      <3>2. \A n \in Queueings : Asks(n, e) => Asks(n, e)' /\ queueing'[n].q.intake = queueing[n].q.intake
          BY DEF Asks
      <3>3. \A j \in JobIds : Serves(j, e) => Serves(j, e)' /\ job'[j].intake = job[j].intake
          BY <3>1 DEF Serves, Mine
      <3>4. ToLink(e) /\ (quota.onward = "intake" => ToHand(e))
          BY <3>1, JobsFacts DEF NoneForgotten
      <3>5. ToLink(e)'
          BY <3>1, <3>2, <3>3, <3>4 DEF ToLink
      <3>6. quota.onward = "intake" => ToHand(e)'
          BY <3>1, <3>2, <3>3, <3>4 DEF ToHand
      <3> QED BY <3>5, <3>6
    <2> QED BY <2>1, <2>2
  <1> QED BY <1>2, <1>3, <1>4 DEF JobsInv, Working

\* A step that touches neither the entries nor the jobs.
LEMMA JobsStand ==
    ASSUME JobsInv, UNCHANGED <<text, linked, handed, job, tick, lost>>, quota'.onward = quota.onward,
           bare' \subseteq Notes, \A e \in bare' : text[e] = 0 /\ MaxText > 0, calls' \in 0 .. DailyCalls,
           queueing' \in [Queueings -> {None} \cup Enqueued],
           \A n \in Queueings : queueing[n] # None => queueing'[n] # None /\ queueing'[n].q = queueing[n].q
    PROVE  JobsInv'
  <1>1. JobsTypes' /\ TriesLeft' /\ TickWorks' /\ Linking'
      BY JobsFacts DEF JobsTypes, TriesLeft, TickWorks, Mine, Linking
  <1>2. \A e \in Notes, j \in JobIds : Serves(j, e) => Serves(j, e)'
      BY DEF Serves, Mine
  <1>3. NoneForgotten'
      BY <1>2, WayKept, JobsFacts
  <1> QED BY <1>1, <1>3 DEF JobsInv, Working

\* Entries are written, given a text, and found.
LEMMA EntriesKeep ==
    ASSUME JobsInv, quota \in QuotaUse, quota'.onward = quota.onward, NEW e \in Notes, WriteNote(e) \/ Backfill(e) \/ Found(e)
    PROVE  JobsInv'
  <1>1. CASE WriteNote(e)
    <2> DEFINE intake == quota.onward = "intake"
               q == Asked("mentions", e, intake, FALSE)
    <2>1. text[e] < MaxText /\ UNCHANGED <<linked, handed, job, tick, calls, lost>>
        BY <1>1 DEF WriteNote
    <2>2. intake \in BOOLEAN /\ (quota.onward = "intake" => intake)
        OBVIOUS
    <2> HIDE DEF intake
    <2>3. q \in AskedFor /\ q.e = e /\ q.intake = intake
        BY <2>2 DEF Asked, AskedFor
    <2> HIDE DEF q
    <2>4. CASE text' = [text EXCEPT ![e] = @ + 1] /\ bare' = bare \ {e} /\ Queue(q)
      <3>1. /\ queueing' \in [Queueings -> {None} \cup Enqueued]
            /\ \A n \in Queueings : queueing[n] # None => queueing'[n] # None /\ queueing'[n].q = queueing[n].q
            /\ \E n \in Queueings : queueing'[n] # None /\ queueing'[n].q = q
          BY <2>3, <2>4, QueueAdds
      <3>2. \E n \in Queueings : Asks(n, e)' /\ (quota.onward = "intake" => queueing'[n].q.intake)
          BY <2>2, <2>3, <3>1 DEF Asks
      <3> QED BY <2>1, <2>4, <3>1, <3>2, TextAdds
    <2>5. CASE bare' = (IF text[e] = 0 THEN bare \cup {e} ELSE bare) /\ UNCHANGED <<text, queueing>>
      <3>1. MaxText > 0
          BY <2>1, JobsFacts, JobsAssumption
      <3>2. bare' \subseteq Notes /\ \A a \in bare' : text[a] = 0 /\ MaxText > 0
          BY <2>5, <3>1, JobsFacts
      <3> QED BY <2>1, <2>5, <3>2, JobsFacts, JobsStand
    <2> QED BY <1>1, <2>4, <2>5 DEF WriteNote, q, intake
  <1>2. CASE Backfill(e)
    <2>1. /\ e \in bare /\ text' = [text EXCEPT ![e] = @ + 1] /\ bare' = bare \ {e} /\ lost' = lost \cup {e}
          /\ UNCHANGED <<linked, handed, job, queueing, tick, calls>>
        BY <1>2 DEF Backfill
    <2>2. text[e] < MaxText
        BY <2>1, JobsFacts
    <2> QED BY <2>1, <2>2, JobsFacts, TextAdds
  <1>3. CASE Found(e)
    <2> DEFINE q == Asked("mentions", e, FALSE, TRUE)
    <2>1. q \in AskedFor
        BY DEF Asked, AskedFor
    <2>2. Queue(q) /\ UNCHANGED <<text, bare, linked, handed, job, tick, calls, lost>>
        BY <1>3 DEF Found
    <2> HIDE DEF q
    <2> QED BY <2>1, <2>2, JobsFacts, QueueAdds, JobsStand
  <1> QED BY <1>1, <1>2, <1>3

\* A job that is not at work changes in what no one asks of it, or goes to the master.
LEMMA JobTouched ==
    ASSUME JobsInv, NEW j \in JobIds, NEW new \in JobRow, job[j] # None, job' = [job EXCEPT ![j] = new],
           new.kind = job[j].kind, new.e = job[j].e, new.intake = job[j].intake, new.attempts = job[j].attempts,
           new.status = job[j].status \/ (new.kind # "mentions" /\ new.status = "done"),
           UNCHANGED <<text, bare, linked, handed, tick, calls>>, lost' \subseteq Notes,
           queueing' \in [Queueings -> {None} \cup Enqueued]
    PROVE  Working' /\ \A e \in Notes, i \in JobIds : (Serves(i, e)' <=> Serves(i, e)) /\ (Serves(i, e) => job'[i].intake = job[i].intake)
  <1>1. new # None
      BY JobsFacts
  <1>2. job' \in [JobIds -> {None} \cup JobRow] /\ job'[j] = new /\ \A i \in JobIds \ {j} : job'[i] = job[i]
      BY JobsFacts
  <1>3. JobsTypes'
      BY <1>2, JobsFacts DEF JobsTypes
  <1>4. TriesLeft'
      BY <1>1, <1>2, JobsFacts DEF TriesLeft
  <1>5. \A i \in JobIds : /\ Mine(i)' <=> Mine(i)
                          /\ Mine(i) => job'[i].status = job[i].status /\ job'[i].e = job[i].e /\ job'[i].intake = job[i].intake
      BY <1>1, <1>2 DEF Mine
  <1>6. TickWorks'
      BY <1>5, JobsFacts DEF TickWorks
  <1>7. Linking'
    <2>1. tick.step \notin {"rest", "claim"} => tick.at \in JobIds /\ job'[tick.at].e = job[tick.at].e
      <3>1. ASSUME tick.step \notin {"rest", "claim"} PROVE tick.at \in JobIds /\ Mine(tick.at)
          BY <3>1, JobsFacts DEF TickWorks
      <3> QED BY <1>5, <3>1
    <2> QED BY <2>1, JobsFacts DEF Linking
  <1>8. ASSUME NEW e \in Notes, NEW i \in JobIds
        PROVE  (Serves(i, e)' <=> Serves(i, e)) /\ (Serves(i, e) => job'[i].intake = job[i].intake)
      BY <1>5 DEF Serves
  <1> QED BY <1>3, <1>4, <1>6, <1>7, <1>8 DEF Working

\* A wait is over, a master takes an entry.
LEMMA WaitsKeep ==
    ASSUME JobsInv, quota'.onward = quota.onward, NEW j \in JobIds, RunAfter(j) \/ TakenOn(j)
    PROVE  JobsInv'
  <1>0. UNCHANGED <<text, bare, linked, handed, queueing, tick, calls, lost>> /\ job[j] # None /\ job[j] \in JobRow
      BY JobsFacts DEF RunAfter, TakenOn, Mine
  <1>1. PICK new \in JobRow : /\ job' = [job EXCEPT ![j] = new]
                              /\ new.kind = job[j].kind /\ new.e = job[j].e /\ new.intake = job[j].intake /\ new.attempts = job[j].attempts
                              /\ new.status = job[j].status \/ (new.kind # "mentions" /\ new.status = "done")
    <2>1. CASE RunAfter(j)
      <3> DEFINE new == [job[j] EXCEPT !.due = TRUE]
      <3>1. job' = [job EXCEPT ![j] = new]
          BY <2>1 DEF RunAfter
      <3>2. new \in JobRow /\ new.kind = job[j].kind /\ new.e = job[j].e /\ new.intake = job[j].intake
            /\ new.attempts = job[j].attempts /\ new.status = job[j].status
          BY <1>0 DEF JobRow
      <3> HIDE DEF new
      <3> QED BY <3>1, <3>2
    <2>2. CASE TakenOn(j)
      <3> DEFINE new == [job[j] EXCEPT !.status = "done"]
      <3>1. job' = [job EXCEPT ![j] = new] /\ job[j].kind # "mentions"
          BY <2>2 DEF TakenOn
      <3>2. new \in JobRow /\ new.kind = job[j].kind /\ new.e = job[j].e /\ new.intake = job[j].intake
            /\ new.attempts = job[j].attempts /\ new.status = "done"
          BY <1>0 DEF JobRow
      <3> HIDE DEF new
      <3> QED BY <3>1, <3>2
    <2> QED BY <2>1, <2>2
  <1>2. Working' /\ \A e \in Notes, i \in JobIds : (Serves(i, e)' <=> Serves(i, e)) /\ (Serves(i, e) => job'[i].intake = job[i].intake)
      BY <1>0, <1>1, JobsFacts, JobTouched
  <1>3. NoneForgotten'
      BY <1>0, <1>2, WayKept, JobsFacts
  <1> QED BY <1>2, <1>3 DEF JobsInv

\* An enqueue finds a job that is open, and takes it for its own.
LEMMA TakesOpen ==
    ASSUME JobsInv, quota'.onward = quota.onward, NEW n \in Queueings, queueing[n] # None,
           NEW j \in JobIds, OpenFor(j, queueing[n].q), job' = Reused(j, queueing[n].q),
           lost' = (IF Swallows(j, queueing[n].q) THEN lost \cup {queueing[n].q.e} ELSE lost),
           queueing' = [queueing EXCEPT ![n] = None],
           UNCHANGED <<text, bare, linked, handed, tick, calls>>
    PROVE  JobsInv'
  <1> DEFINE q == queueing[n].q
  <1>0. /\ q \in AskedFor /\ q.e \in Notes /\ q.kind = "mentions" /\ q.intake \in BOOLEAN
        /\ job[j] # None /\ job[j] \in JobRow /\ job[j].kind = "mentions"
        /\ job[j].e = q.e /\ job[j].status \in {"pending", "running"}
    <2>1. queueing[n] \in Enqueued
        BY JobsFacts
    <2>2. q \in AskedFor
        BY <2>1 DEF Enqueued, AskedFor
    <2>3. job[j] # None /\ job[j].kind = q.kind /\ job[j].e = q.e /\ job[j].status \in {"pending", "running"}
        BY DEF OpenFor
    <2>4. job[j] \in JobRow
        BY <2>3, JobsFacts
    <2> HIDE DEF q
    <2> QED BY <2>2, <2>3, <2>4 DEF AskedFor
  <1>1. job' = Reused(j, q) /\ lost' = (IF Swallows(j, q) THEN lost \cup {q.e} ELSE lost) /\ queueing' = [queueing EXCEPT ![n] = None]
      OBVIOUS
  <1>q. \A e : Asks(n, e) <=> e = q.e
      BY DEF Asks
  <1>i. queueing[n].q.intake = q.intake
      OBVIOUS
  <1> HIDE DEF q
  <1>2. /\ queueing' \in [Queueings -> {None} \cup Enqueued] /\ queueing'[n] = None
        /\ \A m \in Queueings \ {n} : queueing'[m] = queueing[m]
      BY <1>1, JobsFacts
  <1>3. lost' \subseteq Notes /\ lost \subseteq lost'
      BY <1>0, <1>1, JobsFacts
  <1>4. Working' /\ \A e \in Notes, i \in JobIds : (Serves(i, e)' <=> Serves(i, e)) /\ (Serves(i, e) => job'[i].intake = job[i].intake)
    <2>1. PICK new \in JobRow : /\ job' = [job EXCEPT ![j] = new]
                                /\ new.kind = job[j].kind /\ new.e = job[j].e /\ new.intake = job[j].intake
                                /\ new.attempts = job[j].attempts /\ new.status = job[j].status
      <3>1. CASE q.high /\ job[j].status = "pending"
        <4> DEFINE new == [job[j] EXCEPT !.high = TRUE]
        <4>1. job' = [job EXCEPT ![j] = new]
            BY <1>1, <3>1 DEF Reused
        <4>2. new \in JobRow /\ new.kind = job[j].kind /\ new.e = job[j].e /\ new.intake = job[j].intake
              /\ new.attempts = job[j].attempts /\ new.status = job[j].status
            BY <1>0 DEF JobRow
        <4> HIDE DEF new
        <4> QED BY <4>1, <4>2
      <3>2. CASE ~(q.high /\ job[j].status = "pending")
        <4>1. job' = job
            BY <1>1, <3>2 DEF Reused
        <4>2. job' = [job EXCEPT ![j] = job[j]]
            BY <4>1, JobsFacts
        <4> QED BY <1>0, <4>2
      <3> QED BY <3>1, <3>2
    <2> QED BY <1>0, <1>2, <1>3, <2>1, JobTouched
  <1>5. ~Swallows(j, q) => Serves(j, q.e) /\ (q.intake => job[j].intake)
    <2> SUFFICES ASSUME ~Swallows(j, q) PROVE Serves(j, q.e) /\ (q.intake => job[j].intake)
        OBVIOUS
    <2>1. (q.intake => job[j].intake) /\ (tick.at = j => tick.step = "read" \/ ~(tick.seen < text[q.e]))
        BY <1>0 DEF Swallows
    <2>2. CASE job[j].status = "pending"
        BY <1>0, <2>1, <2>2 DEF Serves, Mine
    <2>3. CASE job[j].status = "running"
      <3>1. tick.at = j /\ tick.step \notin {"rest", "claim"}
          BY <1>0, <2>3, JobsFacts DEF TickWorks, Mine
      <3>2. tick.step # "read" => tick.seen <= text[q.e]
          BY <1>0, <3>1, JobsFacts DEF Linking
      <3>3. text[q.e] \in 0 .. MaxText /\ tick.seen \in 0 .. MaxText
          BY <1>0, JobsFacts
      <3>4. tick.step = "read" \/ tick.seen = text[q.e]
          BY <2>1, <3>1, <3>2, <3>3
      <3> QED BY <1>0, <2>1, <3>1, <3>4 DEF Serves, Mine
    <2> QED BY <1>0, <2>2, <2>3
  <1>6. NoneForgotten'
    <2> SUFFICES ASSUME NEW e \in Notes \ lost' PROVE ToLink(e)' /\ (quota.onward = "intake" => ToHand(e)')
        BY DEF NoneForgotten
    <2>1. e \in Notes \ lost /\ (e = q.e => Serves(j, e) /\ (q.intake => job[j].intake))
        BY <1>1, <1>3, <1>5
    <2>2. ToLink(e) /\ (quota.onward = "intake" => ToHand(e))
        BY <2>1, JobsFacts DEF NoneForgotten
    <2>3. \A m \in Queueings : Asks(m, e) => m = n \/ (Asks(m, e)' /\ queueing'[m].q.intake = queueing[m].q.intake)
        BY <1>2 DEF Asks
    <2>4. Asks(n, e) => Serves(j, e) /\ (queueing[n].q.intake => job[j].intake)
        BY <1>q, <1>i, <2>1
    <2>5. \A i \in JobIds : Serves(i, e) => Serves(i, e)' /\ job'[i].intake = job[i].intake
        BY <1>4, <2>1
    <2>6. ToLink(e)'
        BY <2>2, <2>3, <2>4, <2>5 DEF ToLink
    <2>7. ASSUME quota.onward = "intake" PROVE ToHand(e)'
        BY <2>2, <2>3, <2>4, <2>5, <2>7 DEF ToHand
    <2> QED BY <2>6, <2>7
  <1> QED BY <1>4, <1>6 DEF JobsInv

\* An enqueue looks for an open job.
LEMMA LookKeeps ==
    ASSUME JobsInv, quota'.onward = quota.onward, NEW n \in Queueings, EnqueueLook(n)
    PROVE  JobsInv'
  <1>0. queueing[n] # None /\ UNCHANGED <<text, bare, linked, handed, tick, calls>>
      BY DEF EnqueueLook
  <1>1. ASSUME NEW j \in JobIds, OpenFor(j, queueing[n].q), job' = Reused(j, queueing[n].q),
               lost' = (IF Swallows(j, queueing[n].q) THEN lost \cup {queueing[n].q.e} ELSE lost),
               queueing' = [queueing EXCEPT ![n] = None]
        PROVE  JobsInv'
      BY <1>0, <1>1, TakesOpen
  <1>2. CASE queueing' = [queueing EXCEPT ![n].looked = TRUE] /\ UNCHANGED <<job, lost>>
    <2> DEFINE new == [queueing[n] EXCEPT !.looked = TRUE]
    <2>1. queueing[n] \in Enqueued /\ queueing' = [queueing EXCEPT ![n] = new]
        BY <1>0, <1>2, JobsFacts
    <2>2. new \in Enqueued /\ new.q = queueing[n].q
        BY <2>1 DEF Enqueued
    <2>3. new # None
        BY <2>2, JobsFacts
    <2> HIDE DEF new
    <2>4. /\ queueing' \in [Queueings -> {None} \cup Enqueued]
          /\ \A m \in Queueings : queueing[m] # None => queueing'[m] # None /\ queueing'[m].q = queueing[m].q
        BY <2>1, <2>2, <2>3, JobsFacts
    <2> QED BY <1>0, <1>2, <2>4, JobsFacts, JobsStand
  <1> QED BY <1>1, <1>2 DEF EnqueueLook

\* An enqueue fails, and its entry is lost.
LEMMA EnqueueFailsKeeps ==
    ASSUME JobsInv, quota'.onward = quota.onward, NEW n \in Queueings, EnqueueFails(n)
    PROVE  JobsInv'
  <1>0. /\ queueing[n] # None /\ queueing' = [queueing EXCEPT ![n] = None] /\ lost' = lost \cup {queueing[n].q.e}
        /\ UNCHANGED <<text, bare, linked, handed, job, tick, calls>>
      BY DEF EnqueueFails
  <1>1. queueing[n] \in Enqueued
      BY <1>0, JobsFacts
  <1>2. queueing[n].q.e \in Notes
      BY <1>1 DEF Enqueued
  <1>3. /\ queueing' \in [Queueings -> {None} \cup Enqueued] /\ lost' \subseteq Notes
        /\ \A m \in Queueings \ {n} : queueing'[m] = queueing[m]
      BY <1>0, <1>2, JobsFacts
  <1>4. JobsTypes' /\ TriesLeft' /\ TickWorks' /\ Linking'
      BY <1>0, <1>3 DEF JobsInv, Working, JobsTypes, TriesLeft, TickWorks, Linking, Mine
  <1>5. NoneForgotten'
    <2> SUFFICES ASSUME NEW e \in Notes \ lost' PROVE ToLink(e)' /\ (quota.onward = "intake" => ToHand(e)')
        BY DEF NoneForgotten
    <2>1. e \notin lost /\ ~Asks(n, e)
        BY <1>0 DEF Asks
    <2>2. \A m \in Queueings : Asks(m, e) => Asks(m, e)' /\ queueing'[m].q.intake = queueing[m].q.intake
        BY <1>3, <2>1 DEF Asks
    <2>3. \A j \in JobIds : Serves(j, e) => Serves(j, e)'
        BY <1>0 DEF Serves, Mine
    <2>4. ToLink(e) /\ (quota.onward = "intake" => ToHand(e))
        BY <2>1, JobsFacts DEF NoneForgotten
    <2> QED BY <1>0, <2>2, <2>3, <2>4 DEF ToLink, ToHand
  <1> QED BY <1>4, <1>5 DEF JobsInv, Working

\* An enqueue inserts a job.
LEMMA InsertKeeps ==
    ASSUME JobsInv, quota'.onward = quota.onward, NEW n \in Queueings, EnqueueInsert(n)
    PROVE  JobsInv'
  <1> DEFINE q == queueing[n].q
             new == NewJob(q)
             f == FreeJob
  <1>0. /\ queueing[n] # None /\ HasJob /\ job' = [job EXCEPT ![f] = new] /\ queueing' = [queueing EXCEPT ![n] = None]
        /\ lost' = (IF q.intake \/ quota.onward # "intake" THEN lost \ {q.e} ELSE lost)
        /\ UNCHANGED <<text, bare, linked, handed, tick, calls>>
      BY DEF EnqueueInsert
  <1>1. q \in AskedFor
    <2>1. queueing[n] \in Enqueued
        BY <1>0, JobsFacts
    <2> QED BY <2>1 DEF Enqueued, AskedFor
  <1>q. \A e : Asks(n, e) <=> e = q.e
      BY <1>0 DEF Asks
  <1>i. queueing[n].q.intake = q.intake
      OBVIOUS
  <1> HIDE DEF q
  <1>2. q.kind = "mentions" /\ q.e \in Notes /\ q.intake \in BOOLEAN /\ q.high \in BOOLEAN
      BY <1>1 DEF AskedFor
  <1>3. /\ new \in JobRow /\ new # None /\ new.kind = "mentions" /\ new.e = q.e /\ new.intake = q.intake
        /\ new.status = "pending" /\ new.attempts = 0
    <2>1. q.kind \in Kinds
        BY <1>2 DEF Kinds
    <2> QED BY <1>2, <2>1, NewJobIsRow
  <1>f. f \in JobIds /\ job[f] = None
      BY <1>0, FreeJobIsFree
  <1> HIDE DEF new, f
  <1>4. PICK j0 \in JobIds : j0 = f /\ job[j0] = None
      BY <1>f
  <1>e. PICK e0 \in Notes : e0 = q.e
      BY <1>2
  <1>5. job' \in [JobIds -> {None} \cup JobRow] /\ job'[j0] = new /\ \A j \in JobIds \ {j0} : job'[j] = job[j]
      BY <1>0, <1>3, <1>4, JobsFacts
  <1>6. /\ queueing' \in [Queueings -> {None} \cup Enqueued] /\ queueing'[n] = None
        /\ \A m \in Queueings \ {n} : queueing'[m] = queueing[m]
      BY <1>0, JobsFacts
  <1>7. \A j \in JobIds : Mine(j) => j # j0 /\ job'[j] = job[j]
      BY <1>4, <1>5 DEF Mine
  <1>8. JobsTypes'
      BY <1>0, <1>5, <1>6, JobsFacts DEF JobsTypes
  <1>9. TriesLeft'
      BY <1>3, <1>5, JobsFacts, JobsAssumption DEF TriesLeft
  <1>10. TickWorks'
    <2>1. \A j \in JobIds : Mine(j)' <=> Mine(j) \/ j = j0
        BY <1>3, <1>4, <1>5 DEF Mine
    <2> QED BY <1>0, <1>3, <1>5, <1>7, <2>1, JobsFacts DEF TickWorks
  <1>11. Linking'
    <2>1. tick.step \notin {"rest", "claim"} => job'[tick.at] = job[tick.at]
      <3>1. ASSUME tick.step \notin {"rest", "claim"} PROVE tick.at \in JobIds /\ Mine(tick.at)
          BY <3>1, JobsFacts DEF TickWorks
      <3> QED BY <1>7, <3>1
    <2> QED BY <1>0, <2>1, JobsFacts DEF Linking
  <1>12. Serves(j0, e0)' /\ job'[j0].intake = q.intake
      BY <1>0, <1>3, <1>e, <1>5 DEF Serves, Mine
  <1>13. \A j \in JobIds, e \in Notes : Serves(j, e) => Serves(j, e)' /\ job'[j].intake = job[j].intake
      BY <1>0, <1>7 DEF Serves, Mine
  <1>14. NoneForgotten'
    <2> SUFFICES ASSUME NEW e \in Notes \ lost' PROVE ToLink(e)' /\ (quota.onward = "intake" => ToHand(e)')
        BY DEF NoneForgotten
    <2>1. CASE e = e0
      <3>1. Serves(j0, e)' /\ job'[j0].intake = q.intake
          BY <1>12, <2>1
      <3>2. ToLink(e)'
          BY <1>4, <3>1 DEF ToLink
      <3>3. ASSUME quota.onward = "intake" PROVE ToHand(e)'
        <4>1. CASE q.intake
            BY <1>4, <3>1, <4>1 DEF ToHand
        <4>2. CASE ~q.intake
          <5>1. e \notin lost
              BY <1>0, <3>3, <4>2
          <5>2. ToHand(e)
              BY <3>3, <5>1, JobsFacts DEF NoneForgotten
          <5>3. \A m \in Queueings : queueing[m].q.intake => m # n
              BY <1>i, <4>2
          <5>4. \A m \in Queueings \ {n} : Asks(m, e) => Asks(m, e)' /\ queueing'[m].q.intake = queueing[m].q.intake
              BY <1>6 DEF Asks
          <5> QED BY <1>0, <1>13, <5>2, <5>3, <5>4 DEF ToHand
        <4> QED BY <4>1, <4>2
      <3> QED BY <3>2, <3>3
    <2>2. CASE e # e0
      <3>1. e \in Notes \ lost
          BY <1>0, <1>e, <2>2
      <3>2. ToLink(e) /\ (quota.onward = "intake" => ToHand(e))
          BY <3>1, JobsFacts DEF NoneForgotten
      <3>3. \A m \in Queueings : Asks(m, e) => m # n /\ Asks(m, e)' /\ queueing'[m].q.intake = queueing[m].q.intake
          BY <1>q, <1>e, <1>6, <2>2 DEF Asks
      <3>4. ToLink(e)'
          BY <1>0, <1>13, <3>2, <3>3 DEF ToLink
      <3>5. ASSUME quota.onward = "intake" PROVE ToHand(e)'
          BY <1>0, <1>13, <3>2, <3>3, <3>5 DEF ToHand
      <3> QED BY <3>4, <3>5
    <2> QED BY <2>1, <2>2
  <1> QED BY <1>8, <1>9, <1>10, <1>11, <1>14 DEF JobsInv, Working

\* A restart takes up what it left running; what was being queued is lost.
LEMMA JobsRestartKeeps == ASSUME JobsInv, quota'.onward = quota.onward, JobsRestart PROVE JobsInv'
  <1>0. /\ job' = Rerun /\ tick' = Resting /\ calls' = 0 /\ queueing' = [n \in Queueings |-> None]
        /\ lost' = lost \cup {queueing[n].q.e : n \in {m \in Queueings : queueing[m] # None}}
        /\ UNCHANGED <<text, bare, linked, handed>>
      BY DEF JobsRestart
  <1>1. /\ job' \in [JobIds -> {None} \cup JobRow]
        /\ \A j \in JobIds : /\ job[j] = None => job'[j] = None
                             /\ job[j] # None => /\ job'[j] # None /\ job'[j].kind = job[j].kind /\ job'[j].e = job[j].e
                                                 /\ job'[j].intake = job[j].intake /\ job'[j].attempts = job[j].attempts
                                                 /\ job'[j].status = IF job[j].kind = "mentions" /\ job[j].status = "running"
                                                                     THEN "pending" ELSE job[j].status
    <2>1. ASSUME NEW j \in JobIds
          PROVE  /\ Rerun[j] \in {None} \cup JobRow
                 /\ job[j] = None => Rerun[j] = None
                 /\ job[j] # None => /\ Rerun[j] # None /\ Rerun[j].kind = job[j].kind /\ Rerun[j].e = job[j].e
                                     /\ Rerun[j].intake = job[j].intake /\ Rerun[j].attempts = job[j].attempts
                                     /\ Rerun[j].status = IF job[j].kind = "mentions" /\ job[j].status = "running"
                                                          THEN "pending" ELSE job[j].status
      <3>1. CASE Mine(j) /\ job[j].status = "running"
        <4> DEFINE new == [job[j] EXCEPT !.status = "pending"]
        <4>1. job[j] # None /\ job[j] \in JobRow /\ Rerun[j] = new
            BY <3>1, JobsFacts DEF Rerun, Mine
        <4>2. /\ new \in JobRow /\ new.kind = job[j].kind /\ new.e = job[j].e
              /\ new.intake = job[j].intake /\ new.attempts = job[j].attempts /\ new.status = "pending"
            BY <4>1 DEF JobRow
        <4> HIDE DEF new
        <4> QED BY <3>1, <4>1, <4>2, JobsFacts DEF Mine
      <3>2. CASE ~(Mine(j) /\ job[j].status = "running")
        <4>1. Rerun[j] = job[j]
            BY <3>2 DEF Rerun
        <4> QED BY <3>2, <4>1, JobsFacts DEF Mine
      <3> QED BY <3>1, <3>2
    <2>2. Rerun = [j \in JobIds |-> Rerun[j]]
        BY DEF Rerun
    <2> DEFINE run == Rerun
    <2> HIDE DEF run
    <2>3. run = [j \in JobIds |-> run[j]] /\ \A j \in JobIds : run[j] \in {None} \cup JobRow
        BY <2>1, <2>2 DEF run
    <2>4. run \in [JobIds -> {None} \cup JobRow]
        BY <2>3
    <2> QED BY <1>0, <2>1, <2>4 DEF run
  <1>2. lost' \subseteq Notes /\ \A n \in Queueings, e \in Notes \ lost' : ~Asks(n, e)
    <2>1. \A n \in Queueings : queueing[n] # None => queueing[n].q.e \in Notes
        BY JobsFacts DEF Enqueued
    <2> QED BY <1>0, <2>1, JobsFacts DEF Asks
  <1>3. tick' \in TickRec /\ tick'.step = "rest" /\ tick'.at = None /\ tick'.due = {}
      BY <1>0, JobsAssumption DEF Resting, TickRec
  <1>4. JobsTypes'
    <2>1. queueing' \in [Queueings -> {None} \cup Enqueued] /\ calls' \in 0 .. DailyCalls
        BY <1>0, JobsAssumption
    <2> QED BY <1>0, <1>1, <1>2, <1>3, <2>1, JobsFacts DEF JobsTypes
  <1>5. TriesLeft'
      BY <1>1, JobsFacts DEF TriesLeft
  <1>6. TickWorks'
      BY <1>1, <1>3, JobsFacts DEF TickWorks, Mine
  <1>7. Linking'
      BY <1>0, <1>3, JobsFacts DEF Linking
  <1>8. \A e \in Notes, j \in JobIds : Serves(j, e) => Serves(j, e)' /\ job'[j].intake = job[j].intake
    <2> SUFFICES ASSUME NEW e \in Notes, NEW j \in JobIds, Serves(j, e) PROVE Serves(j, e)' /\ job'[j].intake = job[j].intake
        OBVIOUS
    <2>1. Mine(j) /\ job[j].e = e /\ job[j].status \in {"pending", "failed", "running"}
        BY JobsFacts DEF Serves, TickWorks
    <2> QED BY <1>1, <2>1 DEF Serves, Mine
  <1>9. NoneForgotten'
    <2> SUFFICES ASSUME NEW e \in Notes \ lost' PROVE ToLink(e)' /\ (quota.onward = "intake" => ToHand(e)')
        BY DEF NoneForgotten
    <2>1. ToLink(e) /\ (quota.onward = "intake" => ToHand(e))
        BY <1>0, JobsFacts DEF NoneForgotten
    <2>2. ToLink(e)'
        BY <1>0, <1>2, <1>8, <2>1 DEF ToLink
    <2>3. ASSUME quota.onward = "intake" PROVE ToHand(e)'
        BY <1>0, <1>2, <1>8, <2>1, <2>3 DEF ToHand
    <2> QED BY <2>2, <2>3
  <1> QED BY <1>4, <1>5, <1>6, <1>7, <1>9 DEF JobsInv, Working

--------------------------------------------------------------------------
(* All of it                                                               *)

\* What is charged for a call, and heard of it.
LEMMA Charged ==
    ASSUME HealthInv, NEW d \in Deps, NEW answer \in Served(d), Charge(answer)
    PROVE  quota' \in QuotaUse /\ quota'.onward = quota.onward
  BY ChargeKeeps DEF HealthInv

\* A step of a worker's tick, for what it calls on.
LEMMA TickHealth == ASSUME HealthInv, TickStep PROVE HealthInv' /\ quota'.onward = quota.onward
  <1>0. quota \in QuotaUse /\ Linker \in Deps /\ Embedder \in Deps /\ Decider \in Deps
      BY JobsAssumption DEF HealthInv
  <1>1. ASSUME UNCHANGED <<quota, healthVars>> PROVE HealthInv' /\ quota'.onward = quota.onward
      BY <1>0, <1>1, HealthSame
  <1>2. ASSUME NEW d \in Deps, Calls(d), UNCHANGED healthVars PROVE HealthInv' /\ quota'.onward = quota.onward
    <2>1. CASE UNCHANGED quota
        BY <1>1, <1>2, <2>1
    <2>2. ASSUME NEW answer \in Served(d), Charge(answer) PROVE HealthInv' /\ quota'.onward = quota.onward
      <3>1. quota' \in QuotaUse /\ quota'.onward = quota.onward
          BY <2>2, Charged
      <3> QED BY <1>2, <3>1, HealthSame
    <2> QED BY <1>2, <2>1, <2>2 DEF Calls
  <1>3. ASSUME NEW d \in Deps, dep' = Heard(d, tick.answer), UNCHANGED <<out, other, quota>>
        PROVE  HealthInv' /\ quota'.onward = quota.onward
    <2> DEFINE answer == tick.answer
    <2>1. dep' = Heard(d, answer)
        BY <1>3
    <2> HIDE DEF answer
    <2>2. quota' \in QuotaUse
        BY <1>0, <1>3
    <2>3. UNCHANGED <<out, other>>
        BY <1>3
    <2> QED BY <1>3, <2>1, <2>2, <2>3, HealthHears
  <1>4. CASE TickBegin \/ TickClaim \/ TickEnds \/ JobRead \/ JobLink \/ JobLook \/ JobInsert
      BY <1>1, <1>4 DEF TickBegin, TickClaim, TickEnds, JobRead, JobLink, JobLook, JobInsert
  <1>5. CASE JobCall
    <2>1. CASE UNCHANGED quota
        BY <1>1, <1>5, <2>1 DEF JobCall
    <2>2. CASE Calls(Linker)
        BY <1>0, <1>2, <1>5, <2>2 DEF JobCall
    <2> QED BY <1>5, <2>1, <2>2 DEF JobCall
  <1>6. CASE JobEmbed
      BY <1>0, <1>2, <1>6 DEF JobEmbed
  <1>7. CASE JobMentions
      BY <1>0, <1>3, <1>7 DEF JobMentions, Answered
  <1>8. CASE JobEmbedded
    <2>1. dep' = Heard(Embedder, tick.answer) /\ UNCHANGED <<out, other, quota>>
        BY <1>8 DEF JobEmbedded, Answered
    <2> QED BY <1>0, <1>3, <2>1
  <1>9. CASE JobTriage
    <2>1. CASE UNCHANGED quota
        BY <1>1, <1>9, <2>1 DEF JobTriage
    <2>2. ASSUME NEW answer \in Served(Decider), Charge(answer) PROVE HealthInv' /\ quota'.onward = quota.onward
      <3>1. quota' \in QuotaUse /\ quota'.onward = quota.onward
          BY <1>0, <2>2, Charged
      <3> QED BY <1>9, <3>1, HealthSame DEF JobTriage
    <2> QED BY <1>9, <2>1, <2>2 DEF JobTriage
  <1>10. CASE JobTriaged
      BY <1>0, <1>3, <1>10 DEF JobTriaged
  <1> QED BY <1>4, <1>5, <1>6, <1>7, <1>8, <1>9, <1>10 DEF TickStep

\* A step of the documents, likewise.
LEMMA DocumentHealth ==
    ASSUME HealthInv, DocumentStep \/ IngestStep \/ PruneStep
    PROVE  HealthInv' /\ quota'.onward = quota.onward
  <1>0. quota \in QuotaUse /\ Embeds \in Deps
      BY DocumentsAssumption DEF HealthInv
  <1>1. ASSUME UNCHANGED <<quota, healthVars>> PROVE HealthInv' /\ quota'.onward = quota.onward
      BY <1>0, <1>1, HealthSame
  <1>2. ASSUME NEW what \in {"day", "ends", "extend", "prune"}, Spend(what), UNCHANGED healthVars
        PROVE  HealthInv' /\ quota'.onward = quota.onward
    <2>1. what \in Counted
        BY DEF Counted
    <2>2. quota' \in QuotaUse /\ quota'.onward = quota.onward
        BY <1>0, <1>2, <2>1, SpendKeeps
    <2> QED BY <1>2, <2>2, HealthSame
  <1>3. CASE DocumentStep
    <2>1. ASSUME NEW d \in Docs, RequestIngest(d) \/ IngestAsked(d) \/ ApproveIngest(d) \/ StartApproved(d) \/ ApproveDone(d)
                                     \/ RejectIngest(d) \/ RejectedText(d)
          PROVE  UNCHANGED <<quota, healthVars>>
        BY <2>1 DEF RequestIngest, IngestAsked, ApproveIngest, StartApproved, ApproveDone, RejectIngest, RejectedText
    <2>2. ASSUME DayPasses \/ \E r \in Rows : RowDue(r) \/ RowExtended(r)
          PROVE  UNCHANGED healthVars /\ \E what \in {"day", "ends", "extend", "prune"} : Spend(what)
        BY <2>2 DEF DayPasses, RowDue, RowExtended
    <2> QED BY <1>1, <1>2, <1>3, <2>1, <2>2 DEF DocumentStep
  <1>4. CASE IngestEmbeds \/ IngestFacts
    <2>1. UNCHANGED <<out, other>>
        BY <1>4 DEF IngestEmbeds, IngestFacts
    <2>2. \A then : Embedding(then) => \/ UNCHANGED <<dep, quota>>
                                       \/ \E answer \in Served(Embeds) : dep' = Heard(Embeds, answer) /\ Charge(answer)
        BY DEF Embedding
    <2>3. CASE UNCHANGED <<dep, quota>>
        BY <1>1, <2>1, <2>3 DEF healthVars
    <2>4. ASSUME NEW answer \in Served(Embeds), dep' = Heard(Embeds, answer), Charge(answer)
          PROVE  HealthInv' /\ quota'.onward = quota.onward
      <3>1. quota' \in QuotaUse /\ quota'.onward = quota.onward
          BY <1>0, <2>4, Charged
      <3> QED BY <1>0, <2>1, <2>4, <3>1, HealthHears
    <2>5. Embedding("sections") \/ Embedding("ready")
        BY <1>4 DEF IngestEmbeds, IngestFacts
    <2> QED BY <2>2, <2>3, <2>4, <2>5
  <1>5. CASE IngestBegin \/ IngestEntry \/ IngestSections \/ IngestReplaces \/ IngestDrops \/ IngestReady
      BY <1>1, <1>5 DEF IngestBegin, IngestEntry, IngestSections, IngestReplaces, IngestDrops, IngestReady
  <1>6. CASE PruneReads
      BY <1>2, <1>6 DEF PruneReads
  <1>7. CASE PruneArchives \/ PruneEnds \/ SweepRows \/ SweepPending \/ SweepRemoves
      BY <1>1, <1>7 DEF PruneArchives, PruneEnds, SweepRows, SweepPending, SweepRemoves
  <1>8. ASSUME NEW x, PruneDeletes(x) \/ PruneCleans(x) PROVE HealthInv' /\ quota'.onward = quota.onward
      BY <1>1, <1>8 DEF PruneDeletes, PruneCleans
  <1> QED BY <1>3, <1>4, <1>5, <1>6, <1>7, <1>8 DEF IngestStep, PruneStep

\* A step of the entries, the enqueues and the waits, likewise.
LEMMA JobHealth ==
    ASSUME HealthInv,
           \/ \E e \in Notes : WriteNote(e) \/ Backfill(e) \/ (Found(e) /\ UNCHANGED healthVars)
           \/ (\E n \in Queueings : EnqueueLook(n) \/ EnqueueInsert(n) \/ EnqueueFails(n)) /\ UNCHANGED healthVars
           \/ (\E j \in JobIds : RunAfter(j) \/ TakenOn(j)) /\ UNCHANGED healthVars
           \/ NewDay /\ UNCHANGED healthVars
    PROVE  HealthInv' /\ quota'.onward = quota.onward
  <1>0. quota \in QuotaUse /\ Embedder \in Deps
      BY JobsAssumption DEF HealthInv
  <1>1. ASSUME UNCHANGED <<quota, healthVars>> PROVE HealthInv' /\ quota'.onward = quota.onward
      BY <1>0, <1>1, HealthSame
  <1>2. "write" \in Counted /\ "find" \in Counted
      BY DEF Counted
  <1>3. ASSUME NEW e \in Notes, WriteNote(e) PROVE HealthInv' /\ quota'.onward = quota.onward
    <2>1. Spend("write") /\ UNCHANGED <<out, other>> /\ (dep' = Ok(Embedder) \/ dep' = Fail(Embedder) \/ dep' = dep)
        BY <1>3 DEF WriteNote
    <2>2. quota' \in QuotaUse /\ quota'.onward = quota.onward
        BY <1>0, <1>2, <2>1, SpendKeeps
    <2> QED BY <1>0, <2>1, <2>2, HealthHears
  <1>4. ASSUME NEW e \in Notes, Backfill(e) PROVE HealthInv' /\ quota'.onward = quota.onward
    <2>1. UNCHANGED <<out, other, quota>> /\ dep' = Ok(Embedder)
        BY <1>4 DEF Backfill
    <2> QED BY <1>0, <2>1, HealthHears
  <1>5. ASSUME NEW e \in Notes, Found(e), UNCHANGED healthVars PROVE HealthInv' /\ quota'.onward = quota.onward
    <2>1. quota' \in QuotaUse /\ quota'.onward = quota.onward
        BY <1>0, <1>2, <1>5, SpendKeeps DEF Found
    <2> QED BY <1>5, <2>1, HealthSame
  <1>6. ASSUME NEW n \in Queueings, EnqueueLook(n) \/ EnqueueInsert(n) \/ EnqueueFails(n) PROVE UNCHANGED quota
      BY <1>6 DEF EnqueueLook, EnqueueInsert, EnqueueFails
  <1>7. ASSUME NEW j \in JobIds, RunAfter(j) \/ TakenOn(j) PROVE UNCHANGED quota
      BY <1>7 DEF RunAfter, TakenOn
  <1>8. NewDay => UNCHANGED quota
      BY DEF NewDay
  <1> QED BY <1>1, <1>3, <1>4, <1>5, <1>6, <1>7, <1>8

\* A step of others, for the documents.
LEMMA DocsStand == ASSUME DocsInv, UNCHANGED docVars PROVE DocsInv'
  <1>1. UNCHANGED <<store, aged, row, status, write, ingests, ingest, prune, sweep, loose, pruned>>
      BY DEF docVars
  <1>2. DocsTypes' /\ TextsKept'
      BY <1>1 DEF DocsInv, DocsTypes, TextsKept, Waits
  <1>3. GivenIn'
    <2>1. \A d \in Docs : Given(d) => Given(d)'
        BY <1>1 DEF Given
    <2> QED BY <1>1, <2>1, GivenStands
  <1>4. GraphRight'
      BY <1>1, GraphStands
  <1> QED BY <1>2, <1>3, <1>4, DocsRight

\* A step of others, for the jobs.
LEMMA JobsSame == ASSUME JobsInv, UNCHANGED jobVars, quota'.onward = quota.onward PROVE JobsInv'
  BY JobsFacts, JobsStand DEF jobVars

\* A step of others, for the tenants.
LEMMA TenantsSame == ASSUME TenantsInv, UNCHANGED tenantVars PROVE TenantsInv'
  BY DEF TenantsInv, tenantVars

\* What all of it keeps.
Inv == HealthInv /\ JobsInv /\ DocsInv /\ TenantsInv

\* It holds at the start, whatever the scenario.
LEMMA InitInv == ASSUME Init PROVE Inv
  <1>1. quota \in QuotaUse
      BY BackgroundAssumption DEF Init, HealthInit
  <1>2. HealthInv
      BY <1>1, HealthAssumption DEF Init, HealthInit, HealthInv, HealthTypeOK, Well
  <1>3. JobsInv
    <2>1. JobsInit
        BY DEF Init
    <2>2. tick \in TickRec /\ tick.step = "rest" /\ tick.at = None /\ tick.due = {}
        BY <2>1, JobsAssumption DEF JobsInit, Resting, TickRec
    <2>3. JobsTypes
        BY <2>1, <2>2, JobsAssumption DEF JobsInit, JobsTypes
    <2>4. TriesLeft /\ TickWorks /\ Linking
        BY <2>1, <2>2 DEF JobsInit, TriesLeft, TickWorks, Linking, Mine
    <2>5. NoneForgotten
        BY <2>1 DEF JobsInit, NoneForgotten, ToLink, ToHand
    <2> QED BY <2>3, <2>4, <2>5 DEF JobsInv, Working
  <1>4. DocsInv
    <2>1. DocumentsInit
        BY DEF Init
    <2>2. /\ store = {} /\ aged = {} /\ row = [r \in Rows |-> None] /\ status = "none"
          /\ write = [d \in Docs |-> "none"] /\ ingests = << >> /\ ingest = NoIngest
          /\ prune = NoPrune /\ sweep = NoSweep /\ loose = {} /\ pruned = {}
        BY <2>1 DEF DocumentsInit
    <2>3. Whole \in Rows /\ Names \subseteq Rows
        BY DEF Rows
    <2>4. DocsTypes
        BY <2>2, NothingIsRead DEF DocsTypes, Writes
    <2>5. GivenIn /\ TextsKept
        BY <2>2, NothingIsRead DEF GivenIn, TextsKept, Waits
    <2>6. IngestRight /\ SectionsKnown /\ Ready
        BY <2>2, <2>3, NothingIsRead DEF IngestRight, Past, SectionsKnown, Ready
    <2> QED BY <2>4, <2>5, <2>6 DEF DocsInv
  <1>5. TenantsInv
    <2>1. chances \in {None} \cup TenantUse
        BY <1>1 DEF Init, QuotaUse
    <2>2. role \in [Tenants -> Tiers \cup {"none"}]
        BY <2>1 DEF Init, TenantUse
    <2>3. TenantsInit
        BY DEF Init
    <2>4. /\ recorded = [t \in Tenants |-> "none"] /\ token = recorded /\ group = {} /\ account = {} /\ pass = NoPass
          /\ container \in [Tenants -> {"none", "stopped", "running"}]
        BY <2>3 DEF TenantsInit
    <2> QED BY <2>1, <2>2, <2>4, NoPassIsPass DEF TenantsInv, Notices, Steps
  <1> QED BY <1>2, <1>3, <1>4, <1>5 DEF Inv

\* Every step keeps it.
LEMMA NextInv == ASSUME Inv, [Next]_vars PROVE Inv'
  <1>0. HealthInv /\ JobsInv /\ DocsInv /\ TenantsInv /\ quota \in QuotaUse
      BY DEF Inv, HealthInv
  <1>1. CASE UNCHANGED vars
    <2>1. UNCHANGED <<quota, healthVars, jobVars, docVars, tenantVars>>
        BY <1>1 DEF vars, graphVars
    <2> QED BY <1>0, <2>1, HealthSame, JobsSame, DocsStand, TenantsSame DEF Inv
  <1>2. ASSUME chances # None, TenantStep, UNCHANGED graphVars PROVE Inv'
    <2>1. UNCHANGED <<quota, healthVars, jobVars, docVars>>
        BY <1>2 DEF graphVars
    <2> QED BY <1>0, <1>2, <2>1, HealthSame, JobsSame, DocsStand, TenantStepTypes DEF Inv
  <1>3. CASE Restart
    <2>1. "restart" \in Counted
        BY DEF Counted
    <2>2. quota' \in QuotaUse /\ quota'.onward = quota.onward
        BY <1>0, <1>3, <2>1, SpendKeeps DEF Restart
    <2>3. HealthInv'
      <3>1. out' = out /\ dep' \in [Deps -> DepRec] /\ \A o \in Others : other'[o] = None
          BY <1>3, HealthAssumption DEF Restart, HealthRestart, Well, DepRec
      <3> QED BY <1>0, <2>2, <3>1, HealthMoves DEF HealthInv, HealthTypeOK
    <2>4. TenantsInv'
        BY <1>0, <1>3 DEF Restart, TenantsInv
    <2> QED BY <1>0, <1>3, <2>2, <2>3, <2>4, JobsRestartKeeps, DocumentsRestartKeeps DEF Restart, Inv
  <1>4. ASSUME GraphStep, UNCHANGED tenantVars PROVE Inv'
    <2>0. TenantsInv'
        BY <1>0, <1>4, TenantsSame
    <2>1. CASE HealthStep /\ UNCHANGED <<jobVars, docVars>>
        BY <1>0, <2>0, <2>1, HealthStepKeeps, JobsSame, DocsStand DEF Inv
    <2>2. CASE (\E e \in Notes : WriteNote(e) \/ Backfill(e) \/ (Found(e) /\ UNCHANGED healthVars)) /\ UNCHANGED docVars
      <3>1. HealthInv' /\ quota'.onward = quota.onward
          BY <1>0, <2>2, JobHealth
      <3> QED BY <1>0, <2>0, <2>2, <3>1, EntriesKeep, DocsStand DEF Inv
    <2>3. CASE (\E n \in Queueings : EnqueueLook(n) \/ EnqueueInsert(n) \/ EnqueueFails(n)) /\ UNCHANGED <<healthVars, docVars>>
      <3>1. HealthInv' /\ quota'.onward = quota.onward
          BY <1>0, <2>3, JobHealth
      <3> QED BY <1>0, <2>0, <2>3, <3>1, LookKeeps, InsertKeeps, EnqueueFailsKeeps, DocsStand DEF Inv
    <2>4. CASE TickStep /\ UNCHANGED docVars
        BY <1>0, <2>0, <2>4, TickHealth, TickStepKeeps, DocsStand DEF Inv
    <2>5. CASE (\E j \in JobIds : RunAfter(j) \/ TakenOn(j)) /\ UNCHANGED <<healthVars, docVars>>
      <3>1. HealthInv' /\ quota'.onward = quota.onward
          BY <1>0, <2>5, JobHealth
      <3> QED BY <1>0, <2>0, <2>5, <3>1, WaitsKeep, DocsStand DEF Inv
    <2>6. CASE NewDay /\ UNCHANGED <<healthVars, docVars>>
      <3>1. HealthInv' /\ quota'.onward = quota.onward
          BY <1>0, <2>6, JobHealth
      <3>2. JobsInv'
        <4>1. UNCHANGED <<text, bare, linked, handed, job, queueing, tick, lost>> /\ calls' \in 0 .. DailyCalls
            BY <2>6, JobsAssumption DEF NewDay
        <4> QED BY <1>0, <3>1, <4>1, JobsFacts, JobsStand
      <3> QED BY <1>0, <2>0, <2>6, <3>1, <3>2, DocsStand DEF Inv
    <2>7. CASE (DocumentStep \/ IngestStep \/ PruneStep) /\ UNCHANGED jobVars
        BY <1>0, <2>0, <2>7, DocumentHealth, JobsSame, DocumentStepKeeps, IngestKeeps, PruneStepKeeps DEF Inv
    <2> QED BY <1>4, <2>1, <2>2, <2>3, <2>4, <2>5, <2>6, <2>7 DEF GraphStep
  <1> QED BY <1>1, <1>2, <1>3, <1>4 DEF Next

\* Inv is an invariant.
LEMMA Always == Spec => []Inv
  <1>1. Init => Inv
      BY InitInv
  <1>2. Inv /\ [Next]_vars => Inv'
      BY NextInv
  <1> QED BY <1>1, <1>2, PTL DEF Spec

--------------------------------------------------------------------------
(* What is shown                                                           *)

\* The types of all that goes on by itself, what bounds it, and who has an identity on the gateway
\* (jobs, documents, the health of the models, tenants).
THEOREM TypesHold == Spec => []TypeOK
  <1>1. ASSUME Inv PROVE TypeOK
    <2>1. HealthTypeOK
        BY <1>1 DEF Inv, HealthInv
    <2>2. JobsTypeOK
      <3>1. JobsInv
          BY <1>1 DEF Inv
      <3>2. \A e \in Notes : linked[e] \in 0 .. text[e] /\ handed[e] \in 0 .. text[e]
          BY <3>1, JobsFacts, JobsAssumption DEF Linking
      <3>3. \A j \in JobIds : job[j] = None \/ job[j] \in JobRow
          BY <3>1, JobsFacts
      <3> QED BY <3>1, <3>2, <3>3, JobsFacts DEF JobsTypeOK
    <2>3. DocumentsTypeOK
      <3>1. DocsInv
          BY <1>1 DEF Inv
      <3>2. Range(ingests) \subseteq Docs
          BY <3>1, DocsFacts DEF Range
      <3>3. \A x \in prune.batch : x \in [r : Rows, doc : Docs]
          BY <3>1 DEF DocsInv, DocsTypes, PruneRec, Read
      <3> QED BY <3>1, <3>2, <3>3 DEF DocsInv, DocsTypes, DocumentsTypeOK
    <2>4. TenantsTypeOK
      <3>1. pass.notes \in Notices /\ pass.todo \subseteq Tenants
          BY <1>1 DEF Inv, TenantsInv, PassRec
      <3> QED BY <1>1, <3>1 DEF Inv, TenantsInv, TenantsTypeOK, Notices
    <2> QED BY <2>1, <2>2, <2>3, <2>4 DEF TypeOK
  <1>2. Inv => TypeOK
      BY <1>1
  <1> QED BY <1>2, Always, PTL

\* An entry whose last text is not linked, or not handed over, is on its way there (enqueue, workerTick).
THEOREM NotForgotten == Spec => []EntryNotForgotten
  <1>1. ASSUME Inv PROVE EntryNotForgotten
    <2>1. \A e \in Notes \ lost : ToLink(e) /\ (quota.onward = "intake" => ToHand(e))
        BY <1>1 DEF Inv, JobsInv, NoneForgotten
    <2>2. \A e \in Notes : ToLink(e) => linked[e] = text[e] \/ OnItsWay(e, FALSE)
        BY DEF ToLink, Asks, Serves, OnItsWay
    <2>3. \A e \in Notes : ToHand(e) => handed[e] = text[e] \/ OnItsWay(e, TRUE)
        BY DEF ToHand, Asks, Serves, OnItsWay
    <2> QED BY <2>1, <2>2, <2>3 DEF EntryNotForgotten
  <1>2. Inv => EntryNotForgotten
      BY <1>1
  <1> QED BY <1>2, Always, PTL

\* A document that is ready is whole, and a text that is waited for is there (ingestDocument, pruneExpired,
\* sweepOrphanDocuments).
THEOREM NothingIsLost == Spec => []DocumentsKept
  <1>1. ASSUME Inv PROVE DocumentsKept
    <2>0. DocsInv
        BY <1>1 DEF Inv
    <2>1. ReadyIsWhole
      <3> SUFFICES ASSUME status = "ready"
                   PROVE  /\ \A n \in SectionsOf[row[Whole].doc] \ pruned : row[n] # None /\ row[n].doc = row[Whole].doc
                          /\ \A n \in Names : row[n] # None => row[n].doc \in {row[Whole].doc} \cup loose
          BY DEF ReadyIsWhole
      <3>1. ~AtSections
          BY <2>0, DocsFacts DEF IngestRight, Past, AtSections
      <3> QED BY <2>0, <3>1, DocsFacts DEF Ready, Of, SectionsKnown
    <2>2. \A d \in Docs \ loose : write[d] \in {"asked", "pending", "executing"} => d \in store
        BY <2>0, DocsFacts DEF Waits
    <2> QED BY <2>1, <2>2 DEF DocumentsKept
  <1>2. Inv => DocumentsKept
      BY <1>1
  <1> QED BY <1>2, Always, PTL
====
