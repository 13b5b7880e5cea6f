---- MODULE Background ----
(***************************************************************************)
(* What goes on by itself: graph-rag's worker jobs, documents, pruning, and   *)
(* the health of what they all depend on (graph-rag/src/server.js boot), and  *)
(* the passes of the provisioner, whose token map graph-rag reads.            *)
(***************************************************************************)
EXTENDS Jobs, Documents, Tenants

\* What a scenario allows, and what the rows and calls are made of.
TenantUse == [first : [Tenants -> Tiers \cup {"none"}], role : Nat, fault : Nat, restart : Nat]
QuotaUse == [write : Nat, find : Nat, onward : {"none", "intake", "review"}, triage : BOOLEAN, bad : Nat, other : Nat,
             outage : Nat, restart : Nat, ingest : SUBSET Docs, queued : BOOLEAN, day : Nat, ends : Nat, extend : Nat,
             prune : Nat, tenants : {None} \cup TenantUse]

Kinds == {"mentions", "intake", "review"}
JobRow == [kind : Kinds, e : Notes, intake : BOOLEAN, high : BOOLEAN, due : BOOLEAN,
           status : {"pending", "running", "done", "failed"}, attempts : 0 .. GiveUp]
Enqueued == [q : [kind : {"mentions"}, e : Notes, intake : BOOLEAN, high : BOOLEAN], looked : BOOLEAN]
Entry == [doc : Docs, due : BOOLEAN]

ASSUME BackgroundAssumption ==
    /\ Quotas \subseteq QuotaUse
    /\ None \notin JobRow /\ None \notin Enqueued /\ None \notin Entry
    /\ None \notin Docs /\ None \notin JobIds /\ None \notin TenantUse

graphVars == <<healthVars, quota, jobVars, docVars>>
vars == <<graphVars, tenantVars>>

\* A scenario has tenants, or nothing of them.
Init ==
    /\ HealthInit /\ JobsInit /\ DocumentsInit
    /\ TenantsInit /\ chances = quota.tenants
    /\ role = IF chances = None THEN [t \in Tenants |-> "none"] ELSE chances.first

HealthStep ==
    \/ \E o \in Others, d \in Deps : OtherCall(o, d)
    \/ \E o \in Others : OtherAnswered(o)
    \/ \E d \in Deps : PauseEnds(d) \/ GoesOut(d) \/ ComesBack(d)

DocumentStep ==
    \/ \E d \in Docs : \/ RequestIngest(d) \/ IngestAsked(d)
                       \/ ApproveIngest(d) \/ StartApproved(d) \/ ApproveDone(d)
                       \/ RejectIngest(d) \/ RejectedText(d)
    \/ DayPasses
    \/ \E r \in Rows : RowDue(r) \/ RowExtended(r)

\* graph-rag is restarted, or crashes; it reads the token map when it boots.
Restart ==
    /\ Spend("restart") /\ HealthRestart /\ JobsRestart /\ DocumentsRestart
    /\ loaded' = token
    /\ UNCHANGED <<chances, role, recorded, group, token, account, container, pass, strayed>>

GraphStep ==
    \/ HealthStep /\ UNCHANGED <<jobVars, docVars>>
    \/ (\E e \in Notes : WriteNote(e) \/ Backfill(e)) /\ UNCHANGED docVars
    \/ (\E e \in Notes : Found(e)) /\ UNCHANGED <<healthVars, docVars>>
    \/ (\E n \in Queueings : EnqueueLook(n) \/ EnqueueInsert(n) \/ EnqueueFails(n)) /\ UNCHANGED <<healthVars, docVars>>
    \/ TickStep /\ UNCHANGED docVars
    \/ (\E j \in JobIds : RunAfter(j) \/ TakenOn(j)) /\ UNCHANGED <<healthVars, docVars>>
    \/ NewDay /\ UNCHANGED <<healthVars, docVars>>
    \/ (DocumentStep \/ IngestStep) /\ UNCHANGED jobVars
    \/ PruneStep /\ UNCHANGED jobVars

Next ==
    \/ GraphStep /\ UNCHANGED tenantVars
    \/ Restart
    \/ chances # None /\ TenantStep /\ UNCHANGED graphVars

Spec == Init /\ [][Next]_vars

\* What goes on by itself does: timers, pauses that end, days, and what is out comes back.
Fairness ==
    /\ WF_vars(TickStep /\ UNCHANGED <<docVars, tenantVars>>)
    /\ \A d \in Deps :
          /\ WF_vars(PauseEnds(d) /\ UNCHANGED <<jobVars, docVars, tenantVars>>)
          /\ WF_vars(ComesBack(d) /\ UNCHANGED <<jobVars, docVars, tenantVars>>)
    /\ \A j \in JobIds : WF_vars(RunAfter(j) /\ UNCHANGED <<healthVars, docVars, tenantVars>>)
    /\ WF_vars(NewDay /\ UNCHANGED <<healthVars, docVars, tenantVars>>)
    /\ WF_vars(chances # None /\ PassStep /\ UNCHANGED graphVars)
    /\ WF_vars(chances # None /\ LoadTokenMap /\ UNCHANGED graphVars)

FairSpec == Spec /\ Fairness

--------------------------------------------------------------------------
HealthTypeOK ==
    /\ out \subseteq Deps
    /\ dep \in [Deps -> [pause : 0 .. MaxPause, paused : BOOLEAN]]
    /\ \A o \in Others : other[o] = None \/ other[o] \in [dep : Deps, answer : {"ok", "outage"}]

JobsTypeOK ==
    /\ text \in [Notes -> 0 .. MaxText] /\ bare \subseteq Notes /\ lost \subseteq Notes
    /\ \A e \in Notes : linked[e] \in 0 .. text[e] /\ handed[e] \in 0 .. text[e]
    /\ \A j \in JobIds : job[j] = None \/ job[j] \in JobRow
    /\ calls \in 0 .. DailyCalls

DocumentsTypeOK ==
    /\ store \subseteq Docs /\ aged \subseteq Docs /\ loose \subseteq Docs /\ pruned \subseteq Rows
    /\ \A r \in Rows : row[r] = None \/ row[r] \in Entry
    /\ status \in {"none", "ingesting", "ready", "failed"}
    /\ Range(ingests) \subseteq Docs /\ \A x \in prune.batch : x \in [r : Rows, doc : Docs]

\* The types of the variables; no entry is linked or handed over further than it was written, no
\* job is tried more often than it may be, a day's model calls keep to the budget,
\* and only sandboxed tenants have a gateway identity.
TypeOK == HealthTypeOK /\ JobsTypeOK /\ DocumentsTypeOK /\ TenantsTypeOK

\* An entry whose last text is not linked yet, or not yet handed to the master that is to see it,
\* is on its way there: an enqueue at work, a job that waits, has yet to read it, has read just
\* that, or gave up.  Except for a text that came while a job already past its reading was
\* running or one queued for less was waiting (enqueue takes that job for its own), that a
\* restart or a failing enqueue kept from the queue, or that the backfill gave it.
OnItsWay(e, over) ==
    \/ \E n \in Queueings : queueing[n] # None /\ queueing[n].q.e = e /\ (over => queueing[n].q.intake)
    \/ \E j \in JobIds : Mine(j) /\ job[j].e = e /\ (over => job[j].intake) /\
          \/ job[j].status \in {"pending", "failed"}
          \/ tick.at = j /\ (tick.step = "read" \/ tick.seen = text[e])
EntryNotForgotten ==
    \A e \in Notes \ lost :
        /\ linked[e] = text[e] \/ OnItsWay(e, FALSE)
        /\ quota.onward = "intake" => handed[e] = text[e] \/ OnItsWay(e, TRUE)

\* A job that waits or runs is done or given up in the end, whatever is out meanwhile and however
\* small the day's budget: being put off never strands it.
JobsSettle ==
    \A j \in JobIds : (Mine(j) /\ job[j].status \in {"pending", "running"})
                          ~> (Mine(j) /\ job[j].status \in {"done", "failed"})

\* A document that is ready is all there, and nothing of the title's earlier ones is with it:
\* except what was pruned, and the sections of those that a broken-off ingest or pruning, or a
\* deletion that failed, left without an entry that names them.
ReadyIsWhole ==
    status = "ready" =>
        LET d == row[Whole].doc IN
        /\ \A n \in SectionsOf[d] \ pruned : row[n] # None /\ row[n].doc = d
        /\ \A n \in Names : row[n] # None => row[n].doc \in {d} \cup loose

\* No document loses what it is made of: one that is ready is whole, and an ingest that waits for
\* a person, or is being approved, has its text, however long it waits and whatever is pruned or
\* swept meanwhile, unless a sweep could not read which ingests wait.
DocumentsKept == ReadyIsWhole /\ \A d \in Docs \ loose : write[d] \in {"asked", "pending", "executing"} => d \in store

\* Roles take hold: whatever passes break off halfway, calls fail and containers change, a tenant
\* whose role is gone ends up locked out (its container stopped, its token denied in graph-rag,
\* its gateway identity off, its access group empty), and one with a role has all of it.  Except
\* for a tenant whose record was lost: granted something in a pass that did not reach its end.
RolesTakeHold ==
    \A t \in Tenants :
        []<>(chances = None \/ IF role[t] = "none" THEN LockedOut(t) \/ t \in strayed ELSE Granted(t))

====
