---- MODULE Shares ----
(***************************************************************************)
(* Grants and the shares people and their agents make (graph-rag/src/       *)
(* server.js: grantAccess, storeGrant, revokeGrant, refreshGrants,          *)
(* confirmProposal, declineProposal, resolveWaitingShares; grants.js).      *)
(*                                                                          *)
(* A grant is a row of the database; reads go by `cache`, the grants last   *)
(* read from it.  A share an agent proposes waits for its person; one on an *)
(* entry that is still a pending write waits for that write too.            *)
(***************************************************************************)
EXTENDS Entries

CONSTANTS
    PersonOf,    \* whom an agent acts for
    MaxGrants    \* bound: grants

Grants == 1 .. MaxGrants
Recipients == People \cup Positions

ASSUME SharesAssumption == PersonOf \in [Agents -> People] /\ MaxGrants \in Nat \ {0}

VARIABLES
    grant,    \* AccessGrant
    cache,    \* grantCache: the grants reads go by
    refused   \* history: share proposals whose person declined them before any resolution read them, or after
              \* a restart broke it off with the share not made

shareVars == <<grant, cache, refused>>

SharesInit ==
    /\ grant = [g \in Grants |-> None] /\ cache = {} /\ refused = {}

\* Entry rows are rids; questions are entries too and are never deleted while open.
NewGrant(target, e, to, by, home, from) ==
    [target |-> target, e |-> e, to |-> to, by |-> by, home |-> home, from |-> from, status |-> "active"]
FreeGrant == CHOOSE g \in Grants : grant[g] = None /\ \A h \in 1 .. (g - 1) : grant[h] # None
HasGrant == \E g \in Grants : grant[g] = None
Active == {g \in Grants : grant[g] # None /\ grant[g].status = "active"}

\* A record id counts only while it holds the entry the grant was made for.
Holds(g) == grant[g].target \in Rids => row[grant[g].target] # None /\ row[grant[g].target].e = grant[g].e

\* A position's grant reaches who sees that position, a person's only them and their agents.
Reaches(g, a) ==
    LET to == grant[g].to IN
    IF to \in People THEN to = a \/ (a \in Agents /\ PersonOf[a] = to) ELSE Owns(a, to)
RecipientSees(to, home) == home \in Visible(IF to \in People THEN Held[to] ELSE {to})

--------------------------------------------------------------------------
(* refreshGrants: the active grants are read, those of deleted entries       *)
(* revoked, and the rest are what reads go by.  Nothing keeps two apart.     *)

Refresh(after, then) == [kind |-> "refresh", seen |-> None, after |-> after, then |-> then]
Refreshing == Refresh(None, Idle)

RefreshRead(t) ==
    /\ task[t].kind = "refresh" /\ task[t].seen = None
    /\ Begin(t, [task[t] EXCEPT !.seen = Active])
    /\ UNCHANGED <<row, marks, pending, due, excused, quota, shareVars>>

\* (faulty variant: the cache only grows)
CacheAfterAll(seen) == cache \cup seen

\* What a refresh leaves of the grants it read.
CacheAfter(seen) == {g \in seen : Holds(g)}

RefreshSweep(t) ==
    LET seen == task[t].seen IN
    /\ task[t].kind = "refresh" /\ seen # None
    /\ grant' = [g \in Grants |-> IF g \in seen /\ ~Holds(g) THEN [grant[g] EXCEPT !.status = "revoked"] ELSE grant[g]]
    /\ cache' = CacheAfter(seen)
    /\ Begin(t, Settling(task[t].after, TRUE, task[t].then))
    /\ UNCHANGED <<row, marks, pending, due, excused, quota, refused>>

\* Every minute; one is let run at a time here, next to those the calls below start, and where
\* the minutes do not count only when there is something to change.
RefreshTick ==
    /\ quota.minutes \/ cache # CacheAfter(Active)
    /\ HasTask /\ \A t \in Tasks : task[t].kind # "refresh"
    /\ Begin(FreeTask, Refreshing)
    /\ UNCHANGED <<row, marks, pending, due, excused, quota, shareVars>>

\* storeGrant: the row, then a refresh.
StoreGrant(t) ==
    /\ task[t].kind = "grant" /\ HasGrant
    /\ grant' = [grant EXCEPT ![FreeGrant] = task[t].what]
    /\ Begin(t, Refresh(task[t].after, task[t].then))
    /\ UNCHANGED <<row, marks, pending, due, excused, quota, cache, refused>>

\* revokeGrant: its maker, or who owns the entry's home.
Revoke(a, g) ==
    /\ Spend("revoke") /\ g \in Active /\ (grant[g].by = a \/ Owns(a, grant[g].home)) /\ HasTask
    /\ grant' = [grant EXCEPT ![g].status = "revoked"]
    /\ Begin(FreeTask, Refreshing)
    /\ UNCHANGED <<row, marks, pending, due, excused, cache, refused>>

\* deleteEntry: the record goes, then the grants on it.
Delete(r) ==
    /\ Spend("delete") /\ row[r] # None /\ HasTask
    /\ Removed(r) /\ Begin(FreeTask, Refreshing)
    /\ UNCHANGED <<marks, pending, excused, shareVars>>

\* What is read through a grant counts as read where the entry is homed.
ReadGranted(a, r) ==
    /\ Spend("read") /\ row[r] # None /\ (\E g \in cache : grant[g].target = r /\ Holds(g) /\ Reaches(g, a))
    /\ row[r].home \notin marks[a]
    /\ marks' = [marks EXCEPT ![a] = @ \cup {row[r].home}]
    /\ UNCHANGED <<row, pending, task, due, excused, shareVars>>

--------------------------------------------------------------------------
(* grantAccess, and the proposals it makes.                                 *)

GrantTask(what, after) == [kind |-> "grant", what |-> what, after |-> after, then |-> Idle]

\* A share proposal; `write` is the pending write it waits on.
SharePending(a, e, r, to, home, write, status) ==
    [kind |-> "share", status |-> status, home |-> home, who |-> a, e |-> e, rid |-> r, to |-> to,
     write |-> write, said |-> FALSE]

\* What a proposal's grant is made of.
GrantOf(q, p, by) == NewGrant(p.rid, p.e, p.to, by, p.home, q)

\* A person shares what they own at once, unless shares are reviewed; an agent only proposes.
SharesDirectly(a) == a \in People /\ (~quota.reviewed \/ Root \in Held[a])

GrantAccess(a, e, to) ==
    /\ Spend("share") /\ Stored(e) /\ Owns(a, row[RidOf(e)].home) /\ ~RecipientSees(to, row[RidOf(e)].home) /\ to # a
    /\ LET home == row[RidOf(e)].home IN
       IF SharesDirectly(a)
       THEN /\ HasTask /\ UNCHANGED pending
            /\ Begin(FreeTask, GrantTask(NewGrant(RidOf(e), e, to, a, home, None), None))
       ELSE Queue(SharePending(a, e, RidOf(e), to, home, None, "pending")) /\ UNCHANGED task
    /\ UNCHANGED <<row, marks, due, excused, shareVars>>

Person(a) == IF a \in Agents THEN PersonOf[a] ELSE a
MayWait(a, e, q) ==
    /\ pending[q] # None /\ pending[q].kind = "upsert" /\ pending[q].status = "pending"
    /\ pending[q].e = e /\ Person(pending[q].who) = Person(a)

\* Not written yet: the share waits on its person's own pending write.
GrantWaiting(a, e, to, q) ==
    /\ Spend("share") /\ ~(Stored(e) /\ Owns(a, row[RidOf(e)].home)) /\ MayWait(a, e, q) /\ ~RecipientSees(to, Origin[e])
    /\ Queue(SharePending(a, e, None, to, Origin[e], q, IF SharesDirectly(a) THEN "confirmed" ELSE "waiting"))
    /\ UNCHANGED <<row, marks, task, due, excused, shareVars>>

\* An approver makes a reviewed share (approvePending, kind grant).
ApproveShare(a, q) ==
    /\ Spend("decide") /\ pending[q] # None /\ pending[q].kind = "share" /\ pending[q].status = "pending"
    /\ MayReview(a, q) /\ HasTask
    /\ pending' = [pending EXCEPT ![q].status = "executing"]
    /\ Begin(FreeTask, GrantTask(GrantOf(q, pending[q], pending[q].who), q))
    /\ UNCHANGED <<row, marks, due, excused, shareVars>>

\* A share by one of this person's own agents, on what the person owns.
OwnProposal(p, q) ==
    /\ pending[q] # None /\ pending[q].kind = "share"
    /\ pending[q].who \in Agents /\ PersonOf[pending[q].who] = p /\ Owns(p, pending[q].home)

\* confirmProposal reads the proposal ...
ConfirmRead(p, q) ==
    /\ Spend("answer") /\ OwnProposal(p, q) /\ pending[q].status \in {"pending", "waiting"} /\ HasTask
    /\ Begin(FreeTask, [kind |-> "confirm", q |-> q, person |-> p, read |-> pending[q]])
    /\ UNCHANGED <<row, marks, pending, due, excused, shareVars>>

\* The update's condition: nobody handled it in between.
Still(q, status) == pending[q].status = status

\* ... and records the yes: for the reviewer, for when the entry is written, or by claiming it.
ConfirmWrite(t) ==
    LET c == task[t]
        q == c.q
    IN
    /\ c.kind = "confirm"
    /\ IF ~SharesDirectly(c.person)
       THEN /\ pending' = IF pending[q].status \in {"pending", "waiting"}
                          THEN [pending EXCEPT ![q] = [c.read EXCEPT !.status = pending[q].status, !.said = TRUE]]
                          ELSE pending
            /\ Begin(t, Idle)
       ELSE IF ~Still(q, c.read.status) THEN Begin(t, Idle) /\ UNCHANGED pending
       ELSE IF c.read.status = "waiting"
       THEN pending' = [pending EXCEPT ![q].status = "confirmed", ![q].said = TRUE] /\ Begin(t, Idle)
       ELSE /\ pending' = [pending EXCEPT ![q].status = "executing", ![q].said = TRUE]
            /\ Begin(t, GrantTask(GrantOf(q, c.read, c.person), q))
    /\ UNCHANGED <<row, marks, due, excused, quota, shareVars>>

\* (faulty variant: one that was said yes to, and waits, is not taken back)
DeclinableUnsaid(status) == status \in {"pending", "waiting"}

\* What declineProposal's update takes back.
Declinable(status) == status \in {"pending", "waiting", "confirmed"}

\* A resolution that has read the proposal, between shares or making one; and what may have come of it.
HasRead(what, q) == what.kind = "resolve" /\ q \in DOMAIN what.rows
Resolving(q) ==
    \E t \in Tasks : \/ HasRead(task[t], q)
                     \/ task[t].kind \in {"grant", "refresh", "settle"} /\ (task[t].after = q \/ HasRead(task[t].then, q))
Made(q) == \E g \in Grants : grant[g] # None /\ grant[g].from = q

Decline(p, q) ==
    /\ Spend("answer") /\ OwnProposal(p, q) /\ pending[q].status \in {"pending", "waiting", "confirmed"}
    /\ pending' = IF Declinable(pending[q].status) THEN [pending EXCEPT ![q].status = "rejected"] ELSE pending
    /\ refused' = IF Resolving(q) \/ Made(q) THEN refused ELSE refused \cup {q}
    /\ UNCHANGED <<row, marks, task, due, excused, grant, cache>>

--------------------------------------------------------------------------
(* resolveWaitingShares: the write was approved, and its entry is stored.    *)

Resolve(write) == [kind |-> "resolve", write |-> write, rows |-> << >>, read |-> FALSE]

\* What an approval still does once its write has run.
AfterSettle(t) ==
    IF task[t].ok /\ pending[task[t].after].kind = "upsert" THEN Resolve(task[t].after) ELSE task[t].then

ResolveRead(t) ==
    LET waiting == {q \in Pendings : Waits(q, task[t].write)} IN
    /\ task[t].kind = "resolve" /\ ~task[t].read
    /\ Begin(t, IF waiting = {} THEN Idle
                ELSE [task[t] EXCEPT !.read = TRUE, !.rows = [q \in waiting |-> pending[q]]])
    /\ UNCHANGED <<row, marks, pending, due, excused, quota, shareVars>>

\* One of them, by what was read of it: failed, put up for a decision, or made.
ResolveOne(t, q) ==
    LET p == task[t].rows[q]
        rest == Restrict(task[t].rows, DOMAIN task[t].rows \ {q})
        next == IF DOMAIN rest = {} THEN Idle ELSE [task[t] EXCEPT !.rows = rest]
        owner == Person(p.who)
        stored == Stored(p.e) /\ Owns(owner, row[RidOf(p.e)].home)
        resolved == [p EXCEPT !.rid = RidOf(p.e), !.home = row[RidOf(p.e)].home, !.write = None]
        direct == SharesDirectly(owner)
    IN
    /\ IF ~stored THEN pending' = [pending EXCEPT ![q].status = "failed"] /\ Begin(t, next)
       ELSE IF p.status = "confirmed" /\ direct
       THEN \* made here, and the rest once it is
            /\ pending' = [pending EXCEPT ![q] = [resolved EXCEPT !.status = pending[q].status]]
            /\ Begin(t, [GrantTask(GrantOf(q, resolved, owner), q) EXCEPT !.then = next])
       ELSE pending' = [pending EXCEPT ![q] = [resolved EXCEPT !.status = "pending"]] /\ Begin(t, next)
    /\ UNCHANGED <<row, marks, due, excused, quota, shareVars>>

ResolveStep(t) ==
    /\ task[t].kind = "resolve" /\ task[t].read
    /\ \E q \in DOMAIN task[t].rows : ResolveOne(t, q)

--------------------------------------------------------------------------
\* graph-rag is restarted: the calls at work are gone, and the grants are read again.
Restart ==
    /\ Spend("restart") /\ task' = [t \in Tasks |-> Idle]
    /\ cache' = CacheAfter(Active)
    /\ grant' = [g \in Grants |-> IF g \in Active /\ ~Holds(g) THEN [grant[g] EXCEPT !.status = "revoked"] ELSE grant[g]]
    /\ UNCHANGED <<row, marks, pending, due, excused, refused>>

====
