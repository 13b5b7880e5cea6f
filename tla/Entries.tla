---- MODULE Entries ----
(***************************************************************************)
(* The entries of the graph and where they are homed (graph-rag/src/        *)
(* server.js: resolveWriteHome, recordReads, upsertEntities, setHome,       *)
(* applyRehome, regradeTick, deleteEntry, and the approvals that run them). *)
(*                                                                          *)
(* graph-rag is one Node process over a database; nothing locks an entry.   *)
(* `task` holds the calls at work: each has read something of an entry and  *)
(* awaits the grader, the embedder or the database before it stores.        *)
(***************************************************************************)
EXTENDS Homes, Functions

CONSTANTS
    People, Agents,  \* who calls; agents are tenants' agents
    Worker,          \* the agent of a worker's thread; its own entry is OwnEntry
    OwnEntry,
    Queued,          \* callers whose writes are queued (caps.write)
    Handler,         \* a handler's agent, who approves what the operator decided
    Held,            \* the positions each person, or its agent, holds
    Entries,         \* an entry is a name and an origin
    Origin,
    Rids,            \* record ids: a deleted entry's is given to the next one
    MaxTasks,        \* bound: calls at work at once
    MaxPending,      \* bound: proposals
    Quotas           \* bounds: what the callers may do, and how often; one is drawn at the start

Actors == People \cup Agents \cup {Worker}
Tasks == 1 .. MaxTasks
Pendings == 1 .. MaxPending

ASSUME EntriesAssumption ==
    /\ Held \in [Actors \cup {Handler} -> SUBSET Positions]
    /\ Origin \in [Entries -> Homes] /\ OwnEntry \in Entries
    /\ Queued \subseteq Actors \ {Worker} /\ Handler \notin Actors
    /\ MaxTasks \in Nat \ {0} /\ MaxPending \in Nat \ {0}

VARIABLES
    row,      \* the database's entries, by record id
    marks,    \* readMarks: the homes each caller read at, within the window
    pending,  \* PendingWrite
    task,     \* the calls at work
    due,      \* history: the home what an entry says was read at, or above which it was put
    excused,  \* history: entries a known race or shortcut stored over (see Loses)
    quota     \* what the callers may still do

entryVars == <<row, marks, pending, task, due, excused, quota>>

\* `_ungraded` keeps what a later grading needs; `_placed_by` is a person's.
Awaiting == [held: Homes, floor: Homes]
Row == [e: Entries, home: Homes, placed: BOOLEAN, by: People \cup {None}, ungraded: Awaiting \cup {None}]

Idle == [kind |-> "idle"]
FreeTask == CHOOSE t \in Tasks : task[t] = Idle /\ \A s \in 1 .. (t - 1) : task[s] # Idle
HasTask == \E t \in Tasks : task[t] = Idle
FreePending == CHOOSE q \in Pendings : pending[q] = None /\ \A p \in 1 .. (q - 1) : pending[p] # None
HasPending == \E q \in Pendings : pending[q] = None

EntriesInit ==
    /\ quota \in Quotas
    /\ row = quota.rows /\ marks = [a \in Actors |-> {}]
    /\ pending = [q \in Pendings |-> None] /\ task = [t \in Tasks |-> Idle]
    /\ due = [e \in Entries |-> Everyone] /\ excused = {}

Spend(what) == quota[what] > 0 /\ quota' = [quota EXCEPT ![what] = @ - 1]

RidsOf(e) == {r \in Rids : row[r] # None /\ row[r].e = e}
Stored(e) == RidsOf(e) # {}
RidOf(e) == CHOOSE r \in RidsOf(e) : TRUE
\* The row of (name, origin), or the one a new entry gets.
RidFor(e) == IF Stored(e) THEN RidOf(e) ELSE CHOOSE r \in Rids : row[r] = None
HasRid(e) == Stored(e) \/ \E r \in Rids : row[r] = None

\* Whom a caller acts for, and what it may see by its own positions.
Owns(a, home) == home \in Visible(Held[a])
IsPerson(a) == a \in People
WriterOf(a) == IF IsPerson(a) THEN a ELSE None

--------------------------------------------------------------------------
(* What was read bounds what is written.                                   *)

\* homeFilter: by home, or because one wrote it.
Sees(a, r) == row[r] # None /\ (Owns(a, row[r].home) \/ row[r].by = a)

\* A search or a lookup shows a caller an entry, and remembers where it is homed; not a worker's
\* own, which is its brief.
Read(a, r) ==
    /\ Spend("read") /\ Sees(a, r) /\ row[r].home \notin marks[a]
    /\ ~(a = Worker /\ row[r].e = OwnEntry)
    /\ marks' = [marks EXCEPT ![a] = @ \cup {row[r].home}]
    /\ UNCHANGED <<row, pending, task, due, excused>>

\* The window passes over the oldest of them.
MarksLapse(a) ==
    /\ Spend("lapse") /\ marks[a] # {}
    /\ \E h \in marks[a] : marks' = [marks EXCEPT ![a] = @ \ {h}]
    /\ UNCHANGED <<row, pending, task, due, excused>>

\* The lowest home from which a write's origin and all its writer read are seen.
DerivedFloor(a, origin) == CommonAncestor({origin} \cup marks[a])

--------------------------------------------------------------------------
(* Stores: what a call does to a row once it has its answer.                *)

\* The shortcuts the code takes: a store over a row that changed since it was read; a write
\* over an entry that still awaits its first grading, whose floor that grading drops; one whose
\* floor is not on one line with where the entry is, or would be made anew; a worker's that
\* grading would have hidden.
Loses(w, now, shortcut) ==
    LET at == IF now = None THEN Origin[w.e] ELSE now.home IN
    \/ w.old # now \/ shortcut
    \/ now # None /\ now.ungraded # None
    \/ ~(at \in AtOrAbove(w.floor) \/ w.floor \in AtOrAbove(at))

\* What a floor adds to what an entry is due; a floor at the origin, or where it lives, nothing.
DueWith(e, floor, lives) ==
    IF floor \in {Origin[e], lives} THEN due[e] ELSE CommonAncestor({due[e], floor})

--------------------------------------------------------------------------
(* upsert_entities: floor, look up the entry, grade, MERGE, embed, ask.      *)

\* (faulty variant: an update of a graded entry is placed like a new one)
KeptHomeNever(old, verdict) == None

\* An entry still awaiting grading counts as new once the grader answers.
KeptHome(old, verdict) ==
    IF old = None \/ (old.ungraded # None /\ verdict # Out) THEN None ELSE old.home

\* The place of a write; a worker's update never hides an entry from its people.
Placed(w, verdict) ==
    LET p == Place(Origin[w.e], verdict, KeptHome(w.old, verdict), w.floor)
    IN IF w.worker /\ p.restricted THEN [p EXCEPT !.home = w.old.home] ELSE p

\* resolveWriteHome, then placeEntities' lookup; the grader is awaited.
WriteTask(e, floor, writer, worker, after) ==
    [kind |-> "write", e |-> e, floor |-> floor, by |-> writer, worker |-> worker, after |-> after,
     old |-> IF Stored(e) THEN row[RidOf(e)] ELSE None]

Begin(t, what) == task' = [task EXCEPT ![t] = what]
Queue(what) == HasPending /\ pending' = [pending EXCEPT ![FreePending] = what]
UpsertPending(a, e, floor, worker) ==
    [kind |-> "upsert", status |-> "pending", home |-> Origin[e], who |-> a,
     e |-> e, floor |-> floor, by |-> WriterOf(a), worker |-> worker]

\* resolveWriteHome: at its own positions or above them; for everyone, the admin.
MayWriteAt(a, home) == home \in WritableHomes(Held[a]) \/ (home = Everyone /\ Root \in Held[a])

\* The tool a person or a tenant's agent calls, at a home it may write to.
Write(a, e) ==
    /\ Spend("write") /\ a # Worker /\ e \notin quota.typed
    /\ MayWriteAt(a, Origin[e])
    /\ LET floor == DerivedFloor(a, Origin[e]) IN
       IF a \in Queued
       THEN Queue(UpsertPending(a, e, floor, FALSE)) /\ UNCHANGED task
       ELSE HasTask /\ Begin(FreeTask, WriteTask(e, floor, WriterOf(a), FALSE, None)) /\ UNCHANGED pending
    /\ UNCHANGED <<row, marks, due, excused>>

\* A worker's write goes where the entry is, or is refused if what it read would lift it there;
\* proposed, it lands there all the same.
WorkerStores(e, lives, propose) ==
    LET lift == FloorLifts(lives, DerivedFloor(Worker, lives))
        floor == IF lift THEN lives ELSE DerivedFloor(Worker, lives)
    IN IF propose
       THEN Queue(UpsertPending(Worker, e, floor, TRUE)) /\ UNCHANGED task
       ELSE /\ ~lift /\ HasTask
            /\ Begin(FreeTask, WriteTask(e, floor, None, TRUE, None)) /\ UNCHANGED pending

\* workerUpsert: an existing entry is written where it was, a new one at the origin of the worker's own.
WorkerWrite(e, propose) ==
    /\ Spend("workerWrite") /\ e \notin quota.typed /\ (~Stored(e) => Origin[e] = Origin[OwnEntry])
    /\ WorkerStores(e, IF Stored(e) THEN row[RidOf(e)].home ELSE Origin[e], propose)
    /\ UNCHANGED <<row, marks, due, excused>>

\* workerUpdateEntry: one that it names by its record's id.
WorkerUpdate(r, propose) ==
    /\ Spend("workerWrite") /\ row[r] # None /\ row[r].e \notin quota.typed
    /\ WorkerStores(row[r].e, row[r].home, propose)
    /\ UNCHANGED <<row, marks, due, excused>>

\* typedUpdate: a record of another type is corrected in place, or that is proposed if what the
\* worker read reaches fewer people.
TypedUpdate(r, propose) ==
    /\ Spend("workerWrite") /\ row[r] # None /\ row[r].e \in quota.typed
    /\ LET home == row[r].home
           floor == DerivedFloor(Worker, home)
       IN IF propose \/ FloorLifts(home, floor)
          THEN /\ Queue([kind |-> "typed", status |-> "pending", home |-> Root, who |-> Worker, rid |-> r])
               /\ UNCHANGED task
          ELSE /\ HasTask /\ UNCHANGED pending
               /\ Begin(FreeTask, [kind |-> "typed", rid |-> r, floor |-> floor, read |-> row[r], after |-> None])
    /\ UNCHANGED <<row, marks, due, excused>>

\* `_ungraded` after a write: awaiting, graded now, or as it was (the root's and everyone's).
UngradedAfter(w, verdict, p) ==
    IF p.ungraded THEN [held |-> p.home, floor |-> w.floor]
    ELSE IF verdict # Out /\ Origin[w.e] \notin {Root, Everyone} THEN None
    ELSE IF Stored(w.e) THEN row[RidOf(w.e)].ungraded ELSE None

\* What a call comes to when nothing is left of it but the proposal it ran for.
Settling(after, ok, then) ==
    IF after = None THEN then ELSE [kind |-> "settle", after |-> after, ok |-> ok, then |-> then]
Ended(after) == Settling(after, TRUE, Idle)
Failed(after) == Settling(after, FALSE, Idle)

\* applyTypedUpdate, once its texts are embedded; an approver says it is seen where the record is.
TypedApply(t) ==
    LET c == task[t]
        now == row[c.rid] IN
    /\ c.kind = "typed"
    /\ IF now = None THEN Begin(t, Failed(c.after)) /\ UNCHANGED <<due, excused>>
       ELSE /\ Begin(t, Ended(c.after))
            /\ due' = IF c.after # None THEN due ELSE [due EXCEPT ![now.e] = DueWith(now.e, c.floor, c.read.home)]
            \* it changed since, or is everyone's, which no floor lifts
            /\ excused' = IF now # c.read \/ now.home = Everyone THEN excused \cup {now.e} ELSE excused
    /\ UNCHANGED <<row, marks, pending, quota>>

\* The grader answered, or was not reached; the entry is MERGEd by its name and origin.
WriteStore(t) ==
    LET w == task[t] IN
    /\ w.kind = "write" /\ HasRid(w.e)
    /\ \E verdict \in Verdicts(Origin[w.e]) :
         LET p == Placed(w, verdict)
             r == RidFor(w.e)
             was == row[r]
         IN /\ row' = [row EXCEPT ![r] =
                 [e |-> w.e, home |-> p.home, placed |-> was # None /\ was.placed,
                  by |-> IF was # None /\ was.by # None THEN was.by ELSE w.by,
                  ungraded |-> UngradedAfter(w, verdict, p)]]
            /\ due' = [due EXCEPT ![w.e] = DueWith(w.e, w.floor, IF w.worker /\ was # None THEN was.home ELSE Origin[w.e])]
            /\ excused' = IF Loses(w, was, w.worker /\ p.restricted)
                          THEN excused \cup {w.e} ELSE excused
            /\ task' = [task EXCEPT ![t] =
                 IF p.ask = None THEN Ended(w.after)
                 ELSE [kind |-> "ask", e |-> w.e, from |-> p.home, to |-> p.ask, after |-> w.after]]
    /\ UNCHANGED <<marks, pending, quota>>

RehomePending(a, r, e, from, to) ==
    [kind |-> "rehome", status |-> "pending", home |-> from, who |-> a,
     rid |-> r, e |-> e, from |-> from, to |-> to]

\* askAboutPlacement, once the texts are embedded: grading's proposal goes to a person.
WriteAsk(t) ==
    LET w == task[t] IN
    /\ w.kind = "ask"
    /\ IF Stored(w.e) THEN Queue(RehomePending(None, RidOf(w.e), w.e, w.from, w.to)) ELSE UNCHANGED pending
    /\ Begin(t, Ended(w.after))
    /\ UNCHANGED <<row, marks, due, excused, quota>>

\* The embedder does not answer: the call fails, the entry is stored, nobody is asked.
WriteAskLost(t) ==
    /\ Spend("fault") /\ task[t].kind = "ask"
    /\ Begin(t, Failed(task[t].after))
    /\ UNCHANGED <<row, marks, pending, due, excused>>

--------------------------------------------------------------------------
(* set_home and the moves it makes or asks for.                             *)

MoveTask(r, e, from, to, person, after) ==
    [kind |-> "move", rid |-> r, e |-> e, from |-> from, to |-> to, person |-> person,
     after |-> after, read |-> None, placed |-> row[r] # None /\ row[r].placed]

\* (faulty variant: an agent moves what a person placed)
MovesAnything(a, r, to) == Restricts(row[r].home, to) /\ a \notin Queued

\* A move up is made; a widening, a queued caller's, and an agent's of what a person placed are asked for.
MovesItself(a, r, to) ==
    /\ Restricts(row[r].home, to) /\ a \notin Queued
    /\ row[r].placed => IsPerson(a)

SetHome(a, r, to, propose) ==
    /\ Spend("move") /\ row[r] # None /\ Owns(a, row[r].home) /\ row[r].home # to
    /\ propose => a = Worker
    /\ IF MovesItself(a, r, to) /\ ~propose
       THEN /\ HasTask /\ UNCHANGED pending
            /\ Begin(FreeTask, MoveTask(r, row[r].e, row[r].home, to, IsPerson(a), None))
       ELSE Queue(RehomePending(a, r, row[r].e, row[r].home, to)) /\ UNCHANGED task
    /\ UNCHANGED <<row, marks, due, excused>>

\* applyRehome looks the record up: it must still be this entry, where the request says.
MoveCheck(t) ==
    LET m == task[t] IN
    /\ m.kind = "move" /\ m.read = None
    /\ Begin(t, IF row[m.rid] # None /\ row[m.rid].e = m.e /\ row[m.rid].home = m.from
                THEN [m EXCEPT !.read = row[m.rid]]
                ELSE Failed(m.after))
    /\ UNCHANGED <<row, marks, pending, due, excused, quota>>

\* ... and writes its home, and who placed it if a person did; `follow` is what its move still asks for
\* (and may fail to get: SeenFails, in Things).
MoveApply(t, follow) ==
    LET m == task[t]
        now == row[m.rid] IN
    /\ m.kind = "move" /\ m.read # None
    /\ IF now = None THEN task' = [task EXCEPT ![t] = Ended(m.after)] /\ UNCHANGED <<row, due, excused>>
       ELSE /\ row' = [row EXCEPT ![m.rid].home = m.to, ![m.rid].placed = @ \/ m.person]
            /\ task' = [task EXCEPT ![t] = follow]
            \* decided by someone: it is seen from where they put it
            /\ due' = IF m.after # None THEN [due EXCEPT ![now.e] = Everyone] ELSE due
            \* it changed since, or a person placed it since the move was made
            /\ excused' = IF now # m.read \/ (now.placed /\ ~m.placed) THEN excused \cup {now.e} ELSE excused
    /\ UNCHANGED <<marks, pending, quota>>

--------------------------------------------------------------------------
(* Approvals (approvePending, rejectPending) of what was queued.            *)

Approvers == People \cup {Handler}

\* mayReview: who sees where it lands, and for a move where it goes.
MayReview(a, q) ==
    /\ Owns(a, pending[q].home)
    /\ pending[q].kind = "rehome" => Owns(a, pending[q].to)

\* The claim, and the call that runs it (executePending).
Approve(a, q) ==
    /\ Spend("decide") /\ pending[q] # None /\ pending[q].kind \in {"upsert", "rehome", "typed"} /\ pending[q].status = "pending"
    /\ MayReview(a, q) /\ HasTask
    /\ pending' = [pending EXCEPT ![q].status = "executing"]
    /\ LET p == pending[q] IN
       Begin(FreeTask, CASE p.kind = "rehome" -> MoveTask(p.rid, p.e, p.from, p.to, IsPerson(a), q)
                         [] p.kind = "upsert" -> WriteTask(p.e, p.floor, p.by, p.worker, q)
                         [] p.kind = "typed" -> [kind |-> "typed", rid |-> p.rid, floor |-> None, read |-> row[p.rid], after |-> q])
    /\ UNCHANGED <<row, marks, due, excused>>

\* The write ran, or failed; `then` is what its approval still does.
Settle(t, then) ==
    /\ task[t].kind = "settle"
    /\ pending' = [pending EXCEPT ![task[t].after].status = IF task[t].ok THEN "approved" ELSE "failed"]
    /\ Begin(t, then)
    /\ UNCHANGED <<row, marks, due, excused, quota>>

\* The shares that waited on a rejected write go with it (dropWaitingShares).
Waits(q, on) ==
    /\ pending[q] # None /\ pending[q].kind = "share"
    /\ pending[q].write = on /\ pending[q].status \in {"waiting", "confirmed"}

Reject(a, q) ==
    /\ Spend("decide") /\ pending[q] # None /\ pending[q].status = "pending"
    /\ MayReview(a, q)
    /\ pending' = [p \in Pendings |-> IF p = q \/ Waits(p, q)
                                     THEN [pending[p] EXCEPT !.status = "rejected"] ELSE pending[p]]
    /\ UNCHANGED <<row, marks, task, due, excused>>

--------------------------------------------------------------------------
(* regradeTick: what was stored while the grader was out is graded again.   *)

\* (faulty variant: one that was moved meanwhile is graded all the same)
MovedAway(x) == FALSE

\* Someone moved it while it waited: their call stands.
Moved(x) == x.home # x.ungraded.held

\* The tick reads the rows that wait (and their texts), then awaits the grader.
RegradeRead ==
    LET waits == {r \in Rids : row[r] # None /\ row[r].ungraded # None} IN
    /\ Spend("tick") /\ waits # {} /\ HasTask
    /\ \A t \in Tasks : task[t].kind # "regrade"
    /\ Begin(FreeTask, [kind |-> "regrade", rows |-> [r \in waits |-> row[r]]])
    /\ UNCHANGED <<row, marks, pending, due, excused>>

\* What is left for the tick after one of them.
Others(t, r) ==
    LET rest == Restrict(task[t].rows, DOMAIN task[t].rows \ {r})
    IN IF DOMAIN rest = {} THEN Idle ELSE [task[t] EXCEPT !.rows = rest]

\* One of them is graded by its origin, and settled; follow[h] is what a move to h still asks for.
Regrade(t, r, follow) ==
    LET x == task[t].rows[r]
        now == row[r]
        next == Others(t, r)
    IN
    /\ IF now = None THEN Begin(t, next) /\ UNCHANGED <<row, pending, due, excused>>
       ELSE IF Moved(x)
       THEN row' = [row EXCEPT ![r].ungraded = None] /\ Begin(t, next) /\ UNCHANGED <<pending, due, excused>>
       ELSE /\ \E verdict \in Verdicts(Origin[x.e]) \ {Out} :
                 LET p == Place(Origin[x.e], verdict, None, x.ungraded.floor) IN
                 /\ row' = [row EXCEPT ![r].home = p.home, ![r].ungraded = None]
                 /\ Begin(t, IF p.home # x.ungraded.held THEN follow[p.home] ELSE next)
                 /\ IF p.ask = None THEN UNCHANGED pending
                    ELSE Queue(RehomePending(None, r, x.e, p.home, p.ask))
            /\ excused' = IF now # x \/ (x.placed /\ x.home = x.ungraded.held) THEN excused \cup {now.e} ELSE excused
            /\ UNCHANGED due
    /\ UNCHANGED <<marks, quota>>

\* The grader is still out: the next tick tries again.
RegradeOut(t) ==
    /\ task[t].kind = "regrade" /\ Begin(t, Idle)
    /\ UNCHANGED <<row, marks, pending, due, excused, quota>>

--------------------------------------------------------------------------
(* An entry goes: deleted as a stray, folded, or pruned.                    *)

Removed(r) ==
    /\ row' = [row EXCEPT ![r] = None]
    /\ due' = [due EXCEPT ![row[r].e] = Everyone]

====
