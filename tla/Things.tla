---- MODULE Things ----
(***************************************************************************)
(* Things, and a worker's calls on the graph (graph-rag/src/server.js:       *)
(* linkMentions, thingSeenFrom, aboutOnce, workerLink, workerUnlink,         *)
(* workerMerge and mergeThings, workerFoldEntries and foldEntries, ...).     *)
(*                                                                          *)
(* A thing is linked from the entries that are about it, and is seen from    *)
(* their homes (`_homes`).  Each of these calls is several commands to the   *)
(* database, and nothing keeps two calls apart.  All things are of one type. *)
(***************************************************************************)
EXTENDS Questions

CONSTANTS
    Nouns,   \* what things are called
    Tids     \* the things' record ids; not used again here

ASSUME ThingsAssumption == Tids \cap (Rids \cup Asked \cup {None}) = {}

VARIABLES
    thing,     \* a thing: its name and aliases, the homes it is seen from, whether a record's key names it
    about,     \* ABOUT edges, an entry's record and a thing
    relates,   \* RELATES edges
    said,      \* history: the links made and not taken back, through merges and folds; not those that
               \* a call at work, which deletes their end, had not read: they were made since, or its
               \* query of them failed (MergeRead, FoldRead)
    unseen     \* history: things whose homes one call wrote over another's, whose entry moved while
               \* it was being linked, or that could not be told of its move (SeenFails)

thingVars == <<thing, about, relates, said, unseen>>
vars == <<entryVars, shareVars, needVars, thingVars>>

\* What a call on things leaves alone.
others == <<marks, excused, shareVars, needVars>>

Thing == [names : (SUBSET Nouns) \ {{}}, homes : SUBSET Homes, keyed : BOOLEAN]

ThingsInit ==
    /\ thing = [x \in Tids |-> IF x \in DOMAIN quota.things THEN quota.things[x] ELSE None]
    /\ about = quota.links /\ said = quota.links
    /\ relates = {} /\ unseen = {}

\* A deleted thing's record id is not given to another here.
Gone == [names |-> {}, homes |-> {}, keyed |-> TRUE]
Exists(x) == thing[x] \notin {None, Gone}
Called(n) == {x \in Tids : Exists(x) /\ n \in thing[x].names}
ThingsOf(r) == {x \in Tids : <<r, x>> \in about}
EntriesOn(x) == {r \in Rids : <<r, x>> \in about}

\* findThing: the one thing by that name.
Found(n, x) == Called(n) = {x}

\* A record goes, and its edges with it.
WithoutEntry(links, r) == {p \in links : p[1] # r}
WithoutThing(links, x) == {p \in links : p[2] # x}
Unrelated(x) == {p \in relates : x \notin {p[1], p[2]}}

--------------------------------------------------------------------------
(* thingSeenFrom, for each of some things: its homes are read, then written. *)

Seen(xs, home, then) ==
    IF xs = {} THEN then ELSE [kind |-> "seen", todo |-> xs, home |-> home, x |-> None, got |-> {}, then |-> then]

SeenRead(t) ==
    /\ task[t].kind = "seen" /\ task[t].x = None
    /\ \E x \in task[t].todo :
          Begin(t, IF Exists(x) THEN [task[t] EXCEPT !.x = x, !.got = thing[x].homes]
                   ELSE Seen(task[t].todo \ {x}, task[t].home, task[t].then))
    /\ UNCHANGED <<row, pending, due, quota, others, thingVars>>

SeenWrite(t) ==
    LET s == task[t]
        x == s.x IN
    /\ s.kind = "seen" /\ x # None
    /\ IF s.home \in s.got \/ ~Exists(x) THEN UNCHANGED <<thing, unseen>>
       ELSE /\ thing' = [thing EXCEPT ![x].homes = s.got \cup {s.home}]
            /\ unseen' = IF thing[x].homes # s.got THEN unseen \cup {x} ELSE unseen
    /\ Begin(t, Seen(s.todo \ {x}, s.home, s.then))
    /\ UNCHANGED <<row, pending, due, quota, others, about, relates, said>>

\* What follows a move or a grading is let go of where it fails, or where the links cannot be read (`.catch`).
SeenFails(t) ==
    LET s == task[t] IN
    /\ s.kind = "seen" /\ s.then.kind \in {"idle", "settle", "regrade"}
    /\ \E x \in s.todo :
          /\ s.x \in {None, x} /\ unseen' = unseen \cup {x}
          /\ Begin(t, Seen(s.todo \ {x}, s.home, s.then))
    /\ UNCHANGED <<row, pending, due, quota, others, thing, about, relates, said>>

\* (faulty variant: its things are seen from where it was)
LeftBehind(r, home, next) == next

\* Seen from its new home: so are the things an entry is about (applyRehome, regradeTick).
Follow(r, home, next) == Seen(ThingsOf(r), home, next)

MoveFollowed(t) ==
    /\ task[t].kind = "move"
    /\ MoveApply(t, Follow(task[t].rid, task[t].to, Ended(task[t].after)))

RegradeStep(t) ==
    /\ task[t].kind = "regrade"
    /\ \E r \in DOMAIN task[t].rows : Regrade(t, r, [h \in Homes |-> Follow(r, h, Others(t, r))])

--------------------------------------------------------------------------
(* Linking: an entry's job, or a worker, names things.                       *)

LinkTask(r, todo, asks) ==
    IF todo = {} THEN Idle ELSE [kind |-> "link", rid |-> r, home |-> row[r].home, todo |-> todo, asks |-> asks]

\* jobMentions once the model has answered (a doubt becomes a question), or link_things (it is left to the worker).
Link(r, ns, asks) ==
    /\ Spend("link") /\ row[r] # None /\ HasTask
    /\ Begin(FreeTask, LinkTask(r, ns, asks))
    /\ UNCHANGED <<row, pending, due, others, thingVars>>

Onward(l, n) == IF l.todo = {n} THEN Idle ELSE [l EXCEPT !.todo = @ \ {n}]
AboutTask(l, n, x) == [kind |-> "about", rid |-> l.rid, home |-> l.home, x |-> x, next |-> Onward(l, n)]

\* A name is matched: the one thing called so; nothing if several are; one much alike, which goes by
\* it too from then on; nothing if it is an entry's, or a doubt is left to the worker; or a new one,
\* and perhaps the question whether it is one much like it.
LinkMatch(t, n) ==
    LET l == task[t] IN
    /\ \/ \E x \in Called(n) : Found(n, x) /\ Begin(t, Seen({x}, l.home, AboutTask(l, n, x))) /\ UNCHANGED thing
       \/ Cardinality(Called(n)) > 1 /\ Begin(t, Onward(l, n)) /\ UNCHANGED thing
       \/ /\ Called(n) = {}
          /\ \E x \in Tids : /\ Exists(x) /\ thing' = [thing EXCEPT ![x].names = @ \cup {n}]
                             /\ Begin(t, Seen({x}, l.home, AboutTask(l, n, x)))
       \/ Called(n) = {} /\ Begin(t, Onward(l, n)) /\ UNCHANGED thing
       \/ /\ Called(n) = {} /\ UNCHANGED thing
          /\ \E maybe \in {None} \cup {x \in Tids : l.asks /\ Exists(x)} :
                Begin(t, [kind |-> "make", l |-> l, n |-> n, maybe |-> maybe])
    /\ UNCHANGED <<row, pending, due, quota, others, about, relates, said, unseen>>

LinkStep(t) == task[t].kind = "link" /\ \E n \in task[t].todo : LinkMatch(t, n)

MergePending(a, keep, drop) ==
    [kind |-> "merge", status |-> "pending", home |-> Root, who |-> a, keep |-> keep, drop |-> drop]

MakeThing(t) ==
    LET m == task[t] IN
    /\ m.kind = "make"
    /\ \E x \in Tids, keyed \in BOOLEAN :
         /\ thing[x] = None
         /\ thing' = [thing EXCEPT ![x] = [names |-> {m.n}, homes |-> {m.l.home}, keyed |-> keyed]]
         /\ Begin(t, Seen({x}, m.l.home, AboutTask(m.l, m.n, x)))
         /\ IF m.maybe = None THEN UNCHANGED pending ELSE Queue(MergePending(None, m.maybe, x))
    /\ UNCHANGED <<row, due, quota, others, about, relates, said, unseen>>

\* A link to a thing that a merge at work drops is gone with it where the merge has moved what it read and
\* what it moved was unlinked since.
Standing(links, edges) ==
    {p \in links : \A t \in Tasks : LET m == task[t] IN
        m.kind = "merge" /\ m.step \in {"homes", "delete"} /\ m.drop = p[2] /\ p[1] \in m.from => <<p[1], m.keep>> \in edges}

\* aboutOnce: the edge, which both its ends must be there for.
AboutOnce(t) ==
    LET a == task[t]
        p == <<a.rid, a.x>> IN
    /\ a.kind = "about"
    /\ IF row[a.rid] # None /\ Exists(a.x)
       THEN /\ about' = about \cup {p} /\ said' = said \cup Standing({p}, about')
            /\ unseen' = IF row[a.rid].home # a.home THEN unseen \cup {a.x} ELSE unseen
            /\ Begin(t, a.next)
       ELSE Begin(t, Idle) /\ UNCHANGED <<about, said, unseen>>
    /\ UNCHANGED <<row, pending, due, quota, others, thing, relates>>

--------------------------------------------------------------------------
(* Unlinking, and deleting strays.                                          *)

\* What a link is by the time the merges at work are through.
Same(x) == {x} \cup {task[t].drop : t \in {u \in Tasks : task[u].kind = "merge" /\ task[u].keep = x}}

\* workerUnlink: the edge goes, and with its last edge a thing no record's key names.
Unlink(r, n, x) ==
    /\ Spend("unlink") /\ row[r] # None /\ Found(n, x) /\ <<r, x>> \in about /\ HasTask
    /\ about' = about \ {<<r, x>>} /\ said' = said \ {<<r, y>> : y \in Same(x)}
    /\ Begin(FreeTask, [kind |-> "stray", x |-> x, counted |-> FALSE])
    /\ UNCHANGED <<row, pending, due, others, thing, relates, unseen>>

\* workerDeleteThing: refused while anything is linked to it.
DeleteThing(n, x) ==
    /\ Spend("unlink") /\ Found(n, x) /\ EntriesOn(x) = {} /\ Unrelated(x) = relates /\ HasTask
    /\ Begin(FreeTask, [kind |-> "stray", x |-> x, counted |-> TRUE])
    /\ UNCHANGED <<row, pending, due, others, thingVars>>

Stray(x) == Exists(x) /\ ~thing[x].keyed /\ EntriesOn(x) = {} /\ Unrelated(x) = relates

StrayCount(t) ==
    /\ task[t].kind = "stray" /\ ~task[t].counted
    /\ Begin(t, IF Stray(task[t].x) THEN [task[t] EXCEPT !.counted = TRUE] ELSE Idle)
    /\ UNCHANGED <<row, pending, due, quota, others, thingVars>>

\* A link made since it was counted goes with it, and a merge at work goes on without it.
StrayDelete(t) ==
    LET x == task[t].x IN
    /\ task[t].kind = "stray" /\ task[t].counted
    /\ thing' = [thing EXCEPT ![x] = Gone]
    /\ about' = WithoutThing(about, x) /\ said' = WithoutThing(said, x) /\ relates' = Unrelated(x)
    /\ unseen' = unseen \cup {task[u].keep : u \in {u \in Tasks : task[u].kind = "merge" /\ task[u].drop = x}}
    /\ Begin(t, Idle)
    /\ UNCHANGED <<row, pending, due, quota, others>>

--------------------------------------------------------------------------
(* Renaming and relating.                                                   *)

\* workerRenameThing: not to what another is called; the name is embedded ...
Rename(x, n) ==
    /\ Spend("rename") /\ Exists(x) /\ n \notin thing[x].names /\ Called(n) = {} /\ HasTask
    /\ Begin(FreeTask, [kind |-> "rename", x |-> x, names |-> thing[x].names \cup {n}])
    /\ UNCHANGED <<row, pending, due, others, thingVars>>

\* ... and written, with the aliases there were.
RenameWrite(t) ==
    LET c == task[t] IN
    /\ c.kind = "rename"
    /\ thing' = IF Exists(c.x) THEN [thing EXCEPT ![c.x].names = c.names] ELSE thing
    /\ Begin(t, Idle)
    /\ UNCHANGED <<row, pending, due, quota, others, about, relates, said, unseen>>

\* workerRelate: an edge between two things, each found by its name.
Relate(x, y) ==
    /\ Spend("relate") /\ Exists(x) /\ Exists(y) /\ x # y /\ <<x, y>> \notin relates
    /\ relates' = relates \cup {<<x, y>>}
    /\ UNCHANGED <<row, pending, due, task, others, thing, about, said, unseen>>

\* workerUnrelate.
Unrelate(x, y) ==
    /\ Spend("relate") /\ <<x, y>> \in relates
    /\ relates' = relates \ {<<x, y>>}
    /\ UNCHANGED <<row, pending, due, task, others, thing, about, said, unseen>>

--------------------------------------------------------------------------
(* mergeThings.                                                             *)

MergeTask(keep, drop, after) ==
    [kind |-> "merge", step |-> "read", keep |-> keep, drop |-> drop, after |-> after,
     names |-> {}, homes |-> {}, from |-> {}]

\* workerMerge: two things it sees, at once or as a proposal.
Merge(a, keep, drop, propose) ==
    /\ Spend("merge") /\ keep # drop /\ Exists(keep) /\ Exists(drop)
    /\ IF propose THEN Queue(MergePending(a, keep, drop)) /\ UNCHANGED task
       ELSE HasTask /\ Begin(FreeTask, MergeTask(keep, drop, None)) /\ UNCHANGED pending
    /\ UNCHANGED <<row, due, others, thingVars>>

\* Both are read, and the entries on the one that goes; where these cannot be, it goes on with none.
MergeRead(t) ==
    LET m == task[t] IN
    /\ m.kind = "merge" /\ m.step = "read"
    /\ \E from \in {EntriesOn(m.drop), {}} :
          Begin(t, IF Exists(m.keep) /\ Exists(m.drop)
                   THEN [m EXCEPT !.step = "move", !.from = from,
                                  !.names = thing[m.keep].names \cup thing[m.drop].names,
                                  !.homes = thing[m.keep].homes \cup thing[m.drop].homes]
                   ELSE Failed(m.after))
    /\ UNCHANGED <<row, pending, due, quota, others, thingVars>>

\* (faulty variant: they go with the thing)
MovedNowhere(rs, x) == {}

\* The links moved to a thing.
MovedTo(rs, x) == {<<r, x>> : r \in rs}

\* A merge has moved links to a thing, and is not through.
Gives(m, x) == m.kind = "merge" /\ m.step \in {"homes", "delete"} /\ m.keep = x

\* They are linked to the one that stays; where it, or one of them, is gone the call fails there.
MergeMove(t) ==
    LET m == task[t]
        there == {r \in m.from : row[r] # None} IN
    /\ m.kind = "merge" /\ m.step = "move"
    /\ IF m.from = {} \/ (Exists(m.keep) /\ there = m.from)
       THEN /\ about' = about \cup MovedTo(m.from, m.keep)
            \* one that was unlinked since is linked again, or another merge has yet to give it its homes
            /\ unseen' = IF m.from \subseteq EntriesOn(m.drop) /\ ~\E u \in Tasks : Gives(task[u], m.drop)
                         THEN unseen ELSE unseen \cup {m.keep}
            /\ Begin(t, [m EXCEPT !.step = "homes"])
       ELSE /\ \E some \in SUBSET there : about' = IF Exists(m.keep) THEN about \cup MovedTo(some, m.keep) ELSE about
            /\ unseen' = unseen \cup {m.keep} /\ Begin(t, Failed(m.after))
    /\ UNCHANGED <<row, pending, due, quota, others, thing, relates, said>>

\* The homes of both, as they were read.
HomesOfBoth(m) == m.homes

MergeHomes(t) ==
    LET m == task[t] IN
    /\ m.kind = "merge" /\ m.step = "homes"
    /\ thing' = IF Exists(m.keep)
                THEN [thing EXCEPT ![m.keep].homes = HomesOfBoth(m), ![m.keep].names = m.names] ELSE thing
    \* a home it was given since is lost
    /\ unseen' = IF Exists(m.keep) /\ ~(thing[m.keep].homes \subseteq m.homes) THEN unseen \cup {m.keep} ELSE unseen
    /\ Begin(t, [m EXCEPT !.step = "delete"])
    /\ UNCHANGED <<row, pending, due, quota, others, about, relates, said>>

\* Its relationships go with the one that is dropped.
MergeDelete(t) ==
    LET m == task[t] IN
    /\ m.kind = "merge" /\ m.step = "delete"
    /\ thing' = [thing EXCEPT ![m.drop] = Gone]
    /\ about' = WithoutThing(about, m.drop) /\ relates' = Unrelated(m.drop)
    /\ said' = WithoutThing(said, m.drop) \cup
               Standing({<<r, m.keep>> : r \in {r \in m.from : <<r, m.drop>> \in said /\ Exists(m.keep)}}, about')
    \* a home it was given since, or was still to be seen from, is lost; and another merge of it goes on without it
    /\ unseen' = unseen \cup {task[u].keep : u \in {u \in Tasks \ {t} : task[u].kind = "merge" /\ task[u].drop = m.drop}}
                 \cup IF \/ m.drop \in unseen \/ ~(thing[m.drop].homes \subseteq m.homes)
                         \/ \E u \in Tasks : task[u].kind = "seen" /\ m.drop \in task[u].todo
                      THEN {m.keep} ELSE {}
    /\ Begin(t, Ended(m.after))
    /\ UNCHANGED <<row, pending, due, quota, others>>

--------------------------------------------------------------------------
(* foldEntries and deleteEntry.                                             *)

RefPending(kind, a, keep, drop) ==
    [kind |-> kind, status |-> "pending", home |-> Root, who |-> a, keep |-> keep, drop |-> drop]
FoldTask(keep, drop, after) ==
    [kind |-> "fold", step |-> "read", keep |-> keep, drop |-> drop, after |-> after, home |-> None, xs |-> {}]

\* workerFoldEntries: at once if both are seen by the same people, and else a proposal.
Fold(keep, drop, propose) ==
    /\ Spend("fold") /\ keep # drop /\ row[keep] # None /\ row[drop] # None /\ row[drop].e # OwnEntry
    /\ IF propose \/ row[keep].home # row[drop].home
       THEN Queue(RefPending("fold", Worker, keep, drop)) /\ UNCHANGED task
       ELSE HasTask /\ Begin(FreeTask, FoldTask(keep, drop, None)) /\ UNCHANGED pending
    /\ UNCHANGED <<row, due, others, thingVars>>

\* Where the one is homed is read, and what the other is linked to; where that cannot be, it goes on with nothing.
FoldRead(t) ==
    LET f == task[t] IN
    /\ f.kind = "fold" /\ f.step = "read"
    /\ \E xs \in {ThingsOf(f.drop), {}} :
          Begin(t, IF row[f.keep] = None \/ row[f.drop] = None THEN Failed(f.after)
                   ELSE [f EXCEPT !.step = "move", !.home = row[f.keep].home, !.xs = xs])
    /\ UNCHANGED <<row, pending, due, quota, others, thingVars>>

\* The links move, and what they are to is seen from there; one of them gone by then fails the call.
FoldMove(t) ==
    LET f == task[t]
        there == {x \in f.xs : row[f.keep] # None /\ Exists(x)} IN
    /\ f.kind = "fold" /\ f.step = "move"
    /\ \E moved \in IF there = f.xs THEN {f.xs} ELSE SUBSET there :
         /\ about' = about \cup {<<f.keep, x>> : x \in moved}
         /\ said' = said \cup Standing({<<f.keep, x>> : x \in {x \in moved : <<f.drop, x>> \in said}}, about')
         \* its entry moved since
         /\ unseen' = IF moved # {} /\ row[f.keep].home # f.home THEN unseen \cup moved ELSE unseen
         /\ Begin(t, Seen(moved, f.home, IF moved = f.xs THEN [f EXCEPT !.step = "delete"] ELSE Failed(f.after)))
    /\ UNCHANGED <<row, pending, due, quota, others, thing, relates>>

\* The record goes, whatever it holds by now, and then the grants are read again.
Deleted(r) ==
    /\ Removed(r) /\ about' = WithoutEntry(about, r) /\ said' = WithoutEntry(said, r)

FoldDelete(t) ==
    LET f == task[t] IN
    /\ f.kind = "fold" /\ f.step = "delete"
    /\ IF row[f.drop] # None
       THEN Deleted(f.drop) ELSE UNCHANGED <<row, due, about, said>>
    /\ Begin(t, Refresh(f.after, Idle))
    /\ UNCHANGED <<pending, quota, others, thing, relates, unseen>>

\* workerDeleteEntry: at once if nothing is linked to it, and else a proposal.
WorkerDelete(r, propose) ==
    /\ Spend("fold") /\ row[r] # None /\ row[r].e # OwnEntry
    /\ IF propose \/ ThingsOf(r) # {}
       THEN Queue(RefPending("delete", Worker, None, r)) /\ UNCHANGED task
       ELSE HasTask /\ Begin(FreeTask, [kind |-> "delete", drop |-> r, after |-> None]) /\ UNCHANGED pending
    /\ UNCHANGED <<row, due, others, thingVars>>

DeleteTask(t) ==
    LET d == task[t] IN
    /\ d.kind = "delete"
    /\ IF row[d.drop] = None THEN Begin(t, Failed(d.after)) /\ UNCHANGED <<row, due, about, said>>
       ELSE Deleted(d.drop) /\ Begin(t, Refresh(d.after, Idle))
    /\ UNCHANGED <<pending, quota, others, thing, relates, unseen>>

\* It goes otherwise: pruned, or by a raw command.
DeleteEntry(r) ==
    /\ Delete(r) /\ about' = WithoutEntry(about, r) /\ said' = WithoutEntry(said, r)
    /\ UNCHANGED <<needVars, thing, relates, unseen>>

\* A restart leaves a merge, what was to be seen from a home, or the closing of a question half done.
HalfDone ==
    UNION {CASE task[t].kind = "seen" -> task[t].todo
             [] task[t].kind = "merge" -> {task[t].keep}
             [] OTHER -> {} : t \in Tasks}
RestartThings ==
    /\ Restart /\ unseen' = unseen \cup HalfDone
    /\ crossed' = crossed \cup {q \in Asked : \E t \in Tasks : task[t].kind = "close" /\ task[t].q = q}
    /\ UNCHANGED <<need, near, thing, about, relates, said>>

\* An approver runs what was proposed, by the record ids it was proposed with.
ApproveThing(a, q) ==
    LET p == pending[q] IN
    /\ Spend("decide") /\ p # None /\ p.kind \in {"merge", "fold", "delete"} /\ p.status = "pending"
    /\ MayReview(a, q) /\ HasTask
    /\ pending' = [pending EXCEPT ![q].status = "executing"]
    /\ Begin(FreeTask, CASE p.kind = "merge" -> MergeTask(p.keep, p.drop, q)
                         [] p.kind = "fold" -> FoldTask(p.keep, p.drop, q)
                         [] p.kind = "delete" -> [kind |-> "delete", drop |-> p.drop, after |-> q])
    /\ UNCHANGED <<row, due, others, thingVars>>

====
