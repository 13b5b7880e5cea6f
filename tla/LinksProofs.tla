---- MODULE LinksProofs ----
(***************************************************************************)
(* Proof that links stand: what an entry says it is about it stays linked to, *)
(* and who sees the entry sees that too, through merges of things and of      *)
(* entries, moves and restarts, short of the races that excuse a link.        *)
(*                                                                          *)
(* A link is seen at once, or by a call at work that will show it, or through *)
(* a merge that will give it homes; LinkInv says so, with what each call at   *)
(* work knows of the things it names, and is inductive.                       *)
(***************************************************************************)
EXTENDS KnowledgeProofs

--------------------------------------------------------------------------
(* Links stand                                                             *)

\* A thing is there; it is seen from a home; a call will yet see it from there; a merge is past its moving.
There(c) == c \notin {None, Gone}
SeenFrom(homes, home) == \E h \in homes : home \in AtOrAbove(h)
Shows(w, x, home) == w.kind = "seen" /\ x \in w.todo /\ home \in AtOrAbove(w.home)
Past(w) == w.kind = "merge" /\ w.step \in {"homes", "delete"}
\* A merge at work gives the one it keeps what shows it at a home, or the thing loses a home and is excused.
MayGive(m, home, things, tasks, lost) ==
    \/ m.drop \in lost \/ ~(things[m.drop].homes \subseteq m.homes)
    \/ SeenFrom(m.homes, home)
    \/ \E u \in Tasks : Shows(tasks[u], m.drop, home)
\* Who sees an entry at a home sees a thing it is linked to, or will.
LinkSeen(r, x, home, things, tasks, lost) ==
    \/ SeenFrom(things[x].homes, home)
    \/ \E u \in Tasks : Shows(tasks[u], x, home)
    \/ \E u \in Tasks : Gives(tasks[u], x) /\ r \in tasks[u].from /\ MayGive(tasks[u], home, things, tasks, lost)

\* What the calls on things know: the things they name were there; the homes they saw, and those they gave, are still
\* the thing's; a thing gone under a merge is known to be lost; one that is linked is seen from where its entry was.
Knows(w, things, lost) ==
    /\ w.kind = "make" /\ w.maybe # None => things[w.maybe] # None
    /\ w.kind = "merge" =>
          /\ w.keep # w.drop
          /\ w.step # "read" => /\ things[w.keep] # None /\ things[w.drop] # None
                                /\ There(things[w.drop]) \/ w.keep \in lost
          /\ w.step = "delete" /\ There(things[w.keep]) /\ w.keep \notin lost => w.homes \subseteq things[w.keep].homes
    /\ w.kind = "seen" =>
          /\ w.x # None => /\ w.x \in w.todo /\ things[w.x] # None
                           /\ There(things[w.x]) /\ w.x \notin lost => w.got \subseteq things[w.x].homes
          /\ w.then.kind = "about" => w.todo = {w.then.x} /\ w.home = w.then.home /\ things[w.then.x] # None
    /\ w.kind = "about" =>
          /\ things[w.x] # None
          /\ There(things[w.x]) /\ w.x \notin lost => SeenFrom(things[w.x].homes, w.home)
\* What a merge has moved stands where it stood.
MovedStand(links, edges, tasks, things) ==
    \A t \in Tasks : Past(tasks[t]) /\ There(things[tasks[t].keep]) =>
        \A r \in tasks[t].from : <<r, tasks[t].drop>> \in links => <<r, tasks[t].keep>> \in edges
Apart(p) == p # None /\ p.kind = "merge" => p.keep # p.drop
TasksLinked == \A t \in Tasks : Knows(task[t], thing, unseen)
PendingApart == \A q \in Pendings : Apart(pending[q])
LinksSeen ==
    \A p \in about : p[2] \notin unseen /\ row[p[1]].e \notin excused =>
        LinkSeen(p[1], p[2], row[p[1]].home, thing, task, unseen)
LinkInv ==
    /\ said \subseteq about /\ MovedStand(said, about, task, thing)
    /\ TasksLinked /\ PendingApart /\ LinksSeen

\* Things stay or go for good, and keep their homes unless they are lost; what is lost stays lost.
ThingsMove(things, now, lost, gone) ==
    /\ lost \subseteq gone
    /\ \A x \in Tids : things[x] # None => now[x] # None
    /\ \A x \in Tids : things[x] # None /\ There(now[x]) =>
          There(things[x]) /\ (x \in gone \/ things[x].homes \subseteq now[x].homes)
\* No merge at work is left without what it drops unknown.
DropsTold(w, things, now, gone) ==
    w.kind = "merge" /\ w.step # "read" /\ There(things[w.drop]) => There(now[w.drop]) \/ w.keep \in gone

\* What a call knows goes on to hold as things move.
LEMMA KnowsStill ==
    ASSUME NEW w, Shape(w), NEW things, NEW now, NEW lost, NEW gone, Knows(w, things, lost),
           ThingsMove(things, now, lost, gone), DropsTold(w, things, now, gone)
    PROVE  Knows(w, now, gone)
  <1>1. CASE w.kind = "make"
    <2>1. w.maybe \in Tids \cup {None}
        BY <1>1 DEF Shape, MakeRec
    <2> QED BY <1>1, <2>1 DEF Knows, ThingsMove
  <1>2. CASE w.kind = "merge"
    <2>1. w.keep \in Tids /\ w.drop \in Tids
        BY <1>2 DEF Shape, MergeRec
    <2> QED BY <1>2, <2>1 DEF Knows, ThingsMove, DropsTold
  <1>3. CASE w.kind = "seen"
    <2>1. w.x \in Tids \cup {None} /\ w.then \in Rests
        BY <1>3 DEF Shape, SeenRec
    <2>2. w.then.kind = "about" => w.then.x \in Tids
        BY <2>1, RestIs DEF Shape, AboutRec
    <2> QED BY <1>3, <2>1, <2>2 DEF Knows, ThingsMove
  <1>4. CASE w.kind = "about"
    <2>1. w.x \in Tids
        BY <1>4 DEF Shape, AboutRec
    <2> QED BY <1>4, <2>1 DEF Knows, ThingsMove, SeenFrom
  <1>5. CASE w.kind \notin {"make", "merge", "seen", "about"}
      BY <1>5 DEF Knows
  <1> QED BY <1>1, <1>2, <1>3, <1>4, <1>5

\* Who sees from a home sees from above it.
LEMMA SeenAbove ==
    ASSUME NEW homes \in SUBSET Homes, NEW home \in Homes, NEW up \in AtOrAbove(home), SeenFrom(homes, home)
    PROVE  SeenFrom(homes, up)
  <1>1. \A h \in Homes : home \in AtOrAbove(h) => up \in AtOrAbove(h)
      BY AboveTrans
  <1> QED BY <1>1 DEF SeenFrom

\* Who saw a thing goes on to see it as calls go on: what a call was to show it shows, or is still to show; and what
\* merges were to give they still are.
LEMMA StillSeen ==
    ASSUME NEW r, NEW x \in Tids, NEW home \in Homes, NEW up \in AtOrAbove(home),
           NEW things, NEW now, NEW tasks, NEW next, NEW lost, NEW gone,
           LinkSeen(r, x, home, things, tasks, lost), ThingsMove(things, now, lost, gone),
           things[x] # None, There(now[x]), x \notin gone,
           \A y \in Tids : There(now[y]) => now[y].homes \in SUBSET Homes,
           \A u \in Tasks : Shape(tasks[u]) /\ Shape(next[u]) /\ Knows(tasks[u], things, lost),
           \A u \in Tasks, y \in Tids :
               Shows(tasks[u], y, home) =>
                   ~There(now[y]) \/ y \in gone \/ Shows(next[u], y, home) \/ SeenFrom(now[y].homes, home),
           \A u \in Tasks :
               Gives(tasks[u], x) =>
                   \/ SeenFrom(now[x].homes, home)
                   \/ \E v \in Tasks : Shows(next[v], x, home)
                   \/ /\ Gives(next[u], x) /\ next[u].from = tasks[u].from /\ next[u].drop = tasks[u].drop
                      /\ next[u].homes = tasks[u].homes /\ DropsTold(tasks[u], things, now, gone)
                   \/ ~MayGive(tasks[u], home, things, tasks, lost)
    PROVE  LinkSeen(r, x, up, now, next, gone)
  <1>1. \A u \in Tasks, y \in Tids : Shows(next[u], y, home) => Shows(next[u], y, up)
    <2> TAKE u \in Tasks, y \in Tids
    <2> HAVE Shows(next[u], y, home)
    <2>1. next[u].home \in Homes
        BY DEF Shows, Shape, SeenRec
    <2> QED BY <2>1, AboveTrans DEF Shows
  <1>2. now[x].homes \in SUBSET Homes
      OBVIOUS
  <1>3. CASE SeenFrom(now[x].homes, home)
      BY <1>2, <1>3, SeenAbove DEF LinkSeen
  <1>4. CASE SeenFrom(things[x].homes, home)
    <2>1. things[x].homes \subseteq now[x].homes
        BY DEF ThingsMove
    <2> QED BY <1>3, <1>4, <2>1 DEF SeenFrom
  <1>5. CASE \E v \in Tasks : Shows(next[v], x, home)
      BY <1>1, <1>5 DEF LinkSeen
  <1>6. CASE \E u \in Tasks : Shows(tasks[u], x, home)
      BY <1>3, <1>5, <1>6
  <1>7. CASE \E u \in Tasks : Gives(tasks[u], x) /\ r \in tasks[u].from /\ MayGive(tasks[u], home, things, tasks, lost)
    <2>1. PICK u \in Tasks : Gives(tasks[u], x) /\ r \in tasks[u].from /\ MayGive(tasks[u], home, things, tasks, lost)
        BY <1>7
    <2> DEFINE m == tasks[u]
    <2> DEFINE n == next[u]
    <2>2. SUFFICES ASSUME Gives(n, x), n.from = m.from, n.drop = m.drop, n.homes = m.homes, DropsTold(m, things, now, gone)
                   PROVE  MayGive(n, up, now, next, gone)
        BY <1>3, <1>5, <2>1 DEF LinkSeen
    <2>3. m.kind = "merge" /\ m.step # "read" /\ m.keep = x /\ m.drop \in Tids /\ m.homes \in SUBSET Homes
        BY <2>1 DEF Gives, Shape, MergeRec
    <2> DEFINE d == m.drop
    <2>4. There(things[d]) /\ There(now[d])
        BY <2>2, <2>3 DEF Knows, DropsTold, ThingsMove
    <2>5. d \in gone \/ (things[d].homes \subseteq now[d].homes /\ now[d].homes \in SUBSET Homes)
        BY <2>3, <2>4 DEF ThingsMove, There
    <2>6. CASE d \in lost
        BY <2>2, <2>6 DEF MayGive, ThingsMove
    <2>7. CASE ~(things[d].homes \subseteq m.homes)
        BY <2>2, <2>5, <2>7 DEF MayGive
    <2>8. CASE SeenFrom(m.homes, home)
        BY <2>2, <2>3, <2>8, SeenAbove DEF MayGive
    <2>9. CASE \E v \in Tasks : Shows(tasks[v], d, home)
      <3>1. PICK v \in Tasks : Shows(tasks[v], d, home)
          BY <2>9
      <3>2. d \in gone \/ Shows(next[v], d, home) \/ SeenFrom(now[d].homes, home)
          BY <2>3, <2>4, <3>1
      <3>3. ASSUME SeenFrom(now[d].homes, home) PROVE ~(now[d].homes \subseteq m.homes) \/ SeenFrom(m.homes, home)
          BY <3>3 DEF SeenFrom
      <3> QED BY <1>1, <2>2, <2>3, <2>8, <3>2, <3>3 DEF MayGive
    <2> QED BY <2>1, <2>6, <2>7, <2>8, <2>9 DEF MayGive
  <1> QED BY <1>4, <1>6, <1>7 DEF LinkSeen

\* What was to show a thing does, or has; and what merges have moved they still have.
CallGoes(v, w, things, now, gone) ==
    /\ \A y \in Tids, home \in Homes :
           Shows(v, y, home) => ~There(now[y]) \/ y \in gone \/ Shows(w, y, home) \/ SeenFrom(now[y].homes, home)
    /\ Past(v) => \/ v.keep \in gone
                  \/ /\ Past(w) /\ w.keep = v.keep /\ w.from = v.from /\ w.drop = v.drop /\ w.homes = v.homes
                     /\ DropsTold(v, things, now, gone)
\* A merge gave the one it keeps, if that is there, what it was to give.
Gave(v, things, tasks, lost, now) ==
    /\ v.kind = "merge"
    /\ There(now[v.keep]) =>
          \A home \in Homes : MayGive(v, home, things, tasks, lost) => SeenFrom(now[v.keep].homes, home)
\* An entry stays where it is seen by who saw it, or what it is about is to follow it.
RowStays(r) ==
    row[r] # None /\ row'[r] # None =>
        /\ row'[r].e = row[r].e
        /\ row[r].e \notin excused' => \/ row'[r].home \in AtOrAbove(row[r].home)
                                       \/ \E u \in Tasks : \A x \in ThingsOf(r) : Shows(task'[u], x, row'[r].home)

\* Links that were seen are, where things, entries and calls go on.
LEMMA LinksSeenStay ==
    ASSUME TypeInv, TypeInv', TasksLinked, LinksSeen, ThingsMove(thing, thing', unseen, unseen'), excused \subseteq excused',
           \A r \in Rids : RowStays(r),
           \A u \in Tasks : \/ CallGoes(task[u], task'[u], thing, thing', unseen')
                            \/ Gave(task[u], thing, task, unseen, thing'),
           NEW p \in about, p \in about', p[2] \notin unseen', row'[p[1]].e \notin excused'
    PROVE  LinkSeen(p[1], p[2], row'[p[1]].home, thing', task', unseen')
  <1> DEFINE r == p[1]
  <1> DEFINE x == p[2]
  <1>1. /\ r \in Rids /\ x \in Tids /\ row[r] # None /\ row'[r] # None /\ There(thing[x]) /\ There(thing'[x])
        /\ row[r].home \in Homes /\ thing[x] # None
    <2>1. r \in Rids /\ x \in Tids /\ row[r] # None /\ Exists(x)
        BY DEF TypeInv, ThingsOK
    <2>2. row'[r] # None /\ There(thing'[x])
        BY DEF TypeInv, ThingsOK, Exists, There
    <2>3. row[r] \in Row
        BY <2>1, RowIs DEF TypeInv, EntriesOK
    <2> QED BY <2>1, <2>2, <2>3 DEF Row, Exists, There
  <1>2. row'[r].e = row[r].e /\ row[r].e \notin excused'
      BY <1>1 DEF RowStays
  <1>3. CASE \E u \in Tasks : \A y \in ThingsOf(r) : Shows(task'[u], y, row'[r].home)
    <2>1. x \in ThingsOf(r)
      <3>1. p = <<r, x>>
          BY DEF TypeInv, ThingsOK
      <3> QED BY <1>1, <3>1 DEF ThingsOf
    <2> QED BY <1>3, <2>1 DEF LinkSeen
  <1>4. CASE row'[r].home \in AtOrAbove(row[r].home)
    <2>1. LinkSeen(r, x, row[r].home, thing, task, unseen)
      <3>1. x \notin unseen /\ row[r].e \notin excused
          BY <1>2 DEF ThingsMove
      <3> QED BY <3>1 DEF LinksSeen
    <2>2. \A y \in Tids : There(thing'[y]) => thing'[y].homes \in SUBSET Homes
        BY DEF TypeInv, ThingsOK, There, Thing
    <2>3. \A u \in Tasks : Shape(task[u]) /\ Shape(task'[u]) /\ Knows(task[u], thing, unseen)
        BY DEF TypeInv, EntriesOK, TasksOK, TasksLinked
    <2>4. \A u \in Tasks, y \in Tids :
               Shows(task[u], y, row[r].home) =>
                   ~There(thing'[y]) \/ y \in unseen' \/ Shows(task'[u], y, row[r].home) \/ SeenFrom(thing'[y].homes, row[r].home)
        BY <1>1 DEF CallGoes, Gave, Shows
    <2>5. \A u \in Tasks : Gives(task[u], x) =>
             \/ SeenFrom(thing'[x].homes, row[r].home)
             \/ /\ Gives(task'[u], x) /\ task'[u].from = task[u].from /\ task'[u].drop = task[u].drop
                /\ task'[u].homes = task[u].homes /\ DropsTold(task[u], thing, thing', unseen')
             \/ ~MayGive(task[u], row[r].home, thing, task, unseen)
      <3> TAKE u \in Tasks
      <3> HAVE Gives(task[u], x)
      <3>1. CASE CallGoes(task[u], task'[u], thing, thing', unseen')
          BY <3>1 DEF CallGoes, Gives, Past
      <3>2. CASE Gave(task[u], thing, task, unseen, thing')
          BY <1>1, <3>2 DEF Gave, Gives
      <3> QED BY <3>1, <3>2
    <2> DEFINE home == row[r].home
    <2> DEFINE up == row'[r].home
    <2> DEFINE things == thing
    <2> DEFINE now == thing'
    <2> DEFINE tasks == task
    <2> DEFINE next == task'
    <2> DEFINE lost == unseen
    <2> DEFINE gone == unseen'
    <2>6. home \in Homes /\ up \in AtOrAbove(home) /\ x \in Tids /\ things[x] # None /\ There(now[x]) /\ x \notin gone
        BY <1>1, <1>4
    <2> HIDE DEF home, up, things, now, tasks, next, lost, gone, r, x
    <2>7. /\ LinkSeen(r, x, home, things, tasks, lost)
          /\ \A y \in Tids : There(now[y]) => now[y].homes \in SUBSET Homes
          /\ \A u \in Tasks : Shape(tasks[u]) /\ Shape(next[u]) /\ Knows(tasks[u], things, lost)
          /\ ThingsMove(things, now, lost, gone)
        BY <2>1, <2>2, <2>3 DEF home, up, things, now, tasks, next, lost, gone, r, x
    <2>8. \A u \in Tasks, y \in Tids :
               Shows(tasks[u], y, home) =>
                   ~There(now[y]) \/ y \in gone \/ Shows(next[u], y, home) \/ SeenFrom(now[y].homes, home)
        BY <2>4 DEF home, up, things, now, tasks, next, lost, gone, r, x
    <2>9. \A u \in Tasks : Gives(tasks[u], x) =>
             \/ SeenFrom(now[x].homes, home)
             \/ /\ Gives(next[u], x) /\ next[u].from = tasks[u].from /\ next[u].drop = tasks[u].drop
                /\ next[u].homes = tasks[u].homes /\ DropsTold(tasks[u], things, now, gone)
             \/ ~MayGive(tasks[u], home, things, tasks, lost)
        BY <2>5 DEF home, up, things, now, tasks, next, lost, gone, r, x
    <2>10. LinkSeen(r, x, up, now, next, gone)
        BY <2>6, <2>7, <2>8, <2>9, StillSeen
    <2> QED BY <2>10 DEF home, up, things, now, tasks, next, lost, gone, r, x
  <1> QED BY <1>1, <1>2, <1>3, <1>4 DEF RowStays

\* What merges moved stands as links come and go.
LEMMA MovedStay ==
    ASSUME TypeInv, TasksLinked, MovedStand(said, about, task, thing), ThingsMove(thing, thing', unseen, unseen'),
           \A u \in Tasks : Past(task'[u]) => /\ Past(task[u]) /\ task'[u].keep = task[u].keep
                                              /\ task'[u].from = task[u].from /\ task'[u].drop = task[u].drop,
           \A p \in said' : p \in said \/ p \in Standing({p}, about'),
           \A u \in Tasks : Past(task[u]) =>
               \A r \in task[u].from : <<r, task[u].keep>> \in about \ about' =>
                   <<r, task[u].drop>> \notin said' \/ ~There(thing'[task[u].keep])
    PROVE  MovedStand(said', about', task', thing')
  <1> SUFFICES ASSUME NEW u \in Tasks, Past(task'[u]), There(thing'[task'[u].keep]), NEW r \in task'[u].from,
                      <<r, task'[u].drop>> \in said'
               PROVE  <<r, task'[u].keep>> \in about'
      BY DEF MovedStand
  <1>1. /\ Past(task[u]) /\ task'[u].keep = task[u].keep /\ r \in task[u].from /\ task'[u].drop = task[u].drop
      OBVIOUS
  <1>2. There(thing[task[u].keep])
    <2>1. task[u].keep \in Tids /\ thing[task[u].keep] # None
      <3>1. task[u].kind = "merge" /\ task[u].step # "read" /\ Shape(task[u]) /\ Knows(task[u], thing, unseen)
          BY <1>1 DEF Past, TypeInv, EntriesOK, TasksOK, TasksLinked
      <3> QED BY <3>1 DEF Shape, MergeRec, Knows
    <2> QED BY <1>1, <2>1 DEF ThingsMove
  <1>3. CASE <<r, task[u].drop>> \in said
      BY <1>1, <1>2, <1>3 DEF MovedStand
  <1>4. CASE <<r, task[u].drop>> \in Standing({<<r, task[u].drop>>}, about')
      BY <1>1, <1>4 DEF Standing, Past
  <1> QED BY <1>1, <1>3, <1>4

--------------------------------------------------------------------------
(* Steps that leave the links alone                                        *)

\* A call goes on as it was, or becomes one that knows nothing yet.
Fresh(w) ==
    /\ w.kind \notin {"about", "make"}
    /\ w.kind = "merge" => w.step = "read" /\ w.keep # w.drop
    /\ w.kind = "seen" => w.x = None /\ w.then.kind # "about"
Aside(v, w) == w = v \/ (v.kind # "seen" /\ ~Past(v) /\ Fresh(w))
TasksAside == \A u \in Tasks : Aside(task[u], task'[u])
LinksAside ==
    /\ UNCHANGED <<thing, about, said, unseen>> /\ excused \subseteq excused'
    /\ TasksAside /\ (PendingApart => PendingApart') /\ \A r \in Rids : RowStays(r)

\* Such a step keeps what calls know.
LEMMA AsideKnows ==
    ASSUME NEW v, NEW w, NEW things, NEW lost, Knows(v, things, lost), Aside(v, w)
    PROVE  Knows(w, things, lost) /\ CallGoes(v, w, things, things, lost)
  <1>1. CASE w = v
    <2>1. Past(v) => There(things[v.drop]) \/ v.keep \in lost
        BY DEF Past, Knows
    <2> QED BY <1>1, <2>1 DEF CallGoes, DropsTold, Past
  <1>2. CASE v.kind # "seen" /\ ~Past(v) /\ Fresh(w)
      BY <1>2 DEF Fresh, Knows, CallGoes, Shows
  <1> QED BY <1>1, <1>2 DEF Aside

\* ... and where links, things and what is lost are as they were, all that calls on things go by.
LEMMA AsideKept ==
    ASSUME TypeInv, TypeInv', LinkInv, LinksAside
    PROVE  LinkInv'
  <1>1. thing' = thing /\ about' = about /\ said' = said /\ unseen' = unseen /\ excused \subseteq excused'
        /\ PendingApart' /\ (\A u \in Tasks : Aside(task[u], task'[u])) /\ \A r \in Rids : RowStays(r)
      BY DEF LinksAside, TasksAside, LinkInv
  <1>2. ThingsMove(thing, thing', unseen, unseen')
      BY <1>1 DEF ThingsMove
  <1>3. \A u \in Tasks : Knows(task'[u], thing', unseen') /\ CallGoes(task[u], task'[u], thing, thing', unseen')
      BY <1>1, AsideKnows DEF LinkInv, TasksLinked
  <1>4. TasksLinked'
      BY <1>3 DEF TasksLinked
  <1>5. LinksSeen'
    <2> SUFFICES ASSUME NEW p \in about, p \in about', p[2] \notin unseen', row'[p[1]].e \notin excused'
                 PROVE  LinkSeen(p[1], p[2], row'[p[1]].home, thing', task', unseen')
        BY <1>1 DEF LinksSeen
    <2> QED BY <1>1, <1>2, <1>3, LinksSeenStay DEF LinkInv
  <1>6. MovedStand(said', about', task', thing')
    <2>1. \A u \in Tasks : Past(task'[u]) => task'[u] = task[u]
        BY <1>1 DEF Aside, Fresh, Past
    <2> QED BY <1>1, <2>1 DEF LinkInv, MovedStand
  <1> QED BY <1>1, <1>4, <1>5, <1>6 DEF LinkInv

\* Where no row changed, each stays.
LEMMA RowsStay ==
    ASSUME TypeInv, UNCHANGED row, NEW r \in Rids
    PROVE  RowStays(r)
  <1>1. row[r] # None => row[r].home \in Homes
    <2>1. row[r] # None => row[r] \in Row
        BY RowIs DEF TypeInv, EntriesOK
    <2> QED BY <2>1 DEF Row
  <1> QED BY <1>1, AboveIn DEF RowStays

Tame == {"idle", "write", "ask", "typed", "move", "regrade", "confirm", "resolve", "open", "grant", "refresh", "settle", "meet",
         "close", "link", "stray", "rename", "fold", "delete"}
\* A call begins or goes on that is none on links.
LEMMA BeginFresh ==
    ASSUME TypeInv, NEW t \in Tasks, NEW w, Begin(t, w), task[t].kind # "seen", ~Past(task[t]), Fresh(w)
    PROVE  TasksAside
  <1>1. task'[t] = w /\ \A u \in Tasks \ {t} : task'[u] = task[u]
      BY DEF Begin, TypeInv, EntriesOK, TasksOK
  <1> QED BY <1>1 DEF TasksAside, Aside
\* ... or of a kind that is none on links;
LEMMA BeginTame ==
    ASSUME TypeInv, NEW t \in Tasks, NEW w, Begin(t, w), task[t].kind \notin {"seen", "merge"}, w.kind \in Tame
    PROVE  TasksAside
  BY BeginFresh DEF Tame, Fresh, Past
\* ... a new call of such a kind,
LEMMA FreeTame ==
    ASSUME TypeInv, HasTask, NEW w, Begin(FreeTask, w), w.kind \in Tame
    PROVE  TasksAside
  <1>1. FreeTask \in Tasks /\ task[FreeTask].kind = "idle"
      BY FreeTaskIs DEF Idle
  <1> QED BY <1>1, BeginTame
\* ... and no call at all.
LEMMA NoTask ==
    ASSUME UNCHANGED task
    PROVE  TasksAside
  BY DEF TasksAside, Aside

\* What is queued is no merge of one with itself.
LEMMA QueueApart ==
    ASSUME TypeInv, NEW new, Queue(new), Apart(new)
    PROVE  PendingApart => PendingApart'
  BY FreePendingIs DEF Queue, PendingApart, TypeInv, EntriesOK, PendingOK
\* ... and what stays as it was is none.
LEMMA PendingSame ==
    ASSUME UNCHANGED pending
    PROVE  PendingApart => PendingApart'
  BY DEF PendingApart
\* A proposal has another status.
LEMMA StatusApart ==
    ASSUME NEW p \in Proposal, NEW status, Apart(p)
    PROVE  Apart([p EXCEPT !.status = status])
  <1>1. CASE p.kind = "merge"
    <2>1. p \in [kind : {"merge"}, status : Statuses, home : Homes, who : Actors \cup {None}, keep : Tids, drop : Tids]
        BY <1>1 DEF Proposal, ShareProposal
    <2>2. p # None
        BY KnowledgeAssumption
    <2> DEFINE n == [p EXCEPT !.status = status]
    <2>3. n.keep = p.keep /\ n.drop = p.drop
        BY <2>1
    <2> QED BY <1>1, <2>2, <2>3 DEF Apart
  <1>2. CASE p.kind # "merge"
    <2> DEFINE n == [p EXCEPT !.status = status]
    <2>1. n.kind = p.kind
        BY DEF Proposal, ShareProposal
    <2> QED BY <1>2, <2>1 DEF Apart
  <1> QED BY <1>1, <1>2

\* A call that ends.
LEMMA EndTame ==
    ASSUME NEW after, NEW ok, NEW then, then.kind \in Tame
    PROVE  Settling(after, ok, then).kind \in Tame
  BY DEF Settling, Tame
\* ... done or failed.
LEMMA EndedTame ==
    ASSUME NEW after
    PROVE  Ended(after).kind \in Tame /\ Failed(after).kind \in Tame
  BY DEF Ended, Failed, Settling, Idle, Tame

\* Calls on entries begin what is none on links, and propose no merge.
LEMMA EntryCallAside ==
    ASSUME TypeInv, EntryCall
    PROVE  TasksAside /\ (PendingApart => PendingApart')
  <1>1. ASSUME NEW a \in quota.callers, NEW e \in Entries, Write(a, e)
        PROVE  TasksAside /\ (PendingApart => PendingApart')
    <2> DEFINE floor == DerivedFloor(a, Origin[e])
    <2> DEFINE p == UpsertPending(a, e, floor, FALSE)
    <2> DEFINE w == WriteTask(e, floor, WriterOf(a), FALSE, None)
    <2>1. Apart(p) /\ w.kind \in Tame
        BY DEF UpsertPending, WriteTask, Apart, Tame
    <2>2. (Queue(p) /\ UNCHANGED task) \/ (HasTask /\ Begin(FreeTask, w) /\ UNCHANGED pending)
        BY <1>1 DEF Write
    <2> HIDE DEF p, w
    <2> QED BY <2>1, <2>2, QueueApart, PendingSame, FreeTame, NoTask
  <1>2. ASSUME NEW e, NEW lives, NEW propose \in BOOLEAN, WorkerStores(e, lives, propose)
        PROVE  TasksAside /\ (PendingApart => PendingApart')
    <2> DEFINE lift == FloorLifts(lives, DerivedFloor(Worker, lives))
    <2> DEFINE floor == IF lift THEN lives ELSE DerivedFloor(Worker, lives)
    <2> DEFINE p == UpsertPending(Worker, e, floor, TRUE)
    <2> DEFINE w == WriteTask(e, floor, None, TRUE, None)
    <2>1. Apart(p) /\ w.kind \in Tame
        BY DEF UpsertPending, WriteTask, Apart, Tame
    <2>2. (Queue(p) /\ UNCHANGED task) \/ (HasTask /\ Begin(FreeTask, w) /\ UNCHANGED pending)
        BY <1>2 DEF WorkerStores
    <2> HIDE DEF p, w
    <2> QED BY <2>1, <2>2, QueueApart, PendingSame, FreeTame, NoTask
  <1>3. ASSUME NEW r \in Rids, NEW propose \in BOOLEAN, TypedUpdate(r, propose)
        PROVE  TasksAside /\ (PendingApart => PendingApart')
    <2> DEFINE p == [kind |-> "typed", status |-> "pending", home |-> Root, who |-> Worker, rid |-> r]
    <2> DEFINE w == [kind |-> "typed", rid |-> r, floor |-> DerivedFloor(Worker, row[r].home), read |-> row[r], after |-> None]
    <2>1. Apart(p) /\ w.kind \in Tame
        BY DEF Apart, Tame
    <2>2. (Queue(p) /\ UNCHANGED task) \/ (HasTask /\ Begin(FreeTask, w) /\ UNCHANGED pending)
        BY <1>3 DEF TypedUpdate
    <2> HIDE DEF p, w
    <2> QED BY <2>1, <2>2, QueueApart, PendingSame, FreeTame, NoTask
  <1>4. ASSUME NEW a \in quota.callers, NEW r \in Rids, NEW to \in Homes, NEW propose \in BOOLEAN, SetHome(a, r, to, propose)
        PROVE  TasksAside /\ (PendingApart => PendingApart')
    <2> DEFINE p == RehomePending(a, r, row[r].e, row[r].home, to)
    <2> DEFINE w == MoveTask(r, row[r].e, row[r].home, to, IsPerson(a), None)
    <2>1. Apart(p) /\ w.kind \in Tame
        BY DEF RehomePending, MoveTask, Apart, Tame
    <2>2. (Queue(p) /\ UNCHANGED task) \/ (HasTask /\ Begin(FreeTask, w) /\ UNCHANGED pending)
        BY <1>4 DEF SetHome
    <2> HIDE DEF p, w
    <2> QED BY <2>1, <2>2, QueueApart, PendingSame, FreeTame, NoTask
  <1>5. ASSUME RegradeRead PROVE TasksAside /\ (PendingApart => PendingApart')
    <2> DEFINE w == [kind |-> "regrade", rows |-> [r \in {s \in Rids : row[s] # None /\ row[s].ungraded # None} |-> row[r]]]
    <2>1. w.kind \in Tame
        BY DEF Tame
    <2>2. HasTask /\ Begin(FreeTask, w) /\ UNCHANGED pending
        BY <1>5 DEF RegradeRead
    <2> HIDE DEF w
    <2> QED BY <2>1, <2>2, PendingSame, FreeTame
  <1>6. ASSUME UNCHANGED <<task, pending>> PROVE TasksAside /\ (PendingApart => PendingApart')
      BY <1>6, PendingSame, NoTask
  <1>7. \A a, r : Read(a, r) => UNCHANGED <<task, pending>>
      BY DEF Read
  <1>8. \A a : MarksLapse(a) => UNCHANGED <<task, pending>>
      BY DEF MarksLapse
  <1>9. ASSUME NEW e \in Entries, NEW propose \in BOOLEAN, WorkerWrite(e, propose)
        PROVE  TasksAside /\ (PendingApart => PendingApart')
      BY <1>2, <1>9 DEF WorkerWrite
  <1>10. ASSUME NEW r \in Rids, NEW propose \in BOOLEAN, WorkerUpdate(r, propose)
        PROVE  TasksAside /\ (PendingApart => PendingApart')
      BY <1>2, <1>10 DEF WorkerUpdate
  <1> QED BY <1>1, <1>3, <1>4, <1>5, <1>6, <1>7, <1>8, <1>9, <1>10 DEF EntryCall

\* Calls on entries that go on.
LEMMA EntryTaskAside ==
    ASSUME Inv, NEW t \in Tasks, EntryTask(t), ~MoveFollowed(t), ~RegradeStep(t)
    PROVE  TasksAside /\ (PendingApart => PendingApart')
  <1>0. TypeInv /\ SharedInv
      BY DEF Inv
  <1>1. ASSUME WriteStore(t) PROVE TasksAside /\ UNCHANGED pending
    <2>1. PICK verdict \in Verdicts(Origin[task[t].e]) :
             task' = [task EXCEPT ![t] =
                 IF Placed(task[t], verdict).ask = None THEN Ended(task[t].after)
                 ELSE [kind |-> "ask", e |-> task[t].e, from |-> Placed(task[t], verdict).home, to |-> Placed(task[t], verdict).ask,
                       after |-> task[t].after]]
        BY <1>1 DEF WriteStore
    <2> DEFINE w == IF Placed(task[t], verdict).ask = None THEN Ended(task[t].after)
                 ELSE [kind |-> "ask", e |-> task[t].e, from |-> Placed(task[t], verdict).home, to |-> Placed(task[t], verdict).ask,
                       after |-> task[t].after]
    <2>2. w.kind \in Tame
        BY EndedTame DEF Tame
    <2>3. Begin(t, w) /\ task[t].kind = "write" /\ UNCHANGED pending
        BY <1>1, <2>1 DEF Begin, WriteStore
    <2> HIDE DEF w
    <2> QED BY <1>0, <2>2, <2>3, BeginTame
  <1>2. ASSUME WriteAsk(t) PROVE TasksAside /\ (PendingApart => PendingApart')
    <2> DEFINE p == RehomePending(None, RidOf(task[t].e), task[t].e, task[t].from, task[t].to)
    <2>1. Apart(p)
        BY DEF RehomePending, Apart
    <2>2. task[t].kind = "ask" /\ Begin(t, Ended(task[t].after)) /\ (Queue(p) \/ UNCHANGED pending)
        BY <1>2 DEF WriteAsk
    <2> HIDE DEF p
    <2> QED BY <1>0, <2>1, <2>2, EndedTame, QueueApart, PendingSame, BeginTame
  <1>3. ASSUME WriteAskLost(t) PROVE TasksAside /\ UNCHANGED pending
      BY <1>0, <1>3, EndedTame, BeginTame DEF WriteAskLost
  <1>4. ASSUME TypedApply(t) PROVE TasksAside /\ UNCHANGED pending
    <2>1. task[t].kind = "typed" /\ (Begin(t, Failed(task[t].after)) \/ Begin(t, Ended(task[t].after))) /\ UNCHANGED pending
        BY <1>4 DEF TypedApply
    <2> QED BY <1>0, <2>1, EndedTame, BeginTame
  <1>5. ASSUME MoveCheck(t) PROVE TasksAside /\ UNCHANGED pending
    <2> DEFINE w == [task[t] EXCEPT !.read = row[task[t].rid]]
    <2>1. task[t].kind = "move" /\ (Begin(t, w) \/ Begin(t, Failed(task[t].after))) /\ UNCHANGED pending
        BY <1>5 DEF MoveCheck
    <2>2. w.kind \in Tame
      <3>1. task[t] \in MoveRec
          BY <1>0, <2>1 DEF TypeInv, EntriesOK, TasksOK, Shape
      <3> QED BY <3>1 DEF MoveRec, Tame
    <2> HIDE DEF w
    <2> QED BY <1>0, <2>1, <2>2, EndedTame, BeginTame
  <1>6. ASSUME Settle(t, AfterSettle(t)) PROVE TasksAside /\ (PendingApart => PendingApart')
    <2>1. task[t].kind = "settle" /\ task[t] \in SettleRec /\ Begin(t, AfterSettle(t))
        BY <1>0, <1>6 DEF Settle, TypeInv, EntriesOK, TasksOK, Shape
    <2>2. AfterSettle(t).kind \in Tame
        BY <2>1 DEF AfterSettle, Resolve, SettleRec, Later, Idle, ResolveRec, Tame
    <2> DEFINE q == task[t].after
    <2>3. q \in Pendings /\ Claims(task[t], q)
        BY <2>1 DEF SettleRec, Claims, AfterOf
    <2>4. pending[q] \in Proposal
        BY <1>0, <2>3 DEF SharedInv, ClaimedIsSpent, Spent, TypeInv, EntriesOK, PendingOK
    <2> DEFINE status == IF task[t].ok THEN "approved" ELSE "failed"
    <2>5. pending' = [pending EXCEPT ![q] = [pending[q] EXCEPT !.status = status]]
        BY <1>6 DEF Settle
    <2> HIDE DEF status
    <2>6. PendingApart => Apart([pending[q] EXCEPT !.status = status])
        BY <2>3, <2>4, StatusApart DEF PendingApart
    <2>7. PendingApart => PendingApart'
        BY <1>0, <2>5, <2>6 DEF PendingApart, TypeInv, EntriesOK, PendingOK
    <2> QED BY <1>0, <2>1, <2>2, <2>7, BeginTame
  <1>7. ASSUME RegradeOut(t) PROVE TasksAside /\ UNCHANGED pending
    <2>1. Idle.kind \in Tame
        BY DEF Idle, Tame
    <2> QED BY <1>0, <1>7, <2>1, BeginTame DEF RegradeOut
  <1> QED BY <1>1, <1>2, <1>3, <1>4, <1>5, <1>6, <1>7, PendingSame DEF EntryTask

\* What is put in a proposal's place is no merge of one with itself.
LEMMA PutApart ==
    ASSUME TypeInv, NEW q \in Pendings, NEW new, pending' = [pending EXCEPT ![q] = new], Apart(pending[q]) => Apart(new)
    PROVE  PendingApart => PendingApart'
  BY DEF PendingApart, TypeInv, EntriesOK, PendingOK

\* Calls on grants.
LEMMA ShareCallAside ==
    ASSUME TypeInv, ShareCall \/ RefreshTick
    PROVE  TasksAside /\ (PendingApart => PendingApart')
  <1>1. Refreshing.kind \in Tame
      BY DEF Refreshing, Refresh, Tame
  <1>2. ASSUME NEW a \in quota.callers, NEW g \in Grants, Revoke(a, g) PROVE TasksAside /\ UNCHANGED pending
      BY <1>1, <1>2, FreeTame DEF Revoke
  <1>3. ASSUME NEW a \in quota.callers, NEW r \in Rids, ReadGranted(a, r) PROVE TasksAside /\ UNCHANGED pending
      BY <1>3, NoTask DEF ReadGranted
  <1>4. ASSUME NEW a \in quota.callers \ {Worker}, NEW e \in Entries, NEW to \in Recipients, GrantAccess(a, e, to)
        PROVE  TasksAside /\ (PendingApart => PendingApart')
    <2> DEFINE home == row[RidOf(e)].home
    <2> DEFINE w == GrantTask(NewGrant(RidOf(e), e, to, a, home, None), None)
    <2> DEFINE p == SharePending(a, e, RidOf(e), to, home, None, "pending")
    <2>1. w.kind \in Tame /\ Apart(p)
        BY DEF GrantTask, SharePending, Tame, Apart
    <2>2. (Queue(p) /\ UNCHANGED task) \/ (HasTask /\ Begin(FreeTask, w) /\ UNCHANGED pending)
        BY <1>4 DEF GrantAccess
    <2> HIDE DEF p, w
    <2> QED BY <2>1, <2>2, QueueApart, PendingSame, FreeTame, NoTask
  <1>5. ASSUME NEW a \in quota.callers \ {Worker}, NEW e \in Entries, NEW to \in Recipients, NEW q \in Pendings, GrantWaiting(a, e, to, q)
        PROVE  TasksAside /\ (PendingApart => PendingApart')
    <2> DEFINE p == SharePending(a, e, None, to, Origin[e], q, IF SharesDirectly(a) THEN "confirmed" ELSE "waiting")
    <2>1. Apart(p)
        BY DEF SharePending, Apart
    <2>2. Queue(p) /\ UNCHANGED task
        BY <1>5 DEF GrantWaiting
    <2> HIDE DEF p
    <2> QED BY <2>1, <2>2, QueueApart, NoTask
  <1>6. ASSUME RefreshTick PROVE TasksAside /\ UNCHANGED pending
      BY <1>1, <1>6, FreeTame DEF RefreshTick
  <1> QED BY <1>2, <1>3, <1>4, <1>5, <1>6, PendingSame DEF ShareCall

\* Calls on grants, and resolutions, that go on.
LEMMA ShareTaskAside ==
    ASSUME Inv, NEW t \in Tasks, ShareTask(t)
    PROVE  TasksAside /\ (PendingApart => PendingApart')
  <1>0. TypeInv /\ SharedInv /\ Shape(task[t]) /\ Idle.kind \in Tame /\ \A w \in Later : w.kind \in Tame
      BY DEF Inv, TypeInv, EntriesOK, TasksOK, Later, Idle, ResolveRec, Tame
  <1>1. ASSUME RefreshRead(t) PROVE TasksAside /\ UNCHANGED pending
    <2> DEFINE w == [task[t] EXCEPT !.seen = Active]
    <2>1. task[t].kind = "refresh" /\ task[t] \in RefreshRec /\ Begin(t, w) /\ UNCHANGED pending
        BY <1>0, <1>1 DEF RefreshRead, Shape
    <2>2. w.kind \in Tame
        BY <2>1 DEF RefreshRec, Tame
    <2> HIDE DEF w
    <2> QED BY <1>0, <2>1, <2>2, BeginTame
  <1>2. ASSUME RefreshSweep(t) PROVE TasksAside /\ UNCHANGED pending
    <2>1. task[t].kind = "refresh" /\ task[t].then \in Later /\ Begin(t, Settling(task[t].after, TRUE, task[t].then)) /\ UNCHANGED pending
        BY <1>0, <1>2 DEF RefreshSweep, Shape, RefreshRec
    <2>2. Settling(task[t].after, TRUE, task[t].then).kind \in Tame
        BY <1>0, <2>1, EndTame
    <2> QED BY <1>0, <2>1, <2>2, BeginTame
  <1>3. ASSUME StoreGrant(t) PROVE TasksAside /\ UNCHANGED pending
    <2>1. Refresh(task[t].after, task[t].then).kind \in Tame
        BY DEF Refresh, Tame
    <2> QED BY <1>0, <1>3, <2>1, BeginTame DEF StoreGrant
  <1>4. ASSUME ConfirmWrite(t) PROVE TasksAside /\ (PendingApart => PendingApart')
    <2> DEFINE c == task[t]
    <2> DEFINE w == GrantTask(GrantOf(c.q, c.read, c.person), c.q)
    <2>1. c.kind = "confirm" /\ c \in ConfirmRec /\ (Begin(t, Idle) \/ Begin(t, w))
        BY <1>0, <1>4 DEF ConfirmWrite, Shape
    <2>2. w.kind \in Tame
        BY DEF GrantTask, Tame
    <2>3. TasksAside
      <3> HIDE DEF w
      <3> QED BY <1>0, <2>1, <2>2, BeginTame
    <2>4. c.q \in Pendings /\ c.read \in ShareProposal /\ c.read.kind = "share" /\ pending[c.q].kind = "share"
        BY <1>0, <2>1 DEF SharedInv, ConfirmedAsRead, AsRead, ConfirmRec, ShareProposal
    <2>5. pending[c.q] \in Proposal
        BY <1>0, <2>1, <2>4 DEF TypeInv, EntriesOK, PendingOK, SharedInv, ConfirmedAsRead, AsRead
    <2>6. \/ UNCHANGED pending
          \/ \E new : new.kind = "share" /\ pending' = [pending EXCEPT ![c.q] = new]
      <3> DEFINE n1 == [c.read EXCEPT !.status = pending[c.q].status, !.said = TRUE]
      <3> DEFINE n2 == [pending[c.q] EXCEPT !.status = "confirmed", !.said = TRUE]
      <3> DEFINE n3 == [pending[c.q] EXCEPT !.status = "executing", !.said = TRUE]
      <3>1. n1.kind = "share"
          BY <2>4 DEF ShareProposal
      <3>2. n2.kind = "share" /\ n3.kind = "share"
          BY <2>4, <2>5 DEF Proposal, ShareProposal
      <3>3. \/ UNCHANGED pending \/ pending' = [pending EXCEPT ![c.q] = n1]
            \/ pending' = [pending EXCEPT ![c.q] = n2] \/ pending' = [pending EXCEPT ![c.q] = n3]
          BY <1>4 DEF ConfirmWrite
      <3> HIDE DEF n1, n2, n3
      <3> QED BY <3>1, <3>2, <3>3
    <2> HIDE DEF c
    <2>7. PendingApart => PendingApart'
      <3>1. CASE UNCHANGED pending
          BY <3>1, PendingSame
      <3>2. CASE \E new : new.kind = "share" /\ pending' = [pending EXCEPT ![c.q] = new]
        <4>1. PICK new : new.kind = "share" /\ pending' = [pending EXCEPT ![c.q] = new]
            BY <3>2
        <4> QED BY <1>0, <2>4, <4>1, PutApart DEF Apart
      <3> QED BY <2>6, <3>1, <3>2
    <2> QED BY <2>3, <2>7
  <1>5. ASSUME ResolveRead(t) PROVE TasksAside /\ UNCHANGED pending
    <2> DEFINE w == [task[t] EXCEPT !.read = TRUE, !.rows = [q \in {q \in Pendings : Waits(q, task[t].write)} |-> pending[q]]]
    <2>1. task[t].kind = "resolve" /\ task[t] \in ResolveRec /\ (Begin(t, Idle) \/ Begin(t, w)) /\ UNCHANGED pending
        BY <1>0, <1>5 DEF ResolveRead, Shape
    <2>2. w.kind \in Tame
        BY <2>1 DEF ResolveRec, Tame
    <2> HIDE DEF w
    <2> QED BY <1>0, <2>1, <2>2, BeginTame
  <1>6. ASSUME NEW q \in DOMAIN task[t].rows, ResolveOne(t, q), task[t].kind = "resolve"
        PROVE  TasksAside /\ (PendingApart => PendingApart')
    <2> DEFINE p == task[t].rows[q]
    <2> DEFINE rest1 == Restrict(task[t].rows, DOMAIN task[t].rows \ {q})
    <2> DEFINE next == IF DOMAIN rest1 = {} THEN Idle ELSE [task[t] EXCEPT !.rows = rest1]
    <2> DEFINE resolved == [p EXCEPT !.rid = RidOf(p.e), !.home = row[RidOf(p.e)].home, !.write = None]
    <2> DEFINE g == GrantTask(GrantOf(q, resolved, Person(p.who)), q)
    <2> DEFINE w == [g EXCEPT !.then = next]
    <2>1. task[t] \in ResolveRec /\ task[t].rows \in Some(Pendings, ShareProposal)
        BY <1>0, <1>6 DEF Shape, ResolveRec
    <2>2. q \in Pendings /\ p \in ShareProposal
        BY <1>6, <2>1, SomeIs
    <2>3. next.kind \in Tame
      <3> HIDE DEF rest1
      <3> QED BY <1>0, <2>1 DEF ResolveRec, Tame
    <2>4. w.kind \in Tame
      <3> HIDE DEF next
      <3> QED BY DEF GrantTask, Tame
    <2>5. Begin(t, next) \/ Begin(t, w)
        BY <1>6 DEF ResolveOne
    <2>6. TasksAside
      <3> HIDE DEF w, next
      <3> QED BY <1>0, <1>6, <2>3, <2>4, <2>5, BeginTame
    <2> DEFINE n1 == [pending[q] EXCEPT !.status = "failed"]
    <2> DEFINE n2 == [resolved EXCEPT !.status = pending[q].status]
    <2> DEFINE n3 == [resolved EXCEPT !.status = "pending"]
    <2>7. pending[q] \in Proposal
      <3>1. InRows(task[t], q)
          BY <1>6 DEF InRows, HasRead, Resolution, Makers
      <3> QED BY <1>0, <2>2, <3>1 DEF SharedInv, ReadStillWaits, TypeInv, EntriesOK, PendingOK
    <2>8. n2.kind = "share" /\ n3.kind = "share"
        BY <2>2 DEF ShareProposal
    <2>9. pending' = [pending EXCEPT ![q] = n1] \/ pending' = [pending EXCEPT ![q] = n2] \/ pending' = [pending EXCEPT ![q] = n3]
        BY <1>6 DEF ResolveOne
    <2>10. Apart(pending[q]) => Apart(n1) /\ Apart(n2) /\ Apart(n3)
      <3>1. Apart(n2) /\ Apart(n3)
        <4> HIDE DEF n2, n3
        <4> QED BY <2>8 DEF Apart
      <3> QED BY <2>7, <3>1, StatusApart
    <2> HIDE DEF n1, n2, n3
    <2> QED BY <1>0, <2>2, <2>6, <2>9, <2>10, PutApart
  <1> QED BY <1>1, <1>2, <1>3, <1>4, <1>5, <1>6, PendingSame DEF ShareTask, ResolveStep

\* Calls on questions.
LEMMA NeedCallAside ==
    ASSUME TypeInv, NeedCall
    PROVE  TasksAside /\ UNCHANGED pending
  <1>1. ASSUME NEW a \in quota.callers \ {Worker}, NEW q \in Asked, Ask(a, q) PROVE TasksAside /\ UNCHANGED pending
    <2>1. OpenTask(q).kind \in Tame
        BY DEF OpenTask, Tame
    <2> QED BY <1>1, <2>1, FreeTame, NoTask DEF Ask, rest
  <1>2. ASSUME NEW q \in Asked, NEW r \in Rids, Meet(q, r) PROVE TasksAside /\ UNCHANGED pending
    <2> DEFINE w == [kind |-> "meet", q |-> q, rid |-> r, e |-> row[r].e, home |-> row[r].home,
                     visible |-> PersonSees(need[q].asker, r)]
    <2>1. w.kind \in Tame /\ HasTask /\ Begin(FreeTask, w) /\ UNCHANGED pending
        BY <1>2 DEF Meet, rest, Tame
    <2> HIDE DEF w
    <2> QED BY <2>1, FreeTame
  <1>3. ASSUME NEW q \in Asked, ExpireAsk(q) PROVE TasksAside /\ UNCHANGED pending
      BY <1>3, NoTask DEF ExpireAsk
  <1> QED BY <1>1, <1>2, <1>3 DEF NeedCall
\* ... or goes on with it.
LEMMA NeedTaskAside ==
    ASSUME TypeInv, NEW t \in Tasks, NeedTask(t)
    PROVE  TasksAside /\ UNCHANGED pending
  <1>0. Shape(task[t]) /\ Idle.kind \in Tame /\ Refreshing.kind \in Tame
      BY DEF TypeInv, EntriesOK, TasksOK, Idle, Refreshing, Refresh, Tame
  <1>1. ASSUME OpenJoin(t) PROVE TasksAside /\ UNCHANGED pending
      BY <1>0, <1>1, BeginTame DEF OpenJoin, rest
  <1>2. ASSUME NEW w, w = [task[t] EXCEPT !.step = "grade"] \/ w = [task[t] EXCEPT !.step = "match"], task[t].kind = "open", Begin(t, w)
        PROVE  TasksAside
    <2>1. task[t] \in OpenRec
        BY <1>0, <1>2 DEF Shape
    <2>2. w.kind \in Tame
        BY <1>2, <2>1 DEF OpenRec, Tame
    <2> QED BY <1>2, <2>2, BeginTame
  <1>3. ASSUME OpenMatch(t) PROVE TasksAside /\ UNCHANGED pending
    <2>1. PICK to : Begin(t, [task[t] EXCEPT !.step = "show", !.to = to])
        BY <1>3 DEF OpenMatch
    <2> DEFINE w == [task[t] EXCEPT !.step = "show", !.to = to]
    <2>2. task[t].kind = "open" /\ task[t] \in OpenRec /\ UNCHANGED pending
        BY <1>0, <1>3 DEF OpenMatch, rest, Shape
    <2>3. w.kind \in Tame /\ Begin(t, w)
        BY <2>1, <2>2 DEF OpenRec, Tame
    <2> HIDE DEF w
    <2> QED BY <2>2, <2>3, BeginTame
  <1>4. ASSUME NEW to \in task[t].to, ShowTo(t, to) PROVE TasksAside /\ UNCHANGED pending
    <2> DEFINE next == [task[t] EXCEPT !.to = @ \ {to}]
    <2> DEFINE g == GrantTask(NewGrant(task[t].q, task[t].q, to, None, need[task[t].q].home, None), None)
    <2> DEFINE w == [g EXCEPT !.then = next]
    <2>1. task[t].kind = "open" /\ task[t] \in OpenRec /\ UNCHANGED pending /\ (Begin(t, next) \/ Begin(t, w))
        BY <1>0, <1>4 DEF ShowTo, rest, Shape
    <2>2. next.kind \in Tame
        BY <2>1 DEF OpenRec, Tame
    <2>3. w.kind \in Tame
      <3> HIDE DEF next
      <3> QED BY DEF GrantTask, Tame
    <2> HIDE DEF w, next
    <2> QED BY <2>1, <2>2, <2>3, BeginTame
  <1>5. ASSUME ShowDone(t) PROVE TasksAside /\ UNCHANGED pending
      BY <1>0, <1>5, BeginTame DEF ShowDone, rest
  <1>6. ASSUME MeetWrite(t) PROVE TasksAside /\ UNCHANGED pending
    <2> DEFINE w == [kind |-> "open", step |-> "show", q |-> task[t].q, to |-> OwnersFor(task[t].home, need[task[t].q].asker)]
    <2>1. task[t].kind = "meet" /\ (Begin(t, Idle) \/ Begin(t, w)) /\ UNCHANGED pending /\ w.kind \in Tame
        BY <1>6 DEF MeetWrite, rest, Tame
    <2> HIDE DEF w
    <2> QED BY <1>0, <2>1, BeginTame
  <1>7. ASSUME CloseRevoke(t) PROVE TasksAside /\ UNCHANGED pending
      BY <1>0, <1>7, BeginTame DEF CloseRevoke
  <1>8. OpenGrade(t) => TasksAside /\ UNCHANGED pending
      BY <1>2 DEF OpenGrade, rest
  <1>9. OpenNow(t) => TasksAside /\ UNCHANGED pending
      BY <1>2 DEF OpenNow, rest
  <1> QED BY <1>1, <1>3, <1>4, <1>5, <1>6, <1>7, <1>8, <1>9 DEF NeedTask, Show

\* What a person does.
LEMMA PersonCallAside ==
    ASSUME TypeInv, NEW p \in quota.callers \cap People, PersonCall(p)
    PROVE  TasksAside /\ (PendingApart => PendingApart')
  <1>1. ASSUME NEW q \in Pendings, ConfirmRead(p, q) PROVE TasksAside /\ UNCHANGED pending
    <2> DEFINE w == [kind |-> "confirm", q |-> q, person |-> p, read |-> pending[q]]
    <2>1. HasTask /\ Begin(FreeTask, w) /\ UNCHANGED pending /\ w.kind \in Tame
        BY <1>1 DEF ConfirmRead, Tame
    <2> HIDE DEF w
    <2> QED BY <2>1, FreeTame
  <1>2. ASSUME NEW q \in Pendings, Decline(p, q) PROVE TasksAside /\ (PendingApart => PendingApart')
    <2>1. pending[q] \in Proposal /\ UNCHANGED task
        BY <1>2 DEF Decline, OwnProposal, TypeInv, EntriesOK, PendingOK
    <2> DEFINE n == [pending[q] EXCEPT !.status = "rejected"]
    <2>2. UNCHANGED pending \/ pending' = [pending EXCEPT ![q] = n]
        BY <1>2 DEF Decline
    <2>3. Apart(pending[q]) => Apart(n)
        BY <2>1, StatusApart
    <2> HIDE DEF n
    <2> QED BY <2>1, <2>2, <2>3, PutApart, PendingSame, NoTask
  <1>3. ASSUME NEW q \in Asked, ConfirmAsk(p, q) PROVE TasksAside /\ UNCHANGED pending
    <2>1. OpenTask(q).kind \in Tame
        BY DEF OpenTask, Tame
    <2> QED BY <1>3, <2>1, FreeTame DEF ConfirmAsk, rest
  <1>4. ASSUME NEW q \in Asked, Withdraw(p, q) PROVE TasksAside /\ UNCHANGED pending
    <2> DEFINE w == [kind |-> "close", q |-> q]
    <2>1. HasTask /\ Begin(FreeTask, w) /\ UNCHANGED pending /\ w.kind \in Tame
        BY <1>4 DEF Withdraw, rest, Tame
    <2> HIDE DEF w
    <2> QED BY <2>1, FreeTame
  <1>5. ASSUME NEW q \in Asked, Dismiss(p, q) PROVE TasksAside /\ UNCHANGED pending
      BY <1>5, NoTask DEF Dismiss, rest
  <1>6. ASSUME NEW x \in near, Answer(p, x) PROVE TasksAside /\ (PendingApart => PendingApart')
    <2> DEFINE to == need[x.q].asker
    <2> DEFINE r == row[x.rid]
    <2> DEFINE w == GrantTask(NewGrant(x.rid, r.e, to, p, r.home, None), None)
    <2> DEFINE n == SharePending(p, r.e, x.rid, to, r.home, None, "pending")
    <2>1. HasTask /\ \/ UNCHANGED <<pending, task>>
                     \/ Begin(FreeTask, w) /\ UNCHANGED pending
                     \/ Queue(n) /\ UNCHANGED task
        BY <1>6 DEF Answer
    <2>2. w.kind \in Tame /\ Apart(n)
        BY DEF GrantTask, SharePending, Tame, Apart
    <2> HIDE DEF w, n
    <2> QED BY <2>1, <2>2, FreeTame, QueueApart, PendingSame, NoTask
  <1> QED BY <1>1, <1>2, <1>3, <1>4, <1>5, <1>6, PendingSame DEF PersonCall

\* The review queue: a merge that runs is of two things.
LEMMA QueueCallAside ==
    ASSUME TypeInv, PendingApart, NEW a \in quota.approvers, NEW q \in Pendings, QueueCall(a, q)
    PROVE  TasksAside /\ PendingApart'
  <1> DEFINE p == pending[q]
  <1> DEFINE n == [pending[q] EXCEPT !.status = "executing"]
  <1>0. p # None => p \in Proposal /\ Apart(p) /\ Apart(n)
      BY StatusApart DEF TypeInv, EntriesOK, PendingOK, PendingApart
  <1>1. ASSUME p # None, pending' = [pending EXCEPT ![q] = n] PROVE PendingApart'
    <2> HIDE DEF n
    <2> QED BY <1>0, <1>1, PutApart
  <1>2. ASSUME Approve(a, q) PROVE TasksAside /\ PendingApart'
    <2> DEFINE w == CASE p.kind = "rehome" -> MoveTask(p.rid, p.e, p.from, p.to, IsPerson(a), q)
                         [] p.kind = "upsert" -> WriteTask(p.e, p.floor, p.by, p.worker, q)
                         [] p.kind = "typed" -> [kind |-> "typed", rid |-> p.rid, floor |-> None, read |-> row[p.rid], after |-> q]
    <2>1. p # None /\ p.kind \in {"upsert", "rehome", "typed"} /\ pending' = [pending EXCEPT ![q] = n] /\ HasTask /\ Begin(FreeTask, w)
        BY <1>2 DEF Approve
    <2>2. w.kind \in Tame
        BY <2>1 DEF MoveTask, WriteTask, Tame
    <2> HIDE DEF w
    <2> QED BY <1>1, <2>1, <2>2, FreeTame
  <1>3. ASSUME Reject(a, q) PROVE TasksAside /\ PendingApart'
    <2>1. \A o \in Pendings : o = q \/ Waits(o, q) => pending[o] \in Proposal
        BY <1>3 DEF Reject, Waits, TypeInv, EntriesOK, PendingOK
    <2>2. \A o \in Pendings : o = q \/ Waits(o, q) => Apart([pending[o] EXCEPT !.status = "rejected"])
        BY <2>1, StatusApart DEF PendingApart
    <2>3. pending' = [o \in Pendings |-> IF o = q \/ Waits(o, q) THEN [pending[o] EXCEPT !.status = "rejected"] ELSE pending[o]]
        BY <1>3 DEF Reject
    <2>4. \A o \in Pendings : Apart(pending'[o])
        BY <2>2, <2>3, Zenon DEF PendingApart
    <2> QED BY <1>3, <2>4, NoTask DEF Reject, PendingApart
  <1>4. ASSUME ApproveShare(a, q) PROVE TasksAside /\ PendingApart'
    <2>1. GrantTask(GrantOf(q, p, p.who), q).kind \in Tame
        BY DEF GrantTask, Tame
    <2>2. p # None /\ pending' = [pending EXCEPT ![q] = n] /\ HasTask /\ Begin(FreeTask, GrantTask(GrantOf(q, p, p.who), q))
        BY <1>4 DEF ApproveShare
    <2> QED BY <1>1, <2>1, <2>2, FreeTame
  <1>5. ASSUME ApproveThing(a, q) PROVE TasksAside /\ PendingApart'
    <2> DEFINE w == CASE p.kind = "merge" -> MergeTask(p.keep, p.drop, q)
                         [] p.kind = "fold" -> FoldTask(p.keep, p.drop, q)
                         [] p.kind = "delete" -> [kind |-> "delete", drop |-> p.drop, after |-> q]
    <2>1. p # None /\ p.kind \in {"merge", "fold", "delete"} /\ pending' = [pending EXCEPT ![q] = n] /\ HasTask /\ Begin(FreeTask, w)
        BY <1>5 DEF ApproveThing
    <2>2. Fresh(w)
      <3>1. CASE p.kind = "merge"
          BY <1>0, <2>1, <3>1 DEF MergeTask, Fresh, Apart
      <3>2. CASE p.kind # "merge"
          BY <2>1, <3>2 DEF FoldTask, Fresh
      <3> QED BY <3>1, <3>2
    <2> HIDE DEF w
    <2>3. FreeTask \in Tasks /\ task[FreeTask].kind = "idle"
        BY <2>1, FreeTaskIs DEF Idle
    <2> QED BY <1>1, <2>1, <2>2, <2>3, BeginFresh DEF Past
  <1> QED BY <1>2, <1>3, <1>4, <1>5 DEF QueueCall

\* Calls on things that leave links alone.
LEMMA ThingCallAside ==
    ASSUME TypeInv, PendingApart, ThingCall, ~RestartThings, \A r \in Rids : ~DeleteEntry(r),
           \A r \in Rids, n \in Nouns, x \in Tids : ~Unlink(r, n, x)
    PROVE  /\ TasksAside /\ PendingApart'
           /\ UNCHANGED <<thing, about, said, unseen, row, excused>>
  <1>1. ASSUME NEW r \in Rids, NEW ns \in SUBSET Nouns, NEW asks \in quota.asks, Link(r, ns, asks)
        PROVE  TasksAside /\ UNCHANGED <<pending, thing, about, said, unseen, row, excused>>
    <2>1. LinkTask(r, ns, asks).kind \in Tame
        BY DEF LinkTask, Idle, Tame
    <2> QED BY <1>1, <2>1, FreeTame DEF Link, others, thingVars
  <1>2. ASSUME NEW x \in Tids, NEW n \in Nouns, DeleteThing(n, x)
        PROVE  TasksAside /\ UNCHANGED <<pending, thing, about, said, unseen, row, excused>>
    <2> DEFINE w == [kind |-> "stray", x |-> x, counted |-> TRUE]
    <2>1. w.kind \in Tame /\ Begin(FreeTask, w)
        BY <1>2 DEF DeleteThing, Tame
    <2> HIDE DEF w
    <2> QED BY <1>2, <2>1, FreeTame DEF DeleteThing, others, thingVars
  <1>3. ASSUME NEW x \in Tids, NEW n \in Nouns, Rename(x, n)
        PROVE  TasksAside /\ UNCHANGED <<pending, thing, about, said, unseen, row, excused>>
    <2> DEFINE w == [kind |-> "rename", x |-> x, names |-> thing[x].names \cup {n}]
    <2>1. w.kind \in Tame /\ Begin(FreeTask, w)
        BY <1>3 DEF Rename, Tame
    <2> HIDE DEF w
    <2> QED BY <1>3, <2>1, FreeTame DEF Rename, others, thingVars
  <1>4. ASSUME NEW x \in Tids, NEW y \in Tids, Relate(x, y) \/ Unrelate(x, y)
        PROVE  TasksAside /\ UNCHANGED <<pending, thing, about, said, unseen, row, excused>>
      BY <1>4, NoTask DEF Relate, Unrelate, others
  <1>5. ASSUME NEW x \in Tids, NEW y \in Tids, NEW propose \in BOOLEAN, Merge(Worker, x, y, propose)
        PROVE  TasksAside /\ PendingApart' /\ UNCHANGED <<thing, about, said, unseen, row, excused>>
    <2> DEFINE p == MergePending(Worker, x, y)
    <2> DEFINE w == MergeTask(x, y, None)
    <2>1. x # y /\ ((Queue(p) /\ UNCHANGED task) \/ (HasTask /\ Begin(FreeTask, w) /\ UNCHANGED pending))
        BY <1>5 DEF Merge
    <2>2. Apart(p) /\ Fresh(w)
        BY <2>1 DEF MergePending, MergeTask, Apart, Fresh
    <2>3. HasTask => FreeTask \in Tasks /\ task[FreeTask].kind = "idle"
        BY FreeTaskIs DEF Idle
    <2> HIDE DEF p, w
    <2>4. TasksAside /\ PendingApart'
        BY <2>1, <2>2, <2>3, QueueApart, PendingSame, BeginFresh, NoTask DEF Past
    <2> QED BY <1>5, <2>4 DEF Merge, others, thingVars
  <1>6. ASSUME NEW keep \in Rids, NEW drop \in Rids, NEW propose \in BOOLEAN, Fold(keep, drop, propose)
        PROVE  TasksAside /\ PendingApart' /\ UNCHANGED <<thing, about, said, unseen, row, excused>>
    <2> DEFINE p == RefPending("fold", Worker, keep, drop)
    <2> DEFINE w == FoldTask(keep, drop, None)
    <2>1. (Queue(p) /\ UNCHANGED task) \/ (HasTask /\ Begin(FreeTask, w) /\ UNCHANGED pending)
        BY <1>6 DEF Fold
    <2>2. Apart(p) /\ w.kind \in Tame
        BY DEF RefPending, FoldTask, Apart, Tame
    <2> HIDE DEF p, w
    <2>4. TasksAside /\ PendingApart'
        BY <2>1, <2>2, QueueApart, PendingSame, FreeTame, NoTask
    <2> QED BY <1>6, <2>4 DEF Fold, others, thingVars
  <1>7. ASSUME NEW r \in Rids, NEW propose \in BOOLEAN, WorkerDelete(r, propose)
        PROVE  TasksAside /\ PendingApart' /\ UNCHANGED <<thing, about, said, unseen, row, excused>>
    <2> DEFINE p == RefPending("delete", Worker, None, r)
    <2> DEFINE w == [kind |-> "delete", drop |-> r, after |-> None]
    <2>1. (Queue(p) /\ UNCHANGED task) \/ (HasTask /\ Begin(FreeTask, w) /\ UNCHANGED pending)
        BY <1>7 DEF WorkerDelete
    <2>2. Apart(p) /\ w.kind \in Tame
        BY DEF RefPending, Apart, Tame
    <2> HIDE DEF p, w
    <2>4. TasksAside /\ PendingApart'
        BY <2>1, <2>2, QueueApart, PendingSame, FreeTame, NoTask
    <2> QED BY <1>7, <2>4 DEF WorkerDelete, others, thingVars
  <1> QED BY <1>1, <1>2, <1>3, <1>4, <1>5, <1>6, <1>7, PendingSame DEF ThingCall

\* Calls on things that only read.
LEMMA ThingTaskAside ==
    ASSUME TypeInv, NEW t \in Tasks, StrayCount(t) \/ FoldRead(t)
    PROVE  TasksAside /\ UNCHANGED <<pending, thing, about, said, unseen, row, excused>>
  <1>0. Shape(task[t]) /\ Idle.kind \in Tame
      BY DEF TypeInv, EntriesOK, TasksOK, Idle, Tame
  <1>1. CASE StrayCount(t)
    <2> DEFINE w == [task[t] EXCEPT !.counted = TRUE]
    <2>1. task[t].kind = "stray" /\ task[t] \in StrayRec /\ (Begin(t, w) \/ Begin(t, Idle))
        BY <1>0, <1>1 DEF StrayCount, Shape
    <2>2. w.kind \in Tame
        BY <2>1 DEF StrayRec, Tame
    <2> HIDE DEF w
    <2>3. TasksAside
        BY <1>0, <2>1, <2>2, BeginTame
    <2> QED BY <1>1, <2>3 DEF StrayCount, others, thingVars
  <1>2. CASE FoldRead(t)
    <2> DEFINE read(xs) == [task[t] EXCEPT !.step = "move", !.home = row[task[t].keep].home, !.xs = xs]
    <2>0. PICK xs : Begin(t, read(xs)) \/ Begin(t, Failed(task[t].after))
        BY <1>2 DEF FoldRead
    <2> DEFINE w == read(xs)
    <2>1. task[t].kind = "fold" /\ task[t] \in FoldRec /\ (Begin(t, w) \/ Begin(t, Failed(task[t].after)))
        BY <1>0, <1>2, <2>0 DEF FoldRead, Shape
    <2>2. w.kind \in Tame
        BY <2>1 DEF FoldRec, Tame
    <2> HIDE DEF w
    <2>3. TasksAside
        BY <1>0, <2>1, <2>2, EndedTame, BeginTame
    <2> QED BY <1>2, <2>3 DEF FoldRead, others, thingVars
  <1> QED BY <1>1, <1>2

--------------------------------------------------------------------------
(* Steps on links                                                          *)

\* A step keeps all that calls on things go by, if links that stay are seen as before, and new ones are seen.
LEMMA LinksKeptThrough ==
    ASSUME TypeInv, TypeInv', LinkInv, ThingsMove(thing, thing', unseen, unseen'), excused \subseteq excused', PendingApart',
           \A r \in Rids : RowStays(r), \A u \in Tasks : Knows(task'[u], thing', unseen'),
           \A u \in Tasks : \/ CallGoes(task[u], task'[u], thing, thing', unseen')
                            \/ Gave(task[u], thing, task, unseen, thing'),
           said' \subseteq about', MovedStand(said', about', task', thing'),
           \A p \in about' \ about : p[2] \notin unseen' /\ row'[p[1]].e \notin excused' =>
               LinkSeen(p[1], p[2], row'[p[1]].home, thing', task', unseen')
    PROVE  LinkInv'
  <1>1. TasksLinked'
      BY DEF TasksLinked
  <1>2. LinksSeen'
    <2> SUFFICES ASSUME NEW p \in about, p \in about', p[2] \notin unseen', row'[p[1]].e \notin excused'
                 PROVE  LinkSeen(p[1], p[2], row'[p[1]].home, thing', task', unseen')
        BY DEF LinksSeen
    <2> QED BY LinksSeenStay DEF LinkInv
  <1> QED BY <1>1, <1>2 DEF LinkInv

\* ... and no merge is through with it.
LEMMA LinksKept ==
    ASSUME TypeInv, TypeInv', LinkInv, ThingsMove(thing, thing', unseen, unseen'), excused \subseteq excused', PendingApart',
           \A r \in Rids : RowStays(r),
           \A u \in Tasks : Knows(task'[u], thing', unseen') /\ CallGoes(task[u], task'[u], thing, thing', unseen'),
           said' \subseteq about', MovedStand(said', about', task', thing'),
           \A p \in about' \ about : p[2] \notin unseen' /\ row'[p[1]].e \notin excused' =>
               LinkSeen(p[1], p[2], row'[p[1]].home, thing', task', unseen')
    PROVE  LinkInv'
  BY LinksKeptThrough

\* Where things stay and calls are aside, calls know what they knew.
LEMMA AsideThings ==
    ASSUME TasksLinked, UNCHANGED <<thing, unseen>>, TasksAside
    PROVE  /\ ThingsMove(thing, thing', unseen, unseen')
           /\ \A u \in Tasks : Knows(task'[u], thing', unseen') /\ CallGoes(task[u], task'[u], thing, thing', unseen')
           /\ \A u \in Tasks : Past(task'[u]) => task'[u] = task[u]
  <1>1. \A u \in Tasks : Knows(task'[u], thing', unseen') /\ CallGoes(task[u], task'[u], thing, thing', unseen')
      BY AsideKnows DEF TasksLinked, TasksAside
  <1>2. \A u \in Tasks : Past(task'[u]) => task'[u] = task[u]
      BY DEF Aside, Fresh, Past, TasksAside
  <1> QED BY <1>1, <1>2 DEF ThingsMove

\* A link is taken back.
LEMMA UnlinkKept ==
    ASSUME TypeInv, TypeInv', LinkInv, NEW r \in Rids, NEW n \in Nouns, NEW x \in Tids, Unlink(r, n, x)
    PROVE  LinkInv'
  <1>1. /\ about' = about \ {<<r, x>>} /\ said' = said \ {<<r, y>> : y \in Same(x)} /\ HasTask
        /\ UNCHANGED <<row, pending, thing, unseen, excused>>
      BY DEF Unlink, others
  <1>2. TasksAside
    <2> DEFINE w == [kind |-> "stray", x |-> x, counted |-> FALSE]
    <2>1. w.kind \in Tame /\ Begin(FreeTask, w)
        BY DEF Unlink, Tame
    <2> HIDE DEF w
    <2> QED BY <1>1, <2>1, FreeTame
  <1>3. /\ ThingsMove(thing, thing', unseen, unseen')
        /\ \A u \in Tasks : Knows(task'[u], thing', unseen') /\ CallGoes(task[u], task'[u], thing, thing', unseen')
        /\ \A u \in Tasks : Past(task'[u]) => task'[u] = task[u]
      BY <1>1, <1>2, AsideThings DEF LinkInv
  <1>4. x \in Same(x) /\ \A u \in Tasks : Past(task[u]) /\ task[u].keep = x => task[u].drop \in Same(x)
      BY DEF Same, Past
  <1>5. said' \subseteq about'
      BY <1>1, <1>4 DEF LinkInv
  <1>6. MovedStand(said', about', task', thing')
    <2>1. \A u \in Tasks : Past(task[u]) => \A s \in task[u].from : <<s, task[u].keep>> \in about \ about' =>
              <<s, task[u].drop>> \notin said'
        BY <1>1, <1>4
    <2> QED BY <1>1, <1>3, <2>1, MovedStay DEF LinkInv
  <1>7. PendingApart'
      BY <1>1, PendingSame DEF LinkInv
  <1> QED BY <1>1, <1>3, <1>5, <1>6, <1>7, RowsStay, LinksKept

\* An entry goes.
LEMMA EntryGoneKept ==
    ASSUME TypeInv, TypeInv', LinkInv, NEW r \in Rids, Removed(r), about' = WithoutEntry(about, r), said' = WithoutEntry(said, r),
           UNCHANGED <<thing, unseen, excused>>, TasksAside, UNCHANGED pending
    PROVE  LinkInv'
  <1>1. /\ ThingsMove(thing, thing', unseen, unseen')
        /\ \A u \in Tasks : Knows(task'[u], thing', unseen') /\ CallGoes(task[u], task'[u], thing, thing', unseen')
        /\ \A u \in Tasks : Past(task'[u]) => task'[u] = task[u]
      BY AsideThings DEF LinkInv
  <1>2. said' \subseteq about' /\ about' \subseteq about
      BY DEF LinkInv, WithoutEntry
  <1>3. MovedStand(said', about', task', thing')
    <2>1. \A u \in Tasks : Past(task[u]) => \A s \in task[u].from : <<s, task[u].keep>> \in about \ about' =>
              <<s, task[u].drop>> \notin said'
        BY DEF WithoutEntry
    <2>2. \A p \in said' : p \in said
        BY DEF WithoutEntry
    <2> QED BY <1>1, <2>1, <2>2, MovedStay DEF LinkInv
  <1>4. ASSUME NEW s \in Rids PROVE RowStays(s)
    <2>1. row'[s] = IF s = r THEN None ELSE row[s]
        BY DEF Removed, TypeInv, EntriesOK, RowsOK
    <2>2. row[s] # None => row[s].home \in Homes
      <3>1. row[s] # None => row[s] \in Row
          BY RowIs DEF TypeInv, EntriesOK
      <3> QED BY <3>1 DEF Row
    <2> QED BY <2>1, <2>2, AboveIn DEF RowStays
  <1>5. PendingApart'
      BY PendingSame DEF LinkInv
  <1> QED BY <1>1, <1>2, <1>3, <1>4, <1>5, LinksKept

\* An entry is deleted: by a call that begins,
LEMMA DeleteEntryKept ==
    ASSUME TypeInv, TypeInv', LinkInv, NEW r \in Rids, DeleteEntry(r)
    PROVE  LinkInv'
  <1>1. Refreshing.kind \in Tame
      BY DEF Refreshing, Refresh, Tame
  <1>2. /\ Removed(r) /\ about' = WithoutEntry(about, r) /\ said' = WithoutEntry(said, r)
        /\ UNCHANGED <<thing, unseen, excused, pending>> /\ HasTask /\ Begin(FreeTask, Refreshing)
      BY DEF DeleteEntry, Delete
  <1>3. TasksAside
      BY <1>1, <1>2, FreeTame
  <1> QED BY <1>2, <1>3, EntryGoneKept

\* ... or one that goes on.
LEMMA DeletedKept ==
    ASSUME TypeInv, TypeInv', LinkInv, NEW t \in Tasks, FoldDelete(t) \/ DeleteTask(t)
    PROVE  LinkInv'
  <1> DEFINE d == task[t]
  <1> DEFINE w == Refresh(d.after, Idle)
  <1>0. d.kind \in {"fold", "delete"} /\ d.drop \in Rids /\ w.kind \in Tame
    <2>1. d.kind \in {"fold", "delete"}
        BY DEF FoldDelete, DeleteTask
    <2>2. d.drop \in Rids
        BY <2>1 DEF TypeInv, EntriesOK, TasksOK, Shape, FoldRec, DeleteRec
    <2> QED BY <2>1, <2>2 DEF Refresh, Tame
  <1>1. UNCHANGED <<thing, unseen, excused, pending>>
      BY DEF FoldDelete, DeleteTask, others
  <1>2. Begin(t, w) \/ Begin(t, Failed(d.after))
      BY DEF FoldDelete, DeleteTask
  <1>3. TasksAside
    <2> HIDE DEF w
    <2> QED BY <1>0, <1>2, EndedTame, BeginTame
  <1>4. Deleted(d.drop) \/ UNCHANGED <<row, about, said>>
      BY DEF FoldDelete, DeleteTask
  <1>5. CASE Deleted(d.drop)
      BY <1>0, <1>1, <1>3, <1>5, EntryGoneKept DEF Deleted
  <1>6. CASE UNCHANGED <<row, about, said>>
      BY <1>1, <1>3, <1>6, RowsStay, PendingSame, AsideKept DEF LinksAside
  <1> QED BY <1>4, <1>5, <1>6

\* What a restart leaves half done is known to be lost.
LEMMA RestartKept ==
    ASSUME TypeInv, TypeInv', LinkInv, RestartThings
    PROVE  LinkInv'
  <1>1. /\ UNCHANGED <<thing, about, said, row, excused, pending>> /\ unseen' = unseen \cup HalfDone
        /\ \A u \in Tasks : task'[u] = Idle
      BY DEF RestartThings, Restart
  <1>2. \A u \in Tasks : /\ task[u].kind = "seen" => task[u].todo \subseteq HalfDone
                         /\ task[u].kind = "merge" => task[u].keep \in HalfDone
      BY DEF HalfDone
  <1>3. ThingsMove(thing, thing', unseen, unseen')
      BY <1>1 DEF ThingsMove
  <1>4. \A u \in Tasks : Knows(task'[u], thing', unseen')
      BY <1>1 DEF Knows, Idle
  <1>5. \A u \in Tasks : CallGoes(task[u], task'[u], thing, thing', unseen')
      BY <1>1, <1>2 DEF CallGoes, Shows, Past
  <1>6. MovedStand(said', about', task', thing')
      BY <1>1 DEF MovedStand, Past, Idle
  <1>7. PendingApart' /\ said' \subseteq about'
      BY <1>1, PendingSame DEF LinkInv
  <1> QED BY <1>1, <1>3, <1>4, <1>5, <1>6, <1>7, RowsStay, LinksKept

\* A step that moves an entry leaves links, things and what is lost as they are.
LEMMA MovedKept ==
    ASSUME TypeInv, TypeInv', LinkInv, UNCHANGED thingVars, TasksAside, PendingApart => PendingApart', excused \subseteq excused',
           \A r \in Rids : RowStays(r)
    PROVE  LinkInv'
  BY AsideKept DEF LinksAside, thingVars

\* A write over an entry goes up,
LEMMA WriteKept ==
    ASSUME TypeInv, TypeInv', LinkInv, UNCHANGED thingVars, TasksAside, PendingApart => PendingApart',
           NEW t \in Tasks, WriteStore(t)
    PROVE  LinkInv'
  <1> DEFINE s == RidFor(task[t].e)
  <1>1. /\ s \in Rids /\ row'[s].e = task[t].e /\ (row[s] # None => row[s].e = task[t].e)
        /\ excused \subseteq excused' /\ \A r \in Rids \ {s} : row'[r] = row[r]
        /\ row[s] # None /\ row[s].e \notin excused' => row'[s].home \in AtOrAbove(row[s].home)
      BY WriteUp
  <1>2. ASSUME NEW r \in Rids PROVE RowStays(r)
    <2>1. row[r] # None => row[r].home \in Homes
      <3>1. row[r] # None => row[r] \in Row
          BY RowIs DEF TypeInv, EntriesOK
      <3> QED BY <3>1 DEF Row
    <2> QED BY <1>1, <2>1, AboveIn DEF RowStays
  <1> QED BY <1>1, <1>2, MovedKept

\* What an entry is about is to follow it.
LEMMA FollowIs ==
    ASSUME TypeInv, NEW t \in Tasks, NEW r \in Rids, NEW to \in Homes, NEW next, next.kind \in Tame,
           Begin(t, Follow(r, to, next)), task[t].kind \notin {"seen", "merge"}
    PROVE  TasksAside /\ \A x \in ThingsOf(r) : Shows(task'[t], x, to)
  <1> DEFINE w == Follow(r, to, next)
  <1>1. task'[t] = w /\ Begin(t, w)
      BY DEF Begin, TypeInv, EntriesOK, TasksOK
  <1>2. Fresh(w) /\ \A x \in ThingsOf(r) : Shows(w, x, to)
      BY AboveIn DEF Follow, Seen, Fresh, Shows, Tame
  <1> HIDE DEF w
  <1> QED BY <1>1, <1>2, BeginFresh DEF Past

\* An entry that is moved is followed (MoveFollowed),
LEMMA MoveKept ==
    ASSUME TypeInv, TypeInv', LinkInv, UNCHANGED thingVars, NEW t \in Tasks, MoveFollowed(t)
    PROVE  LinkInv'
  <1> DEFINE m == task[t]
  <1> DEFINE follow == Follow(m.rid, m.to, Ended(m.after))
  <1>1. m.kind = "move" /\ m \in MoveRec /\ RowsOK /\ MoveApply(t, follow) /\ UNCHANGED pending
      BY DEF MoveFollowed, MoveApply, TypeInv, EntriesOK, TasksOK, Shape
  <1>2. m.rid \in Rids /\ m.to \in Homes
      BY <1>1 DEF MoveRec
  <1>3. CASE row[m.rid] = None
    <2>1. UNCHANGED <<row, excused>> /\ Begin(t, Ended(m.after))
        BY <1>1, <1>3 DEF MoveApply, Begin
    <2>2. TasksAside
        BY <1>1, <2>1, EndedTame, BeginTame
    <2> QED BY <1>1, <2>1, <2>2, RowsStay, PendingSame, MovedKept
  <1>4. CASE row[m.rid] # None
    <2>1. /\ row' = [row EXCEPT ![m.rid].home = m.to, ![m.rid].placed = @ \/ m.person]
          /\ Begin(t, follow) /\ excused \subseteq excused'
        BY <1>1, <1>4 DEF MoveApply, Begin
    <2>2. TasksAside /\ \A x \in ThingsOf(m.rid) : Shows(task'[t], x, m.to)
        BY <1>1, <1>2, <2>1, EndedTame, FollowIs
    <2>3. row'[m.rid].home = m.to /\ row'[m.rid].e = row[m.rid].e /\ \A r \in Rids \ {m.rid} : row'[r] = row[r]
      <3>1. row[m.rid] \in Row
          BY <1>1, <1>2, <1>4, RowIs
      <3> QED BY <1>1, <1>2, <2>1, <3>1 DEF RowsOK, Row
    <2>4. ASSUME NEW r \in Rids PROVE RowStays(r)
      <3>1. row[r] # None => row[r].home \in Homes
        <4>1. row[r] # None => row[r] \in Row
            BY RowIs DEF TypeInv, EntriesOK
        <4> QED BY <4>1 DEF Row
      <3> QED BY <2>2, <2>3, <3>1, AboveIn DEF RowStays
    <2> QED BY <1>1, <2>1, <2>2, <2>4, PendingSame, MovedKept
  <1> QED BY <1>3, <1>4

\* ... and so is one that is graded elsewhere than where it was held (RegradeStep).
LEMMA RegradeKept ==
    ASSUME TypeInv, TypeInv', LinkInv, UNCHANGED thingVars, NEW t \in Tasks, RegradeStep(t)
    PROVE  LinkInv'
  <1>1. task[t].kind = "regrade" /\ task[t] \in RegradeRec /\ RowsOK
      BY DEF RegradeStep, TypeInv, EntriesOK, TasksOK, Shape
  <1>2. PICK s \in DOMAIN task[t].rows : Regrade(t, s, [h \in Homes |-> Follow(s, h, Others(t, s))])
      BY DEF RegradeStep
  <1> DEFINE x == task[t].rows[s]
  <1> DEFINE now == row[s]
  <1> DEFINE next == Others(t, s)
  <1>3. s \in Rids /\ x \in Waiting
    <2>1. task[t].rows \in Some(Rids, Waiting)
        BY <1>1 DEF RegradeRec
    <2> QED BY <1>2, <2>1, SomeIs
  <1>4. next.kind \in Tame
    <2> DEFINE rest1 == Restrict(task[t].rows, DOMAIN task[t].rows \ {s})
    <2>1. next = IF DOMAIN rest1 = {} THEN Idle ELSE [task[t] EXCEPT !.rows = rest1]
        BY DEF Others
    <2> HIDE DEF rest1, next
    <2> QED BY <1>1, <2>1 DEF RegradeRec, Idle, Tame
  <1>5. \A r \in Rids : row[r] # None => row[r].home \in Homes
    <2> TAKE r \in Rids
    <2>1. row[r] # None => row[r] \in Row
        BY RowIs DEF TypeInv, EntriesOK
    <2> QED BY <2>1 DEF Row
  <1>6. CASE now = None
    <2>1. UNCHANGED <<row, excused, pending>> /\ Begin(t, next)
        BY <1>2, <1>6 DEF Regrade
    <2>2. TasksAside
      <3> HIDE DEF next
      <3> QED BY <1>1, <1>4, <2>1, BeginTame
    <2> QED BY <2>1, <2>2, RowsStay, PendingSame, MovedKept
  <1>7. CASE now # None /\ Moved(x)
    <2>1. row' = [row EXCEPT ![s].ungraded = None] /\ UNCHANGED <<excused, pending>> /\ Begin(t, next)
        BY <1>2, <1>7 DEF Regrade
    <2>2. TasksAside
      <3> HIDE DEF next
      <3> QED BY <1>1, <1>4, <2>1, BeginTame
    <2>3. row'[s].home = now.home /\ row'[s].e = now.e /\ \A u \in Rids \ {s} : row'[u] = row[u]
      <3>1. row[s] \in Row
          BY <1>1, <1>3, <1>7, RowIs
      <3> QED BY <1>1, <1>3, <2>1, <3>1 DEF RowsOK, Row
    <2>4. ASSUME NEW r \in Rids PROVE RowStays(r)
        BY <1>5, <2>3, AboveIn DEF RowStays
    <2> QED BY <2>1, <2>2, <2>4, PendingSame, MovedKept
  <1>8. CASE now # None /\ ~Moved(x)
    <2>1. PICK verdict \in Verdicts(Origin[x.e]) \ {Out} :
            LET p == Place(Origin[x.e], verdict, None, x.ungraded.floor) IN
            /\ row' = [row EXCEPT ![s].home = p.home, ![s].ungraded = None]
            /\ Begin(t, IF p.home # x.ungraded.held THEN [h \in Homes |-> Follow(s, h, next)][p.home] ELSE next)
            /\ UNCHANGED pending \/ Queue(RehomePending(None, s, x.e, p.home, p.ask))
        BY <1>2, <1>8 DEF Regrade
    <2> DEFINE p == Place(Origin[x.e], verdict, None, x.ungraded.floor)
    <2>2. p.home \in Homes
      <3>1. Origin[x.e] \in Homes /\ x.ungraded.floor \in Homes
          BY <1>3, EntriesAssumption DEF Waiting, Row, Awaiting
      <3> QED BY <3>1, GradedIn
    <2> DEFINE home == p.home
    <2> DEFINE ask == RehomePending(None, s, x.e, p.home, p.ask)
    <2>3. /\ row' = [row EXCEPT ![s].home = home, ![s].ungraded = None]
          /\ Begin(t, IF home # x.ungraded.held THEN Follow(s, home, next) ELSE next)
          /\ UNCHANGED pending \/ Queue(ask)
        BY <2>1, <2>2
    <2>4. excused' = IF now # x \/ (x.placed /\ x.home = x.ungraded.held) THEN excused \cup {now.e} ELSE excused
        BY <1>2, <1>8 DEF Regrade
    <2>5. Apart(ask)
        BY DEF RehomePending, Apart
    <2> HIDE DEF ask, p
    <2>6. PendingApart => PendingApart'
        BY <2>3, <2>5, QueueApart, PendingSame
    <2>7. row'[s].home = home /\ row'[s].e = now.e /\ \A u \in Rids \ {s} : row'[u] = row[u]
      <3>1. row[s] \in Row
          BY <1>1, <1>3, <1>8, RowIs
      <3> HIDE DEF home
      <3> QED BY <1>1, <1>3, <2>3, <3>1 DEF RowsOK, Row
    <2>8. CASE home = x.ungraded.held
      <3>1. TasksAside
        <4> HIDE DEF next
        <4> QED BY <1>1, <1>4, <2>3, <2>8, BeginTame
      <3>2. now.e \notin excused' => home = now.home
          BY <1>8, <2>4, <2>8 DEF Moved
      <3>3. ASSUME NEW r \in Rids PROVE RowStays(r)
          BY <1>5, <2>7, <3>2, AboveIn DEF RowStays
      <3> QED BY <2>4, <2>6, <3>1, <3>3, MovedKept
    <2>9. CASE home # x.ungraded.held
      <3>1. TasksAside /\ \A y \in ThingsOf(s) : Shows(task'[t], y, home)
        <4> HIDE DEF next, home
        <4> QED BY <1>1, <1>3, <1>4, <2>2, <2>3, <2>9, FollowIs DEF home
      <3>2. ASSUME NEW r \in Rids PROVE RowStays(r)
          BY <1>5, <2>7, <3>1, AboveIn DEF RowStays
      <3> QED BY <2>4, <2>6, <3>1, <3>2, MovedKept
    <2> QED BY <2>8, <2>9
  <1> QED BY <1>6, <1>7, <1>8

\* One call goes on, and the others know what they knew.
LEMMA OneGoes ==
    ASSUME TypeInv, TasksLinked, NEW t \in Tasks, NEW w, Begin(t, w), Knows(w, thing', unseen'),
           ThingsMove(thing, thing', unseen, unseen'),
           \A u \in Tasks \ {t} : DropsTold(task[u], thing, thing', unseen')
    PROVE  /\ task'[t] = w /\ \A u \in Tasks \ {t} : task'[u] = task[u]
           /\ \A u \in Tasks : Knows(task'[u], thing', unseen')
           /\ \A u \in Tasks \ {t} : CallGoes(task[u], task'[u], thing, thing', unseen')
  <1>1. task'[t] = w /\ \A u \in Tasks \ {t} : task'[u] = task[u]
      BY DEF Begin, TypeInv, EntriesOK, TasksOK
  <1>2. ASSUME NEW u \in Tasks \ {t} PROVE Knows(task[u], thing', unseen')
    <2>1. Shape(task[u]) /\ Knows(task[u], thing, unseen)
        BY DEF TypeInv, EntriesOK, TasksOK, TasksLinked
    <2> QED BY <2>1, KnowsStill
  <1>3. ASSUME NEW u \in Tasks \ {t} PROVE CallGoes(task[u], task'[u], thing, thing', unseen')
      BY <1>1 DEF CallGoes
  <1>4. \A u \in Tasks \ {t} : Knows(task'[u], thing', unseen')
      BY <1>1, <1>2
  <1>5. \A u \in Tasks : Knows(task'[u], thing', unseen')
      BY <1>1, <1>4
  <1> QED BY <1>1, <1>3, <1>5

\* Where no thing goes, none is dropped unknown.
LEMMA NoneDropped ==
    ASSUME TypeInv, \A x \in Tids : There(thing[x]) => There(thing'[x])
    PROVE  \A u \in Tasks : DropsTold(task[u], thing, thing', unseen')
  <1> SUFFICES ASSUME NEW u \in Tasks, task[u].kind = "merge" PROVE DropsTold(task[u], thing, thing', unseen')
      BY DEF DropsTold
  <1>1. task[u].drop \in Tids
      BY MergeIs DEF TypeInv, EntriesOK
  <1> QED BY <1>1 DEF DropsTold

\* A thing is seen from a home, and the call that saw to it goes on.
LEMMA SeenGoes ==
    ASSUME NEW v \in SeenRec, NEW x \in v.todo, NEW w, w = Seen(v.todo \ {x}, v.home, v.then), NEW things, NEW now, NEW lost, NEW gone,
           Knows(v, things, lost), ThingsMove(things, now, lost, gone),
           ~There(now[x]) \/ x \in gone \/ v.home \in now[x].homes
    PROVE  Knows(w, now, gone) /\ CallGoes(v, w, things, now, gone)
  <1>1. v.kind = "seen" /\ v.todo \in SUBSET Tids /\ v.home \in Homes /\ x \in Tids /\ v.then \in Rests
      BY DEF SeenRec
  <1>2. v.then.kind = "about" => v.todo = {v.then.x} /\ v.home = v.then.home /\ things[v.then.x] # None /\ v.then.x = x
      BY <1>1 DEF Knows
  <1>3. CASE v.todo \ {x} = {}
    <2>1. w = v.then
        BY <1>3 DEF Seen
    <2>2. v.then.kind \notin {"make", "merge", "seen"}
        BY <1>1 DEF Rests, Idle, EndRec, RegradeRec, AboutRec, FoldRec
    <2>3. v.home \in AtOrAbove(v.home)
        BY <1>1, AboveIn
    <2>4. Knows(w, now, gone)
        BY <1>1, <1>2, <2>1, <2>2, <2>3 DEF Knows, SeenFrom, ThingsMove
    <2>5. v.todo = {x}
        BY <1>3
    <2> QED BY <1>1, <2>4, <2>5 DEF CallGoes, Shows, Past, SeenFrom
  <1>4. CASE v.todo \ {x} # {}
    <2>1. w = [kind |-> "seen", todo |-> v.todo \ {x}, home |-> v.home, x |-> None, got |-> {}, then |-> v.then]
        BY <1>4 DEF Seen
    <2>2. w.kind = "seen" /\ w.todo = v.todo \ {x} /\ w.home = v.home /\ w.x = None /\ w.then = v.then
        BY <2>1
    <2>3. v.then.kind # "about"
        BY <1>2, <1>4
    <2> QED BY <1>1, <2>2, <2>3 DEF CallGoes, Shows, Past, SeenFrom, Knows
  <1> QED BY <1>3, <1>4

\* Links stay where only calls, things and what is lost change.
LEMMA SameLinks ==
    ASSUME TypeInv, TypeInv', LinkInv, UNCHANGED <<about, said, row, pending, excused>>,
           ThingsMove(thing, thing', unseen, unseen'),
           \A u \in Tasks : Knows(task'[u], thing', unseen') /\ CallGoes(task[u], task'[u], thing, thing', unseen'),
           \A u \in Tasks : Past(task'[u]) => /\ Past(task[u]) /\ task'[u].keep = task[u].keep
                                              /\ task'[u].from = task[u].from /\ task'[u].drop = task[u].drop
    PROVE  LinkInv'
  <1>1. MovedStand(said', about', task', thing')
      BY MovedStay DEF LinkInv
  <1>2. said' \subseteq about' /\ PendingApart'
      BY PendingSame DEF LinkInv
  <1> QED BY <1>1, <1>2, RowsStay, LinksKept

\* A thing's homes are read (SeenRead),
LEMMA SeenReadKept ==
    ASSUME TypeInv, TypeInv', LinkInv, NEW t \in Tasks, SeenRead(t)
    PROVE  LinkInv'
  <1> DEFINE v == task[t]
  <1>1. v.kind = "seen" /\ v.x = None /\ UNCHANGED <<row, pending, excused, thing, about, said, unseen>>
      BY DEF SeenRead, others, thingVars
  <1>2. PICK x \in v.todo :
          Begin(t, IF Exists(x) THEN [v EXCEPT !.x = x, !.got = thing[x].homes] ELSE Seen(v.todo \ {x}, v.home, v.then))
      BY DEF SeenRead
  <1>3. v \in SeenRec /\ Knows(v, thing, unseen) /\ x \in Tids
    <2>1. v \in SeenRec /\ Knows(v, thing, unseen)
        BY <1>1 DEF TypeInv, EntriesOK, TasksOK, Shape, LinkInv, TasksLinked
    <2> QED BY <2>1 DEF SeenRec
  <1>4. /\ ThingsMove(thing, thing', unseen, unseen')
        /\ \A u \in Tasks : DropsTold(task[u], thing, thing', unseen')
      BY <1>1, NoneDropped DEF ThingsMove
  <1>5. PICK w : Begin(t, w) /\ Knows(w, thing', unseen') /\ CallGoes(v, w, thing, thing', unseen') /\ ~Past(w)
    <2>1. CASE Exists(x)
      <3> DEFINE w == [v EXCEPT !.x = x, !.got = thing[x].homes]
      <3>1. w.kind = "seen" /\ w.todo = v.todo /\ w.home = v.home /\ w.then = v.then /\ w.x = x /\ w.got = thing[x].homes
          BY <1>3 DEF SeenRec
      <3>2. Begin(t, w)
          BY <1>2, <2>1
      <3> HIDE DEF w
      <3>3. Knows(w, thing', unseen') /\ CallGoes(v, w, thing, thing', unseen') /\ ~Past(w)
          BY <1>1, <1>3, <2>1, <3>1 DEF Knows, CallGoes, Shows, Past, Exists
      <3> QED BY <3>2, <3>3
    <2>2. CASE ~Exists(x)
      <3> DEFINE w == Seen(v.todo \ {x}, v.home, v.then)
      <3>1. Begin(t, w) /\ ~There(thing'[x])
          BY <1>1, <1>2, <2>2 DEF There, Exists
      <3>2. Knows(w, thing', unseen') /\ CallGoes(v, w, thing, thing', unseen')
          BY <1>3, <1>4, <3>1, SeenGoes
      <3>3. ~Past(w)
          BY <1>3 DEF Seen, Past, SeenRec, Rests, Idle, EndRec, RegradeRec, AboutRec, FoldRec
      <3> QED BY <3>1, <3>2, <3>3
    <2> QED BY <2>1, <2>2
  <1>6. /\ task'[t] = w /\ \A u \in Tasks \ {t} : task'[u] = task[u]
        /\ \A u \in Tasks : Knows(task'[u], thing', unseen')
        /\ \A u \in Tasks \ {t} : CallGoes(task[u], task'[u], thing, thing', unseen')
      BY <1>4, <1>5, OneGoes DEF LinkInv
  <1>7. \A u \in Tasks : Knows(task'[u], thing', unseen') /\ CallGoes(task[u], task'[u], thing, thing', unseen')
      BY <1>5, <1>6
  <1>8. \A u \in Tasks : Past(task'[u]) => task'[u] = task[u]
      BY <1>5, <1>6
  <1> QED BY <1>1, <1>4, <1>7, <1>8, SameLinks

\* ... and written with one more (SeenWrite).
LEMMA SeenWriteKept ==
    ASSUME TypeInv, TypeInv', LinkInv, NEW t \in Tasks, SeenWrite(t)
    PROVE  LinkInv'
  <1> DEFINE v == task[t]
  <1> DEFINE x == v.x
  <1> DEFINE w == Seen(v.todo \ {x}, v.home, v.then)
  <1>1. v.kind = "seen" /\ x # None /\ UNCHANGED <<row, pending, excused, about, said>> /\ Begin(t, w)
      BY DEF SeenWrite, others
  <1>2. v \in SeenRec /\ Knows(v, thing, unseen)
      BY <1>1 DEF TypeInv, EntriesOK, TasksOK, Shape, LinkInv, TasksLinked
  <1>3. /\ x \in Tids /\ x \in v.todo /\ thing[x] # None /\ v.home \in Homes /\ v.got \in SUBSET Homes
        /\ There(thing[x]) /\ x \notin unseen => v.got \subseteq thing[x].homes
      BY <1>1, <1>2 DEF SeenRec, Knows
  <1>4. /\ ThingsMove(thing, thing', unseen, unseen')
        /\ \A y \in Tids : There(thing[y]) => There(thing'[y])
        /\ ~There(thing'[x]) \/ x \in unseen' \/ v.home \in thing'[x].homes
    <2>1. CASE ~Exists(x)
        BY <2>1 DEF SeenWrite, ThingsMove, Exists, There
    <2>2. CASE Exists(x) /\ v.home \in v.got
      <3>1. UNCHANGED <<thing, unseen>>
          BY <2>2 DEF SeenWrite
      <3> QED BY <1>3, <2>2, <3>1 DEF ThingsMove, Exists, There
    <2>3. CASE Exists(x) /\ v.home \notin v.got
      <3> DEFINE homes == v.got \cup {v.home}
      <3>1. /\ thing' = [thing EXCEPT ![x].homes = homes]
            /\ unseen' = IF thing[x].homes # v.got THEN unseen \cup {x} ELSE unseen
          BY <2>3 DEF SeenWrite
      <3>2. thing[x] \in Thing /\ thing \in [Tids -> Thing \cup {None, Gone}]
          BY <1>3, <2>3, ThereIs DEF TypeInv, ThingsOK
      <3> DEFINE new == [thing[x] EXCEPT !.homes = homes]
      <3>3. thing'[x] = new /\ \A y \in Tids \ {x} : thing'[y] = thing[y]
          BY <1>3, <3>1, <3>2
      <3>4. new \in Thing /\ new.homes = homes
          BY <1>3, <3>2 DEF Thing
      <3> HIDE DEF new, x
      <3>5. There(new)
          BY <3>4, ThingIs DEF There
      <3>6. x \in unseen' \/ thing[x].homes \subseteq new.homes
          BY <3>1, <3>4
      <3>7. unseen \subseteq unseen'
          BY <3>1
      <3> QED BY <2>3, <3>3, <3>4, <3>5, <3>6, <3>7 DEF ThingsMove, Exists, There
    <2> QED BY <2>1, <2>2, <2>3
  <1>5. \A u \in Tasks : DropsTold(task[u], thing, thing', unseen')
      BY <1>4, NoneDropped
  <1>6. Knows(w, thing', unseen') /\ CallGoes(v, w, thing, thing', unseen')
      BY <1>2, <1>3, <1>4, SeenGoes
  <1>7. ~Past(w)
      BY <1>2 DEF Seen, Past, SeenRec, Rests, Idle, EndRec, RegradeRec, AboutRec, FoldRec
  <1> HIDE DEF w
  <1>8. /\ task'[t] = w /\ \A u \in Tasks \ {t} : task'[u] = task[u]
        /\ \A u \in Tasks : Knows(task'[u], thing', unseen')
        /\ \A u \in Tasks \ {t} : CallGoes(task[u], task'[u], thing, thing', unseen')
      BY <1>1, <1>4, <1>5, <1>6, OneGoes DEF LinkInv
  <1>9. \A u \in Tasks : Knows(task'[u], thing', unseen') /\ CallGoes(task[u], task'[u], thing, thing', unseen')
      BY <1>6, <1>8
  <1>10. \A u \in Tasks : Past(task'[u]) => task'[u] = task[u]
      BY <1>7, <1>8
  <1> QED BY <1>1, <1>4, <1>9, <1>10, SameLinks

\* ... or it is let go of, and known to be (SeenFails).
LEMMA SeenFailsKept ==
    ASSUME TypeInv, TypeInv', LinkInv, NEW t \in Tasks, SeenFails(t)
    PROVE  LinkInv'
  <1> DEFINE v == task[t]
  <1>1. v.kind = "seen" /\ UNCHANGED <<row, pending, excused, thing, about, said>>
      BY DEF SeenFails, others
  <1>2. PICK x \in v.todo : Begin(t, Seen(v.todo \ {x}, v.home, v.then)) /\ unseen' = unseen \cup {x}
      BY DEF SeenFails
  <1> DEFINE w == Seen(v.todo \ {x}, v.home, v.then)
  <1>3. v \in SeenRec /\ Knows(v, thing, unseen)
      BY <1>1 DEF TypeInv, EntriesOK, TasksOK, Shape, LinkInv, TasksLinked
  <1>4. ThingsMove(thing, thing', unseen, unseen') /\ \A u \in Tasks : DropsTold(task[u], thing, thing', unseen')
      BY <1>1, <1>2, NoneDropped DEF ThingsMove
  <1>5. Knows(w, thing', unseen') /\ CallGoes(v, w, thing, thing', unseen')
      BY <1>2, <1>3, <1>4, SeenGoes
  <1>6. ~Past(w)
      BY <1>3 DEF Seen, Past, SeenRec, Rests, Idle, EndRec, RegradeRec, AboutRec, FoldRec
  <1>b. Begin(t, w)
      BY <1>2
  <1> HIDE DEF w
  <1>7. /\ task'[t] = w /\ \A u \in Tasks \ {t} : task'[u] = task[u]
        /\ \A u \in Tasks : Knows(task'[u], thing', unseen')
        /\ \A u \in Tasks \ {t} : CallGoes(task[u], task'[u], thing, thing', unseen')
      BY <1>b, <1>4, <1>5, OneGoes DEF LinkInv
  <1>8. \A u \in Tasks : Knows(task'[u], thing', unseen') /\ CallGoes(task[u], task'[u], thing, thing', unseen')
      BY <1>5, <1>7
  <1>9. \A u \in Tasks : Past(task'[u]) => task'[u] = task[u]
      BY <1>6, <1>7
  <1> QED BY <1>1, <1>4, <1>8, <1>9, SameLinks

\* A thing's names change, and no more of it.
LEMMA Renamed ==
    ASSUME TypeInv, NEW x \in Tids, Exists(x), NEW names \in (SUBSET Nouns) \ {{}}, thing' = [thing EXCEPT ![x].names = names],
           UNCHANGED unseen
    PROVE  ThingsMove(thing, thing', unseen, unseen') /\ \A y \in Tids : There(thing[y]) => There(thing'[y])
  <1> DEFINE old == thing[x]
  <1> DEFINE new == [old EXCEPT !.names = names]
  <1>1. old \in Thing /\ thing'[x] = new /\ \A y \in Tids \ {x} : thing'[y] = thing[y]
      BY ThereIs DEF TypeInv, ThingsOK
  <1>2. new \in Thing /\ new.homes = old.homes
      BY <1>1 DEF Thing
  <1>3. There(new) /\ There(old) /\ new # None
      BY <1>1, <1>2, ThingIs DEF There
  <1> HIDE DEF new
  <1> QED BY <1>1, <1>2, <1>3 DEF ThingsMove

\* A call that is none on links goes on to link an entry to a thing that is there, once that is seen from its home.
LEMMA AboutBegins ==
    ASSUME NEW v, v.kind \notin {"seen", "merge"}, NEW l \in LinkRec, NEW n, NEW x \in Tids, NEW things, NEW now, NEW gone,
           now[x] # None, NEW w, w = Seen({x}, l.home, AboutTask(l, n, x))
    PROVE  Knows(w, now, gone) /\ CallGoes(v, w, things, now, gone) /\ ~Past(w)
  <1> DEFINE next == AboutTask(l, n, x)
  <1>1. next.kind = "about" /\ next.x = x /\ next.home = l.home
      BY DEF AboutTask
  <1> HIDE DEF next
  <1>2. w.kind = "seen" /\ w.todo = {x} /\ w.home = l.home /\ w.x = None /\ w.then = next
      BY DEF Seen, next
  <1> QED BY <1>1, <1>2 DEF Knows, CallGoes, Shows, Past

\* A name is matched to a thing, or to none (LinkStep),
LEMMA LinkStepKept ==
    ASSUME TypeInv, TypeInv', LinkInv, NEW t \in Tasks, LinkStep(t)
    PROVE  LinkInv'
  <1> DEFINE l == task[t]
  <1>1. PICK n \in l.todo : LinkMatch(t, n)
      BY DEF LinkStep
  <1>2. l.kind = "link" /\ UNCHANGED <<row, pending, excused, about, said, unseen>>
      BY <1>1 DEF LinkStep, LinkMatch, others
  <1>3. l \in LinkRec /\ n \in Nouns
    <2>1. l \in LinkRec
        BY <1>2 DEF TypeInv, EntriesOK, TasksOK, Shape
    <2> QED BY <2>1 DEF LinkRec
  <1>4. \/ \E x \in Tids : /\ Exists(x) /\ Begin(t, Seen({x}, l.home, AboutTask(l, n, x)))
                           /\ UNCHANGED thing \/ thing' = [thing EXCEPT ![x].names = @ \cup {n}]
        \/ Begin(t, Onward(l, n)) /\ UNCHANGED thing
        \/ /\ UNCHANGED thing
           /\ \E maybe \in {None} \cup {x \in Tids : l.asks /\ Exists(x)} :
                Begin(t, [kind |-> "make", l |-> l, n |-> n, maybe |-> maybe])
      BY <1>1 DEF LinkMatch, Called
  <1>5. PICK w : /\ Begin(t, w) /\ Knows(w, thing', unseen') /\ CallGoes(l, w, thing, thing', unseen') /\ ~Past(w)
                 /\ ThingsMove(thing, thing', unseen, unseen') /\ \A y \in Tids : There(thing[y]) => There(thing'[y])
    <2>1. ASSUME NEW x \in Tids, Exists(x), Begin(t, Seen({x}, l.home, AboutTask(l, n, x))),
                 UNCHANGED thing \/ thing' = [thing EXCEPT ![x].names = @ \cup {n}]
          PROVE  \E w : /\ Begin(t, w) /\ Knows(w, thing', unseen') /\ CallGoes(l, w, thing, thing', unseen') /\ ~Past(w)
                        /\ ThingsMove(thing, thing', unseen, unseen') /\ \A y \in Tids : There(thing[y]) => There(thing'[y])
      <3>1. ThingsMove(thing, thing', unseen, unseen') /\ \A y \in Tids : There(thing[y]) => There(thing'[y])
        <4>1. CASE UNCHANGED thing
            BY <1>2, <4>1 DEF ThingsMove
        <4>2. CASE thing' = [thing EXCEPT ![x].names = @ \cup {n}]
          <5> DEFINE names == thing[x].names \cup {n}
          <5>1. names \in (SUBSET Nouns) \ {{}}
            <6>1. thing[x] \in Thing
                BY <2>1, ThereIs DEF TypeInv
            <6> QED BY <1>3, <6>1 DEF Thing
          <5>2. thing' = [thing EXCEPT ![x].names = names]
              BY <4>2
          <5> HIDE DEF names
          <5> QED BY <1>2, <2>1, <5>1, <5>2, Renamed
        <4> QED BY <2>1, <4>1, <4>2
      <3>2. thing'[x] # None
          BY <2>1, <3>1 DEF Exists, There
      <3> DEFINE w == Seen({x}, l.home, AboutTask(l, n, x))
      <3>3. Knows(w, thing', unseen') /\ CallGoes(l, w, thing, thing', unseen') /\ ~Past(w)
          BY <1>2, <1>3, <3>2, AboutBegins
      <3> HIDE DEF w
      <3> QED BY <2>1, <3>1, <3>3 DEF w
    <2>2. CASE Begin(t, Onward(l, n)) /\ UNCHANGED thing
      <3> DEFINE w == Onward(l, n)
      <3>1. w.kind \in {"idle", "link"}
          BY <1>3 DEF Onward, Idle, LinkRec
      <3> HIDE DEF w
      <3>2. Knows(w, thing', unseen') /\ CallGoes(l, w, thing, thing', unseen') /\ ~Past(w)
          BY <1>2, <3>1 DEF Knows, CallGoes, Shows, Past
      <3> QED BY <1>2, <2>2, <3>2 DEF w, ThingsMove
    <2>3. ASSUME UNCHANGED thing, NEW maybe \in {None} \cup {x \in Tids : l.asks /\ Exists(x)},
                 Begin(t, [kind |-> "make", l |-> l, n |-> n, maybe |-> maybe])
          PROVE  \E w : /\ Begin(t, w) /\ Knows(w, thing', unseen') /\ CallGoes(l, w, thing, thing', unseen') /\ ~Past(w)
                        /\ ThingsMove(thing, thing', unseen, unseen') /\ \A y \in Tids : There(thing[y]) => There(thing'[y])
      <3> DEFINE w == [kind |-> "make", l |-> l, n |-> n, maybe |-> maybe]
      <3>1. w.kind = "make" /\ w.maybe = maybe /\ Begin(t, w)
          BY <2>3
      <3> HIDE DEF w
      <3>2. Knows(w, thing', unseen') /\ CallGoes(l, w, thing, thing', unseen') /\ ~Past(w)
          BY <1>2, <2>3, <3>1 DEF Knows, CallGoes, Shows, Past, Exists
      <3> QED BY <1>2, <2>3, <3>1, <3>2 DEF ThingsMove
    <2> QED BY <1>4, <2>1, <2>2, <2>3
  <1>6. \A u \in Tasks : DropsTold(task[u], thing, thing', unseen')
      BY <1>5, NoneDropped
  <1>7. /\ task'[t] = w /\ \A u \in Tasks \ {t} : task'[u] = task[u]
        /\ \A u \in Tasks : Knows(task'[u], thing', unseen')
        /\ \A u \in Tasks \ {t} : CallGoes(task[u], task'[u], thing, thing', unseen')
      BY <1>5, <1>6, OneGoes DEF LinkInv
  <1>8. \A u \in Tasks : Knows(task'[u], thing', unseen') /\ CallGoes(task[u], task'[u], thing, thing', unseen')
      BY <1>5, <1>7
  <1>9. \A u \in Tasks : Past(task'[u]) => task'[u] = task[u]
      BY <1>5, <1>7
  <1> QED BY <1>2, <1>5, <1>8, <1>9, SameLinks

\* ... and a thing is made for one that is matched to none (MakeThing).
LEMMA MakeThingKept ==
    ASSUME TypeInv, TypeInv', LinkInv, NEW t \in Tasks, MakeThing(t)
    PROVE  LinkInv'
  <1> DEFINE m == task[t]
  <1>1. m.kind = "make" /\ UNCHANGED <<row, excused, about, said, unseen>>
      BY DEF MakeThing, others
  <1>2. m \in MakeRec /\ Knows(m, thing, unseen)
      BY <1>1 DEF TypeInv, EntriesOK, TasksOK, Shape, LinkInv, TasksLinked
  <1>3. m.l \in LinkRec /\ m.n \in Nouns /\ m.maybe \in Tids \cup {None} /\ m.l.home \in Homes
        /\ (m.maybe # None => thing[m.maybe] # None)
      BY <1>1, <1>2 DEF MakeRec, LinkRec, Knows
  <1>4. PICK x \in Tids, keyed \in BOOLEAN :
         /\ thing[x] = None
         /\ thing' = [thing EXCEPT ![x] = [names |-> {m.n}, homes |-> {m.l.home}, keyed |-> keyed]]
         /\ Begin(t, Seen({x}, m.l.home, AboutTask(m.l, m.n, x)))
         /\ IF m.maybe = None THEN UNCHANGED pending ELSE Queue(MergePending(None, m.maybe, x))
      BY DEF MakeThing
  <1>5. ThingsMove(thing, thing', unseen, unseen') /\ (\A y \in Tids : There(thing[y]) => There(thing'[y])) /\ thing'[x] # None
    <2> DEFINE new == [names |-> {m.n}, homes |-> {m.l.home}, keyed |-> keyed]
    <2>1. new \in Thing
        BY <1>3 DEF Thing
    <2>2. There(new)
        BY <2>1, ThingIs DEF There
    <2> HIDE DEF new
    <2>3. thing'[x] = new /\ \A y \in Tids \ {x} : thing'[y] = thing[y]
        BY <1>4 DEF TypeInv, ThingsOK, new
    <2> QED BY <1>1, <1>4, <2>2, <2>3 DEF ThingsMove, There
  <1>6. \A u \in Tasks : DropsTold(task[u], thing, thing', unseen')
      BY <1>5, NoneDropped
  <1> DEFINE w == Seen({x}, m.l.home, AboutTask(m.l, m.n, x))
  <1>7. Begin(t, w) /\ Knows(w, thing', unseen') /\ CallGoes(m, w, thing, thing', unseen') /\ ~Past(w)
      BY <1>1, <1>3, <1>4, <1>5, AboutBegins
  <1> HIDE DEF w
  <1>8. /\ task'[t] = w /\ \A u \in Tasks \ {t} : task'[u] = task[u]
        /\ \A u \in Tasks : Knows(task'[u], thing', unseen')
        /\ \A u \in Tasks \ {t} : CallGoes(task[u], task'[u], thing, thing', unseen')
      BY <1>5, <1>6, <1>7, OneGoes DEF LinkInv
  <1>9. \A u \in Tasks : Knows(task'[u], thing', unseen') /\ CallGoes(task[u], task'[u], thing, thing', unseen')
      BY <1>7, <1>8
  <1>10. \A u \in Tasks : Past(task'[u]) => task'[u] = task[u]
      BY <1>7, <1>8
  <1>11. PendingApart'
    <2>1. CASE m.maybe = None
        BY <1>4, <2>1, PendingSame DEF LinkInv
    <2>2. CASE m.maybe # None
      <3>1. Queue(MergePending(None, m.maybe, x)) /\ m.maybe # x
          BY <1>3, <1>4, <2>2
      <3>2. Apart(MergePending(None, m.maybe, x))
          BY <3>1 DEF Apart, MergePending
      <3> QED BY <3>1, <3>2, QueueApart DEF LinkInv
    <2> QED BY <2>1, <2>2
  <1>12. said' \subseteq about' /\ MovedStand(said', about', task', thing')
      BY <1>1, <1>5, <1>10, MovedStay DEF LinkInv
  <1> QED BY <1>1, <1>5, <1>9, <1>11, <1>12, RowsStay, LinksKept

\* An entry is linked to a thing it is seen with (AboutOnce).
LEMMA AboutOnceKept ==
    ASSUME TypeInv, TypeInv', LinkInv, NEW t \in Tasks, AboutOnce(t)
    PROVE  LinkInv'
  <1> DEFINE a == task[t]
  <1> DEFINE p == <<a.rid, a.x>>
  <1>1. a.kind = "about" /\ UNCHANGED <<row, pending, excused, thing>>
      BY DEF AboutOnce, others
  <1>2. a \in AboutRec /\ Knows(a, thing, unseen)
      BY <1>1 DEF TypeInv, EntriesOK, TasksOK, Shape, LinkInv, TasksLinked
  <1>3. a.rid \in Rids /\ a.x \in Tids /\ a.home \in Homes /\ a.next \in {Idle} \cup LinkRec
      BY <1>2 DEF AboutRec
  <1>4. PICK w : Begin(t, w) /\ w.kind \in {"idle", "link"}
    <2>1. Begin(t, a.next) \/ Begin(t, Idle)
        BY DEF AboutOnce
    <2>2. a.next.kind \in {"idle", "link"} /\ Idle.kind = "idle"
        BY <1>3 DEF Idle, LinkRec
    <2> QED BY <2>1, <2>2
  <1>5. /\ unseen \subseteq unseen' /\ about \subseteq about' /\ about' \subseteq about \cup {p}
        /\ said' = said \/ (said' = said \cup Standing({p}, about') /\ p \in about')
        /\ p \in about' \ about => /\ Exists(a.x)
                                   /\ row[a.rid].home # a.home => a.x \in unseen'
      BY DEF AboutOnce
  <1>6. ThingsMove(thing, thing', unseen, unseen') /\ \A u \in Tasks : DropsTold(task[u], thing, thing', unseen')
      BY <1>1, <1>5, NoneDropped DEF ThingsMove
  <1>7. Knows(w, thing', unseen') /\ CallGoes(a, w, thing, thing', unseen') /\ ~Past(w)
      BY <1>1, <1>4 DEF Knows, CallGoes, Shows, Past
  <1>8. /\ task'[t] = w /\ \A u \in Tasks \ {t} : task'[u] = task[u]
        /\ \A u \in Tasks : Knows(task'[u], thing', unseen')
        /\ \A u \in Tasks \ {t} : CallGoes(task[u], task'[u], thing, thing', unseen')
      BY <1>4, <1>6, <1>7, OneGoes DEF LinkInv
  <1>9. \A u \in Tasks : Knows(task'[u], thing', unseen') /\ CallGoes(task[u], task'[u], thing, thing', unseen')
      BY <1>7, <1>8
  <1>10. \A u \in Tasks : Past(task'[u]) => task'[u] = task[u]
      BY <1>7, <1>8
  <1>11. said' \subseteq about' /\ \A q \in said' : q \in said \/ q \in Standing({q}, about')
    <2> HIDE DEF p
    <2>1. \A q \in Standing({p}, about') : q = p /\ q \in Standing({q}, about')
        BY DEF Standing
    <2>2. said' \subseteq about'
        BY <1>5, <2>1 DEF LinkInv
    <2>3. \A q \in said' : q \in said \/ q \in Standing({q}, about')
        BY <1>5, <2>1
    <2> QED BY <2>2, <2>3
  <1>12. MovedStand(said', about', task', thing')
    <2>1. about \ about' = {}
        BY <1>5
    <2> HIDE DEF p
    <2> QED BY <1>6, <1>10, <1>11, <2>1, MovedStay DEF LinkInv
  <1>13. ASSUME NEW q \in about' \ about, q[2] \notin unseen'
         PROVE  LinkSeen(q[1], q[2], row'[q[1]].home, thing', task', unseen')
    <2>1. q = p /\ q[1] = a.rid /\ q[2] = a.x
        BY <1>5, <1>13
    <2>2. Exists(a.x) /\ row'[a.rid].home = a.home /\ a.x \notin unseen
        BY <1>1, <1>5, <1>13, <2>1
    <2>3. SeenFrom(thing'[a.x].homes, a.home)
        BY <1>1, <1>2, <2>2 DEF Knows, Exists, There
    <2> QED BY <2>1, <2>2, <2>3 DEF LinkSeen
  <1>14. PendingApart'
      BY <1>1, PendingSame DEF LinkInv
  <1> HIDE DEF p
  <1> QED BY <1>1, <1>6, <1>9, <1>11, <1>12, <1>13, <1>14, RowsStay, LinksKept

\* A thing that nothing was about goes (StrayDelete).
LEMMA StrayDeleteKept ==
    ASSUME TypeInv, TypeInv', LinkInv, NEW t \in Tasks, StrayDelete(t)
    PROVE  LinkInv'
  <1> DEFINE v == task[t]
  <1> DEFINE x == v.x
  <1>1. /\ v.kind = "stray" /\ UNCHANGED <<row, pending, excused>> /\ thing' = [thing EXCEPT ![x] = Gone]
        /\ about' = WithoutThing(about, x) /\ said' = WithoutThing(said, x) /\ Begin(t, Idle)
        /\ unseen' = unseen \cup {task[u].keep : u \in {u \in Tasks : task[u].kind = "merge" /\ task[u].drop = x}}
      BY DEF StrayDelete, others
  <1>2. x \in Tids
    <2>1. v \in StrayRec
        BY <1>1 DEF TypeInv, EntriesOK, TasksOK, Shape
    <2> QED BY <2>1 DEF StrayRec
  <1>3. thing'[x] = Gone /\ \A y \in Tids \ {x} : thing'[y] = thing[y]
      BY <1>1, <1>2 DEF TypeInv, ThingsOK
  <1>4. ThingsMove(thing, thing', unseen, unseen') /\ ~There(thing'[x])
    <2>1. Gone # None
        BY KnowledgeAssumption
    <2>2. unseen \subseteq unseen'
        BY <1>1
    <2> QED BY <1>3, <2>1, <2>2 DEF ThingsMove, There
  <1>5. \A u \in Tasks : DropsTold(task[u], thing, thing', unseen')
    <2> SUFFICES ASSUME NEW u \in Tasks, task[u].kind = "merge" PROVE DropsTold(task[u], thing, thing', unseen')
        BY DEF DropsTold
    <2>1. task[u].drop \in Tids
        BY MergeIs DEF TypeInv, EntriesOK
    <2>2. task[u].drop = x => task[u].keep \in unseen'
        BY <1>1
    <2> QED BY <1>3, <2>1, <2>2 DEF DropsTold
  <1>6. Knows(Idle, thing', unseen') /\ CallGoes(v, Idle, thing, thing', unseen') /\ ~Past(Idle)
      BY <1>1 DEF Knows, CallGoes, Shows, Past, Idle
  <1>7. /\ task'[t] = Idle /\ \A u \in Tasks \ {t} : task'[u] = task[u]
        /\ \A u \in Tasks : Knows(task'[u], thing', unseen')
        /\ \A u \in Tasks \ {t} : CallGoes(task[u], task'[u], thing, thing', unseen')
      BY <1>1, <1>4, <1>5, <1>6, OneGoes DEF LinkInv
  <1>8. \A u \in Tasks : Knows(task'[u], thing', unseen') /\ CallGoes(task[u], task'[u], thing, thing', unseen')
      BY <1>6, <1>7
  <1>9. \A u \in Tasks : Past(task'[u]) => task'[u] = task[u]
      BY <1>6, <1>7
  <1>10. said' \subseteq about' /\ about' \subseteq about /\ \A q \in said' : q \in said
      BY <1>1 DEF WithoutThing, LinkInv
  <1>11. MovedStand(said', about', task', thing')
    <2>1. \A u \in Tasks : Past(task[u]) =>
               \A r \in task[u].from : <<r, task[u].keep>> \in about \ about' => ~There(thing'[task[u].keep])
        BY <1>1, <1>4 DEF WithoutThing
    <2> QED BY <1>4, <1>9, <1>10, <2>1, MovedStay DEF LinkInv
  <1>12. PendingApart'
      BY <1>1, PendingSame DEF LinkInv
  <1> QED BY <1>1, <1>4, <1>8, <1>10, <1>11, <1>12, RowsStay, LinksKept

\* A new name is written down (RenameWrite).
LEMMA RenameWriteKept ==
    ASSUME TypeInv, TypeInv', LinkInv, NEW t \in Tasks, RenameWrite(t)
    PROVE  LinkInv'
  <1> DEFINE c == task[t]
  <1>1. c.kind = "rename" /\ Begin(t, Idle) /\ UNCHANGED <<row, pending, excused, about, said, unseen>>
      BY DEF RenameWrite, others
  <1>2. c.x \in Tids /\ c.names \in (SUBSET Nouns) \ {{}}
    <2>1. c \in RenameRec
        BY <1>1 DEF TypeInv, EntriesOK, TasksOK, Shape
    <2> QED BY <2>1 DEF RenameRec
  <1>3. ThingsMove(thing, thing', unseen, unseen') /\ \A y \in Tids : There(thing[y]) => There(thing'[y])
    <2>1. CASE Exists(c.x)
      <3> DEFINE x == c.x
      <3> DEFINE names == c.names
      <3>1. thing' = [thing EXCEPT ![x].names = names] /\ x \in Tids /\ names \in (SUBSET Nouns) \ {{}} /\ Exists(x)
          BY <1>2, <2>1 DEF RenameWrite
      <3> HIDE DEF x, names
      <3> QED BY <1>1, <3>1, Renamed
    <2>2. CASE ~Exists(c.x)
        BY <1>1, <2>2 DEF RenameWrite, ThingsMove
    <2> QED BY <2>1, <2>2
  <1>4. \A u \in Tasks : DropsTold(task[u], thing, thing', unseen')
      BY <1>3, NoneDropped
  <1>5. Knows(Idle, thing', unseen') /\ CallGoes(c, Idle, thing, thing', unseen') /\ ~Past(Idle)
      BY <1>1 DEF Knows, CallGoes, Shows, Past, Idle
  <1>6. /\ task'[t] = Idle /\ \A u \in Tasks \ {t} : task'[u] = task[u]
        /\ \A u \in Tasks : Knows(task'[u], thing', unseen')
        /\ \A u \in Tasks \ {t} : CallGoes(task[u], task'[u], thing, thing', unseen')
      BY <1>1, <1>3, <1>4, <1>5, OneGoes DEF LinkInv
  <1>7. \A u \in Tasks : Knows(task'[u], thing', unseen') /\ CallGoes(task[u], task'[u], thing, thing', unseen')
      BY <1>5, <1>6
  <1>8. \A u \in Tasks : Past(task'[u]) => task'[u] = task[u]
      BY <1>5, <1>6
  <1> QED BY <1>1, <1>3, <1>7, <1>8, SameLinks

\* A merge reads what it merges (MergeRead),
LEMMA MergeReadKept ==
    ASSUME TypeInv, TypeInv', LinkInv, NEW t \in Tasks, MergeRead(t)
    PROVE  LinkInv'
  <1> DEFINE m == task[t]
  <1>1. m.kind = "merge" /\ m.step = "read" /\ UNCHANGED <<row, pending, excused, thing, about, said, unseen>>
      BY DEF MergeRead, others, thingVars
  <1>2. m \in MergeRec /\ Knows(m, thing, unseen)
      BY <1>1, MergeIs DEF TypeInv, EntriesOK, LinkInv, TasksLinked
  <1>3. ThingsMove(thing, thing', unseen, unseen') /\ \A u \in Tasks : DropsTold(task[u], thing, thing', unseen')
      BY <1>1, NoneDropped DEF ThingsMove
  <1>4. PICK w : Begin(t, w) /\ Knows(w, thing', unseen') /\ ~Past(w)
    <2>1. CASE Exists(m.keep) /\ Exists(m.drop)
      <3> DEFINE read(from) == [m EXCEPT !.step = "move", !.from = from,
                                         !.names = thing[m.keep].names \cup thing[m.drop].names,
                                         !.homes = thing[m.keep].homes \cup thing[m.drop].homes]
      <3>0. PICK from : Begin(t, read(from))
          BY <2>1 DEF MergeRead
      <3> DEFINE w == read(from)
      <3>1. Begin(t, w) /\ w.kind = "merge" /\ w.step = "move" /\ w.keep = m.keep /\ w.drop = m.drop
          BY <1>2, <3>0 DEF MergeRec
      <3> HIDE DEF w
      <3>2. Knows(w, thing', unseen') /\ ~Past(w)
          BY <1>1, <1>2, <2>1, <3>1 DEF Knows, Past, Exists, There
      <3> QED BY <3>1, <3>2
    <2>2. CASE ~(Exists(m.keep) /\ Exists(m.drop))
      <3> DEFINE w == Failed(m.after)
      <3>1. Begin(t, w) /\ w.kind \in Tame
          BY <2>2, EndedTame DEF MergeRead
      <3> HIDE DEF w
      <3>2. Knows(w, thing', unseen') /\ ~Past(w)
          BY <3>1 DEF Knows, Past, Tame
      <3> QED BY <3>1, <3>2
    <2> QED BY <2>1, <2>2
  <1>5. /\ task'[t] = w /\ \A u \in Tasks \ {t} : task'[u] = task[u]
        /\ \A u \in Tasks : Knows(task'[u], thing', unseen')
        /\ \A u \in Tasks \ {t} : CallGoes(task[u], task'[u], thing, thing', unseen')
      BY <1>3, <1>4, OneGoes DEF LinkInv
  <1>6. CallGoes(m, w, thing, thing', unseen')
      BY <1>1 DEF CallGoes, Shows, Past
  <1>7. \A u \in Tasks : Knows(task'[u], thing', unseen') /\ CallGoes(task[u], task'[u], thing, thing', unseen')
      BY <1>5, <1>6
  <1>8. \A u \in Tasks : Past(task'[u]) => task'[u] = task[u]
      BY <1>4, <1>5
  <1> QED BY <1>1, <1>3, <1>7, <1>8, SameLinks

\* ... links what is linked to one to the other (MergeMove),
LEMMA MergeMoveKept ==
    ASSUME TypeInv, TypeInv', LinkInv, NEW t \in Tasks, MergeMove(t)
    PROVE  LinkInv'
  <1> DEFINE m == task[t]
  <1> DEFINE there == {r \in m.from : row[r] # None}
  <1>1. m.kind = "merge" /\ m.step = "move" /\ UNCHANGED <<row, pending, excused, thing, said>>
      BY DEF MergeMove, others
  <1>2. m \in MergeRec /\ Knows(m, thing, unseen) /\ m.keep \in Tids /\ m.drop \in Tids /\ m.from \subseteq Rids
      BY <1>1, MergeIs DEF TypeInv, EntriesOK, LinkInv, TasksLinked
  <1> DEFINE on == [m EXCEPT !.step = "homes"]
  <1>3. \/ /\ Begin(t, on) /\ about' = about \cup MovedTo(m.from, m.keep)
           /\ unseen' = IF m.from \subseteq EntriesOn(m.drop) /\ ~\E u \in Tasks : Gives(task[u], m.drop)
                        THEN unseen ELSE unseen \cup {m.keep}
        \/ /\ Begin(t, Failed(m.after)) /\ unseen' = unseen \cup {m.keep}
           /\ \E some \in SUBSET there : about' = IF Exists(m.keep) THEN about \cup MovedTo(some, m.keep) ELSE about
      BY DEF MergeMove
  <1>4. /\ unseen \subseteq unseen' /\ about \subseteq about' /\ about' \subseteq about \cup MovedTo(m.from, m.keep)
        /\ m.keep \in unseen' \/ Begin(t, on)
      BY <1>3 DEF MovedTo
  <1>5. ThingsMove(thing, thing', unseen, unseen') /\ \A u \in Tasks : DropsTold(task[u], thing, thing', unseen')
      BY <1>1, <1>4, NoneDropped DEF ThingsMove
  <1>6. on.kind = "merge" /\ on.step = "homes" /\ on.keep = m.keep /\ on.drop = m.drop /\ on.from = m.from /\ on.homes = m.homes
      BY <1>2 DEF MergeRec
  <1> HIDE DEF on
  <1>7. PICK w : /\ Begin(t, w) /\ Knows(w, thing', unseen') /\ (w = on \/ ~Past(w))
                 /\ w = on => about' = about \cup MovedTo(m.from, m.keep)
    <2>1. CASE Begin(t, on) /\ about' = about \cup MovedTo(m.from, m.keep)
      <3>1. Knows(on, thing', unseen')
          BY <1>1, <1>2, <1>4, <1>6 DEF Knows
      <3> QED BY <2>1, <3>1
    <2>2. CASE Begin(t, Failed(m.after))
      <3> DEFINE w == Failed(m.after)
      <3>1. w.kind \in Tame
          BY EndedTame
      <3> HIDE DEF w
      <3>2. Knows(w, thing', unseen') /\ ~Past(w) /\ w # on
          BY <1>6, <3>1 DEF Knows, Past, Tame
      <3> QED BY <2>2, <3>2 DEF w
    <2> QED BY <1>3, <2>1, <2>2
  <1>8. /\ task'[t] = w /\ \A u \in Tasks \ {t} : task'[u] = task[u]
        /\ \A u \in Tasks : Knows(task'[u], thing', unseen')
        /\ \A u \in Tasks \ {t} : CallGoes(task[u], task'[u], thing, thing', unseen')
      BY <1>5, <1>7, OneGoes DEF LinkInv
  <1>9. CallGoes(m, w, thing, thing', unseen')
      BY <1>1 DEF CallGoes, Shows, Past
  <1>10. \A u \in Tasks : Knows(task'[u], thing', unseen') /\ CallGoes(task[u], task'[u], thing, thing', unseen')
      BY <1>8, <1>9
  <1>11. said' \subseteq about' /\ PendingApart'
      BY <1>1, <1>4, PendingSame DEF LinkInv
  <1>12. MovedStand(said', about', task', thing')
    <2> SUFFICES ASSUME NEW u \in Tasks, Past(task'[u]), There(thing'[task'[u].keep]), NEW r \in task'[u].from,
                        <<r, task'[u].drop>> \in said'
                 PROVE  <<r, task'[u].keep>> \in about'
        BY DEF MovedStand
    <2>1. CASE u = t
        BY <1>6, <1>7, <1>8, <2>1 DEF MovedTo
    <2>2. CASE u # t
        BY <1>1, <1>4, <1>8, <2>2 DEF LinkInv, MovedStand
    <2> QED BY <2>1, <2>2
  <1>13. ASSUME NEW p \in about' \ about, p[2] \notin unseen', row'[p[1]].e \notin excused'
         PROVE  LinkSeen(p[1], p[2], row'[p[1]].home, thing', task', unseen')
    <2>1. PICK r \in m.from : p = <<r, m.keep>>
        BY <1>4 DEF MovedTo
    <2>2. /\ p[1] = r /\ p[2] = m.keep /\ m.keep \notin unseen' /\ r \in Rids /\ row[r].e \notin excused
        BY <1>1, <1>2, <1>13, <2>1
    <2>3. /\ Begin(t, on) /\ m.from \subseteq EntriesOn(m.drop) /\ ~\E u \in Tasks : Gives(task[u], m.drop)
          /\ unseen' = unseen
        BY <1>3, <2>2
    <2>4. task'[t] = on
        BY <2>3 DEF Begin, TypeInv, EntriesOK, TasksOK
    <2>5. <<r, m.drop>> \in about
        BY <2>3 DEF EntriesOn
    <2> DEFINE home == row[r].home
    <2>6. m.drop \in unseen \/ LinkSeen(r, m.drop, home, thing, task, unseen)
        BY <2>2, <2>5 DEF LinkInv, LinksSeen
    <2>7. \A u \in Tasks : Shows(task[u], m.drop, home) => Shows(task'[u], m.drop, home)
        BY <1>1, <1>8 DEF Shows
    <2> HIDE DEF home
    <2>8. MayGive(on, home, thing', task', unseen')
      <3>1. CASE m.drop \in unseen
          BY <1>6, <2>3, <3>1 DEF MayGive
      <3>2. CASE SeenFrom(thing[m.drop].homes, home)
          BY <1>1, <1>6, <3>2 DEF MayGive, SeenFrom
      <3>3. CASE \E u \in Tasks : Shows(task[u], m.drop, home)
          BY <1>6, <2>7, <3>3 DEF MayGive
      <3> QED BY <2>3, <2>6, <3>1, <3>2, <3>3 DEF LinkSeen
    <2>9. Gives(on, m.keep) /\ r \in on.from
        BY <1>6, <2>1 DEF Gives
    <2>10. LinkSeen(r, m.keep, home, thing', task', unseen')
        BY <2>4, <2>8, <2>9 DEF LinkSeen
    <2> QED BY <1>1, <2>2, <2>10 DEF home
  <1> QED BY <1>1, <1>5, <1>10, <1>11, <1>12, <1>13, RowsStay, LinksKept

\* ... gives it the homes of both (MergeHomes),
LEMMA MergeHomesKept ==
    ASSUME TypeInv, TypeInv', LinkInv, NEW t \in Tasks, MergeHomes(t)
    PROVE  LinkInv'
  <1> DEFINE m == task[t]
  <1> DEFINE w == [m EXCEPT !.step = "delete"]
  <1>1. m.kind = "merge" /\ m.step = "homes" /\ UNCHANGED <<row, pending, excused, about, said>> /\ Begin(t, w)
      BY DEF MergeHomes, others
  <1>2. /\ m \in MergeRec /\ Knows(m, thing, unseen) /\ m.keep \in Tids /\ m.drop \in Tids /\ m.homes \in SUBSET Homes
        /\ m.names \in (SUBSET Nouns) \ {{}}
      BY <1>1, MergeIs DEF TypeInv, EntriesOK, LinkInv, TasksLinked
  <1>3. w.kind = "merge" /\ w.step = "delete" /\ w.keep = m.keep /\ w.drop = m.drop /\ w.from = m.from /\ w.homes = m.homes
      BY <1>2 DEF MergeRec
  <1> HIDE DEF w
  <1>4. /\ ThingsMove(thing, thing', unseen, unseen') /\ unseen \subseteq unseen'
        /\ \A y \in Tids : There(thing[y]) => There(thing'[y])
        /\ \A y \in Tids : thing[y] # None => thing'[y] # None
        /\ There(thing'[m.keep]) => m.homes \subseteq thing'[m.keep].homes
    <2>1. CASE Exists(m.keep)
      <3> DEFINE x == m.keep
      <3> DEFINE names == m.names
      <3> DEFINE homes == m.homes
      <3> DEFINE old == thing[x]
      <3> DEFINE new == [old EXCEPT !.homes = homes, !.names = names]
      <3>1. old \in Thing /\ x \in Tids /\ names \in (SUBSET Nouns) \ {{}} /\ homes \in SUBSET Homes
          BY <1>2, <2>1, ThereIs DEF TypeInv
      <3>2. /\ thing' = [thing EXCEPT ![x].homes = homes, ![x].names = names]
            /\ unseen' = IF ~(old.homes \subseteq homes) THEN unseen \cup {x} ELSE unseen
          BY <2>1 DEF MergeHomes, HomesOfBoth
      <3>3. There(old)
          BY <2>1 DEF Exists, There
      <3> HIDE DEF names, homes, x
      <3>4. thing'[x] = new /\ \A y \in Tids \ {x} : thing'[y] = thing[y]
          BY <3>1, <3>2 DEF TypeInv, ThingsOK
      <3> HIDE DEF old
      <3>5. new \in Thing /\ new.homes = homes
          BY <3>1 DEF Thing
      <3> HIDE DEF new
      <3>6. There(new)
          BY <3>5, ThingIs DEF There
      <3>7. /\ \A y \in Tids : There(thing[y]) => There(thing'[y])
            /\ \A y \in Tids : thing[y] # None => thing'[y] # None
            /\ thing'[x].homes = homes
          BY <3>4, <3>5, <3>6 DEF There
      <3>8. ThingsMove(thing, thing', unseen, unseen')
          BY <3>2, <3>3, <3>4, <3>5, <3>6 DEF ThingsMove, There, old
      <3> QED BY <3>2, <3>7, <3>8 DEF x, homes
    <2>2. CASE ~Exists(m.keep)
        BY <2>2 DEF MergeHomes, ThingsMove, Exists, There
    <2> QED BY <2>1, <2>2
  <1>5. \A u \in Tasks : DropsTold(task[u], thing, thing', unseen')
      BY <1>4, NoneDropped
  <1>6. Knows(w, thing', unseen')
      BY <1>1, <1>2, <1>3, <1>4 DEF Knows
  <1>7. CallGoes(m, w, thing, thing', unseen')
      BY <1>1, <1>3, <1>5 DEF CallGoes, Shows, Past
  <1>8. /\ task'[t] = w /\ \A u \in Tasks \ {t} : task'[u] = task[u]
        /\ \A u \in Tasks : Knows(task'[u], thing', unseen')
        /\ \A u \in Tasks \ {t} : CallGoes(task[u], task'[u], thing, thing', unseen')
      BY <1>1, <1>4, <1>5, <1>6, OneGoes DEF LinkInv
  <1>9. \A u \in Tasks : Knows(task'[u], thing', unseen') /\ CallGoes(task[u], task'[u], thing, thing', unseen')
      BY <1>7, <1>8
  <1>10. \A u \in Tasks : Past(task'[u]) => /\ Past(task[u]) /\ task'[u].keep = task[u].keep
                                             /\ task'[u].from = task[u].from /\ task'[u].drop = task[u].drop
      BY <1>1, <1>3, <1>8 DEF Past
  <1> QED BY <1>1, <1>4, <1>9, <1>10, SameLinks

\* ... and deletes the other, whose links are those that were moved (MergeDelete).
LEMMA MergeDeleteKept ==
    ASSUME TypeInv, TypeInv', LinkInv, NEW t \in Tasks, MergeDelete(t)
    PROVE  LinkInv'
  <1> DEFINE m == task[t]
  <1> DEFINE x == m.drop
  <1> DEFINE y == m.keep
  <1> DEFINE w == Ended(m.after)
  <1> DEFINE kept == {<<r, y>> : r \in {r \in m.from : <<r, x>> \in said /\ Exists(y)}}
  <1> DEFINE others1 == {task[u].keep : u \in {u \in Tasks \ {t} : task[u].kind = "merge" /\ task[u].drop = x}}
  <1>1. /\ m.kind = "merge" /\ m.step = "delete" /\ UNCHANGED <<row, pending, excused>> /\ Begin(t, w)
        /\ thing' = [thing EXCEPT ![x] = Gone] /\ about' = WithoutThing(about, x)
        /\ said' = WithoutThing(said, x) \cup Standing(kept, about')
        /\ unseen' = unseen \cup others1
                     \cup IF \/ x \in unseen \/ ~(thing[x].homes \subseteq m.homes)
                             \/ \E u \in Tasks : task[u].kind = "seen" /\ x \in task[u].todo
                          THEN {y} ELSE {}
      BY DEF MergeDelete, others
  <1>2. /\ m \in MergeRec /\ Knows(m, thing, unseen) /\ y \in Tids /\ x \in Tids /\ x # y /\ m.homes \in SUBSET Homes
        /\ There(thing[y]) /\ y \notin unseen => m.homes \subseteq thing[y].homes
    <2>1. m \in MergeRec /\ Knows(m, thing, unseen) /\ y \in Tids /\ x \in Tids /\ m.homes \in SUBSET Homes
        BY <1>1, MergeIs DEF TypeInv, EntriesOK, LinkInv, TasksLinked
    <2> QED BY <1>1, <2>1 DEF Knows
  <1>3. thing'[x] = Gone /\ \A z \in Tids \ {x} : thing'[z] = thing[z]
      BY <1>1, <1>2 DEF TypeInv, ThingsOK
  <1>4. unseen \subseteq unseen' /\ \A u \in Tasks \ {t} : task[u].kind = "merge" /\ task[u].drop = x => task[u].keep \in unseen'
      BY <1>1
  <1>5. ThingsMove(thing, thing', unseen, unseen') /\ ~There(thing'[x])
    <2>1. Gone # None
        BY KnowledgeAssumption
    <2> QED BY <1>3, <1>4, <2>1 DEF ThingsMove, There
  <1>6. ASSUME NEW u \in Tasks \ {t} PROVE DropsTold(task[u], thing, thing', unseen')
    <2> SUFFICES ASSUME task[u].kind = "merge" PROVE DropsTold(task[u], thing, thing', unseen')
        BY DEF DropsTold
    <2>1. task[u].drop \in Tids
        BY MergeIs DEF TypeInv, EntriesOK
    <2> QED BY <1>3, <1>4, <2>1 DEF DropsTold
  <1>7. w.kind \in Tame
      BY EndedTame
  <1> HIDE DEF w, kept, others1
  <1>8. Knows(w, thing', unseen') /\ ~Past(w)
      BY <1>7 DEF Knows, Past, Tame
  <1>9. /\ task'[t] = w /\ \A u \in Tasks \ {t} : task'[u] = task[u]
        /\ \A u \in Tasks : Knows(task'[u], thing', unseen')
        /\ \A u \in Tasks \ {t} : CallGoes(task[u], task'[u], thing, thing', unseen')
      BY <1>1, <1>5, <1>6, <1>8, OneGoes DEF LinkInv
  <1>10. CallGoes(m, w, thing, thing', unseen') \/ Gave(m, thing, task, unseen, thing')
    <2>1. CASE y \in unseen'
        BY <1>1, <2>1 DEF CallGoes, Shows, Past
    <2>2. CASE y \notin unseen' /\ ~There(thing[y])
      <3>1. ~There(thing'[y])
          BY <1>2, <1>3, <2>2
      <3> QED BY <1>1, <3>1 DEF Gave
    <2>3. CASE y \notin unseen' /\ There(thing[y])
      <3>1. /\ x \notin unseen /\ thing[x].homes \subseteq m.homes
            /\ ~\E u \in Tasks : task[u].kind = "seen" /\ x \in task[u].todo
          BY <1>1, <2>3
      <3>2. m.homes \subseteq thing'[y].homes
          BY <1>2, <1>3, <1>4, <2>3
      <3>3. ASSUME NEW home \in Homes, MayGive(m, home, thing, task, unseen) PROVE SeenFrom(thing'[y].homes, home)
        <4>1. SeenFrom(m.homes, home)
            BY <3>1, <3>3 DEF MayGive, Shows
        <4> QED BY <3>2, <4>1 DEF SeenFrom
      <3> QED BY <1>1, <3>3 DEF Gave
    <2> QED BY <2>1, <2>2, <2>3
  <1>11. \A u \in Tasks : Past(task'[u]) => task'[u] = task[u]
      BY <1>8, <1>9
  <1>12. /\ about' \subseteq about /\ \A q \in about : q \notin about' => q[2] = x
         /\ \A q \in said' : (q \in said /\ q[2] # x) \/ (q \in kept /\ q \in Standing({q}, about'))
    <2>1. \A q \in Standing(kept, about') : q \in kept /\ q \in Standing({q}, about')
        BY DEF Standing
    <2> QED BY <1>1, <2>1 DEF WithoutThing
  <1>13. said' \subseteq about'
    <2> SUFFICES ASSUME NEW q \in said' PROVE q \in about'
        OBVIOUS
    <2>1. CASE q \in said /\ q[2] # x
        BY <1>12, <2>1 DEF LinkInv
    <2>2. CASE q \in kept
      <3>1. PICK r \in m.from : q = <<r, y>> /\ <<r, x>> \in said /\ Exists(y)
          BY <2>2 DEF kept
      <3>2. q \in about
          BY <1>1, <3>1 DEF LinkInv, MovedStand, Past, Exists, There
      <3>3. q[2] # x
          BY <1>2, <3>1
      <3> QED BY <1>12, <3>2, <3>3
    <2> QED BY <1>12, <2>1, <2>2
  <1>14. MovedStand(said', about', task', thing')
    <2>1. \A q \in said' : q \in said \/ q \in Standing({q}, about')
        BY <1>12
    <2>2. ASSUME NEW u \in Tasks, Past(task[u]), NEW r \in task[u].from, <<r, task[u].keep>> \in about \ about'
          PROVE  ~There(thing'[task[u].keep])
      <3>1. task[u].keep = x
          BY <1>12, <2>2
      <3> QED BY <1>5, <3>1
    <2> QED BY <1>5, <1>11, <2>1, <2>2, MovedStay DEF LinkInv
  <1>15. PendingApart'
      BY <1>1, PendingSame DEF LinkInv
  <1>16. \A u \in Tasks : \/ CallGoes(task[u], task'[u], thing, thing', unseen')
                          \/ Gave(task[u], thing, task, unseen, thing')
      BY <1>9, <1>10
  <1>17. about' \ about = {} /\ UNCHANGED row /\ excused \subseteq excused'
      BY <1>1, <1>12
  <1> QED BY <1>5, <1>9, <1>13, <1>14, <1>15, <1>16, <1>17, RowsStay, LinksKeptThrough

\* A fold links what is linked to one entry to the other, and sees to it that it is seen from there (FoldMove).
LEMMA FoldMoveKept ==
    ASSUME TypeInv, TypeInv', LinkInv, NEW t \in Tasks, FoldMove(t)
    PROVE  LinkInv'
  <1> DEFINE f == task[t]
  <1>1. f.kind = "fold" /\ f.step = "move" /\ UNCHANGED <<row, pending, excused, thing>>
      BY DEF FoldMove, others
  <1>2. f \in FoldRec /\ f.keep \in Rids /\ f.drop \in Rids /\ f.xs \subseteq Tids /\ f.home \in Homes
      BY <1>1, FoldIs DEF TypeInv, EntriesOK
  <1> DEFINE links(moved) == {<<f.keep, x>> : x \in {x \in moved : <<f.drop, x>> \in said}}
  <1> DEFINE then(moved) == IF moved = f.xs THEN [f EXCEPT !.step = "delete"] ELSE Failed(f.after)
  <1>3. PICK moved \in SUBSET f.xs :
          /\ about' = about \cup {<<f.keep, x>> : x \in moved}
          /\ said' = said \cup Standing(links(moved), about')
          /\ unseen' = IF moved # {} /\ row[f.keep].home # f.home THEN unseen \cup moved ELSE unseen
          /\ Begin(t, Seen(moved, f.home, then(moved)))
      BY DEF FoldMove
  <1> DEFINE new == links(moved)
  <1> DEFINE next == then(moved)
  <1> DEFINE w == Seen(moved, f.home, next)
  <1>4. next.kind \in Tame
    <2>1. [f EXCEPT !.step = "delete"].kind = "fold"
        BY <1>2 DEF FoldRec
    <2> QED BY <2>1, EndedTame DEF Tame
  <1>5. \A p \in new : p \in {<<f.keep, x>> : x \in moved}
      OBVIOUS
  <1>6. said' = said \cup Standing(new, about') /\ Begin(t, w)
      BY <1>3
  <1> HIDE DEF next, new
  <1>7. Fresh(w) /\ (moved # {} => w.kind = "seen" /\ w.todo = moved /\ w.home = f.home)
      BY <1>4 DEF Seen, Fresh, Tame
  <1> HIDE DEF w
  <1>8. TasksAside
      BY <1>1, <1>6, <1>7, BeginFresh DEF Past
  <1>9. task'[t] = w
      BY <1>6 DEF Begin, TypeInv, EntriesOK, TasksOK
  <1>10. unseen \subseteq unseen' /\ about \subseteq about'
      BY <1>3
  <1>11. ThingsMove(thing, thing', unseen, unseen') /\ \A u \in Tasks : DropsTold(task[u], thing, thing', unseen')
      BY <1>1, <1>10, NoneDropped DEF ThingsMove
  <1>12. ~Past(w) /\ Knows(w, thing', unseen')
      BY <1>7 DEF Fresh, Past, Knows
  <1>13. /\ \A u \in Tasks \ {t} : task'[u] = task[u]
         /\ \A u \in Tasks : Knows(task'[u], thing', unseen')
         /\ \A u \in Tasks \ {t} : CallGoes(task[u], task'[u], thing, thing', unseen')
      BY <1>6, <1>11, <1>12, OneGoes DEF LinkInv
  <1>14. CallGoes(f, w, thing, thing', unseen')
      BY <1>1 DEF CallGoes, Shows, Past
  <1>15. \A u \in Tasks : Knows(task'[u], thing', unseen') /\ CallGoes(task[u], task'[u], thing, thing', unseen')
      BY <1>9, <1>13, <1>14
  <1>16. \A u \in Tasks : Past(task'[u]) => task'[u] = task[u]
      BY <1>9, <1>12, <1>13
  <1>17. said' \subseteq about' /\ \A q \in said' : q \in said \/ q \in Standing({q}, about')
    <2>1. \A q \in Standing(new, about') : q \in new /\ q \in Standing({q}, about')
        BY DEF Standing
    <2> QED BY <1>3, <1>5, <1>6, <2>1 DEF LinkInv
  <1>18. MovedStand(said', about', task', thing')
    <2>1. about \ about' = {}
        BY <1>10
    <2> QED BY <1>11, <1>16, <1>17, <2>1, MovedStay DEF LinkInv
  <1>19. ASSUME NEW p \in about' \ about, p[2] \notin unseen'
         PROVE  LinkSeen(p[1], p[2], row'[p[1]].home, thing', task', unseen')
    <2>1. PICK x \in moved : p = <<f.keep, x>>
        BY <1>3, <1>19
    <2>2. row'[f.keep].home = f.home /\ p[1] = f.keep /\ p[2] = x
        BY <1>1, <1>3, <1>19, <2>1
    <2>3. Shows(task'[t], x, f.home)
        BY <1>2, <1>7, <1>9, <2>1, AboveIn DEF Shows
    <2> QED BY <2>2, <2>3 DEF LinkSeen
  <1>20. PendingApart'
      BY <1>1, PendingSame DEF LinkInv
  <1> QED BY <1>1, <1>11, <1>15, <1>17, <1>18, <1>19, <1>20, RowsStay, LinksKept

\* Where entries stay as they are, a step that is none on links leaves all that calls on things go by.
LEMMA SameEntries ==
    ASSUME TypeInv, TypeInv', LinkInv, UNCHANGED <<thing, about, said, unseen, row, excused>>, TasksAside,
           PendingApart => PendingApart'
    PROVE  LinkInv'
  BY RowsStay, AsideKept DEF LinksAside

\* Calls on entries, shares, questions and proposals leave links alone, and the entries too.
LEMMA CallsAside ==
    ASSUME TypeInv, TypeInv', LinkInv,
           \/ EntryCall /\ UNCHANGED <<shareVars, needVars, thingVars>>
           \/ (ShareCall \/ RefreshTick) /\ UNCHANGED <<needVars, thingVars>>
           \/ NeedCall /\ UNCHANGED thingVars
           \/ \E p \in quota.callers \cap People : PersonCall(p)
           \/ \E a \in quota.approvers, q \in Pendings : QueueCall(a, q)
    PROVE  LinkInv'
  <1>1. CASE EntryCall /\ UNCHANGED <<shareVars, needVars, thingVars>>
    <2>1. UNCHANGED <<row, excused>>
        BY <1>1 DEF EntryCall, Read, MarksLapse, Write, WorkerWrite, WorkerUpdate, WorkerStores, TypedUpdate, SetHome, RegradeRead
    <2> QED BY <1>1, <2>1, EntryCallAside, SameEntries DEF thingVars
  <1>2. CASE (ShareCall \/ RefreshTick) /\ UNCHANGED <<needVars, thingVars>>
    <2>1. UNCHANGED <<row, excused>>
        BY <1>2 DEF ShareCall, RefreshTick, Revoke, ReadGranted, GrantAccess, GrantWaiting
    <2> QED BY <1>2, <2>1, ShareCallAside, SameEntries DEF thingVars
  <1>3. CASE NeedCall /\ UNCHANGED thingVars
    <2>1. UNCHANGED <<row, excused>>
        BY <1>3 DEF NeedCall, Ask, Meet, ExpireAsk, rest
    <2> QED BY <1>3, <2>1, NeedCallAside, PendingSame, SameEntries DEF thingVars
  <1>4. CASE \E p \in quota.callers \cap People : PersonCall(p)
    <2>1. UNCHANGED <<row, excused>> /\ UNCHANGED thingVars
        BY <1>4 DEF PersonCall, ConfirmRead, Decline, ConfirmAsk, Withdraw, Dismiss, Answer, rest
    <2> QED BY <1>4, <2>1, PersonCallAside, SameEntries DEF thingVars
  <1>5. CASE \E a \in quota.approvers, q \in Pendings : QueueCall(a, q)
    <2>1. UNCHANGED <<row, excused>> /\ UNCHANGED thingVars
        BY <1>5 DEF QueueCall, Approve, Reject, ApproveShare, ApproveThing, others
    <2> QED BY <1>5, <2>1, QueueCallAside, SameEntries DEF thingVars, LinkInv
  <1> QED BY <1>1, <1>2, <1>3, <1>4, <1>5

\* Calls on things,
LEMMA ThingCallKept ==
    ASSUME TypeInv, TypeInv', LinkInv, ThingCall
    PROVE  LinkInv'
  <1>1. CASE RestartThings
      BY <1>1, RestartKept
  <1>2. CASE \E r \in Rids : DeleteEntry(r)
      BY <1>2, DeleteEntryKept
  <1>3. CASE \E r \in Rids, n \in Nouns, x \in Tids : Unlink(r, n, x)
      BY <1>3, UnlinkKept
  <1>4. CASE /\ ~RestartThings /\ \A r \in Rids : ~DeleteEntry(r)
             /\ \A r \in Rids, n \in Nouns, x \in Tids : ~Unlink(r, n, x)
      BY <1>4, ThingCallAside, SameEntries DEF LinkInv
  <1> QED BY <1>1, <1>2, <1>3, <1>4

\* ... calls on entries as they go on,
LEMMA EntryTaskKept ==
    ASSUME Inv, TypeInv', LinkInv, NEW t \in Tasks, EntryTask(t), UNCHANGED thingVars
    PROVE  LinkInv'
  <1>0. TypeInv
      BY DEF Inv
  <1>1. CASE MoveFollowed(t)
      BY <1>0, <1>1, MoveKept
  <1>2. CASE RegradeStep(t)
      BY <1>0, <1>2, RegradeKept
  <1>3. CASE ~MoveFollowed(t) /\ ~RegradeStep(t)
    <2>1. TasksAside /\ (PendingApart => PendingApart')
        BY <1>3, EntryTaskAside
    <2>2. CASE WriteStore(t)
        BY <1>0, <2>1, <2>2, WriteKept
    <2>3. CASE TypedApply(t)
      <3>1. UNCHANGED row /\ excused \subseteq excused'
          BY <2>3 DEF TypedApply
      <3> QED BY <1>0, <2>1, <3>1, RowsStay, MovedKept
    <2>4. CASE ~WriteStore(t) /\ ~TypedApply(t)
      <3>1. UNCHANGED <<row, excused>>
          BY <1>3, <2>4 DEF EntryTask, WriteAsk, WriteAskLost, MoveCheck, Settle, RegradeOut
      <3> QED BY <1>0, <2>1, <3>1, SameEntries DEF thingVars
    <2> QED BY <2>2, <2>3, <2>4
  <1> QED BY <1>1, <1>2, <1>3

\* ... on shares and questions,
LEMMA AsideTaskKept ==
    ASSUME Inv, TypeInv', LinkInv, NEW t \in Tasks, UNCHANGED thingVars, ShareTask(t) \/ NeedTask(t)
    PROVE  LinkInv'
  <1>0. TypeInv
      BY DEF Inv
  <1>1. CASE ShareTask(t)
    <2>1. UNCHANGED <<row, excused>>
        BY <1>1 DEF ShareTask, RefreshRead, RefreshSweep, StoreGrant, ConfirmWrite, ResolveRead, ResolveStep, ResolveOne
    <2> QED BY <1>0, <1>1, <2>1, ShareTaskAside, SameEntries DEF thingVars
  <1>2. CASE NeedTask(t)
    <2>1. UNCHANGED <<row, excused>>
        BY <1>2 DEF NeedTask, OpenJoin, OpenGrade, OpenNow, OpenMatch, Show, ShowTo, ShowDone, MeetWrite, CloseRevoke, rest
    <2> QED BY <1>0, <1>2, <2>1, NeedTaskAside, PendingSame, SameEntries DEF thingVars
  <1> QED BY <1>1, <1>2

\* ... and on things.
LEMMA ThingTaskKept ==
    ASSUME TypeInv, TypeInv', LinkInv, NEW t \in Tasks, ThingTask(t)
    PROVE  LinkInv'
  <1>1. CASE StrayCount(t) \/ FoldRead(t)
      BY <1>1, ThingTaskAside, PendingSame, SameEntries
  <1>2. CASE FoldDelete(t) \/ DeleteTask(t)
      BY <1>2, DeletedKept
  <1>3. CASE SeenRead(t) \/ SeenWrite(t) \/ SeenFails(t) \/ LinkStep(t) \/ MakeThing(t) \/ AboutOnce(t)
      BY <1>3, SeenReadKept, SeenWriteKept, SeenFailsKept, LinkStepKept, MakeThingKept, AboutOnceKept
  <1>4. CASE StrayDelete(t) \/ RenameWrite(t) \/ FoldMove(t)
      BY <1>4, StrayDeleteKept, RenameWriteKept, FoldMoveKept
  <1>5. CASE MergeRead(t) \/ MergeMove(t) \/ MergeHomes(t) \/ MergeDelete(t)
      BY <1>5, MergeReadKept, MergeMoveKept, MergeHomesKept, MergeDeleteKept
  <1> QED BY <1>1, <1>2, <1>3, <1>4, <1>5 DEF ThingTask

\* All that calls on things go by holds at the start,
LEMMA LinkInit == Init => LinkInv
  <1> SUFFICES ASSUME Init PROVE LinkInv
    OBVIOUS
  <1>1. /\ quota \in Quotas /\ row = quota.rows /\ \A t \in Tasks : task[t] = Idle
        /\ \A q \in Pendings : pending[q] = None
        /\ about = quota.links /\ said = quota.links
        /\ thing = [x \in Tids |-> IF x \in DOMAIN quota.things THEN quota.things[x] ELSE None]
      BY DEF Init, EntriesInit, ThingsInit
  <1>2. MovedStand(said, about, task, thing)
      BY <1>1 DEF MovedStand, Past, Idle
  <1>3. TasksLinked
      BY <1>1 DEF TasksLinked, Knows, Idle
  <1>4. PendingApart
      BY <1>1 DEF PendingApart, Apart
  <1>5. LinksSeen
    <2> SUFFICES ASSUME NEW p \in about PROVE SeenFrom(thing[p[2]].homes, row[p[1]].home)
        BY DEF LinksSeen, LinkSeen
    <2>1. p[2] \in Tids
        BY InitInv DEF Inv, TypeInv, ThingsOK
    <2>2. /\ p[2] \in DOMAIN quota.things
          /\ \E h \in quota.things[p[2]].homes : quota.rows[p[1]].home \in AtOrAbove(h)
        BY <1>1, KnowledgeAssumption
    <2>3. thing[p[2]] = quota.things[p[2]]
        BY <1>1, <2>1, <2>2
    <2> QED BY <1>1, <2>2, <2>3 DEF SeenFrom
  <1> QED BY <1>1, <1>2, <1>3, <1>4, <1>5 DEF LinkInv

\* ... and no step breaks it.
LEMMA LinkNext == Inv /\ TypeInv' /\ LinkInv /\ [Next]_vars => LinkInv'
  <1> SUFFICES ASSUME Inv, TypeInv', LinkInv, [Next]_vars PROVE LinkInv'
    OBVIOUS
  <1>0. TypeInv
      BY DEF Inv
  <1>1. CASE UNCHANGED vars
    <2>1. UNCHANGED <<thing, about, said, unseen, row, excused, pending>> /\ UNCHANGED task
        BY <1>1 DEF vars, entryVars, thingVars
    <2> QED BY <1>0, <2>1, NoTask, PendingSame, SameEntries
  <1>2. CASE ThingCall
      BY <1>0, <1>2, ThingCallKept
  <1>3. ASSUME NEW t \in Tasks, TaskStep(t) PROVE LinkInv'
    <2>1. CASE EntryTask(t) /\ UNCHANGED <<shareVars, needVars, thingVars>>
        BY <2>1, EntryTaskKept
    <2>2. CASE ShareTask(t) /\ UNCHANGED <<needVars, thingVars>>
        BY <2>2, AsideTaskKept
    <2>3. CASE NeedTask(t) /\ UNCHANGED thingVars
        BY <2>3, AsideTaskKept
    <2>4. CASE ThingTask(t)
        BY <1>0, <2>4, ThingTaskKept
    <2> QED BY <1>3, <2>1, <2>2, <2>3, <2>4 DEF TaskStep
  <1>4. CASE Next /\ ~ThingCall /\ \A t \in Tasks : ~TaskStep(t)
      BY <1>0, <1>4, CallsAside DEF Next
  <1> QED BY <1>1, <1>2, <1>3, <1>4

\* A link of an entry to a thing stands until it is taken back, through merges of the thing, folds of the entry and
\* restarts in the middle of them (mergeThings, foldEntries), and who sees an entry sees the things it is about once
\* no call is at work (thingSeenFrom), short of the races that excuse it.
THEOREM LinksStandThere == Spec => []LinksStand
  <1>1. Init => Inv /\ LinkInv
      BY InitInv, LinkInit
  <1>2. Inv /\ LinkInv /\ [Next]_vars => Inv' /\ LinkInv'
    <2> SUFFICES ASSUME Inv, LinkInv, [Next]_vars PROVE Inv' /\ LinkInv'
      OBVIOUS
    <2>1. Inv' /\ TypeInv'
        BY NextInv DEF Inv
    <2> QED BY <2>1, LinkNext
  <1>3. LinkInv => LinksStand
    <2> SUFFICES ASSUME LinkInv PROVE LinksStand
      OBVIOUS
    <2>1. ASSUME \A t \in Tasks : task[t] = Idle, NEW p \in about, p[2] \notin unseen, row[p[1]].e \notin excused
          PROVE  \E h \in thing[p[2]].homes : row[p[1]].home \in AtOrAbove(h)
      <3>1. LinkSeen(p[1], p[2], row[p[1]].home, thing, task, unseen)
          BY <2>1 DEF LinkInv, LinksSeen
      <3>2. ~\E u \in Tasks : task[u].kind \in {"seen", "merge"}
          BY <2>1 DEF Idle
      <3> QED BY <3>1, <3>2 DEF LinkSeen, Shows, Gives, SeenFrom
    <2> QED BY <2>1 DEF LinkInv, LinksStand
  <1> QED BY <1>1, <1>2, <1>3, PTL DEF Spec

====
