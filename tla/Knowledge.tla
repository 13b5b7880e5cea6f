---- MODULE Knowledge ----
(***************************************************************************)
(* The calls of people, agents and workers on the graph together: entries,  *)
(* shares and questions (Entries, Shares, Questions) over one database.     *)
(***************************************************************************)
EXTENDS Things

\* What the rows of proposals and grants are made of.
Statuses == {"pending", "waiting", "confirmed", "executing", "approved", "rejected", "failed"}
ShareProposal ==
    [kind : {"share"}, status : Statuses, home : Homes, who : People \cup Agents, e : Entries,
     rid : Rids \cup {None}, to : Recipients, write : Pendings \cup {None}, said : BOOLEAN]
Proposal ==
    ShareProposal
    \cup {p \in [kind : {"upsert"}, status : Statuses, home : Homes, who : Actors, e : Entries, floor : Homes,
                 by : People \cup {None}, worker : BOOLEAN] : p.worker \/ p.floor \in AtOrAbove(Origin[p.e])}
    \cup [kind : {"typed"}, status : Statuses, home : Homes, who : Actors, rid : Rids]
    \cup [kind : {"rehome"}, status : Statuses, home : Homes, who : Actors \cup {None}, rid : Rids, e : Entries,
          from : Homes, to : Homes]
    \cup [kind : {"merge"}, status : Statuses, home : Homes, who : Actors \cup {None}, keep : Tids, drop : Tids]
    \cup [kind : {"fold"}, status : Statuses, home : Homes, who : Actors, keep : Rids, drop : Rids]
    \cup [kind : {"delete"}, status : Statuses, home : Homes, who : Actors, keep : {None}, drop : Rids]
Granted ==
    [target : Rids \cup Asked \cup {None}, e : Entries \cup Asked, to : Recipients, by : Actors \cup {None},
     home : Homes \cup {None}, from : Pendings \cup {None}, status : {"active", "revoked", "expired"}]

\* What a scenario allows.
Use == [callers : SUBSET Actors, approvers : SUBSET Approvers, read : Nat, lapse : Nat, write : Nat, workerWrite : Nat,
        fault : Nat, move : Nat, decide : Nat, tick : Nat, delete : Nat, revoke : Nat, share : Nat, answer : Nat,
        restart : Nat, ask : Nat, press : Nat, meet : Nat, withdraw : Nat, expire : Nat, reply : Nat, link : Nat,
        unlink : Nat, rename : Nat, relate : Nat, merge : Nat, fold : Nat, minutes : BOOLEAN, reviewed : BOOLEAN,
        rows : [Rids -> Row \cup {None}], typed : SUBSET Entries, asks : SUBSET BOOLEAN,
        things : UNION {[xs -> Thing] : xs \in SUBSET Tids}, links : SUBSET (Rids \X Tids)]

ASSUME KnowledgeAssumption ==
    /\ Quotas \subseteq Use
    /\ \A u \in Quotas : \A r, s \in Rids : u.rows[r] # None /\ u.rows[s] # None /\ u.rows[r].e = u.rows[s].e => r = s
    /\ \A u \in Quotas : \A p \in u.links :
          /\ u.rows[p[1]] # None /\ p[2] \in DOMAIN u.things
          /\ \E h \in u.things[p[2]].homes : u.rows[p[1]].home \in AtOrAbove(h)
    /\ None \notin Row /\ None \notin Thing /\ None # Gone /\ None \notin Proposal /\ None \notin Granted /\ None \notin Pendings

Init == EntriesInit /\ SharesInit /\ QuestionsInit /\ ThingsInit

EntryCall ==
    \/ \E a \in quota.callers, r \in Rids : Read(a, r)
    \/ \E a \in quota.callers : MarksLapse(a)
    \/ \E a \in quota.callers, e \in Entries : Write(a, e)
    \/ Worker \in quota.callers /\ \E e \in Entries, propose \in BOOLEAN : WorkerWrite(e, propose)
    \/ Worker \in quota.callers /\ \E r \in Rids, propose \in BOOLEAN : WorkerUpdate(r, propose) \/ TypedUpdate(r, propose)
    \/ \E a \in quota.callers, r \in Rids, to \in Homes, propose \in BOOLEAN : SetHome(a, r, to, propose)
    \/ RegradeRead

EntryTask(t) ==
    \/ WriteStore(t) \/ WriteAsk(t) \/ WriteAskLost(t)
    \/ TypedApply(t)
    \/ MoveCheck(t) \/ MoveFollowed(t)
    \/ Settle(t, AfterSettle(t))
    \/ RegradeStep(t) \/ RegradeOut(t)

ShareCall ==
    \/ \E a \in quota.callers, g \in Grants : Revoke(a, g)
    \/ \E a \in quota.callers, r \in Rids : ReadGranted(a, r)
    \/ \E a \in quota.callers \ {Worker}, e \in Entries, to \in Recipients :
          \/ GrantAccess(a, e, to)
          \/ \E q \in Pendings : GrantWaiting(a, e, to, q)

ShareTask(t) ==
    \/ RefreshRead(t) \/ RefreshSweep(t) \/ StoreGrant(t)
    \/ ConfirmWrite(t) \/ ResolveRead(t) \/ ResolveStep(t)

NeedCall ==
    \/ \E a \in quota.callers \ {Worker}, q \in Asked : Ask(a, q)
    \/ \E q \in Asked, r \in Rids : Meet(q, r)
    \/ \E q \in Asked : ExpireAsk(q)

NeedTask(t) ==
    \/ OpenJoin(t) \/ OpenGrade(t) \/ OpenNow(t) \/ OpenMatch(t) \/ Show(t) \/ ShowDone(t)
    \/ MeetWrite(t) \/ CloseRevoke(t)

ThingCall ==
    \/ \E r \in Rids, ns \in SUBSET Nouns, asks \in quota.asks : ns # {} /\ Link(r, ns, asks)
    \/ \E r \in Rids, n \in Nouns, x \in Tids : Unlink(r, n, x)
    \/ \E x \in Tids, n \in Nouns : DeleteThing(n, x) \/ Rename(x, n)
    \/ \E r \in Rids : DeleteEntry(r)
    \/ RestartThings
    \/ \E x, y \in Tids : Relate(x, y) \/ Unrelate(x, y) \/ \E propose \in BOOLEAN : Merge(Worker, x, y, propose)
    \/ \E keep, drop \in Rids, propose \in BOOLEAN : Fold(keep, drop, propose)
    \/ \E r \in Rids, propose \in BOOLEAN : WorkerDelete(r, propose)

\* What a person does in the workspace: the cards of a proposed share and a question, and the
\* questions others ask.
PersonCall(p) ==
    \/ /\ \E q \in Pendings : ConfirmRead(p, q) \/ Decline(p, q)
       /\ UNCHANGED <<needVars, thingVars>>
    \/ /\ \/ \E q \in Asked : ConfirmAsk(p, q) \/ Withdraw(p, q) \/ Dismiss(p, q)
          \/ \E x \in near : Answer(p, x)
       /\ UNCHANGED thingVars

\* The review queue.
QueueCall(a, q) ==
    \/ (Approve(a, q) \/ Reject(a, q)) /\ UNCHANGED <<shareVars, needVars, thingVars>>
    \/ ApproveShare(a, q) /\ UNCHANGED <<needVars, thingVars>>
    \/ ApproveThing(a, q)

ThingTask(t) ==
    \/ SeenRead(t) \/ SeenWrite(t) \/ SeenFails(t)
    \/ LinkStep(t) \/ MakeThing(t) \/ AboutOnce(t)
    \/ StrayCount(t) \/ StrayDelete(t) \/ RenameWrite(t)
    \/ MergeRead(t) \/ MergeMove(t) \/ MergeHomes(t) \/ MergeDelete(t)
    \/ FoldRead(t) \/ FoldMove(t) \/ FoldDelete(t) \/ DeleteTask(t)

\* A call at work goes on by itself.
TaskStep(t) ==
    \/ EntryTask(t) /\ UNCHANGED <<shareVars, needVars, thingVars>>
    \/ ShareTask(t) /\ UNCHANGED <<needVars, thingVars>>
    \/ NeedTask(t) /\ UNCHANGED thingVars
    \/ ThingTask(t)

Next ==
    \/ EntryCall /\ UNCHANGED <<shareVars, needVars, thingVars>>
    \/ (ShareCall \/ RefreshTick) /\ UNCHANGED <<needVars, thingVars>>
    \/ NeedCall /\ UNCHANGED thingVars
    \/ \E p \in quota.callers \cap People : PersonCall(p)
    \/ \E a \in quota.approvers, q \in Pendings : QueueCall(a, q)
    \/ ThingCall
    \/ \E t \in Tasks : TaskStep(t)

Spec == Init /\ [][Next]_vars

\* Every call ends (the models and the database answer or time out), and the refresh runs every minute.
Fairness ==
    /\ \A t \in Tasks : WF_vars(TaskStep(t))
    /\ WF_vars(RefreshTick /\ UNCHANGED <<needVars, thingVars>>)
FairSpec == Spec /\ Fairness

--------------------------------------------------------------------------

\* The state's types.
TypeOK ==
    /\ \A r \in Rids : row[r] \in Row \cup {None}
    /\ \A a \in Actors : marks[a] \subseteq Homes
    /\ \A q \in Pendings : pending[q] \in Proposal \cup {None}
    /\ \A g \in Grants : grant[g] \in Granted \cup {None}
    /\ \A e \in Entries : due[e] \in Homes
    /\ cache \subseteq {g \in Grants : grant[g] # None}
    /\ \A q \in Asked : need[q].status \in NeedStatuses
    /\ \A x \in Tids : thing[x] \in Thing \cup {Gone, None}
    /\ \A p \in about : row[p[1]] # None /\ Exists(p[2])
    /\ \A p \in relates : Exists(p[1]) /\ Exists(p[2])

\* Derived data stays where its writer's sources are seen: an entry is homed at or above all that
\* was read for what it says, unless someone decided otherwise or a known race stored over it
\* (derivedFloor, applyFloor; placement.js).
FloorKept ==
    \A r \in Rids : row[r] # None /\ row[r].e \notin excused => row[r].home \in AtOrAbove(due[row[r].e])

\* More people come to see an entry only by an approved move or when its first grading settles where
\* it was held, and then not if a person placed it; and what a person placed is moved by a person, by
\* an approval, or up by the grading of what is written next, and by no agent or timer (setHome and its
\* `placed`, applyRehome, regradeTick, and upsertEntities of what exists; short of the same races).
Stands(r) ==
    LET was == row[r]
        Acts(t) == task'[t] # task[t]
        Moves(t) == task[t].kind = "move" /\ task[t].rid = r
        approved == \E t \in Tasks : Acts(t) /\ Moves(t) /\ task[t].after # None
        byPerson == \E t \in Tasks : Acts(t) /\ Moves(t) /\ task[t].person
        written == \E t \in Tasks : Acts(t) /\ task[t].kind = "write" /\ task[t].e = was.e
        up == row'[r].home \in AtOrAbove(was.home) IN
    (was # None /\ row'[r] # None /\ was.e = row'[r].e /\ row'[r].home # was.home /\ was.e \notin excused') =>
       /\ up \/ approved \/ (was.ungraded # None /\ ~was.placed)
       /\ was.placed => approved \/ byPerson \/ (written /\ up)
PlacementStands == [][\A r \in Rids : Stands(r)]_vars

\* A share is made once, however many confirm, approve or resolve it (the claims of confirmProposal
\* and approvePending, and resolveWaitingShares that makes none), and not at all if its person
\* declined it before it was made or being made (declineProposal against them).
SharedOnce ==
    \A g \in Grants : grant[g] # None =>
        /\ grant[g].from \notin refused
        /\ \A h \in Grants \ {g} : grant[h] # None /\ grant[g].from # None => grant[h].from # grant[g].from

\* A closed question is shown to nobody once its closing is through, unless it was closed while it
\* was still being opened, met or shown, or a restart broke its closing off (closeNeed, expireRequests).
ClosedIsHidden ==
    \A q \in Asked :
       need[q].status \in {"withdrawn", "joined", "expired"} /\ q \notin crossed
          /\ (\A t \in Tasks : task[t].kind = "close" => task[t].q # q)
       => \A g \in Active : grant[g].target # q

\* A link of an entry to a thing stands until it is taken back, through whatever merges of the
\* thing, folds of the entry and restarts in the middle of them (mergeThings, foldEntries;
\* short of one made while its end was being deleted, or that could not be read before it was).  And who sees an entry sees the things it
\* is about, wherever it moved and whatever was merged or folded, once no call is at work
\* (thingSeenFrom; short of the races and failures in `unseen` and `excused`).
LinksStand ==
    /\ said \subseteq about
    /\ (\A t \in Tasks : task[t] = Idle) =>
        \A p \in about : p[2] \notin unseen /\ row[p[1]].e \notin excused =>
            \E h \in thing[p[2]].homes : row[p[1]].home \in AtOrAbove(h)

\* What is revoked in the end stays out of what reads go by, whatever refreshes overlap
\* (refreshGrants each minute, revokeGrant's own, deleteEntry's).
RevocationTakesHold == <>[](\A g \in cache : grant[g].status # "revoked")

====
