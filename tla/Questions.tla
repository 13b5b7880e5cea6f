---- MODULE Questions ----
(***************************************************************************)
(* Questions as entries (graph-rag/src/server.js: requestAccess, openNeed,  *)
(* meetAssertion, shareNeed, closeNeed, answerRequest; needs.js).  A person *)
(* asks; a question that meets an entry its asker cannot see is shown to    *)
(* the entry's owners, by a grant on the question, for as long as it is     *)
(* open; an owner answers by sharing the entry.                             *)
(*                                                                          *)
(* What meets what is the embedder's: any hidden entry may.  The links      *)
(* between different people's questions are left out.                       *)
(***************************************************************************)
EXTENDS Shares

CONSTANTS Asked   \* the questions, by id

ASSUME QuestionsAssumption == Asked \cap (Rids \cup Entries \cup {None}) = {}

VARIABLES
    need,     \* the question's entry: its status, asker, where it is homed, who dismissed it
    near,     \* NEAR edges: a question met an entry
    crossed   \* history: questions closed while another call was still at work on them, or whose
              \* closing a restart broke off

needVars == <<need, near, crossed>>
rest == <<row, marks, pending, due, excused, shareVars>>

NeedStatuses == {"none", "proposed", "opening", "open", "joined", "withdrawn", "expired"}

QuestionsInit ==
    /\ need = [q \in Asked |-> [status |-> "none", asker |-> None, home |-> None, dismissed |-> {}]]
    /\ near = {} /\ crossed = {}

\* The homes a question's asker, or an entry's owners, are found by.
DefaultHome(a) == Deepest(Held[a])
HoldersOf(p, asker) == {a \in People \ {asker} : p \in Held[a]}
OwnersFor(home, asker) ==
    LET held == {p \in AtOrAbove(home) \cap Positions : HoldersOf(p, asker) # {}} IN
    IF held = {} THEN {} ELSE HoldersOf(Deepest(held), asker)

\* A share reads go by shows an entry; personSees: by position, as its writer, or through a share.
Shared(a, r) == \E g \in cache : grant[g].target = r /\ Holds(g) /\ Reaches(g, a)
PersonSees(a, r) == Sees(a, r) \/ Shared(a, r)

\* Other calls are at work on this question: opening it, meeting it, or showing it.
Opens(what, q) == what.kind \in {"open", "meet"} /\ what.q = q
Concerns(what, q) ==
    \/ Opens(what, q)
    \/ what.kind = "grant" /\ what.what.target = q
    \/ what.kind \in {"grant", "refresh", "settle"} /\ Opens(what.then, q)
AtWorkOn(q, but) == \E t \in Tasks \ but : Concerns(task[t], q)

--------------------------------------------------------------------------
(* Asking.                                                                  *)

OpenTask(q) == [kind |-> "open", step |-> "join", q |-> q, to |-> {}]

\* An agent drafts a question; a person's own goes out at once, still "proposed" while it opens.
Ask(a, q) ==
    /\ Spend("ask") /\ need[q].status = "none" /\ Held[a] # {}
    /\ need' = [need EXCEPT ![q] = [@ EXCEPT !.status = "proposed", !.asker = Person(a), !.home = DefaultHome(a)]]
    /\ IF IsPerson(a) THEN HasTask /\ Begin(FreeTask, OpenTask(q)) ELSE UNCHANGED task
    /\ UNCHANGED <<rest, near, crossed>>

\* The person presses Ask on the card: claimed, so that a second press does nothing.
ConfirmAsk(p, q) ==
    /\ Spend("press") /\ need[q].status = "proposed" /\ need[q].asker = p /\ HasTask
    /\ need' = [need EXCEPT ![q].status = "opening"]
    /\ Begin(FreeTask, OpenTask(q))
    /\ UNCHANGED <<rest, near, crossed>>

Twins(q) == {o \in Asked \ {q} : need[o].status = "open" /\ need[o].asker = need[q].asker}

\* It joins the same person's open question if that is nearly the same ...
OpenJoin(t) ==
    LET q == task[t].q IN
    /\ task[t].kind = "open" /\ task[t].step = "join" /\ Twins(q) # {}
    /\ need' = [need EXCEPT ![q].status = "joined"] /\ Begin(t, Idle)
    \* asked directly and pressed as well, it is opened twice
    /\ crossed' = IF need[q].status = "open" \/ AtWorkOn(q, {t}) THEN crossed \cup {q} ELSE crossed
    /\ UNCHANGED <<rest, quota, near>>

\* ... or else the grader is asked how long it matters, and it is open.
OpenGrade(t) ==
    /\ task[t].kind = "open" /\ task[t].step = "join"
    /\ Begin(t, [task[t] EXCEPT !.step = "grade"])
    /\ UNCHANGED <<rest, quota, need, near, crossed>>

OpenNow(t) ==
    /\ task[t].kind = "open" /\ task[t].step = "grade"
    /\ need' = [need EXCEPT ![task[t].q].status = "open"]
    /\ Begin(t, [task[t] EXCEPT !.step = "match"])
    /\ UNCHANGED <<rest, quota, near, crossed>>

\* It meets hidden entries, whose owners are shown it; or it is posted for a position below.
OpenMatch(t) ==
    LET q == task[t].q
        \* what the asker wrote is hidden to this search all the same
        hidden == {r \in Rids : row[r] # None /\ ~Owns(need[q].asker, row[r].home) /\ ~Shared(need[q].asker, r)}
    IN
    /\ task[t].kind = "open" /\ task[t].step = "match"
    /\ \E met \in SUBSET hidden : \E posted \in {None} \cup (Positions \ AtOrAbove(need[q].home)) :
         /\ near' = near \cup {[q |-> q, rid |-> r, e |-> row[r].e, state |-> "open"] : r \in met}
         /\ met # {} => posted = None
         /\ Begin(t, [task[t] EXCEPT !.step = "show",
                !.to = IF met = {} THEN {posted} \ {None}
                       ELSE UNION {OwnersFor(row[r].home, need[q].asker) : r \in met}])
    /\ UNCHANGED <<rest, quota, need, crossed>>

\* shareNeed: a grant on the question, unless reads already go by one; none once its time is over.
ShowTo(t, to) ==
    LET q == task[t].q
        next == [task[t] EXCEPT !.to = @ \ {to}]
    IN
    /\ task[t].kind = "open" /\ task[t].step = "show"
    /\ IF (\E g \in cache : grant[g].target = q /\ grant[g].to = to) \/ need[q].status = "expired"
       THEN Begin(t, next)
       ELSE Begin(t, [GrantTask(NewGrant(q, q, to, None, need[q].home, None), None) EXCEPT !.then = next])
    /\ UNCHANGED <<rest, quota, needVars>>

Show(t) == task[t].kind = "open" /\ \E to \in task[t].to : ShowTo(t, to)

ShowDone(t) ==
    /\ task[t].kind = "open" /\ task[t].step = "show" /\ task[t].to = {}
    /\ Begin(t, Idle) /\ UNCHANGED <<rest, quota, needVars>>

--------------------------------------------------------------------------
(* meetAssertion: an entry just written meets the open questions near it.    *)

Meet(q, r) ==
    /\ Spend("meet") /\ need[q].status = "open" /\ row[r] # None /\ HasTask
    /\ Begin(FreeTask, [kind |-> "meet", q |-> q, rid |-> r, e |-> row[r].e, home |-> row[r].home,
                        visible |-> PersonSees(need[q].asker, r)])
    /\ UNCHANGED <<rest, needVars>>

\* Once per pair; the asker is told of what they see, and else its owners are shown the question.
MeetWrite(t) ==
    LET m == task[t]
        again == \E x \in near : x.q = m.q /\ x.rid = m.rid
    IN
    /\ m.kind = "meet"
    /\ near' = IF again THEN near
               ELSE near \cup {[q |-> m.q, rid |-> m.rid, e |-> m.e, state |-> IF m.visible THEN "visible" ELSE "open"]}
    /\ Begin(t, IF again \/ m.visible THEN Idle
                ELSE [kind |-> "open", step |-> "show", q |-> m.q, to |-> OwnersFor(m.home, need[m.q].asker)])
    /\ UNCHANGED <<rest, quota, need, crossed>>

--------------------------------------------------------------------------
(* Closing, answering, dismissing.                                          *)

\* withdrawRequest and closeNeed: the status, then the grants on it, then a refresh.
Withdraw(p, q) ==
    /\ Spend("withdraw") /\ need[q].status \in {"proposed", "open"} /\ need[q].asker = p /\ HasTask
    /\ need' = [need EXCEPT ![q].status = "withdrawn"]
    /\ crossed' = IF AtWorkOn(q, {}) THEN crossed \cup {q} ELSE crossed
    /\ Begin(FreeTask, [kind |-> "close", q |-> q])
    /\ UNCHANGED <<rest, near>>

\* (faulty variant: the position it was posted for goes on seeing it)
ShownToPeople(q) == {g \in Active : grant[g].target = q /\ grant[g].to \in People}

\* What closing a question takes back.
ShownBy(q) == {g \in Active : grant[g].target = q}

CloseRevoke(t) ==
    /\ task[t].kind = "close"
    /\ LET shown == ShownBy(task[t].q) IN
       grant' = [g \in Grants |-> IF g \in shown THEN [grant[g] EXCEPT !.status = "revoked"] ELSE grant[g]]
    /\ Begin(t, Refreshing)
    /\ UNCHANGED <<row, marks, pending, due, excused, quota, cache, refused, needVars>>

\* Its time is over, and its grants' with it (expireRequests; they have the same end).
ExpireAsk(q) ==
    /\ Spend("expire") /\ need[q].status = "open"
    /\ need' = [need EXCEPT ![q].status = "expired"]
    /\ grant' = [g \in Grants |-> IF g \in ShownBy(q) THEN [grant[g] EXCEPT !.status = "expired"] ELSE grant[g]]
    /\ crossed' = IF AtWorkOn(q, {}) THEN crossed \cup {q} ELSE crossed
    /\ UNCHANGED <<row, marks, pending, task, due, excused, cache, refused, near>>

\* The open question is shown to this person: a grant reads go by, to them or where they see.
ShownTo(p, q) ==
    \E g \in cache \cap Active : grant[g].target = q /\ Reaches(g, p)
MayAnswer(p, x) ==
    /\ need[x.q].status = "open" /\ ShownTo(p, x.q) /\ p \notin need[x.q].dismissed /\ p # need[x.q].asker
    /\ row[x.rid] # None /\ p \in OwnersFor(row[x.rid].home, need[x.q].asker)

\* answerRequest: the entry is shared with the asker, and the meeting says so.
Answer(p, x) ==
    /\ Spend("reply") /\ x.state = "open" /\ MayAnswer(p, x) /\ HasTask
    /\ LET to == need[x.q].asker
           r == row[x.rid]
       IN IF RecipientSees(to, r.home) THEN UNCHANGED <<pending, task>>
          ELSE IF SharesDirectly(p)
          THEN /\ Begin(FreeTask, GrantTask(NewGrant(x.rid, r.e, to, p, r.home, None), None))
               /\ UNCHANGED pending
          ELSE Queue(SharePending(p, r.e, x.rid, to, r.home, None, "pending")) /\ UNCHANGED task
    /\ near' = (near \ {x}) \cup {[x EXCEPT !.state = "shared"]}
    /\ UNCHANGED <<row, marks, due, excused, shareVars, need, crossed>>

Dismiss(p, q) ==
    /\ Spend("reply") /\ need[q].status = "open" /\ ShownTo(p, q) /\ p \notin need[q].dismissed /\ p # need[q].asker
    /\ near' = {IF x.q = q /\ x.state = "open" /\ MayAnswer(p, x) THEN [x EXCEPT !.state = "declined"] ELSE x : x \in near}
    /\ need' = [need EXCEPT ![q].dismissed = @ \cup {p}]
    /\ UNCHANGED <<rest, task, crossed>>

====
