---- MODULE Rail ----
(***************************************************************************)
(* The rail of agents in a browser (web/src/lib/stores.svelte.ts,             *)
(* App.svelte, NewChat.svelte, DeleteAgentModal.svelte): a list that is asked *)
(* for every 15 s and after the browser's own changes, and what the           *)
(* workspace says over the WebSocket meanwhile (ws/connection.ts).            *)
(***************************************************************************)
EXTENDS Naturals, Sequences, SequencesExt, FiniteSets

CONSTANTS
    Fellows,    \* agents of the workspace
    NoFellow,
    MaxLists    \* lists asked for at once (a bound)

ASSUME RailAssumption == IsFiniteSet(Fellows)

Asking == 1 .. MaxLists

VARIABLES
    fellow,   \* per agent, in the workspace: "gone", "stopped" or "running"
    turning,  \* agents in a turn
    link,     \* the WebSocket: whether it is up, and what is on its way
    list,     \* per list asked for: what it is at, what it says, what is shown after it
    rail,     \* the browser: its rows, who it takes to be working, which agent is shown
    missed,   \* history: agents of whose turn the browser was not told
    railing   \* whether the page is open, and what is to happen (bounds, by scenario)

railVars == <<fellow, turning, link, list, rail, missed, railing>>

RailUse == [open : BOOLEAN, changes : Nat, turns : Nat, breaks : Nat, picks : Nat]

NotAsked == [step |-> "free"]
NoRows == [a \in {} |-> 0]

RailInit ==
    /\ railing \in RailUse
    /\ fellow \in [Fellows -> {"gone", "stopped", "running"}] /\ turning = {} /\ missed = {}
    /\ link = [up |-> FALSE, msgs |-> <<>>]
    /\ list = [i \in Asking |-> NotAsked]
    /\ rail = [rows |-> NoRows, working |-> {}, shown |-> NoFellow]

Happens(what) == railing[what] > 0 /\ railing' = [railing EXCEPT ![what] = @ - 1]

--------------------------------------------------------------------------
(* The workspace                                                           *)

Message(a, says) == [about |-> a, says |-> says]

\* A message to the browser is lost while it is not connected.
Tell(a, says) ==
    /\ link' = IF link.up THEN [link EXCEPT !.msgs = Append(@, Message(a, says))] ELSE link
    /\ missed' = IF link.up THEN missed ELSE missed \cup {a}

\* An agent is started, stopped or crashes, which ends its turn; somebody makes one, ...
StatusChanges(a, s) ==
    /\ fellow[a] # s /\ Happens("changes") /\ fellow' = [fellow EXCEPT ![a] = s]
    /\ turning' = turning \ {a} /\ Tell(a, s)
    /\ UNCHANGED <<list, rail>>

\* ... or deletes one, which stops it.
GoneElsewhere(a) ==
    /\ fellow[a] # "gone" /\ Happens("changes") /\ fellow' = [fellow EXCEPT ![a] = "gone"]
    /\ turning' = turning \ {a} /\ Tell(a, "stopped")
    /\ UNCHANGED <<list, rail>>

TurnBegins(a) ==
    /\ fellow[a] = "running" /\ a \notin turning /\ Happens("turns")
    /\ turning' = turning \cup {a} /\ Tell(a, "agent_start")
    /\ UNCHANGED <<fellow, list, rail>>

TurnEnds(a) ==
    /\ a \in turning /\ turning' = turning \ {a} /\ Tell(a, "agent_end")
    /\ UNCHANGED <<fellow, list, rail, railing>>

\* The socket opens, at first or again: the states of all agents are sent.
Connects ==
    LET told == SetToSeq({a \in Fellows : fellow[a] # "gone"}) IN
    /\ railing.open /\ ~link.up
    /\ link' = [up |-> TRUE, msgs |-> [i \in DOMAIN told |-> Message(told[i], fellow[told[i]])]]
    /\ UNCHANGED <<fellow, turning, list, rail, missed, railing>>

\* It breaks: what was on its way is lost.
Disconnects ==
    /\ link.up /\ Happens("breaks") /\ link' = [up |-> FALSE, msgs |-> <<>>]
    /\ missed' = missed \cup {m.about : m \in Range(link.msgs)}
    /\ UNCHANGED <<fellow, turning, list, rail>>

--------------------------------------------------------------------------
(* The browser                                                             *)

InRows(a) == a \in DOMAIN rail.rows
IsStatus(m) == m.says \in {"stopped", "running"}

\* (faulty variant: every message about an agent is taken for its status)
HeardAsStatus(r, m) ==
    [r EXCEPT !.rows = [a \in DOMAIN r.rows |-> IF a = m.about THEN [r.rows[a] EXCEPT !.status = m.says] ELSE r.rows[a]]]

\* onMessage: a status is the row's, if there is one, and one that is not running does not
\* work; a turn's begin and end are kept, and an event is unread unless its agent is shown.
Heard(r, m) ==
    [r EXCEPT !.rows = [a \in DOMAIN r.rows |->
                           IF a # m.about THEN r.rows[a]
                           ELSE IF IsStatus(m) THEN [r.rows[a] EXCEPT !.status = m.says]
                           ELSE [r.rows[a] EXCEPT !.unread = @ \/ a # r.shown]],
              !.working = IF m.says = "agent_start" THEN @ \cup {m.about}
                          ELSE IF m.says = "running" THEN @ ELSE @ \ {m.about}]

Hear ==
    LET m == Head(link.msgs) IN
    /\ link.msgs # <<>> /\ link' = [link EXCEPT !.msgs = Tail(@)]
    /\ rail' = Heard(rail, m)
    /\ missed' = IF m.says = "running" THEN missed ELSE missed \ {m.about}
    /\ UNCHANGED <<fellow, turning, list, railing>>

\* select: the agent shown has nothing unread.
Showing(r, a) ==
    [r EXCEPT !.shown = a, !.rows = [b \in DOMAIN r.rows |-> IF b = a THEN [r.rows[b] EXCEPT !.unread = FALSE] ELSE r.rows[b]]]

Select(a) ==
    /\ (InRows(a) \/ a = NoFellow) /\ rail.shown # a /\ Happens("picks") /\ rail' = Showing(rail, a)
    /\ UNCHANGED <<fellow, turning, link, list, missed>>

\* refreshAgents: the list is asked for, and what is shown after it is known.
RefreshAsks(i, next) ==
    /\ list[i] = NotAsked /\ list' = [list EXCEPT ![i] = [step |-> "asked", next |-> next]]

Stay == [show |-> "stay"]
Show(a) == [show |-> a]

\* (faulty variant: the list is asked for when the page opens, and not again)
NeverAgain == rail.rows = NoRows /\ \E i \in Asking : RefreshAsks(i, Stay)

\* The page opens, and every 15 s.
Again == \E i \in Asking : RefreshAsks(i, Stay)

Interval ==
    /\ railing.open /\ Again
    /\ UNCHANGED <<fellow, turning, link, rail, missed, railing>>

\* NewChat: an agent is made, and shown when the list has come; ...
MakeHere(a) ==
    /\ fellow[a] = "gone" /\ Happens("changes") /\ fellow' = [fellow EXCEPT ![a] = "running"]
    /\ Tell(a, "running") /\ \E i \in Asking : RefreshAsks(i, Show(a))
    /\ UNCHANGED <<turning, rail>>

\* ... DeleteAgentModal: one is deleted, and nothing shown then, if it was.
DeleteHere(a) ==
    /\ InRows(a) /\ fellow[a] # "gone" /\ Happens("changes") /\ fellow' = [fellow EXCEPT ![a] = "gone"]
    /\ turning' = turning \ {a} /\ Tell(a, "stopped")
    /\ \E i \in Asking : RefreshAsks(i, IF rail.shown = a THEN Show(NoFellow) ELSE Stay)
    /\ UNCHANGED rail

\* GET /api/agents is answered, ...
ListAnswers(i) ==
    /\ list[i].step = "asked"
    /\ list' = [list EXCEPT ![i] = [step |-> "answered", next |-> @.next,
                                    says |-> [a \in {b \in Fellows : fellow[b] # "gone"} |-> fellow[a]]]]
    /\ UNCHANGED <<fellow, turning, link, rail, missed, railing>>

Then(r, next) == IF next = Stay THEN r ELSE Showing(r, next.show)

\* ... and the answer comes: the rows are the list's, with what each had unread, ...
ListComes(i) ==
    LET says == list[i].says IN
    /\ list[i].step = "answered" /\ list' = [list EXCEPT ![i] = NotAsked]
    /\ rail' = Then([rail EXCEPT !.rows = [a \in DOMAIN says |-> [status |-> says[a], unread |-> InRows(a) /\ rail.rows[a].unread]]],
                    list[i].next)
    /\ UNCHANGED <<fellow, turning, link, missed, railing>>

\* ... or none does, which is passed over.
ListFails(i) ==
    /\ list[i] # NotAsked /\ Happens("breaks") /\ list' = [list EXCEPT ![i] = NotAsked]
    /\ rail' = Then(rail, list[i].next)
    /\ UNCHANGED <<fellow, turning, link, missed>>

RailStep ==
    \/ \E a \in Fellows : \/ StatusChanges(a, "running") \/ (fellow[a] # "gone" /\ StatusChanges(a, "stopped"))
                          \/ GoneElsewhere(a) \/ TurnBegins(a) \/ TurnEnds(a)
                          \/ Select(a) \/ MakeHere(a) \/ DeleteHere(a)
    \/ Connects \/ Disconnects \/ Hear \/ Select(NoFellow) \/ Interval
    \/ \E i \in Asking : ListAnswers(i) \/ ListComes(i) \/ ListFails(i)

\* The interval goes on, requests are answered or fail, messages come.
RailFairness ==
    /\ WF_railVars(Interval) /\ WF_railVars(Hear)
    /\ \A i \in Asking : WF_railVars(ListAnswers(i)) /\ WF_railVars(ListComes(i))

RailTypeOK ==
    /\ fellow \in [Fellows -> {"gone", "stopped", "running"}] /\ turning \subseteq Fellows /\ missed \subseteq Fellows
    /\ DOMAIN rail.rows \subseteq Fellows /\ rail.working \subseteq Fellows /\ rail.shown \in Fellows \cup {NoFellow}
    /\ \A a \in DOMAIN rail.rows : rail.rows[a] \in [status : {"stopped", "running"}, unread : BOOLEAN]

\* When everything sent has been heard, the rail shows those as working that are in a turn,
\* short of one that began or ended unheard, and the agent shown has nothing unread.
RailHears ==
    /\ link.up /\ link.msgs = <<>> => \A a \in Fellows \ missed : (a \in rail.working <=> a \in turning)
    /\ InRows(rail.shown) => ~rail.rows[rail.shown].unread

\* Whatever overtakes what on the way, in the end the rail has the agents there are, with the
\* status they have.
RailTells ==
    /\ []RailHears
    /\ railing.open => <>[](/\ DOMAIN rail.rows = {a \in Fellows : fellow[a] # "gone"}
                           /\ \A a \in DOMAIN rail.rows : rail.rows[a].status = fellow[a])

====
