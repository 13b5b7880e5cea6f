---- MODULE Dialogs ----
(***************************************************************************)
(* Dialogs an agent's extensions raise (server/src/ws/connection.ts): each   *)
(* connection keeps its own list of them with a timer, and forwards what its  *)
(* tab answers (web/src/components/ExtensionDialogs.svelte).                  *)
(***************************************************************************)
EXTENDS AgentManager

CONSTANTS
    Tabs,          \* browser tabs; a tab that reconnects keeps the dialogs it shows
    DialogIds      \* dialogs raised (a bound)

VARIABLES
    open,      \* tabs with a connection
    pending,   \* per tab: the dialogs its connection has a timer for (pendingUi)
    coming,    \* per tab: requests on their way to it
    shows,     \* per tab: the dialogs it shows
    answers,   \* per tab: dialogs whose response is on its way to the server
    waits,     \* per dialog: the instance that waits on it, None before and after
    told,      \* responses written to a process: <<dialog, instance>>
    raised,    \* history: dialogs raised, ...
    reached    \* ... and those some tab was connected for

dialogVars == <<open, pending, coming, shows, answers, waits, told, raised, reached>>

DialogsInit ==
    /\ open = {} /\ raised = {} /\ reached = {} /\ told = {}
    /\ pending = [t \in Tabs |-> {}] /\ coming = pending /\ shows = pending /\ answers = pending
    /\ waits = [d \in DialogIds |-> None]

\* respondUi: to the agent's process, if it has one.
Responds(ds, running) == told' = told \cup (IF running = None THEN {} ELSE ds \X {running})

TabOpens(t) ==
    /\ t \notin open /\ open' = open \cup {t}
    /\ UNCHANGED <<pending, coming, shows, answers, waits, told, raised, reached>>

\* (faulty variant: the timers are cleared and nothing is said)
RespondsNothing(ds, running) == UNCHANGED told

Cancels(ds, running) == Responds(ds, running)

\* cleanup(): what the connection has a timer for is cancelled; its tab's answers on the way are lost.
TabCloses(t, running) ==
    /\ t \in open /\ open' = open \ {t}
    /\ Cancels(pending[t], running)
    /\ pending' = [pending EXCEPT ![t] = {}]
    /\ coming' = [coming EXCEPT ![t] = {}]
    /\ answers' = [answers EXCEPT ![t] = {}]
    /\ UNCHANGED <<shows, waits, raised, reached>>

\* onUiRequest, in every connection.
Raise(d, i) ==
    /\ d \notin raised /\ i # None
    /\ raised' = raised \cup {d}
    /\ reached' = IF open = {} THEN reached ELSE reached \cup {d}
    /\ waits' = [waits EXCEPT ![d] = i]
    /\ pending' = [t \in Tabs |-> IF t \in open THEN pending[t] \cup {d} ELSE pending[t]]
    /\ coming' = [t \in Tabs |-> IF t \in open THEN coming[t] \cup {d} ELSE coming[t]]
    /\ UNCHANGED <<open, shows, answers, told>>

TabShows(t, d) ==
    /\ d \in coming[t]
    /\ coming' = [coming EXCEPT ![t] = @ \ {d}]
    /\ shows' = [shows EXCEPT ![t] = @ \cup {d}]
    /\ UNCHANGED <<open, pending, answers, waits, told, raised, reached>>

\* ws.send throws while the socket is closed, and the dialog stays.
TabAnswers(t, d) ==
    /\ d \in shows[t] /\ t \in open
    /\ shows' = [shows EXCEPT ![t] = @ \ {d}]
    /\ answers' = [answers EXCEPT ![t] = @ \cup {d}]
    /\ UNCHANGED <<open, pending, coming, waits, told, raised, reached>>

ServerHears(t, d, running) ==
    /\ d \in answers[t]
    /\ answers' = [answers EXCEPT ![t] = @ \ {d}]
    /\ pending' = [pending EXCEPT ![t] = @ \ {d}]
    /\ Responds({d}, running)
    /\ UNCHANGED <<open, coming, shows, waits, raised, reached>>

\* Two minutes pass in one connection.
TimerFires(t, d, running) ==
    /\ d \in pending[t]
    /\ pending' = [pending EXCEPT ![t] = @ \ {d}]
    /\ Responds({d}, running)
    /\ UNCHANGED <<open, coming, shows, answers, waits, raised, reached>>

\* External: the first response settles the dialog; pi ignores the others.
PiHears(d, i) ==
    /\ <<d, i>> \in told
    /\ told' = told \ {<<d, i>>}
    /\ waits' = IF waits[d] = i THEN [waits EXCEPT ![d] = None] ELSE waits
    /\ UNCHANGED <<open, pending, coming, shows, answers, raised, reached>>

\* running: the process the server reaches; alive: those that hear.
DialogStep(running, alive) ==
    \/ \E t \in Tabs : TabOpens(t) \/ TabCloses(t, running)
    \/ \E t \in Tabs, d \in DialogIds :
          TabShows(t, d) \/ TabAnswers(t, d) \/ ServerHears(t, d, running) \/ TimerFires(t, d, running)
    \/ \E d \in DialogIds : Raise(d, running)
    \/ \E d \in DialogIds, i \in alive : PiHears(d, i)

--------------------------------------------------------------------------
DialogsTypeOK ==
    /\ open \subseteq Tabs /\ reached \subseteq raised /\ raised \subseteq DialogIds
    /\ \A t \in Tabs : /\ coming[t] \subseteq raised /\ shows[t] \subseteq raised /\ answers[t] \subseteq raised
                       /\ t \notin open => pending[t] = {} /\ coming[t] = {} /\ answers[t] = {}

\* A dialog the agent's process waits on, and that some tab was told of, is never left to
\* itself: a connection holds a timer for it or a response is written for the process,
\* whatever tabs close, reconnect, or answer late in between.
DialogHasAnswerer(running) ==
    \A d \in reached :
        (waits[d] # None /\ waits[d] = running) =>
            <<d, running>> \in told \/ \E t \in open : d \in pending[t]

====
