---- MODULE Chat ----
(***************************************************************************)
(* One conversation on its way to the browser: the tab's adapter             *)
(* (web/src/lib/rpc-agent-adapter.ts, ws-client.ts), the server's WebSocket   *)
(* connection (server/src/ws/connection.ts) and the pipes of the agent's pi   *)
(* (server/src/agents/pi-process.ts, rpc-agent.ts).                           *)
(*                                                                          *)
(* Pi itself is external: it answers commands in order, says one message at   *)
(* a time, and keeps what it said in its session file.  The messages of a     *)
(* chat are told apart by who said them and a number; what they say is left   *)
(* out.  One tab prompts.                                                     *)
(***************************************************************************)
EXTENDS AgentManager, Sequences, SequencesExt

CONSTANTS
    MaxChunk       \* lines of pi's output that come in one read (a bound)

\* A message, as who said it and its number; what a person types; a bootstrap pass; a tab.
Msg == [who : {"user", "pi", "tool"}, n : Nat]
Typing == {m \in Msg : m.who = "user"}
Boot == [gen : Nat, state : BOOLEAN \cup {None}, messages : Seq(Msg) \cup {None}]
TabRec == [shown : Seq(Msg), optimistic : SUBSET Typing, streaming : BOOLEAN, gen : Nat, booted : BOOLEAN, boots : SUBSET Boot]

\* What says that there is no connection is no connection's number, and what says that no tab
\* is open is no tab.
ASSUME ChatAssumption == None \notin Nat /\ None \notin TabRec /\ MaxChunk \in Nat

VARIABLES
    left,      \* what may still happen in this behaviour: a record of quotas (bounds)
    pi,        \* external: pi's instance, whether it runs, where in its turn, what it said
    stdin,     \* commands on their way to pi
    stdout,    \* events and answers on their way from it
    conn,      \* the tab's connection, or None while it has none
    up, down,  \* what is on its way over it
    unsent,    \* commands that wait for the socket to open
    tab,       \* RpcAgentAdapter, or None before the tab is open
    excused    \* history: what the tab is not told of, or cannot put in order, has happened

chatVars == <<left, pi, stdin, stdout, conn, up, down, unsent, tab, excused>>

Spend(q) == left[q] > 0 /\ left' = [left EXCEPT ![q] = @ - 1]

\* Those of a sequence that are at the positions xs, in their order.
Picked(s, xs) == [k \in 1 .. Cardinality(xs) |-> s[CHOOSE x \in xs : Cardinality({y \in xs : y <= x}) = k]]

NewTab == [shown |-> <<>>, optimistic |-> {}, streaming |-> FALSE, gen |-> 0, booted |-> FALSE, boots |-> {}]

ChatInit ==
    /\ pi = [inst |-> None, busy |-> FALSE, turn |-> "none", said |-> <<>>, results |-> <<>>]
    /\ stdin = <<>> /\ stdout = <<>> /\ conn = 0 /\ up = <<>> /\ down = <<>> /\ unsent = <<>>
    /\ tab = None /\ excused = FALSE

\* The commands an adapter sends, and what pi prints; for: the bootstrap (or prompt) it is about.
Command(cmd, for, steer) == [cmd |-> cmd, for |-> for, steer |-> steer, conn |-> None]
Event(e, m, results) == [line |-> e, m |-> m, results |-> results]
Answer(c, data) == [line |-> "answer", to |-> c, data |-> data]
Message(who, n) == [who |-> who, n |-> n]

--------------------------------------------------------------------------
(* The tab                                                                 *)

\* ws.rpc: sent now, or as soon as the socket is open.
Send(cmds) ==
    IF conn # None THEN up' = up \o cmds /\ UNCHANGED unsent
    ELSE unsent' = unsent \o cmds /\ UNCHANGED up

Asks(t) == <<Command("state", t.gen, FALSE), Command("messages", t.gen, FALSE)>>
\* bootstrap(): both answers are awaited.
Booting(t) == [t EXCEPT !.gen = @ + 1, !.boots = @ \cup {[gen |-> t.gen + 1, state |-> None, messages |-> None]}]

\* The constructor: a socket that is open bootstraps at once, and then once more.
OpenChat ==
    LET b1 == Booting(NewTab)  b2 == Booting(b1) IN
    /\ tab = None /\ Spend("open")
    /\ tab' = IF conn # None THEN b2 ELSE b1
    /\ Send(IF conn # None THEN Asks(b1) \o Asks(b2) ELSE Asks(b1))
    /\ UNCHANGED <<pi, stdin, stdout, conn, down, excused>>

Saying(lines) == \E x \in DOMAIN lines : lines[x].line \in {"message", "turn"}

\* prompt(): the message shows at once.  A prompt given while pi is at work, has one to read,
\* or said what the tab is yet to hear, is excused: pi queues it or refuses it, and the tab
\* shows it where it was typed.
Prompt ==
    LET k == left.prompt
        early == \/ pi.busy \/ tab.streaming \/ Saying(down) \/ Saying(stdout)
                 \/ \E c \in Range(up) \cup Range(stdin) \cup Range(unsent) : c.cmd = "prompt" IN
    /\ tab # None /\ Spend("prompt")
    /\ tab' = [tab EXCEPT !.shown = Append(@, Message("user", k)), !.optimistic = @ \cup {Message("user", k)}]
    /\ Send(<<Command("prompt", k, tab.streaming)>>)
    /\ excused' = (excused \/ early)
    /\ UNCHANGED <<pi, stdin, stdout, conn, down>>

\* "New conversation": the session is replaced, then refreshSession is called.
NewSession ==
    /\ tab # None /\ tab.booted /\ Spend("new")
    /\ Send(<<Command("new", None, FALSE)>>)
    /\ UNCHANGED <<pi, stdin, stdout, conn, down, tab, excused>>

\* The 60 seconds of a request of a bootstrap pass: it is given up without a word.  Only a
\* chat that has never bootstrapped tries again, so one that refreshes is left empty.
BootTimesOut(b) ==
    /\ tab # None /\ b \in tab.boots /\ Spend("timeout")
    /\ tab' = [tab EXCEPT !.boots = @ \ {b}]
    /\ excused' = (excused \/ tab.booted)
    /\ UNCHANGED <<pi, stdin, stdout, conn, up, down, unsent>>

\* mergeSnapshot: the prompts the snapshot does not have yet stay behind it.
Pending(t, snapshot) ==
    Picked(t.shown, {x \in DOMAIN t.shown : t.shown[x] \in t.optimistic \ Range(snapshot)})

\* Only the most recent bootstrap may write the state.
Current(t, b) == b.gen = t.gen

\* Both answers of a bootstrap are there.
Booted(t, b) ==
    LET over == [t EXCEPT !.boots = {x \in @ : x.gen # b.gen}]  pending == Pending(t, b.messages) IN
    IF ~Current(t, b) THEN over
    ELSE [over EXCEPT !.shown = b.messages \o pending, !.optimistic = Range(pending), !.booted = TRUE,
                      !.streaming = b.state \/ (pending # <<>> /\ @)]

Answered(t, c, data) ==
    LET b == CHOOSE x \in t.boots : x.gen = c.for
        got == IF c.cmd = "state" THEN [b EXCEPT !.state = data] ELSE [b EXCEPT !.messages = data] IN
    IF got.state # None /\ got.messages # None THEN Booted(t, got)
    ELSE [t EXCEPT !.boots = (@ \ {b}) \cup {got}]

\* (faulty variant: the streamed copy stays)
AppendsAgain(s, m) == Append(s, m)

\* replaceOrAppend: the streamed copy at the tail gives way to the final one.
ReplaceOrAppend(s, m) == Append(IF s # <<>> /\ Last(s).who = "pi" THEN Front(s) ELSE s, m)

\* onRpcEvent: a user's message is not appended (the tab shows its own prompts already).
Told(t, ev) ==
    CASE ev.line = "start" -> [t EXCEPT !.streaming = TRUE]
      [] ev.line = "settled" -> [t EXCEPT !.streaming = FALSE]
      [] ev.line = "message" -> [t EXCEPT !.shown = Append(@, ev.m)]
      [] ev.line = "turn" -> [t EXCEPT !.shown = ReplaceOrAppend(@, ev.m) \o ev.results]

\* What comes for a tab that has this chat open; "running" is the agent's state.
Receives ==
    LET ev == Head(down)
        refreshed == Booting([tab EXCEPT !.shown = <<>>, !.optimistic = {}, !.streaming = FALSE]) IN
    /\ down # <<>> /\ down' = Tail(down)
    /\ IF tab = None THEN UNCHANGED <<tab, up, unsent>>
       ELSE CASE ev.line = "running" /\ ~tab.booted -> tab' = Booting(tab) /\ Send(Asks(tab'))
              [] ev.line = "answer" /\ ev.to.cmd = "new" -> tab' = refreshed /\ Send(Asks(refreshed))
              [] ev.line = "answer" /\ \E b \in tab.boots : b.gen = ev.to.for ->
                   tab' = Answered(tab, ev.to, ev.data) /\ UNCHANGED <<up, unsent>>
              [] ev.line \in {"start", "settled", "message", "turn"} ->
                   tab' = Told(tab, ev) /\ UNCHANGED <<up, unsent>>
              [] OTHER -> UNCHANGED <<tab, up, unsent>>
    /\ UNCHANGED <<left, pi, stdin, stdout, conn, excused>>

--------------------------------------------------------------------------
(* The socket and the server                                               *)

Lost(msgs) == \E x \in DOMAIN msgs : msgs[x].line \notin {"start", "settled", "running"}
\* What a chat that has bootstrapped misses it never asks for again; a prompt that is lost stays shown.
SocketDrops ==
    /\ conn # None /\ Spend("drop")
    /\ conn' = None /\ up' = <<>> /\ down' = <<>>
    /\ excused' = \/ excused
                  \/ tab # None /\ tab.booted /\ (Lost(down) \/ tab.boots # {})
                  \/ \E c \in Range(up) : c.cmd \in {"prompt", "new"}
    /\ UNCHANGED <<pi, stdin, stdout, unsent, tab>>

\* A new connection, told the state of every agent; a chat that never bootstrapped does, and
\* then what waited is sent.
SocketOpens(running) ==
    /\ conn = None
    /\ conn' = left.drop + 1
    /\ down' = IF running THEN <<Event("running", None, <<>>)>> ELSE <<>>
    /\ unsent' = <<>>
    /\ IF tab # None /\ ~tab.booted
       THEN tab' = Booting(tab) /\ up' = Asks(tab') \o unsent
       ELSE up' = unsent /\ UNCHANGED tab
    /\ UNCHANGED <<left, pi, stdin, stdout, excused>>

\* onCommand: to the agent's stdin; without a running agent an error that names no request.
ServerReceives(running) ==
    LET c == Head(up) IN
    /\ up # <<>> /\ up' = Tail(up)
    /\ IF running THEN /\ stdin' = Append(stdin, [c EXCEPT !.conn = conn])
                       /\ UNCHANGED excused
       ELSE /\ excused' = (excused \/ c.cmd = "prompt")
            /\ UNCHANGED stdin
    /\ UNCHANGED <<left, pi, stdout, conn, down, unsent, tab>>

Answers(lines) == Picked(lines, {x \in DOMAIN lines : lines[x].line = "answer"})
Events(lines) == Picked(lines, {x \in DOMAIN lines : lines[x].line # "answer"})
\* An answer goes to the connection that asked, an event to the one there is.
Reaching(lines) ==
    Picked(lines, {x \in DOMAIN lines : conn # None /\ (lines[x].line = "answer" => lines[x].to.conn = conn)})

\* A read of pi's output: each line is handled at once, and the answers' promises go on
\* after it, so that what pi said after its answer overtakes it.
ReadChunk(n) ==
    LET chunk == SubSeq(stdout, 1, n)  sent == Events(chunk) \o Answers(chunk) IN
    /\ n <= Len(stdout)
    /\ stdout' = SubSeq(stdout, n + 1, Len(stdout))
    /\ down' = down \o Reaching(sent)
    /\ excused' = \/ excused
                  \/ tab # None /\ tab.booted /\ conn = None /\ Saying(sent)
                  \/ \E x, y \in 1 .. n : /\ x < y /\ chunk[x].line = "answer" /\ chunk[x].to.cmd = "messages"
                                          /\ chunk[y].line \in {"message", "turn"}
                  \/ \E x \in 1 .. n : /\ chunk[x].line = "answer" /\ chunk[x].to.conn # conn
                                       /\ (tab.booted \/ chunk[x].to.cmd = "new")
    /\ UNCHANGED <<left, pi, stdin, conn, up, unsent, tab>>

--------------------------------------------------------------------------
(* Pi                                                                      *)

Number == Len(pi.said) + 1
Prints(l) == stdout' = Append(stdout, l)
PiRest == UNCHANGED <<conn, up, down, unsent, tab>>

\* Pi reads a command.  A snapshot taken between a tool's result and the end of its turn is
\* excused: the end of the turn appends both again.
PiReads ==
    LET c == Head(stdin)  refused == c.cmd \in {"prompt", "new"} /\ pi.busy IN
    /\ pi.inst # None /\ stdin # <<>> /\ stdin' = Tail(stdin)
    /\ CASE refused -> UNCHANGED <<pi, stdout>>
         [] c.cmd = "state" -> Prints(Answer(c, pi.busy)) /\ UNCHANGED pi
         [] c.cmd = "messages" -> Prints(Answer(c, pi.said)) /\ UNCHANGED pi
         [] c.cmd = "new" /\ ~pi.busy -> Prints(Answer(c, None)) /\ pi' = [pi EXCEPT !.said = <<>>]
         [] c.cmd = "prompt" /\ ~pi.busy ->
              /\ pi' = [pi EXCEPT !.busy = TRUE, !.said = Append(@, Message("user", c.for))]
              /\ Prints(Event("start", None, <<>>))
    /\ excused' = (excused \/ refused \/ (c.cmd = "messages" /\ pi.turn = "tooled"))
    /\ UNCHANGED left /\ PiRest

PiSpeaks ==
    LET m == Message("pi", Number) IN
    /\ pi.busy /\ pi.turn = "none"
    /\ pi' = [pi EXCEPT !.turn = "spoken", !.said = Append(@, m), !.results = <<>>]
    /\ Prints(Event("message", m, <<>>))
    /\ UNCHANGED <<left, stdin, excused>> /\ PiRest

PiUsesTool ==
    LET m == Message("tool", Number) IN
    /\ pi.turn = "spoken" /\ Spend("tool")
    /\ pi' = [pi EXCEPT !.turn = "tooled", !.said = Append(@, m), !.results = <<m>>]
    /\ UNCHANGED <<stdin, stdout, excused>> /\ PiRest

\* A turn that used a tool is followed by another.
PiEndsTurn ==
    /\ pi.turn \in {"spoken", "tooled"}
    /\ pi' = [pi EXCEPT !.turn = IF @ = "tooled" THEN "none" ELSE "over"]
    /\ Prints(Event("turn", pi.said[Len(pi.said) - Len(pi.results)], pi.results))
    /\ UNCHANGED <<left, stdin, excused>> /\ PiRest

PiSettles ==
    /\ pi.turn = "over"
    /\ pi' = [pi EXCEPT !.turn = "none", !.busy = FALSE]
    /\ Prints(Event("settled", None, <<>>))
    /\ UNCHANGED <<left, stdin, excused>> /\ PiRest

\* An extension reports the sandbox's state: the agent's summary goes to every connection.
PiReports ==
    /\ pi.inst # None /\ Spend("report")
    /\ down' = IF conn = None THEN down ELSE Append(down, Event("running", None, <<>>))
    /\ UNCHANGED <<pi, stdin, stdout, conn, up, unsent, tab, excused>>

\* The agent's process is i from now on (None: it is gone, and says nothing more; what it was
\* doing, or had to read, is cut short).
PiBecomes(i) ==
    /\ pi' = [pi EXCEPT !.inst = i, !.busy = FALSE, !.turn = "none", !.results = <<>>]
    /\ stdin' = <<>>
    /\ excused' = (excused \/ pi.busy \/ \E c \in Range(stdin) : c.cmd \in {"prompt", "new"})
    /\ UNCHANGED <<left, stdout, conn, up, down, unsent, tab>>

\* running: whether the server's manager holds a process of the agent; status: whether its
\* record says so.
ChatStep(running, status) ==
    \/ OpenChat \/ Prompt \/ NewSession \/ Receives
    \/ \E b \in IF tab = None THEN {} ELSE tab.boots : BootTimesOut(b)
    \/ SocketDrops \/ SocketOpens(status) \/ ServerReceives(running)
    \/ \E n \in 1 .. MaxChunk : ReadChunk(n)
    \/ PiReads \/ PiSpeaks \/ PiUsesTool \/ PiEndsTurn \/ PiSettles \/ PiReports

--------------------------------------------------------------------------
ChatTypeOK ==
    /\ pi.turn \in {"none", "spoken", "tooled", "over"} /\ pi.busy \in BOOLEAN
    /\ conn = None \/ conn \in Nat
    /\ tab # None => /\ tab.optimistic \subseteq Range(tab.shown)
                     /\ \A b \in tab.boots : b.gen \in 1 .. tab.gen
    /\ excused \in BOOLEAN

\* Nothing is on its way, and pi rests.
Quiet ==
    /\ up = <<>> /\ down = <<>> /\ stdin = <<>> /\ stdout = <<>> /\ unsent = <<>>
    /\ conn # None /\ tab # None /\ tab.booted /\ tab.boots = {} /\ ~pi.busy

\* Once all is quiet the chat shows what was said, message by message, however bootstraps
\* overlapped with each other, with prompts sent before the first snapshot, with answers of
\* the agent, new sessions, reconnects and starts; short of what adapters cannot mend
\* (excused: prompts given while pi works, messages lost on a dropped socket or overtaking a
\* snapshot, a snapshot in the middle of a tool's turn, a process that goes away at work).
ShownIsSaid == Quiet /\ ~excused => tab.shown = pi.said

====
