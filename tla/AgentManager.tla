---- MODULE AgentManager ----
(***************************************************************************)
(* The workspace server's AgentManager (packages/server/src/agents/         *)
(* manager.ts): one pi child process per agent, started, stopped, restarted *)
(* after a crash and deleted, by requests that overlap.                     *)
(*                                                                          *)
(* The server is one Node process: a method runs until its next await, so a *)
(* start or a stop in flight is a record in `call` whose pc names the await *)
(* it is in, and each action is the code between two awaits.  Agents keep   *)
(* their id; every start makes a new instance (RpcAgent and its process).   *)
(***************************************************************************)
EXTENDS Naturals, FiniteSets

CONSTANTS
    Agents,        \* agent records
    Calls,         \* start() and stop() calls in flight at once (a bound)
    None,
    Cap,           \* instanceSettings().maxAgents, or GWARESTRIN_MAX_AGENTS
    MaxRestarts,   \* MAX_RESTARTS (3 in the code)
    MaxInstances,  \* processes ever started (a bound)
    MaxRequests    \* requests of the operator and the pool (a bound)

Instances == 1 .. MaxInstances

ASSUME ManagerAssumption ==
    /\ Agents # {}
    /\ Cap \in Nat /\ MaxRestarts \in Nat /\ MaxInstances \in Nat /\ MaxRequests \in Nat
    /\ None \notin Instances

VARIABLES
    agent,       \* per agent: its record's status, the map's entry, restartBudget, a pending timer
    inst,        \* the instances and their processes
    call,        \* start() and stop() calls in flight
    overlapped,  \* history: agents two starts of which were before their spawn at once
    halted,      \* history: agents whose latest request was a stop
    revived,     \* history: auto-restarts of an agent since its latest request
    requests     \* history: requests made

vars == <<agent, inst, call, overlapped, halted, revived, requests>>

\* running: the manager's map from an agent to its instance; "deleted": the record is gone.
AgentRec == [status: {"stopped", "starting", "running", "error", "deleted"},
             running: Instances \cup {None}, budget: Nat, timer: BOOLEAN]
\* starting and stopReq are membership of the WeakSets starting and stopRequested;
\* signal is what the manager sent the process last.
InstanceRec == [agent: Agents, phase: {"unused", "alive", "exited"}, starting: BOOLEAN,
                stopReq: BOOLEAN, signal: {"none", "TERM", "KILL"}]
\* scaffold: start() awaits scaffoldAgent (on OpenShell, prepare too); probe: its
\* get_state; waitIdle: stop() awaits that.  then: what follows the stop; auto:
\* whether the auto-restart timer made the call.
CallRec == [pc: {"idle", "scaffold", "probe", "waitIdle"}, agent: Agents,
            inst: Instances \cup {None}, then: {"none", "start", "delete"}, auto: BOOLEAN]

Unused == [agent |-> CHOOSE a \in Agents : TRUE, phase |-> "unused", starting |-> FALSE,
           stopReq |-> FALSE, signal |-> "none"]
IdleCall == [pc |-> "idle", agent |-> Unused.agent, inst |-> None, then |-> "none", auto |-> FALSE]

Init ==
    /\ agent = [a \in Agents |-> [status |-> "stopped", running |-> None, budget |-> 0, timer |-> FALSE]]
    /\ inst = [i \in Instances |-> Unused]
    /\ call = [c \in Calls |-> IdleCall]
    /\ overlapped = {} /\ halted = {}
    /\ revived = [a \in Agents |-> 0]
    /\ requests = 0

At(c, step) == call[c].pc = step
Return(c) == call' = [call EXCEPT ![c] = IdleCall]
Scaffolding(a) == {c \in Calls : At(c, "scaffold") /\ call[c].agent = a}
Probing(i) == {c \in Calls : At(c, "probe") /\ call[c].inst = i}

\* AgentStore.setStatus: ignored for a record that is gone.
SetStatus(r, s) == IF r.status = "deleted" THEN r ELSE [r EXCEPT !.status = s]

\* The map drops an agent's instance, unless another took its place.
\* (faulty variant: whichever instance it holds)
DropAny(r, i) == [r EXCEPT !.running = None]
Drop(r, i) == IF r.running = i THEN [r EXCEPT !.running = None] ELSE r

\* The concurrency cap, for an agent that is not running.
Room(a) == Cardinality({b \in Agents \ {a} : agent[b].running # None}) < Cap

--------------------------------------------------------------------------
(* start()                                                                 *)

\* start(id) up to its first await, with r the agent as its caller leaves it:
\* no record (throws), already running (returns it: a timer's .then forgives
\* the crashes), refused or over the cap (throws), or under way.
StartSegment(a, c, r, auto) ==
    LET cancelled == [r EXCEPT !.timer = FALSE] IN
    \/ /\ r.status = "deleted" \/ r.running # None
       /\ agent' = [agent EXCEPT ![a] = IF auto /\ r.status # "deleted" THEN [r EXCEPT !.budget = 0] ELSE r]
       /\ Return(c)
       /\ UNCHANGED overlapped
    \/ /\ r.status # "deleted" /\ r.running = None
       /\ agent' = [agent EXCEPT ![a] = cancelled]
       /\ Return(c)
       /\ UNCHANGED overlapped
    \/ /\ r.status # "deleted" /\ r.running = None /\ Room(a)
       /\ agent' = [agent EXCEPT ![a] = SetStatus(cancelled, "starting")]
       /\ call' = [call EXCEPT ![c] = [IdleCall EXCEPT !.pc = "scaffold", !.agent = a, !.auto = auto]]
       /\ overlapped' = IF Scaffolding(a) = {} THEN overlapped ELSE overlapped \cup {a}

Asked == requests < MaxRequests /\ requests' = requests + 1

Start(a, c) ==
    /\ At(c, "idle") /\ Asked
    /\ StartSegment(a, c, agent[a], FALSE)
    /\ halted' = halted \ {a}
    /\ revived' = [revived EXCEPT ![a] = 0]
    /\ UNCHANGED inst

\* The auto-restart timer fires.
Fire(a, c) ==
    /\ agent[a].timer /\ At(c, "idle")
    /\ StartSegment(a, c, [agent[a] EXCEPT !.timer = FALSE], TRUE)
    /\ revived' = [revived EXCEPT ![a] = @ + 1]
    /\ UNCHANGED <<inst, halted, requests>>

\* scaffoldAgent throws and the status stays "starting", or prepare does and it is "error".
ScaffoldFails(c) ==
    /\ At(c, "scaffold")
    /\ \/ UNCHANGED agent
       \/ agent' = [agent EXCEPT ![call[c].agent] = SetStatus(@, "error")]
    /\ Return(c)
    /\ UNCHANGED <<inst, overlapped, halted, revived, requests>>

\* The process is made and becomes the agent's instance; start() awaits its first answer.
Spawn(c, i) ==
    /\ At(c, "scaffold")
    /\ inst[i].phase = "unused" /\ \A k \in 1 .. (i - 1) : inst[k].phase # "unused"
    /\ inst' = [inst EXCEPT ![i] = [Unused EXCEPT !.agent = call[c].agent, !.phase = "alive",
                                                  !.starting = TRUE]]
    /\ agent' = [agent EXCEPT ![call[c].agent].running = i]
    /\ call' = [call EXCEPT ![c].pc = "probe", ![c].inst = i]
    /\ UNCHANGED <<overlapped, halted, revived, requests>>

\* The first answer: the agent runs; an auto-restart's .then forgives the crashes.
ProbeOk(c) ==
    LET a == call[c].agent  r == SetStatus(agent[a], "running") IN
    /\ At(c, "probe")
    /\ inst' = [inst EXCEPT ![call[c].inst].starting = FALSE]
    /\ agent' = [agent EXCEPT ![a] = [r EXCEPT !.budget = IF call[c].auto THEN 0 ELSE @]]
    /\ Return(c)
    /\ UNCHANGED <<overlapped, halted, revived, requests>>

\* No answer within 30 s, or a refusal: start() fails and kills what it made.
ProbeFail(c) ==
    LET i == call[c].inst IN
    /\ At(c, "probe")
    /\ agent' = [agent EXCEPT ![call[c].agent] = SetStatus(Drop(@, i), "error")]
    /\ inst' = [inst EXCEPT ![i].signal = "KILL"]
    /\ Return(c)
    /\ UNCHANGED <<overlapped, halted, revived, requests>>

--------------------------------------------------------------------------
(* stop(), and restart() and deleteAgent(), which await it first           *)

\* What follows a stop that left the agent as r.
AfterStop(a, c, r, then) ==
    IF then = "start" THEN StartSegment(a, c, r, FALSE)
    ELSE /\ agent' = [agent EXCEPT ![a] = IF then = "delete" THEN [r EXCEPT !.status = "deleted"] ELSE r]
         /\ Return(c)
         /\ UNCHANGED overlapped

\* (faulty variant: the budget is dropped and read without its ?? 0)
ForgetsBudget(r) == [r EXCEPT !.timer = FALSE, !.budget = None]

\* A requested stop cancels a pending auto-restart and forgives the crashes.
CancelPendingRestart(r) == [r EXCEPT !.timer = FALSE, !.budget = 0]

Stop(a, c, then) ==
    LET r == CancelPendingRestart(agent[a])  i == agent[a].running IN
    /\ At(c, "idle") /\ Asked
    /\ IF i = None
       THEN /\ AfterStop(a, c, SetStatus(r, "stopped"), then)
            /\ UNCHANGED inst
       ELSE /\ inst' = [inst EXCEPT ![i].stopReq = TRUE]
            /\ agent' = [agent EXCEPT ![a] = r]
            /\ call' = [call EXCEPT ![c] = [IdleCall EXCEPT !.pc = "waitIdle", !.agent = a,
                                                            !.inst = i, !.then = then]]
            /\ UNCHANGED overlapped
    /\ halted' = IF then = "start" THEN halted \ {a} ELSE halted \cup {a}
    /\ revived' = [revived EXCEPT ![a] = 0]

\* waitIdle is over: idle, out of patience, or the process is gone.  pi answers
\* in order, so a probe asked before it is over by then.
StopFinish(c) ==
    LET a == call[c].agent  i == call[c].inst IN
    /\ At(c, "waitIdle") /\ Probing(i) = {}
    /\ inst' = IF inst[i].phase = "alive" /\ inst[i].signal = "none"
               THEN [inst EXCEPT ![i].signal = "TERM"] ELSE inst
    /\ AfterStop(a, c, SetStatus(Drop(agent[a], i), "stopped"), call[c].then)
    /\ UNCHANGED <<halted, revived, requests>>

--------------------------------------------------------------------------
(* The process exits: onExit                                               *)

\* A crash is counted, and answered with a restart while the budget lasts.
Crashed(r) ==
    [SetStatus(r, "error") EXCEPT !.budget = @ + 1,
                                  !.timer = IF r.budget + 1 <= MaxRestarts THEN TRUE ELSE @]

\* (faulty variant: only a signal tells a requested stop from a crash)
BySignal(i, signalled) == signalled

\* pi handles SIGTERM and exits with a code: the mark tells a requested stop.
Deliberate(i, signalled) == inst[i].stopReq \/ signalled

\* An exit while starting is the start's failure; a replaced instance's changes nothing.
Exit(i, signalled) ==
    LET a == inst[i].agent  current == agent[a].running  r == Drop(agent[a], i) IN
    /\ inst[i].phase = "alive"
    /\ inst' = [inst EXCEPT ![i].phase = "exited", ![i].starting = FALSE]
    /\ call' = [c \in Calls |-> IF c \in Probing(i) THEN IdleCall ELSE call[c]]
    /\ agent' = [agent EXCEPT ![a] =
         CASE inst[i].starting -> IF Probing(i) # {} THEN SetStatus(r, "error") ELSE r
           [] ~inst[i].starting /\ current \notin {None, i} -> r
           [] ~inst[i].starting /\ current \in {None, i} /\ Deliberate(i, signalled) ->
                [SetStatus(r, "stopped") EXCEPT !.budget = 0]
           [] OTHER -> Crashed(r)]
    /\ UNCHANGED <<overlapped, halted, revived, requests>>

Next ==
    \/ \E a \in Agents, c \in Calls :
         Start(a, c) \/ Fire(a, c) \/ \E then \in {"none", "start", "delete"} : Stop(a, c, then)
    \/ \E c \in Calls :
         ScaffoldFails(c) \/ (\E i \in Instances : Spawn(c, i)) \/ ProbeOk(c) \/ ProbeFail(c) \/ StopFinish(c)
    \/ \E i \in Instances, signalled \in BOOLEAN : Exit(i, signalled)

Spec == Init /\ [][Next]_vars

--------------------------------------------------------------------------
(* Properties                                                              *)

\* Every variable keeps its type.
TypeOK ==
    /\ agent \in [Agents -> AgentRec]
    /\ inst \in [Instances -> InstanceRec]
    /\ call \in [Calls -> CallRec]
    /\ overlapped \subseteq Agents /\ halted \subseteq Agents
    /\ revived \in [Agents -> Nat] /\ requests \in Nat

\* No process is left behind: a live process the manager has sent no signal is
\* the one its map holds, so a later stop reaches it.  Starts, stops, restarts,
\* crashes and deletes keep it so in any order, short of two starts of one
\* agent that were both before their spawn.
NoOrphans ==
    \A i \in Instances :
        (inst[i].phase = "alive" /\ inst[i].signal = "none" /\ inst[i].agent \notin overlapped)
            => agent[inst[i].agent].running = i

\* The record never tells of a process that is not there: it says "running"
\* only while the map holds a live process that has answered, whatever late
\* exits, failed probes, overtaken stops and restarts come between, short of
\* two starts that were both before their spawn.
StatusTells ==
    \A a \in Agents \ overlapped :
        agent[a].status = "running" =>
            \E i \in Instances : agent[a].running = i /\ inst[i].phase = "alive" /\ ~inst[i].starting

\* An instance that was asked to stop is never taken for crashed, however late
\* it exits and whatever was started since: its exit arms no auto-restart.
StopIsNoCrash ==
    [][\A i \in Instances :
        (inst[i].stopReq /\ inst[i].phase = "alive" /\ inst'[i].phase = "exited") =>
            \A a \in Agents : agent'[a].timer => agent[a].timer]_vars

--------------------------------------------------------------------------
(* What the docs and comments say and the code does not do.                *)

\* "pi child crash -> status error, auto-restart <= 3 with backoff": no agent
\* is restarted by the timer more than MaxRestarts times without a request.
RestartsBounded == \A a \in Agents : revived[a] <= MaxRestarts

\* "a requested stop also cancels a pending crash auto-restart": no process
\* comes of an auto-restart while the latest request for the agent is a stop.
StopCancelsRestart ==
    [][\A c \in Calls, i \in Instances :
        (call[c].auto /\ Spawn(c, i)) => call[c].agent \notin halted]_vars

====
