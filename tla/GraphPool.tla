---- MODULE GraphPool ----
(***************************************************************************)
(* The admin's workspace at work for graph-rag (packages/server/src/agents/ *)
(* graph-pool.ts), composed with graph-rag's side of the master and its     *)
(* handlers (MasterInbox): every 15 s a tick claims the threads there is    *)
(* room for and runs them, gives the master its signals and starts the      *)
(* handlers it asked for.                                                   *)
(*                                                                          *)
(* The workspace is one Node process: `tick`, `master`, `starter` (of       *)
(* handlers) and each `run` of a thread are async functions whose pc names  *)
(* the await they are in.                                                   *)
(***************************************************************************)
EXTENDS MasterInbox, SequencesExt

CONSTANTS
    MaxRuns,         \* runs of threads in all (a bound)
    Others,          \* agents the operator runs
    Master, Liaison,
    Limit,           \* a model's limit
    MaxAgents,       \* the workspace's cap on running agents
    MaxNudges,       \* MASTER_NUDGES (2 in the code)
    Quotas           \* what the environment may do, and how often (bounds): one is drawn at the
                     \* start.  Its workspace is "down", or runs a "pool" or one with a
                     \* "master"; its size is worker.pool.poolSize; its limited are the
                     \* jobs whose model has a limit, the same model for all

Runs == 1 .. MaxRuns
Agents == Jobs \cup Handlers \cup Others \cup {Master, Liaison}

Quota == [waits: SUBSET Jobs, workspace: {"down", "pool", "master"}, size: Nat, limited: SUBSET Jobs,
          passes: Nat, runs: Nat, save: Nat, delete: Nat, lost: Nat, fault: Nat, open: Nat,
          close: Nat, expire: Nat, crash: Nat, restart: Nat, ask: Nat, decide: Nat, settle: Nat]

ASSUME PoolAssumption ==
    /\ Quotas \subseteq Quota
    /\ Limit \in Nat \ {0}
    /\ MaxRuns \in Nat /\ MaxAgents \in Nat /\ MaxNudges \in Nat
    /\ IsFiniteSet(Agents)
    /\ Jobs \cap Handlers = {} /\ Others \cap (Jobs \cup Handlers) = {}
    /\ {Master, Liaison} \cap (Jobs \cup Handlers \cup Others) = {} /\ Master # Liaison

VARIABLES
    tick,        \* GraphPool.tick
    master,      \* GraphPool.masterTurn
    starter,     \* GraphPool.startHandlers
    run,         \* GraphPool.run, per thread claimed
    active,      \* the pool's map of jobs, as its keys
    running,     \* the manager's map of running agents, as its keys
    record,      \* the workers and handlers, and the liaison, that have an agent record
    shown,       \* history: the signals that were in a prompt the master took
    doubled,     \* history: jobs two runs of which were live at once
    trespassed,  \* history: live runs whose agent was stopped by someone else
    quota        \* what the environment may still do

poolVars == <<tick, master, starter, run, active, running, record, shown, doubled, trespassed, quota>>
vars == <<inboxVars, poolVars>>

RunRec == [job: Jobs \cup {None}, ok: BOOLEAN,
           pc: {"none", "release", "create", "start", "starting", "prompt", "settle",
                "report", "stop", "leave", "over"}]
IdleTick == [pc |-> "idle", room |-> 0]
IdleMaster == [pc |-> "idle", got |-> {}, nudge |-> 0]
IdleStarter == [pc |-> "idle", todo |-> {}, handler |-> None]
Live(r) == run[r].pc \notin {"none", "release", "over"}
LiveJobs == {run[r].job : r \in {x \in Runs : Live(x)}}

Init ==
    /\ quota \in Quotas /\ InboxInit(quota.waits)
    /\ tick = IdleTick /\ master = IdleMaster /\ starter = IdleStarter
    /\ run = [r \in Runs |-> [job |-> None, ok |-> FALSE, pc |-> "none"]]
    /\ active = {} /\ running = {} /\ record = {}
    /\ shown = {} /\ doubled = {} /\ trespassed = {}

\* The environment spends one of its quota of what it does.
Spend(what) == quota[what] > 0 /\ quota' = [quota EXCEPT ![what] = @ - 1]

\* AgentManager.start refuses at the cap; what it is about to start does not count.
HasRoom == Cardinality(running) < MaxAgents

\* The agents at work: a run's or the starter's turn is on.
AtWork == {run[r].job : r \in {x \in Runs : run[x].pc = "settle"}}
            \cup (IF starter.pc = "settle" THEN {starter.handler} ELSE {})

\* An agent is stopped by the pool; a run of its job other than r is left without it.
StopAgent(a, r) ==
    /\ running' = running \ {a}
    /\ trespassed' = trespassed \cup
         {x \in Runs \ {r} : run[x].job = a /\ run[x].pc \in {"prompt", "settle"} /\ a \in running}

--------------------------------------------------------------------------
(* tick()                                                                  *)

\* this.ticking; then GET /api/worker: the workspace is the root's.
TickBegin ==
    /\ tick.pc = "idle" /\ quota.workspace # "down"
    /\ tick' = [IdleTick EXCEPT !.pc = "release"]
    /\ UNCHANGED <<inboxVars, master, starter, run, active, running, record, shown, doubled, trespassed, quota>>

\* (faulty variant: releaseIdle without its look at the pool's map)
IdleWorkerAny(j) == j \in running \ AtWork

\* A worker the operator opened that the pool is not running.
IdleWorker(j) == j \in running \ AtWork /\ j \notin active

\* releaseIdle gives back an idle worker, or a handler that is idle or decided (not
\* the one just started, which is idle for less than either takes).
TickReleaseIdle(a) ==
    /\ tick.pc = "release"
    /\ \/ a \in Jobs /\ IdleWorker(a)
       \/ a \in Handlers /\ a \in running \ AtWork /\ a # starter.handler
    /\ StopAgent(a, None)
    /\ UNCHANGED <<inboxVars, tick, master, starter, run, active, record, shown, doubled, quota>>

\* A pool that has a master leaves it one slot.
MasterOn == quota.workspace = "master"
Reserve == IF MasterOn THEN 1 ELSE 0

\* (faulty variant: the agents running alone)
RoomRunning == MaxAgents - Cardinality(running) - Reserve

\* room for new threads
Room == LET size == quota.size - Cardinality(active)
            slots == MaxAgents - Cardinality(running) - Reserve
        IN IF size < slots THEN size ELSE slots

\* The master's turn and the starter are begun if they are not at work; without
\* a master the liaison exists when something waits on the admin.
TickLaunch ==
    /\ tick.pc = "release"
    /\ tick' = [tick EXCEPT !.pc = "cleanup"]
    /\ master' = IF MasterOn /\ master.pc = "idle" THEN [IdleMaster EXCEPT !.pc = "fetch"] ELSE master
    /\ starter' = IF MasterOn /\ starter.pc = "idle" /\ HasRoom THEN [IdleStarter EXCEPT !.pc = "claim"] ELSE starter
    /\ record' = IF ~MasterOn /\ (\E j \in Jobs : thread[j] = "waiting") THEN record \cup {Liaison} ELSE record
    /\ UNCHANGED <<inboxVars, run, active, running, shown, doubled, trespassed, quota>>

\* cleanup deletes the agents of threads finished, and of handlers decided, long ago.
TickCleanup(a) ==
    /\ tick.pc = "cleanup" /\ a \in record \ running
    /\ \/ a \in Jobs \ active /\ thread[a] \in {"done", "failed"}
       \/ a \in Handlers /\ handler[a].status = "done"
    /\ record' = record \ {a}
    /\ UNCHANGED <<inboxVars, tick, master, starter, run, active, running, shown, doubled, trespassed, quota>>

TickRoom ==
    /\ tick.pc = "cleanup"
    /\ tick' = IF Room > 0 THEN [pc |-> "claim", room |-> Room] ELSE IdleTick
    /\ UNCHANGED <<inboxVars, master, starter, run, active, running, record, shown, doubled, trespassed, quota>>

\* The thread's model is limited and at its limit.
Full(j, act) == j \in quota.limited /\ Cardinality(act \cap quota.limited) >= Limit

\* (bound) the runs begun
Used == Cardinality({r \in Runs : run[r].pc # "none"})

\* What run()'s first part sends back of the threads claimed in order, before anything is
\* awaited: those whose model is filled by the active ones and those claimed before them.
\* (One before them that was sent back itself counts for nothing: its model was full by then.)
SentBack(order) ==
    {order[i] : i \in {x \in DOMAIN order : Full(order[x], active \cup {order[k] : k \in 1 .. (x - 1)})}}

\* claimThreads hands out up to room pending threads, or its answer is lost.
TickClaim(js) ==
    /\ tick.pc = "claim" /\ js \subseteq {j \in Jobs : thread[j] = "pending"}
    /\ Cardinality(js) <= tick.room /\ Used + Cardinality(js) <= quota.runs
    /\ thread' = ThreadsClaimed(js)
    /\ tick' = IdleTick
    /\ \/ \E order \in SetToSeqs(js) :
            LET back == SentBack(order)
                begun(j) == [job |-> j, ok |-> FALSE,
                             pc |-> IF j \in back THEN "release"
                                    ELSE IF j \in record THEN "start" ELSE "create"]
            IN
            /\ active' = active \cup (js \ back)
            /\ run' = [r \in Runs |-> IF r - Used \in DOMAIN order THEN begun(order[r - Used]) ELSE run[r]]
            /\ doubled' = doubled \cup ((js \ back) \cap LiveJobs)
            /\ UNCHANGED quota
       \/ js # {} /\ Spend("lost") /\ UNCHANGED <<active, run, doubled>>
    /\ UNCHANGED <<intake, gone, inbox, handler, call, pass, inboxHistory,
                   master, starter, running, record, shown, trespassed>>

--------------------------------------------------------------------------
(* run(): one thread's turn                                                *)

To(r, step) == run' = [run EXCEPT ![r].pc = step]
\* (faulty variant: without the finally)
FailsBare(r) == To(r, "over")

Fails(r) == run' = [run EXCEPT ![r].pc = "report", ![r].ok = FALSE]

\* The thread goes back to the queue, its tries kept.
RunRelease(r) ==
    /\ run[r].pc = "release"
    /\ thread' = [thread EXCEPT ![run[r].job] = IF @ = "running" THEN "pending" ELSE @]
    /\ To(r, "over")
    /\ UNCHANGED <<intake, gone, inbox, handler, call, pass, inboxHistory,
                   tick, master, starter, active, running, record, shown, doubled, trespassed, quota>>

\* createAgent, and its id recorded in graph-rag.
RunCreate(r) ==
    /\ run[r].pc = "create"
    /\ To(r, "start") /\ record' = record \cup {run[r].job}
    /\ UNCHANGED <<inboxVars, tick, master, starter, active, running, shown, doubled, trespassed, quota>>

\* The agent may run already: the operator opened it, or another run has it.
RunStart(r) ==
    /\ run[r].pc = "start"
    /\ IF run[r].job \in running THEN To(r, "prompt")
       ELSE IF HasRoom THEN To(r, "starting") ELSE Fails(r)
    /\ UNCHANGED <<inboxVars, tick, master, starter, active, running, record, shown, doubled, trespassed, quota>>

RunStarted(r) ==
    /\ run[r].pc = "starting"
    /\ \/ running' = running \cup {run[r].job} /\ To(r, "prompt") /\ UNCHANGED quota
       \/ Spend("fault") /\ Fails(r) /\ UNCHANGED running
    /\ UNCHANGED <<inboxVars, tick, master, starter, active, record, shown, doubled, trespassed>>

\* The prompt is taken, unless the agent is gone, at work already, or does not answer.
RunPrompt(r) ==
    LET j == run[r].job
        working == \E x \in Runs \ {r} : run[x].job = j /\ run[x].pc = "settle"
    IN
    /\ run[r].pc = "prompt"
    /\ \/ j \in running /\ ~working /\ To(r, "settle") /\ UNCHANGED quota
       \/ (j \notin running \/ working) /\ Fails(r) /\ UNCHANGED quota
       \/ Spend("fault") /\ Fails(r)
    /\ UNCHANGED <<inboxVars, tick, master, starter, active, running, record, shown, doubled, trespassed>>

\* The turn ends, well or badly, or the agent is gone.
RunSettle(r) ==
    /\ run[r].pc = "settle"
    /\ \/ run[r].job \in running /\ run' = [run EXCEPT ![r].pc = "report", ![r].ok = TRUE] /\ UNCHANGED quota
       \/ run[r].job \notin running /\ Fails(r) /\ UNCHANGED quota
       \/ Spend("fault") /\ Fails(r)
    /\ UNCHANGED <<inboxVars, tick, master, starter, active, running, record, shown, doubled, trespassed>>

\* POST finish: the thread may be claimed again from here on.  It may be lost.
RunReport(r, status) ==
    /\ run[r].pc = "report"
    /\ status \in Finished(IF run[r].ok THEN "done" ELSE "failed")
    /\ \/ FinishThread(run[r].job, status) /\ UNCHANGED quota
       \/ Spend("lost") /\ UNCHANGED <<thread, inbox>>
    /\ To(r, "stop")
    /\ UNCHANGED <<intake, gone, handler, call, pass, inboxHistory,
                   tick, master, starter, active, running, record, shown, doubled, trespassed>>

\* releaseAgent: stop, then, on OpenShell, the sandbox.
RunStop(r) ==
    /\ run[r].pc = "stop"
    /\ StopAgent(run[r].job, r)
    /\ To(r, "leave")
    /\ UNCHANGED <<inboxVars, tick, master, starter, active, record, shown, doubled, quota>>

RunLeave(r) ==
    /\ run[r].pc = "leave"
    /\ active' = active \ {run[r].job} /\ To(r, "over")
    /\ UNCHANGED <<inboxVars, tick, master, starter, running, record, shown, doubled, trespassed, quota>>

RunStep(r) ==
    \/ RunRelease(r) \/ RunCreate(r) \/ RunStart(r) \/ RunStarted(r) \/ RunPrompt(r)
    \/ RunSettle(r) \/ (\E s \in ThreadStatuses : RunReport(r, s)) \/ RunStop(r) \/ RunLeave(r)

--------------------------------------------------------------------------
(* masterTurn(): one at a time (masterBusy)                                *)

\* (faulty variant: without the finally masterBusy stays set)
MasterStuck == master' = [master EXCEPT !.pc = "stuck"]

MasterGivesUp == master' = IdleMaster

\* GET signals; with none an idle master is given back.  A lost answer reads as none.
MasterFetch ==
    /\ master.pc = "fetch"
    /\ \/ /\ NewSignals # {}
          /\ master' = IF Master \in running \/ HasRoom
                       THEN [master EXCEPT !.pc = IF Master \in running THEN "prompt" ELSE "starting",
                                           !.got = NewSignals]
                       ELSE IdleMaster
          /\ UNCHANGED <<running, trespassed, quota>>
       \/ /\ IF NewSignals = {} THEN UNCHANGED quota ELSE Spend("lost")
          /\ master' = IdleMaster
          /\ UNCHANGED <<running, trespassed>> \/ StopAgent(Master, None)
    /\ UNCHANGED <<inboxVars, tick, starter, run, active, record, shown, doubled>>

MasterStarted ==
    /\ master.pc = "starting"
    /\ \/ running' = running \cup {Master} /\ master' = [master EXCEPT !.pc = "prompt"] /\ UNCHANGED quota
       \/ Spend("fault") /\ MasterGivesUp /\ UNCHANGED running
    /\ UNCHANGED <<inboxVars, tick, starter, run, active, record, shown, doubled, trespassed>>

\* The signals as one message, or a nudge to carry on with them; a prompt not taken ends the turn.
MasterPrompt ==
    /\ master.pc = "prompt"
    /\ \/ /\ Master \in running
          /\ master' = [master EXCEPT !.pc = IF master.nudge = 0 THEN "ack" ELSE "settle"]
          /\ shown' = shown \cup master.got
          /\ UNCHANGED quota
       \/ Master \notin running /\ MasterGivesUp /\ UNCHANGED <<shown, quota>>
       \/ Spend("fault") /\ MasterGivesUp /\ UNCHANGED shown
    /\ UNCHANGED <<inboxVars, tick, starter, run, active, running, record, doubled, trespassed>>

\* The acknowledgement, of which a failing graph-rag carries out a part or nothing.
MasterAck ==
    /\ master.pc = "ack"
    /\ \E ids \in SUBSET master.got :
            /\ IF ids = master.got THEN UNCHANGED quota ELSE Spend("lost")
            /\ inbox' = Acknowledged(ids)
    /\ master' = [master EXCEPT !.pc = "settle"]
    /\ UNCHANGED <<intake, gone, handler, thread, call, pass, inboxHistory,
                   tick, starter, run, active, running, record, shown, doubled, trespassed>>

\* The turn ends well, or its agent is gone.
MasterSettle ==
    /\ master.pc = "settle"
    /\ master' = IdleMaster
    /\ UNCHANGED <<inboxVars, tick, starter, run, active, running, record, shown, doubled, trespassed, quota>>

\* (faulty variant: <= for <)
MayNudgeOnceMore == master.nudge <= MaxNudges

\* MASTER_NUDGES
MayNudge == master.nudge < MaxNudges

\* It stalls (and is aborted) or ends on a model error: a nudge, or after MaxNudges of them the master is given back.
MasterCutOff ==
    /\ master.pc = "settle" /\ Master \in running
    /\ IF MayNudge
       THEN /\ master' = [master EXCEPT !.pc = "prompt", !.nudge = @ + 1]
            /\ UNCHANGED <<running, trespassed>>
       ELSE master' = IdleMaster /\ StopAgent(Master, None)
    /\ UNCHANGED <<inboxVars, tick, starter, run, active, record, shown, doubled, quota>>

MasterStep ==
    MasterFetch \/ MasterStarted \/ MasterPrompt \/ MasterAck \/ MasterSettle \/ MasterCutOff

--------------------------------------------------------------------------
(* startHandlers(): one at a time (handlersBusy)                           *)

StarterTo(step) == starter' = [starter EXCEPT !.pc = step]

\* The claim has no lease: when its answer is lost the handlers stay "running".
StarterClaim ==
    /\ starter.pc = "claim"
    /\ handler' = HandlersClaimed
    /\ \/ /\ starter' = IF PendingHandlers = {} THEN IdleStarter
                         ELSE [pc |-> "create", todo |-> PendingHandlers, handler |-> None]
          /\ UNCHANGED quota
       \/ PendingHandlers # {} /\ Spend("lost") /\ starter' = IdleStarter
    /\ UNCHANGED <<intake, gone, inbox, thread, call, pass, inboxHistory,
                   tick, master, run, active, running, record, shown, doubled, trespassed>>

StarterCreate(h) ==
    /\ starter.pc = "create" /\ h \in starter.todo
    /\ record' = record \cup {h}
    /\ starter' = [pc |-> "start", todo |-> starter.todo \ {h}, handler |-> h]
    /\ UNCHANGED <<inboxVars, tick, master, run, active, running, shown, doubled, trespassed, quota>>

StarterStart ==
    /\ starter.pc = "start"
    /\ StarterTo(IF starter.handler \in running THEN "prompt" ELSE IF HasRoom THEN "starting" ELSE "waiting")
    /\ UNCHANGED <<inboxVars, tick, master, run, active, running, record, shown, doubled, trespassed, quota>>

StarterStarted ==
    /\ starter.pc = "starting"
    /\ \/ running' = running \cup {starter.handler} /\ StarterTo("prompt") /\ UNCHANGED quota
       \/ Spend("fault") /\ StarterTo("waiting") /\ UNCHANGED running
    /\ UNCHANGED <<inboxVars, tick, master, run, active, record, shown, doubled, trespassed>>

\* The prompt and its turn; what fails in them is logged only.
StarterPrompt ==
    /\ starter.pc = "prompt"
    /\ StarterTo(IF starter.handler \in running THEN "settle" ELSE "waiting")
    /\ UNCHANGED <<inboxVars, tick, master, run, active, running, record, shown, doubled, trespassed, quota>>

StarterSettle ==
    /\ starter.pc = "settle"
    /\ StarterTo("waiting")
    /\ UNCHANGED <<inboxVars, tick, master, run, active, running, record, shown, doubled, trespassed, quota>>

StarterWaiting ==
    /\ starter.pc = "waiting"
    /\ \/ handler' = HandlerWaits(starter.handler) /\ UNCHANGED quota
       \/ Spend("lost") /\ UNCHANGED handler
    /\ StarterTo("release")
    /\ UNCHANGED <<intake, gone, inbox, thread, call, pass, inboxHistory,
                   tick, master, run, active, running, record, shown, doubled, trespassed>>

StarterRelease ==
    /\ starter.pc = "release"
    /\ StopAgent(starter.handler, None)
    /\ starter' = IF starter.todo = {} THEN IdleStarter ELSE [starter EXCEPT !.pc = "create", !.handler = None]
    /\ UNCHANGED <<inboxVars, tick, master, run, active, record, shown, doubled, quota>>

StarterStep ==
    \/ StarterClaim \/ (\E h \in Handlers : StarterCreate(h)) \/ StarterStart \/ StarterStarted
    \/ StarterPrompt \/ StarterSettle \/ StarterWaiting \/ StarterRelease

--------------------------------------------------------------------------
(* The environment                                                         *)

ownVars == <<tick, master, starter, run, active, running, record, shown, doubled, trespassed>>

\* The operator opens an agent in the rail, and closes one (or its process dies).
Open(a) ==
    /\ a \in (record \cup Others \cup {Master}) \ running /\ HasRoom
    /\ Spend("open") /\ running' = running \cup {a}
    /\ UNCHANGED <<inboxVars, tick, master, starter, run, active, record, shown, doubled, trespassed>>

Close(a) ==
    /\ a \in running /\ Spend("close") /\ running' = running \ {a}
    /\ UNCHANGED <<inboxVars, tick, master, starter, run, active, record, shown, doubled, trespassed>>

\* expireLeases: a thread goes back, or has no tries left.
Expire(j) ==
    /\ thread[j] = "running" /\ Spend("expire")
    /\ \E status \in {"pending", "failed"} : thread' = [thread EXCEPT ![j] = status]
    /\ UNCHANGED <<intake, gone, inbox, handler, call, pass, inboxHistory, ownVars>>

\* The workspace restarts: its async functions and processes are gone; releaseOrphans frees the sandboxes.
WorkspaceRestart ==
    /\ Spend("crash")
    /\ tick' = IdleTick /\ master' = IdleMaster /\ starter' = IdleStarter
    /\ run' = [r \in Runs |-> IF run[r].pc = "none" THEN run[r] ELSE [run[r] EXCEPT !.pc = "over"]]
    /\ active' = {} /\ running' = {}
    /\ UNCHANGED <<inboxVars, record, shown, doubled, trespassed>>

\* What happens at graph-rag: saves, deletions, the master's calls, the
\* handlers' (an agent calls while it runs), and the passes of its timer.
Inbox ==
    \/ \E e \in Entries : Save(e) /\ Spend("save") /\ UNCHANGED ownVars
    \/ \E e \in Entries : Delete(e) /\ Spend("delete") /\ UNCHANGED ownVars
    \/ \E j \in Jobs, c \in Calls :
            StartHandler(j, c) /\ Master \in running /\ Spend("ask") /\ UNCHANGED ownVars
    \/ \E h \in Handlers, c \in Calls :
            Decide(h, c) /\ h \in running /\ Spend("decide") /\ UNCHANGED ownVars
    \/ \E j \in Jobs : (AnswerWorker(j) \/ CloseWorker(j)) /\ Spend("settle") /\ UNCHANGED ownVars
    \/ (InboxRestart \/ \E p \in Passes : PassFails(p) \/ PassMisses(p)) /\ Spend("restart") /\ UNCHANGED ownVars
    \/ (\E c \in Calls : CountFails(c)) /\ Spend("fault") /\ UNCHANGED ownVars

InboxCall(c) == CallStep(c) /\ UNCHANGED poolVars
InboxBegin(p) ==
    PassBegin(p) /\ Cardinality({q \in Passes : pass[q].pc # "idle"}) < quota.passes /\ UNCHANGED poolVars
InboxPass(p) == PassStep(p) /\ UNCHANGED poolVars

TickStep ==
    TickBegin \/ TickLaunch \/ TickRoom \/ \E js \in SUBSET Jobs : TickClaim(js)

Tidy(a) == TickReleaseIdle(a) \/ TickCleanup(a)

Next ==
    \/ TickStep \/ (\E a \in Agents : Tidy(a))
    \/ (\E r \in Runs : RunStep(r)) \/ MasterStep \/ StarterStep
    \/ (\E a \in Agents : Open(a) \/ Close(a)) \/ (\E j \in Jobs : Expire(j)) \/ WorkspaceRestart
    \/ Inbox \/ (\E c \in Calls : InboxCall(c))
    \/ (\E p \in Passes : InboxBegin(p)) \/ (\E p \in Passes : InboxPass(p))

Spec == Init /\ [][Next]_vars

\* Timers and processes run on; an agent left alone is idle long enough some
\* time, and an entry waits long enough to make a batch of fewer than BatchSize.
Fairness ==
    /\ WF_vars(TickStep) /\ WF_vars(MasterStep) /\ WF_vars(StarterStep)
    /\ \A r \in Runs : WF_vars(RunStep(r))
    /\ \A a \in Jobs \cup Handlers : SF_vars(TickReleaseIdle(a))
    /\ \A c \in Calls : WF_vars(InboxCall(c))
    /\ \A p \in Passes : /\ WF_vars(InboxBegin(p)) /\ WF_vars(InboxPass(p))
                          /\ SF_vars(InboxPass(p) /\ pass[p].pc = "readRows" /\ pass'[p].pc = "lookUp")

FairSpec == Spec /\ Fairness

--------------------------------------------------------------------------
(* Properties                                                              *)

\* Every variable has its type.
TypeOK ==
    /\ InboxTypeOK
    /\ tick \in [pc: {"idle", "release", "cleanup", "claim"}, room: 0 .. MaxAgents]
    /\ master \in [pc: {"idle", "fetch", "starting", "prompt", "ack", "settle"}, got: SUBSET DOMAIN inbox,
                   nudge: 0 .. MaxNudges]
    /\ starter \in [pc: {"idle", "claim", "create", "start", "starting", "prompt", "settle", "waiting", "release"},
                    todo: SUBSET Handlers, handler: Handlers \cup {None}]
    /\ run \in [Runs -> RunRec] /\ active \subseteq Jobs
    /\ running \subseteq Agents /\ record \subseteq Jobs \cup Handlers \cup {Liaison}
    /\ shown \subseteq DOMAIN inbox /\ doubled \subseteq Jobs /\ trespassed \subseteq Runs

\* No signal is marked delivered that was not in a prompt the master took:
\* one emitted between the fetch and the acknowledgement stays new.
DeliveredWasShown == \A i \in DOMAIN inbox : inbox[i].status = "delivered" => i \in shown

\* An entry leaves the intake only once a batch signal names it, because it was
\* deleted, or because its lookup failed, which batchTick takes for that: whatever a
\* restart or another failure interrupts, no saved entry is skipped.  And
\* the master is told of an entry once, unless a restart came between its
\* batch and the taking of its row or two passes of the timer overlapped.
HandedOverOnce ==
    \A e \in Entries :
        LET told == {i \in DOMAIN inbox : e \in inbox[i].entries} IN
        /\ intake[e] = "done" /\ told = {} => e \in gone \cup missed
        /\ e \notin excused => Cardinality(told) <= 1

\* A handler is decided once.  The master hears one decision of it, unless two were in flight
\* at once; and a decided one is never asked again: the workspace's late report that it waits,
\* and a claim, leave it decided.
DecidedOnce ==
    /\ [](\A h \in Handlers \ crossed : decisions[h] <= 1)
    /\ [][\A h \in Handlers : handler[h].status = "done" => handler'[h].status = "done"]_vars

\* The limits hold although each is counted, or kept, apart from what it limits: no more
\* handlers wait for the operator than maxHandlers, unless calls of start_handler counted
\* them before either inserted its own, or the count failed; and the pool runs at most poolSize threads at once,
\* those still starting included, and of a limited model as many as it serves, unless a job
\* was claimed again before its last run was released.
LimitsKept ==
    /\ raced \/ Cardinality(OpenHandlers) <= MaxHandlers
    /\ doubled = {} => /\ Cardinality({r \in Runs : Live(r)}) <= quota.size
                       /\ Cardinality(LiveJobs \cap quota.limited) <= Limit

\* The pool never stops the agent of a thread at work, except by an earlier
\* run of the same job that is still being released.
StoppedByItsOwn == \A r \in trespassed : run[r].job \in doubled

\* Whatever fails in a thread's turn, it gives its place in the pool back:
\* the pool runs empty again and again.
PlacesGivenBack == []<>(active = {})

\* What is for the master reaches it in the end: saved entries, the last few too, unless the
\* handlers that wait for the operator halt the intake; and signals, through lost answers,
\* failing starts, prompts and turns, and restarts of either side.
MasterHears ==
    /\ []<>(Pending = {} \/ Halted)
    /\ []<>(~MasterOn \/ NewSignals = {})

====
