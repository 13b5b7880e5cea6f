# Verification of gwarestrin

TLA+ models of the parts of gwarestrin where concurrency, restarts, failures and
lost messages decide whether the program is right, checked with TLC on small
instances and, for the central properties, proved with TLAPS for all of them.

gwarestrin runs AI agents for an organization. **graph-rag**
(`graph-rag/src/server.js`) keeps the organization's knowledge graph in ArcadeDB:
entries, the positions they are homed at, who was granted what, the questions
people ask, and a queue of work on it that agents do. The **workspace server**
(`packages/server`) runs the agents, one pi child process each, on the host or in
OpenShell sandboxes; the admin's workspace also polls graph-rag for work and runs
it (`GraphPool`). The **web client** (`packages/web`) talks to a workspace over
HTTP and one WebSocket. The **provisioner** (`provisioner/`) gives each tenant a
container, tokens and identities, and takes them back.

Each of these is a single Node (or browser) process, so nothing is interrupted
between two awaits, and everything else may happen at one. That is how all
modules are cut: an action is the code between two awaits (or one command to the
database), and what a function holds over an await is a field of its call.

## Inventory

| part | state | operations | what is hard | module |
|---|---|---|---|---|
| Worker threads (`server.js` 2350-2727, 3750-3766) | `Job` rows: status, attempts, lease, payload | claim, release, finish, resume, expireLeases, wakeIdleWaiting | handlers read a row and write it back several commands later; reports come late or never; restarts | `ReviewThreads`, `ThreadQueue` |
| Questions and proposals of threads (2730-2831, 3933-4034) | `WorkerQuestion`, `PendingWrite` | raise, answer, queue, approve, reject | approvals, rejections and closes race | `ReviewThreads` |
| Master and handlers (3545-3721, `graph-pool.ts` 281-395) | `Signal`, `WorkBatch`, intake, handler rows | batchTick, signals and acks, masterTurn, startHandler, handlerDecide | turns that stall after their signals were acknowledged; restarts between batch and signal; check-then-act over awaits | `MasterInbox`, `GraphPool` |
| GraphPool (`graph-pool.ts`) | `active`, `masterBusy`, `handlersBusy` | tick, run, releaseIdle, cleanup | room computed before an await; a job claimed again before its agent is released | `GraphPool` |
| AgentManager (`manager.ts`, `rpc-agent.ts`) | records, `running`, `stopRequested`, `restartBudget`, timers | start, stop, restart, delete, patch, onExit | requests overlap at every await; old processes exit late | `AgentManager` |
| OpenShell runtime (`runtime/`) | sandboxes, saved conversations | prepare, releaseSandbox, purge | a release overlaps a start; a copy fails | `Sandboxes` |
| Agent configuration, providers, MCP registry, metadata | records, profiles, generated files, registries | label, restrict, deliver, apply, patch, scaffold, reload | what is allowed changes while a start writes its files | `Configuration` |
| Conversation (`rpc-agent-adapter.ts`, `connection.ts`, `pi-process.ts`) | message lists, bootstraps, queues | prompt, bootstrap, events, reconnect | snapshots and events cross; optimistic messages | `Chat` |
| Dialogs of extensions | one list and timer per tab | raise, answer, time out, close | several tabs answer one dialog | `Dialogs` |
| Positions, homes, placement, grading (`positions.js`, `placement.js`, `grading.js`) | the position tree | canSee, effectiveHome, moveKind, decide | what a writer read bounds where the entry may go | `Homes` |
| Entries (upsert, move, regrade, delete, approvals) | `Entity` rows, read marks, pending writes | write, setHome, applyRehome, regradeTick, deleteEntry | the home is read before the grader is awaited | `Entries` |
| Grants and shares (`grants.js`) | `AccessGrant`, `grantCache` | propose, confirm, decline, approve, revoke, refresh | several ways to make one share; a cache | `Shares` |
| Questions as entries (`needs.js`) | need entries, NEAR edges | ask, meet, show, answer, withdraw, expire | a question closes while it is being shown | `Questions` |
| Things (2370-3090, 3280-3330, 3730-3748) | thing entries, ABOUT and RELATES edges | link, unlink, relate, rename, merge, fold | merges and folds are many commands long, and links come meanwhile | `Things` |
| Dependency health (`health.js`) | pauses per dependency | ok, outage, probe | overlapping calls | `Health` |
| Background jobs (2350-2420, 3769-3804) | `Job` rows, a day's budget | enqueue, workerTick | check-then-insert; putting off | `Jobs` |
| Documents, pruning, the sweep | the store, entries of sections, ledger | requestIngest, ingestDocument, pruneExpired, sweep | an ingest breaks off half way | `Documents` |
| Provisioner (`provisioner/`) | state file, token map, containers, identities | a pass over the tenants | any call of a pass may fail | `Tenants` |
| Settings and their forms | policy and pool rows, settings files, drafts | load, edit, save, reread | overlapping saves of whole documents | `Settings` |
| Files of agents | uploads, listings | upload, move, remove, list | two uploads of a name; folders that go | `Files` |
| Rail of agents (`stores.svelte.ts`) | list, statuses, active agent | list, hear, pick, delete | an old list after a new status | `Rail` |
| Machine of an agent's tools (`gondolin-vm`) | `vm`, `vmStarting` | ensureVm, shutdown | a boot outlives the session | `Vm` |

What interacts with what: GraphPool claims from graph-rag over HTTP (claim,
release, finish, signals, handlers) and drives the manager; the agents call
graph-rag through MCP tools, which is how a turn raises a question or a proposal;
operators, the master and handlers decide over HTTP and tools. The provisioner
writes the token map that graph-rag reads and the metadata that the workspace
reads. The browser hears of agents over the WebSocket and asks over HTTP. There is
no lock, and no transaction over more than one command, anywhere.

The compositions follow these lines: `Workspace` (AgentManager, Sandboxes, Chat,
Dialogs, Configuration), `GraphPool` (with MasterInbox), `Knowledge` (Entries,
Shares, Questions, Things over Homes), `Background` (Health, Jobs, Documents,
Tenants) and `Panels` (Settings, Files, Rail, Vm, which share only the page).
`ReviewThreads` has the turns of the pool as its environment.

`PROJECT.json` lists every component with what is left out of it, the hazards
found, each at its line, with the properties that would catch it, and the
findings.

## How the models are bounded

Apart from the threads, whose constants are the bounds, a behaviour draws a
record of **quotas** at the start: what happens in it and how often
(`Quotas`, `Scopes`, `Scenarios`). An environment step spends its quota, so every
scenario is finite, and a run is the union of its scenarios. Each scenario puts
together the calls that can interfere with one another, in the smallest numbers
that let two of a kind meet, and the calls that cannot are left for others: that is
what keeps a run of five components within minutes. The steps of the program
itself cost nothing and are never bounded by a quota. When the quotas are spent
only the program's own steps remain, so `[]<>P` says that P holds again however
the environment's last step left things.

All configurations set `CHECK_DEADLOCK FALSE`: the bounds end every behaviour, and
the systems may rest.

Known races are kept out of a property by a history variable that records exactly
the case (`excused`, `crossed`, `doubled`, `strayed`, `forsaken`, `unseen`,
`astray`, `torn`, `late`, `lost`, `loose`, `missed`, `raced`), never by leaving the step out of
the model. Each such case is a finding in `PROJECT.json`; with it excepted, the
property holds over all the rest.

## Threads: ReviewThreads, ThreadQueue

One Node process over a database whose single commands are atomic: a handler is
a sequence of steps, one for each command. `call` holds the handlers in flight;
its `pc` names the next command and the other fields what the handler has read
(`row` the job, `open` whether something was open, `qs` and `ps` what is still to
settle). Any number of other steps may run between two steps of one handler.

| variable | in the code |
|---|---|
| `job` | `Job` rows of kind review: `status`, `attempts`, `payload.resume`, `.next_resume` (`next`), `.outages` |
| `question`, `proposal` | `WorkerQuestion` and `PendingWrite` rows of threads; "none" is a row not inserted yet |
| `lapsed` | the jobs whose `lease_until` is before the `now` of the timer's current pass |
| `signals` | `Signal` rows, as what the master was told of which worker |
| `turn` | a claim of `claimThreads` (claimed, gone) and `GraphPool.run`: held, prompted, over |
| `owed`, `failures`, `expired`, `executed` | history, read by properties only |

The actions, in the order of the module: the claim (`Claim` its UPDATE, `BriefRead`
what `entryForBrief` answers, `ClaimGone` the second UPDATE), the workspace (`Prompt`,
`Release`, `LoseTurn`, `Report`), the four commands of `finishThread`, asking and
proposing, the two commands of `resumeThread`, the requests of operator and
master, approval and rejection, and the timer. `Crash` restarts graph-rag: the
handlers in flight disappear, the rows stay, and turns go on in the workspace.
A restart of the workspace is `LoseTurn` of its turns, and so is a claim that breaks off.

Abstractions:

- A resume message is the question or proposal it decides, or `Word` for one
  with neither. Texts, summaries, reports, the changes list and agent ids are left out.
- The claim's SELECT and its UPDATE are one step, as the UPDATE repeats the test
  on the status; so are the SELECT with which `approvePending` and
  `rejectPending` begin and the arrival of the request.
- `run_after`, a paused model, the day's budget, priorities and levels only
  decide when a pending job is claimed; any pending job may be claimed at any time.
- A lease may end at any time: its length is the code's guess at how long a turn
  takes, and a late report must be possible. The two UPDATEs of `expireLeases`
  share one `now`, hence `lapsed`, which a claim or a release resets.
- One pass of the timer is assumed to end before the next begins (it runs every
  60 s); passes with nothing to do are left out. Loops over rows take them in any order.
- `ExecuteProposal` applies a write or throws; what each kind does to the graph is
  the subject of `Entries`, `Shares` and `Things`.

`ThreadQueue` states what all this promises, without rows, handlers and awaits: a
thread is queued, leased, waiting, done, failed or closed; a lease ends once
(reported, given back, lost, or left with no entry to work on), one report lands once, leases expire, and only
`MaxTries` counted tries fail a thread. `ReviewThreads` maps its rows, turns and
handlers to it (`Queue`), and `QueuePromise` says that every step is one of its steps
or leaves it alone: a report that was taken and not yet written is the one in
`reports`.

`threads_decisions` has a thread with a question and a proposal, two handlers, one
turn and two requests, enough for two decisions, or a decision and a close, to
interleave with each other and with the turn's report. `threads_turns` has a
thread of the master, a question, two turns, an outage and a restart of graph-rag:
a second turn can start after a lease ended while the first still runs and
reports. One job is enough since every handler touches the rows of one job only.
`MaxResumes` is 1 where the code has 5, and `MaxOutages` 1 where it has 6, so that
the limits are reached.

Three runs find what a comment promises and the code does not do:
`threads_answer_lost`, `threads_closed_revived`, `threads_failure_unheard`.

## The pool and the master: MasterInbox, GraphPool

`MasterInbox` is graph-rag's side: intake rows, `batchTick` with its commands in the
order of the code (batch, signal, marking), the signals and their acknowledgement,
`startHandler`, the handler's claim and `handlerDecide`, each in steps. A command that
fails ends a pass (`PassFails`), but a lookup that fails is an entry taken for gone
(`PassMisses`), and a count of the handlers that fails is none (`CountFails`). A restart
makes running handlers pending again (`Rerun`), unless that UPDATE fails. A thread is
its status alone here. `GraphPool` is the workspace's: `tick`, `masterTurn`,
`startHandlers` and each `run` are async functions whose pc names their await;
`active`, `running` (the manager's map, as its keys) and `record` (agents that have
a record) are what they share. A signal acknowledged after the first prompt, a
nudge, a stall, a turn that ends badly, a handler claimed without a lease, a job
claimed again while its last run is being released, an operator who opens and
closes agents, lost answers and restarts of either side are all steps.

`pool` runs sixteen scenarios: batches with two passes of the timer overlapping
(`Batches`, `BatchesAgain`, `Batches3`), lost answers and restarts under the master (`LostSignals`,
`Restarted`), handlers (`Asking`, `AskingFails`, `Handling`, `HandlingFails`, `HandlingRestarts`), threads
(`Working*`, `Reporting`). Two jobs and a pool of two, a model that serves one, one
handler allowed where the code allows more, batches of two entries and three
entries saved: each limit is reached and can be overrun by one.

## Knowledge: Homes, Entries, Shares, Questions, Things

`Homes` has no state: it is the position tree and what it decides. Who sees an
entry homed at a position (those who hold it or one above; the higher a home, the
fewer see it), where a write may land, the floor of what was read, which moves
widen, what a grading's verdict does (`positions.js`, `placement.js`, `grading.js`).

`Entries` holds the rows, by record id (which the database uses again after a
deletion), what each caller has read within the window (`marks`), the pending
writes, and in `task` the calls at work, with what each has read of its entry. A
write is: resolve the home and read the floor; await the grader or the embedder;
store over whatever is there by then. `due` is history: the home what an entry
says was read at. `Shares` adds the grants and the cache that reads go by,
`Questions` the entries that ask and the grants that show them to owners, `Things`
the things that entries are about with `mergeThings` and `foldEntries` in their
commands. `Knowledge` puts them together and groups the requests as the HTTP API and the
tools do (`EntryCall`, `ShareCall`, `NeedCall`, `ThingCall`, `QueueCall`, `PersonCall`).

What a grader says, what an embedder finds near, and when a call fails are free. Where
the code takes a failed query for an empty one and goes on, so does the model: a merge
or a fold may read no links and then deletes what it was to keep (`MergeRead`, `FoldRead`),
and a move may not reach the things the entry is about (`SeenFails`).
The text, wording, similarity, the extent of a read, raw commands and the deciding
model are left out; all things are of one type.

`knowledge` runs twenty-four scenarios over a root, a branch of two positions and
one beside it, three people, an agent, a worker and a handler, two entries, two
things, two calls at work at once, three pending writes and three grants. Two
calls at once are what every race found needs; a third caller decides in between.
The branch is what tells "above", "below" and "beside" apart.

## Background: Health, Jobs, Documents, Tenants

`Health`: each model route's pause, who awaits an answer, what is out. Answers of
calls made together arrive in any order. `Jobs`: `enqueue` (its look and its insert
are two steps), `workerTick` with the jobs it works one after the other, what each
kind does, putting off, giving up, the day's budget, a restart. An entry's text is
how often it was written; `linked` and `handed` say which writing was seen. The caller
of `enqueue` takes no notice of its failure, which leaves a text with no job (`EnqueueFails`).
`Documents`: asking for an ingest, approving it or not, `ingestDocument` in its
steps with what breaks it off, an earlier document of the same title, `pruneExpired`
(read, archive, conditional delete, ledger) and the sweep of texts nothing refers
to. A re-ingest whose delete of the old sections fails goes on (`IngestReplaces`); a sweep
stops when its first query fails (`SweepRows`), and takes the second's failure for
nothing being awaited (`SweepPending`). `Tenants`: a pass over the tenants, in the order of `reconcile`, any external
call of which may fail, with what is recorded only at the pass's end.

`background` runs thirteen scenarios (`MCBackground`): writing and linking, handing
over, triage, restarts, failures and outages; three documents of one title, an
approval that waits a day, pruning, an outage in an ingest; roles lost and gained
with a failing call and a restart of the provisioner. A job is given up after two
tries instead of five, pauses are 1, 2 and 3, and a day has two calls.

## A workspace: AgentManager, Sandboxes, Configuration, Chat, Dialogs

`AgentManager`: `call` holds the starts and stops in flight: a start waits for its
scaffold (on OpenShell, also the sandbox), then for the first answer of its process;
a stop waits until the agent is idle. A restart and a delete are a stop with
something after it; a patch that needs a restart, and settings that refuse an
agent's model or connection, are requests for these. `inst` holds every process
ever started, so that an old one can exit after a new one took its place. A refused
model and a missing model are the same failed start; a missing budget is 0; delays
of timers are left out; pi answers in order. A process may exit by itself at any
time, and a signal it was sent is no guarantee of when.

`Sandboxes` follows each call slot through `prepare` and through what comes after a
stop (copy, delete, purge); a conversation is the set of its messages, in the
sandbox, on the host, or both. `Configuration` is the way from the admin's settings
to what a process runs on: organization, the workspace's file, what the server
holds of it, the registries, profiles, records, and the two files that every start
and every patch writes. `Chat` is one conversation: the tab's adapter, the socket
with what is on its way, the server's connection and pi's pipes. `Dialogs` are the
lists and timers that each connection keeps. `Workspace` composes them, with the
same agents and processes.

`agent_requests` runs twelve scenarios (`MCWorkspace`). Two agents with a cap of
one, three calls in flight, four processes and three requests are enough for two
restarts, a stop and a delete to overlap on one agent while the other is kept out by
the cap. Slots of calls are interchangeable (symmetry; the run has no liveness).
One agent has the conversation, the dialogs and the configuration; two tabs, two
dialogs, two models, one connection, two profiles and up to three changes.

`agent_restarts_unbounded` and `agent_stop_outrun` find where docs and code differ.

## Panels: Settings, Files, Rail, Vm

`Settings`: documents of two knobs, which admins load, draft and save; a policy row
and a pool row in graph-rag, with their inserts, the copies in its process and the
reread each minute; files written over by the provisioner and the workspace.
`Files`: an upload of two pieces to a temporary name and its move into place, on the
host (an open file goes on) and in a sandbox (each piece is a command of its own),
while files and folders are moved and removed; and the panel with the answers that
come late. `Rail`: the list asked for every 15 s, the statuses heard meanwhile,
turns, picking and deleting. `Vm`: boots, tools that wait for one, shutdowns.

`panels` runs thirteen scenarios (`MCPanels`): four of settings, four of files, one
of the machine, four of the rail. Two admins, two owners, two uploads of one name,
four boots and two agents: each race needs two of them.

## What the runs show

| run | property | what it says |
|---|---|---|
| `threads_decisions` | `TypeOK` | types |
| | `WriteRunsOnce` | a proposal is applied at most once, never one undecided or rejected, however many decisions and closes race |
| | `ClosedStaysClosedButForTurns` | only the report of a turn, or a claim that found its entry gone, writes over a close |
| `threads_turns` | `TriesEarned` | a thread fails only after three counted tries; a stale write can lose a try, never add one |
| | `OneTurnUnlessExpired` | two turns of one thread run at once only after its lease expired |
| | `ThreadsMoveOn` | no thread stays running on a dead turn, or waits for ever on nothing |
| | `QueuePromise` | ReviewThreads implements ThreadQueue |
| `agent_requests` | `WorkspaceTypeOK` | types, and what follows from the parts' shape |
| | `NoOrphans` | a live process that was sent no signal is the one the map holds |
| | `StatusTells` | "running" means a live process that has answered |
| | `StopIsNoCrash` | a process that was asked to stop arms no auto-restart, however late it exits |
| | `ShownIsSaid` | once all is quiet the chat shows what was said, in order |
| | `DialogNotStuck` | a dialog some tab was told of has a timer or an answer on its way |
| | `KeptSomewhere` | what was said is in the sandbox or on the host |
| | `SettingsHold` | once settled, no process uses a model or connection its record names and the organization does not allow |
| `pool` | `TypeOK` | types |
| | `DeliveredWasShown` | no signal is marked delivered that was in no prompt |
| | `HandedOverOnce` | a saved entry is handed over, once |
| | `DecidedOnce` | a handler is decided once, and not asked again |
| | `LimitsKept` | handlers, pool and a limited model keep to their numbers |
| | `StoppedByItsOwn` | the pool stops no agent at work but by an earlier run of its job |
| | `PlacesGivenBack` | a thread's place in the pool is given back whatever fails |
| | `MasterHears` | saved entries and signals reach the master in the end |
| `knowledge` | `TypeOK` | types; links and relations have both ends |
| | `FloorKept` | an entry is homed at or above all that was read for it |
| | `PlacementStands` | more people see an entry only by an approved move or its first grading; what a person placed no agent or timer moves |
| | `SharedOnce` | a share is made once, and not if its person declined it |
| | `ClosedIsHidden` | a closed question is shown to nobody |
| | `RevocationTakesHold` | what is revoked leaves the cache for good |
| | `LinksStand` | links outlive merges, folds and restarts in them; who sees an entry sees what it is about |
| `background` | `TypeOK` | types; tries, budget and identities keep to their rules |
| | `EntryNotForgotten` | an entry whose last text is not yet linked or handed over is on its way there |
| | `DocumentsKept` | a ready document is whole and alone; one that waits has its text |
| | `JobsSettle` | a job is done or given up in the end |
| | `RolesTakeHold` | who lost the role is locked out in the end, who has it has everything |
| `panels` | `TypeOK` | types |
| | `EditsTakeHold` | the last save is what is stored, and the policy in effect follows |
| | `FilesAsShown` | a file is one whole upload; a listing is of the place the panel is at |
| | `VmsClosed` | an open machine is the one in use; a tool keeps its machine |
| | `RailTells` | the rail ends up with the agents there are, their status and their turns |

| run expected to be violated | property | the comment it takes at its word |
|---|---|---|
| `threads_answer_lost` | `AnswerKept` | "each one's thread resumes with the answer" |
| `threads_closed_revived` | `ClosedStaysClosed` | "no resume" |
| `threads_failure_unheard` | `FailureHeard` | "the master hears how its worker ended" |
| `agent_restarts_unbounded` | `RestartsBounded` | "auto-restart ≤ 3" |
| `agent_stop_outrun` | `StopCancelsRestart` | "a requested stop also cancels a pending crash auto-restart" |

The other findings in `PROJECT.json` have no run of their own: they are the exceptions
of the properties above, each met as a counterexample before it was excepted, or
were read off the code while it was modelled.

### Fairness

- `ReviewThreads`: the timer's pass goes on (`TimerStep`, weak), and a job found
  again and again lapsed, or waiting, is handled in some pass (strong, since a
  report, claim or restart may move it away meanwhile). Turns, operators and
  agents may stop for ever.
- `GraphPool`: an async function of the workspace goes on, since each of its
  awaits ends (HTTP and pi requests have timeouts): weak fairness of `TickStep`,
  `MasterStep`, `StarterStep`, `RunStep`, `InboxCall`, `InboxPass`. Strong fairness is
  assumed of a tick that finds an idle agent (every 15 s, while others come and
  go), and of a batch pass that starts when there is a batch to make.
- `Knowledge`: a call at work ends, and grants are refreshed each minute.
- `Background`: `setInterval` passes of the worker and of the provisioner, pauses and
  `run_after` times that end, days that pass, the token map that is read again.
  `ComesBack` is an assumption about the world: a model that is out comes back.
  `JobsSettle` means nothing without it.
- `Panels`: the policy is read again each minute; the rail's interval goes on; what
  is on its way to the browser comes; requests are answered.

No fairness is assumed of people, agents, faults or restarts.

## Proofs

TLAPS proves the following for every value of the constants that the modules'
assumptions admit. Each property is stated by the theorem as the run checks it.

| module | theorem | of | what is added to make it inductive |
|---|---|---|---|
| `ReviewThreadsProofs` | `TypeCorrect` | `TypeOK` | `TypeInv`: what a call carries fits its step |
| | `WritesRunOnce` | `WriteRunsOnce` | `OnceInv`: a call that may apply a proposal holds it alone |
| | `TriesAreEarned` | `TriesEarned` | `TriesInv`: attempts read and not yet written back are bounded by the tries counted since |
| | `OneTurn` | `OneTurnUnlessExpired` | `TurnsInv`: a job whose lease never ended is at work in one place, and cannot be claimed |
| | `NotRevived` | `ClosedStaysClosedButForTurns` | the same types; step by step |
| | `QueueKeepsPromise` | `QueuePromise` | `TypeInv`, and the abstract queue's steps one by one |
| `AgentManagerProofs` | `ManagerTypeCorrect` | `TypeOK` of the manager | |
| | `NothingOrphaned`, `StatusTellsTheTruth` | `NoOrphans`, `StatusTells` | `ManagerInv`: which calls may be where, for an agent whose starts did not overlap |
| | `StopsAreNoCrashes` | `StopIsNoCrash` | the same |
| `WorkspaceProofs` | `ManagerImplemented` | `WorkspaceSpec => Spec` | `AsksOfAgents` |
| | `NothingOrphanedHere`, `StatusTellsHere`, `StopsAreNoCrashesHere` | the manager's three, of the composition | by `ManagerImplemented` |
| | `DialogsAnswered` | `DialogNotStuck` | `DialogInv`: who waits was started, timers are those of connections there are |
| | `ConversationsKept` | `KeptSomewhere` | `SandboxInv`: a release about to delete has what is there saved, or given up |
| | `SettingsAreHeld` | `SettingsHold` | `SettingsInv`: what files, starts under way and processes hold, until they are stopped or restarted |
| | `WorkspaceTypeCorrect` | `WorkspaceTypeOK` | `WorkspaceTypes`: the sets that lines, commands and snapshots are of, and with them the invariants above |
| | `ConversationsShown` | `ShownIsSaid` | `ChatInStep`: what is on its way to the tab and to pi is in order, and makes the tab show what was said |
| `GraphPoolProofs` | `PoolTypeCorrect` | `TypeOK` | `TypeInv`: what runs, calls and passes carry |
| | `DeliveredIsShown` | `DeliveredWasShown` | `ShownInv`: what the master acknowledges it was shown |
| | `EntriesHandedOver` | `HandedOverOnce` | `HandOverInv`: what each pass of the timer knows of what it has in hand, and that an entry is in one hand |
| | `HandlersDecidedOnce` | `DecidedOnce` | `OneDecides`: a decision is signalled by the call that made it |
| | `StopsItsOwn` | `StoppedByItsOwn` | `RunsInv`: a live run has its place, and its job to itself |
| | `LimitsAreKept` | `LimitsKept` | `RoomForOne`, `PlacesInv`: the room a tick or a call found is still there when it is used |
| `PanelsProofs` | `TypesHold` | `TypeOK` of the panels | `RowsCounted`: a row is inserted by an admin who found none, each once |
| | `MachinesClosed` | `VmsClosed` | `VmInv`: what the session has is what it booted last |
| | `FilesShownRight` | `FilesAsShown` | `OneName`, `FilesWhole`, `ListingInv`: no inode has two names, the temporary one has what was sent |
| | `EditsStood` | `EditsStand`, the safety half of `EditsTakeHold` | `SavedRight`: what a save will write differs from what is stored in nothing but what was edited |
| | `RailHeard` | `RailHears`, the safety half of `RailTells` | `ToldRight`: the last message on its way about an agent tells whether it is in a turn |
| `BackgroundProofs` | `TypesHold` | `TypeOK` of the background | `TenantsInv`: where a pass of the provisioner may be with which tenant; `Working` for the day's calls and the tries |
| | `NotForgotten` | `EntryNotForgotten` | `JobsInv`: one job runs, the tick's, and linking is no further than what it has read |
| | `NothingIsLost` | `DocumentsKept` | `DocsInv`: what the ingest at work has written and has left, whose each section is, what the sweep knows |
| `KnowledgeProofs` | `TypesHold` | `TypeOK` of the graph | `TypeInv`: what each call carries (`Shape`), and that a link's two ends are there |
| | `SharesMadeOnce` | `SharedOnce` | `SharedInv`: a proposal is held by one call, and is out of reach of every other once it is |
| | `ClosedAreHidden` | `ClosedIsHidden` | `LeftAlone`, `ShownIsOpened`: no call is at work on a question closed in order, or not yet opened |
| | `FloorsKept` | `FloorKept` | `FloorInv`: what is due to an entry is still above it, or is what the pass that stores it is about to write |
| | `PlacementsStand` | `PlacementStands` | what each move and grading at work was decided on (`Shape`), and that an approved move comes of a proposal held |
| `LinksProofs` | `LinksStandThere` | `LinksStand` | `LinkInv`: what each call at work knows of the things it names (`Knows`), that what a merge has moved stands (`MovedStand`), and who shows a link that is not yet seen (`LinksSeen`) |

How the arguments go:

- The type invariants are not inductive as they stand: a step that writes a row for
  a call needs to know that the call carries one. `TypeInv` adds what a
  call's item and job are at each of its steps; lemmas on the few ways a call
  moves (`ReturnOK`, `GoOK`, `PassMoves`, `CallMoves`, `RunMoves`) leave one short step
  per action.
- `WriteRunsOnce` follows since a claimed proposal is `executing`, held by no
  other call, and not applied unless its call already settles the approval. A stale
  write of `finishThread` is harmless to `TriesEarned` because what it writes back
  was read before the tries counted since.
- For the refinement of `ThreadQueue`, reports in flight are counted by the calls of
  `finishThread` at work, so the lemmas are on finite sets: a call that begins or
  ends its report adds one or takes one away. Every handler, turn and timer step
  is then shown to be one abstract step, or none.
- `NoOrphans` and `StatusTells` hold because a start is the only one of its agent from
  its entry into the map until it has answered, unless two scaffolded at once
  (`overlapped`). `ManagerInv` says so for each place a call can be at.
- The workspace's other components move the manager only by its own actions, which
  is `ManagerImplemented`; the manager's theorems are then used, not proved again.
- `SettingsInv` follows a disallowed model from the admin's change to the process: until
  the change is delivered the process is allowed by what the server holds; from then
  a stop or restart of it is under way, or it is in `astray`. The attempt to prove it
  showed that `SettingsHold` had said too much of two cases that the bounds of the run
  did not reach: an agent that was deleted while its process is being stopped, and
  a process left as it was by a change of connections whose files could not be written.
- `WorkspaceTypeOK` says a little of each part, and each part needs more. `ChatTypes` gives the sets that
  commands, lines and snapshots are of: that an answer of pi names the connection that asked, that a
  turn that ends has said something, that an optimistic prompt is shown. A part's own steps keep it,
  and `ChatUnderManager`, `SandboxesUnderManager` and `SpeakingStays` say what the manager's steps do to
  the others: a slot leaves `scaffold` only where `prepare` is over (`ScaffoldsStand`), and
  the conversation goes over to the newest process in the same step as the processes change.
- `ShownIsSaid` speaks of a moment when nothing is on its way, so `ChatInStep` says what is on its
  way. The queues between the tab and pi are read as two sequences, `Flow` (lines to the tab) and
  `Orders` (commands to pi). A bootstrap's state comes before its messages (`InOrder`), numbers of
  bootstraps and prompts are not used twice (`Gens`, `Numbers`), one prompt at most is on its way, to a
  pi that rests (`OnePrompt`), and lines that talk tell what pi said, none twice, unless a
  new session comes after them (`TalkTells`). A tab that has bootstrapped then shows a
  beginning of what was said and the lines to come tell the rest (`InStep`, `Cover`); while it asks for
  a snapshot, that holds of what the snapshot will make it show, with the optimistic prompts
  it keeps (`WillShow`, `Confirms`, `StillTyped`).
- What a step does to the two sequences is always of a few kinds: lines move so that the order of those
  that matter is kept (`Carries`), commands move so (`Comes`), one more comes last, the first
  is heard or read. `Straight` is kept by each kind (the lemmas `Straight...` of `AgentManagerProofs`, which
  has all that is about one conversation), and the lemma of
  an action (`...InStep`) says of which kinds it is. The hardest is a read of pi's
  output, where answers overtake what was printed before them: `MovesBy` says what may pass what,
  and the snapshot that overtakes talk is the case that `excused` names. `ChatInStep` was checked
  with TLC, as an invariant of a run, before it was proved.
- `HandOverInv` has the case that makes a hand-over race: between the signal and the
  marking of the rows, the pass holds entries that are told of and still pending.
  `excused` passes are the overlapping ones, as the code has no lock there.
- `RunsInv` orders the runs by number; a run whose job is claimed again before its
  release is the only way an agent of another run is stopped, or a place taken
  twice. `PlacesInv` counts them: every live run is in `active`, and what a tick
  has found as room is bounded by the size less `active`.

- The panels share nothing but the page, so their invariants are proved one by one, and a
  step of another part leaves each alone (`FilesStand`, `VmStand` and the like).
- A file is whole since the name it is moved from is that of the one upload at work on
  it: `FilesWhole` follows that upload piece by piece, and is given up for a file
  (`torn`) exactly when a second one begins or its folder goes.
- `RailHears` speaks of a moment when nothing is on its way. Before that, what was
  heard last is old, and `ToldRight` says what the messages on their way will make of
  it; a broken connection puts those they were about in `missed`.
- `EntryNotForgotten` alone is not inductive: a tick that finishes a job drops the only
  thing an entry was waiting for, and what makes this right is in other variables. `TickWorks`
  says that the running job is the tick's, so no other writes the entry's links meanwhile,
  and `Linking` that what it has read is what it has linked once it comes to hand over.
  An entry written meanwhile is an enqueue under way, which either finds a job that waits
  or inserts one; a job given up stays (`failed`), and what a restart or a failed command keeps
  from the queue is in `lost`, which the property excuses.
- For `DocumentsKept`, `IngestRight` counts the sections: what the ingest at work has not
  left it has written, or they were pruned. `SectionsKnown` says whose every other
  section is, which is why dropping the earlier document's leaves none behind. A text that
  is waited for survives the sweep because it is not a day old when the sweep begins,
  or is among those that the sweep has found alive (`TextsKept`), though rows are
  read, approved and removed in between. What a failed command leaves behind or unprotected is in
  `loose`, of which none of this is said.
- The three parts of `Background` share only what may still happen (`quota`), so each step of
  one leaves the others' invariants alone.
- In `Knowledge` most steps are `Calmly`: one call goes on without taking up a share or a
  question, at most one proposal is queued, no grant is made or revived. What such a
  step keeps is proved once (`CalmKept`); the steps that are not calm have lemmas of their own.
- `SharedOnce` needs to know who may still make a share. A call holds a proposal when it will
  settle it or resolves the write it waits on, and `OneHolds` says that no two do.
  A proposal held, or made, is `Spent`: neither approval nor confirmation takes it up again
  (`ClaimedIsSpent`, `MadeIsSpent`). A resolution acts on rows it read earlier, so
  `ReadStillWaits` says what can have become of them: decided by their person, no more. A
  confirmation acts on what it read too (`ConfirmedAsRead`).
- `ClosedIsHidden` speaks of grants; what may still make one is a call that opens, meets or
  shows the question. `LeftAlone` says that none does unless the question is in `crossed`, and
  `ShownIsOpened` that before it is opened nothing shows it, so that joining an older
  question leaves nothing behind.
- `FloorKept` compares an entry's place with everything that was read for it (`due`). The lemmas
  on the tree come first: `AtOrAbove` of a position is a line (`AboveLine`), it is inherited
  upwards (`AboveTrans`), and `CommonIs` says that a common ancestor is above both. Then
  `FloorInv`: an entry has one row (`OneRow`), one that is gone is owed nothing (`GoneOwesNothing`),
  the row stands above what is due and so does what a grading has found (`KeptAbove`). Only a
  write, a grading, an approved move and a deletion touch the rows, so every other step is
  one lemma (`StepKeeps`), and each of these four has to show that its new place is above what
  it is owed, or that the entry is `excused`.
- `PlacementsStand` is of the same four: `Shape` says that a move is an approval's or a first
  grading's, and that a worker's write never lowers what a person placed.
- The attempt at `FloorsKept` showed a case the run's bounds do not reach: a worker proposes an update
  of an entry whose home is off the line of the origin it would have if it were made anew, and
  the entry is deleted before the proposal is approved. It is then written at its origin, and what
  was read for it is not applied, though `placement.js` takes the floor to be at or above the
  origin. `Loses` excuses this, and `KnowledgeAssumption` says that the rows a scenario begins with
  are of different entries.
- `LinksStand` speaks of a moment when no call is at work. Before that, who sees an entry may not
  yet see what it is about, and `LinkSeen` says how it will: the thing has a home that shows it,
  or a call at work on seeing it has that home still to write, or a merge that has moved the
  entry's link has yet to give the thing kept the homes it read of the thing dropped.
  `MovedStand` says that a link which a merge at work has moved stands at the thing kept while it stands
  at the thing dropped, so that deleting the thing dropped takes no link away. Each call acts on
  things it read earlier, and `Knows` says what can have become of them: the homes it has
  read or given are still the thing's, or the thing is gone, or it is in `unseen`. A step of a call is
  taken apart into what it writes and what the calls know afterwards; all that is not about
  things is one lemma (`CallsAside`).
- The attempt at it found four cases the run's bounds do not reach, and the history variables of `Things`
  now excuse them. An entry is linked to a thing while a merge that has moved its other links is about
  to delete that thing, and the link the merge had moved was taken back in between: the new
  link goes with the thing (`Standing`). A thing is kept by one merge and dropped by another before the
  first has given it its homes, and two merges drop the same thing into different ones: the
  thing kept last misses the homes that were on their way (`Gives`, and `unseen` of `MergeDelete`).
  And a scenario may begin with a link that nobody sees, which `KnowledgeAssumption` rules out.
- The proofs of `SharedOnce` and `ClosedIsHidden` showed that both had said too much of cases the run
  did not reach: a share made just before a restart and declined after it, a second share of the same write
  declined while the first is being made, and a closing broken off by a restart. `refused`
  and `crossed` now say so, three scenarios of `knowledge` reach these cases, and two of
  them are findings.

Assumptions, each named in its module and evaluated by TLC in the runs:
`ThreadsAssumption` (at least one job, finitely many callers, the timer's slot is not a
request's, bounds are natural numbers, messages differ from `None` and from each
other), `ManagerAssumption` (bounds are numbers, `None` is no process), `ChatAssumption` (`None` is no
connection's number, a read is of a number of lines),
`ConfigurationAssumption` (the catalogue is a sequence of models, the default profile is
a profile, `None` is neither a model nor a record), `WorkspaceAssumption` (scopes are
records of quotas; a scope with a configuration has one agent, which is a bound of
the model, since `request` is one slot; profiles offered are profiles), `PoolAssumption`
(quotas are records of numbers, the limit is at least 1, agents are finitely many,
jobs, handlers and other agents' names are different), `SettingsAssumption` (admins are
finitely many, and there is one), `FilesAssumption`, `VmAssumption` (bounds are numbers,
`Absent` is no inode, `NoVm` no boot), `RailAssumption` (agents are finitely many),
`BackgroundAssumption` (scenarios are records of quotas, `None` is no row, document, job or
use of tenants), `TenantsAssumption` (the seeded tenants are tenants), `TreeAssumption` (what
`parsePositionMap` makes sure of: positions form a tree, `everyone` is none of them),
`EntriesAssumption`, `SharesAssumption` (each agent has a person, bounds are numbers),
`QuestionsAssumption`, `ThingsAssumption` (record ids of entries, questions and things are
different), `KnowledgeAssumption` (`None` is no row, thing, proposal or grant, a scenario is
a record of quotas, its rows are of different entries, its links are of rows and things it has, and
who sees the row sees the thing; `None` is not `Gone`).
`Panels`' theorems are of its `Init`, where each part may be used in any measure;
`MCInit` is the case of it where one panel is in use.

The models were changed where they could not be reasoned about, without changing
their steps: `SentBack` in `GraphPool` says in closed form what a fold over the claimed
runs computed, `DefaultModel` takes the first allowed model of the catalogue with
`SelectInSeq`, `ProbeOk` names the answer it reads, and quotas are typed records. In
`Files` an upload is not written while no inode is left (`Makeable`, a bound the run
does not reach). `Above` in `Homes` is the least set closed under parents, where a
recursion went up the tree, `Picked` in `Chat` says by their positions which
lines pass a filter, and `Concerns` in `Questions` spells out the two levels a call
and what follows it can have.

Only model-checked:

- What needs fairness (`ThreadsMoveOn`, `PlacesGivenBack`, `MasterHears`, `RevocationTakesHold`,
  `JobsSettle`, `RolesTakeHold`, `EditsTakeHold`, `RailTells`): the prover has no
  liveness rules for `ENABLED`.

## Not modelled

- Delegation tokens and roles: parsing and signatures, without state.
- Worker threads: the day's budget, priorities and levels of the queue (they decide
  when a job is claimed, which is free here), and the jobs of deciding and of
  follow-ups.
- Who may review a write; prompts, summaries and texts; the text the grader reads,
  the extent of a read, similarity, and raw commands, which pass a query to the database.
- Building the position tree from authentik's groups: the tree is a constant; the
  move of a home when a position goes is not modelled.
- Uploads over the 512 MiB limit (`files.ts`), of which the multipart library cuts the rest off and
  which nothing checks for before the rename: `FilesAsShown` is about those within it.
- A blocked stdin of pi, the trace and the files of an agent that are only read.
- The sandbox's policies and its gateway's protocol; switching a tenant's container to
  another runtime; authentik, Docker and the gateway are external, as calls that
  work or fail.
- The analysis at an agent's creation, instructions, keys, thumbnails.
- Panels that only pass a request on or show what a server says (shares, questions,
  queue, traces); layout, markdown, icons.
- Scaffolding scripts, build files and deployment.

`PROJECT.json` gives the same for each component in its note.
