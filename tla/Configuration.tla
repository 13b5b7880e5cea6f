---- MODULE Configuration ----
(***************************************************************************)
(* What an agent is started with, and who decides: the organization's admin   *)
(* labels models and says which tool connections a workspace may use (the     *)
(* provisioner, provisioner/index.mjs), the workspace takes that from its      *)
(* metadata and applies it to the agents there are (instance/metadata.ts,     *)
(* agents/manager.ts), its operator makes, changes and switches agents        *)
(* (http/agents.ts, ws/connection.ts, web/src/components/ModelBar.svelte),     *)
(* and what a process runs on is in files that every start and every change   *)
(* of an agent writes again (agents/scaffold.ts).                             *)
(*                                                                          *)
(* A settings document is the models and connections it allows; a provider    *)
(* is left out: it allows its models.  One agent's record is changed by one    *)
(* request at a time (a bound).                                               *)
(***************************************************************************)
EXTENDS AgentManager, SequencesExt

CONSTANTS
    Catalogue,      \* the models, in the order in which a default is looked for
    Discovered,     \* those of them a provider is asked for
    Connections,    \* tool connections
    Sidecars,       \* those of them a container is labeled for
    Profiles,       \* agent profiles, DefaultProfile among them
    DefaultProfile,
    MaxChanges      \* changes of the admin and the operator (a bound)

Models == Range(Catalogue)
Allowances == [models: SUBSET Models, mcp: SUBSET Connections]
ProfileRec == [model: Models \cup {None}, mcp: SUBSET Connections, worker: BOOLEAN]

\* An agent's record; none before it is made.
Record == [profile: Profiles, model: Models \cup {None}, mcp: SUBSET Connections]
\* What settings.json, providers.gen.json and .mcp.json say, and what a process was started with.
Config == [model: Models \cup {None}, knows: SUBSET Models, mcp: SUBSET Connections]

\* The catalogue is of models, and what says that there is none is no model and no record.
ASSUME ConfigurationAssumption ==
    /\ Catalogue \in Seq(Models) /\ DefaultProfile \in Profiles
    /\ None \notin Models /\ None \notin Record /\ Sidecars \subseteq Connections

VARIABLES
    organization, \* the admin's settings and labels, as the provisioner keeps them
    document,     \* the workspace's metadata file
    metadata,     \* what the workspace's server holds of it
    offered,      \* the models in the server's provider registry
    registered,   \* the tool connections in its MCP registry
    profile,      \* the profile store; None for one that was removed
    record,       \* per agent: its record's configuration, or None
    disk,         \* per agent: what its files say
    wrote,        \* per call: how far its scaffold is
    uses,         \* per process: what it was started with, and the model it was switched to
    request,      \* the request that makes or changes an agent
    choice,       \* a model that was switched to and is yet to be kept, and of which agent
    late,         \* history: starts overtaken by settings, or of files without all providers
    astray,       \* history: processes of such a start, or that a failed change left as they were
    changes       \* history: changes made

settings == <<organization, document, metadata>>
stores == <<offered, registered, profile>>
files == <<disk, wrote, uses>>
asked == <<request, choice>>
history == <<late, astray>>
configVars == <<settings, stores, record, files, asked, history, changes>>

NoRequest == [pc |-> "none", agent |-> Unused.agent, then |-> "none"]
Everything == [models |-> Models, mcp |-> Connections]
Blank == [model |-> None, knows |-> {}, mcp |-> {}]

ConfigurationInit ==
    /\ organization = Everything /\ document = Everything /\ metadata = Everything
    /\ offered = Models /\ registered = Connections
    /\ profile = [p \in Profiles |-> IF p = DefaultProfile THEN [model |-> None, mcp |-> {}, worker |-> FALSE] ELSE None]
    /\ record = [a \in Agents |-> None] /\ disk = [a \in Agents |-> Blank]
    /\ uses = [i \in Instances |-> Blank]
    /\ wrote = [c \in Calls |-> "nothing"]
    /\ request = NoRequest /\ choice = None /\ late = {} /\ astray = {} /\ changes = 0

Changed == changes < MaxChanges /\ changes' = changes + 1

Allowed(m) == m \in metadata.models
\* The model, and the connections, of an agent that names none.
DefaultModel ==
    LET first == SelectInSeq(Catalogue, LAMBDA m : Allowed(m) /\ m \in offered) IN
    IF first = 0 THEN None ELSE Catalogue[first]
DefaultConnections == metadata.mcp \cap registered

--------------------------------------------------------------------------
(* The admin's settings on their way                                       *)

\* applyLabelUpdate.
Labels(ms) == ms # organization.models /\ organization' = [organization EXCEPT !.models = ms]

\* updateModels: the labels of models.
LabelModels ==
    /\ Changed
    /\ \E ms \in SUBSET Models : Labels(ms)
    /\ UNCHANGED <<document, metadata, stores, record, files, asked, history>>

\* applySettingsUpdate.
Restricts(ns) == ns # organization.mcp /\ organization' = [organization EXCEPT !.mcp = ns]

\* updateWorkspace: what one workspace may use.
RestrictWorkspace ==
    /\ Changed
    /\ \E ns \in SUBSET Connections : Restricts(ns)
    /\ UNCHANGED <<document, metadata, stores, record, files, asked, history>>

\* The requests the provisioner's operations API takes.
AdminStep == LabelModels \/ RestrictWorkspace

\* ensureMetadata, in the reconcile pass that follows, or a later one.
Deliver ==
    /\ document # organization /\ document' = organization
    /\ UNCHANGED <<organization, metadata, stores, record, files, asked, history, changes>>

\* What applyInstanceSettings does with a running agent; its process is not asked.
Applies(r, md) ==
    IF r.model # None /\ r.model \notin md.models THEN "stop"
    ELSE IF ~(r.mcp \subseteq md.mcp) THEN "restart" ELSE "nothing"

\* The file is read and differs: it is held, and applied to the running agent (one: a bound).
\* A start that is still writing its files is not in the manager's map.
Load(a, c) ==
    LET does == IF agent[a].running = None \/ agent[a].status = "deleted" THEN "nothing"
                ELSE Applies(record[a], document) IN
    /\ metadata # document /\ metadata' = document
    /\ late' = late \cup {d \in Calls : At(d, "scaffold")}
    /\ \/ does = "nothing" /\ UNCHANGED vars
       \/ does = "stop" /\ Stop(a, c, "none")
       \/ does = "restart" /\ Stop(a, c, "start")
    /\ UNCHANGED <<organization, document, stores, record, files, asked, astray, changes>>

--------------------------------------------------------------------------
(* The registries and the profiles of the workspace                        *)

\* PUT /api/providers/reload: the registry is emptied, ...
Reload ==
    /\ offered # {} /\ Changed /\ offered' = {}
    /\ UNCHANGED <<settings, registered, profile, record, files, asked, history>>

\* ... and filled when its file is read; one that cannot be read leaves it empty.
Reloaded ==
    /\ offered = {} /\ offered' = Models \ Discovered
    /\ UNCHANGED <<settings, registered, profile, record, files, asked, history, changes>>

\* A provider answers what models it has; it is asked again while it does not.
Discovers ==
    /\ offered # {} /\ offered # Models /\ offered' = Models
    /\ UNCHANGED <<settings, registered, profile, record, files, asked, history, changes>>

\* McpRegistryStore: put and remove.
Puts(ns) == registered' = registered \cup ns
Removes(n) == registered' = registered \ {n}

\* PUT and DELETE /api/mcp/:name.
Register(n) ==
    /\ Changed /\ IF n \in registered THEN Removes(n) ELSE Puts({n})
    /\ UNCHANGED <<settings, offered, profile, record, files, asked, history>>

\* syncSidecars: labeled containers are found (again), and nothing is removed.
FindSidecars ==
    /\ ~(Sidecars \subseteq registered) /\ Puts(Sidecars)
    /\ UNCHANGED <<settings, offered, profile, record, files, asked, history, changes>>

RegistryStep == Reload \/ Reloaded \/ Discovers \/ FindSidecars \/ \E n \in Connections : Register(n)

\* resolve: of a profile that is gone, the default one.
Resolve(p) == IF profile[p] = None THEN profile[DefaultProfile] ELSE profile[p]

\* upsert: the graph worker's is taken from any other profile.
TakesWorker(p, q, rec) ==
    IF q = p THEN rec
    ELSE IF rec.worker /\ profile[q] # None THEN [profile[q] EXCEPT !.worker = FALSE] ELSE profile[q]

\* PUT and DELETE /api/profiles/:id.
SaveProfile(p, rec) ==
    /\ Changed
    /\ profile' = [q \in Profiles |-> TakesWorker(p, q, rec)]
    /\ UNCHANGED <<settings, offered, registered, record, files, asked, history>>

RemoveProfile(p) ==
    /\ p # DefaultProfile /\ profile[p] # None /\ Changed
    /\ profile' = [profile EXCEPT ![p] = None]
    /\ UNCHANGED <<settings, offered, registered, record, files, asked, history>>

--------------------------------------------------------------------------
(* Files                                                                   *)

\* buildGeneratedProviders: the providers' models that may be used.
ModelsFile == metadata.models \cap offered

\* scaffoldAgent writes the model and the providers, ...
SettingsFile(a) ==
    [disk[a] EXCEPT !.model = IF record[a].model # None THEN record[a].model ELSE DefaultModel,
                    !.knows = ModelsFile]

\* (faulty variant: the record's connections as they are)
ConnectionsAnyway(a) == [disk[a] EXCEPT !.mcp = record[a].mcp \cap registered]

\* ... and then the connections, those the workspace has and may use.
ConnectionsFile(a) == [disk[a] EXCEPT !.mcp = record[a].mcp \cap DefaultConnections]

\* A start writes them before its process is made.
StartWrites(c) ==
    LET a == call[c].agent IN
    /\ At(c, "scaffold")
    /\ \/ /\ wrote[c] = "nothing" /\ wrote' = [wrote EXCEPT ![c] = "settings"]
          /\ disk' = [disk EXCEPT ![a] = SettingsFile(a)]
          /\ late' = IF offered # Models THEN late \cup {c} ELSE late
       \/ /\ wrote[c] = "settings" /\ wrote' = [wrote EXCEPT ![c] = "all"]
          /\ disk' = [disk EXCEPT ![a] = ConnectionsFile(a)]
          /\ UNCHANGED late
    /\ UNCHANGED <<settings, stores, record, uses, asked, astray, changes>>

\* pi reads the files (localProcess).
LocalProcess(a) == disk[a]

\* Its process is made; or the scaffold failed.
StartOver(c) ==
    LET i == call'[c].inst IN
    /\ wrote' = [wrote EXCEPT ![c] = "nothing"] /\ late' = late \ {c}
    /\ IF i # None
       THEN /\ wrote[c] = "all"
            /\ uses' = [uses EXCEPT ![i] = LocalProcess(call[c].agent)]
            /\ astray' = IF c \in late THEN astray \cup {i} ELSE astray
       ELSE UNCHANGED <<uses, astray>>
    /\ UNCHANGED <<settings, stores, record, disk, asked, changes>>

\* start() refuses an agent whose model is not allowed, or that has none to run on.
Startable(a) ==
    record[a] # None /\ IF record[a].model # None THEN Allowed(record[a].model) ELSE DefaultModel # None

--------------------------------------------------------------------------
(* Agents                                                                  *)

\* createAgent: the model that was asked for, the profile's if it may be used, or the default;
\* the profile's connections, and of a profile that names none every one there is.
NewRecord(p, m) ==
    LET pr == Resolve(p) IN
    [profile |-> p,
     model |-> IF m # None THEN m ELSE IF pr.model # None /\ Allowed(pr.model) THEN pr.model ELSE DefaultModel,
     mcp |-> IF pr.mcp # {} THEN pr.mcp ELSE DefaultConnections]

\* The record is kept; its files and the agent's start are to come.
Create(a, p, m) ==
    /\ record[a] = None /\ request.pc = "none" /\ Changed
    /\ m # None => Allowed(m)
    /\ record' = [record EXCEPT ![a] = NewRecord(p, m)]
    /\ request' = [pc |-> "settings", agent |-> a, then |-> "start"]
    /\ UNCHANGED <<settings, stores, files, choice, history>>

\* patchAgent: another model is in the files and taken at the next start, other connections
\* take a restart; those of a graph worker are not changed.
Patches(a, rec) ==
    /\ record[a] # None /\ agent[a].status # "deleted" /\ request.pc = "none"
    /\ record' = [record EXCEPT ![a] = rec]
    /\ request' = [pc |-> "settings", agent |-> a, then |-> IF rec.mcp # record[a].mcp THEN "restart" ELSE "none"]
    /\ UNCHANGED <<settings, stores, files, history>>

Patch(a) ==
    /\ Changed /\ record[a] # None
    /\ \/ \E m \in Models \cup {None} : (m # None => Allowed(m)) /\ Patches(a, [record[a] EXCEPT !.model = m])
       \/ \E ns \in SUBSET Connections :
             ns # record[a].mcp /\ ~Resolve(record[a].profile).worker /\ Patches(a, [record[a] EXCEPT !.mcp = ns])
    /\ UNCHANGED choice

\* The request writes the files, and is over, or fails.
RequestWrites ==
    LET a == request.agent IN
    /\ \/ /\ request.pc = "settings" /\ request' = [request EXCEPT !.pc = "connections"]
          /\ disk' = [disk EXCEPT ![a] = SettingsFile(a)]
          /\ late' = IF offered # Models THEN late \cup Scaffolding(a) ELSE late
       \/ /\ request.pc = "connections"
          /\ request' = IF request.then = "none" THEN NoRequest ELSE [request EXCEPT !.pc = "then"]
          /\ disk' = [disk EXCEPT ![a] = ConnectionsFile(a)]
          /\ UNCHANGED late
       \/ /\ request.pc \in {"settings", "connections"} /\ request' = NoRequest
          /\ UNCHANGED <<disk, late>>
    /\ astray' = IF request'.pc = "none" /\ request.then = "restart" THEN astray \cup {agent[a].running} ELSE astray
    /\ UNCHANGED <<settings, stores, record, uses, wrote, choice, changes>>

\* A new agent is started, and one whose connections changed is restarted if it runs.
RequestEnds(c) ==
    LET a == request.agent IN
    /\ request.pc = "then" /\ request' = NoRequest
    /\ \/ request.then = "start" /\ Start(a, c)
       \/ request.then = "restart" /\ agent[a].running # None /\ Stop(a, c, "start")
       \/ request.then = "restart" /\ agent[a].running = None /\ UNCHANGED vars
    /\ UNCHANGED <<settings, stores, record, files, choice, history, changes>>

--------------------------------------------------------------------------
(* The model bar                                                           *)

\* set_model is refused for a model that is not allowed now, and one unknown to a pi started without it.
Settable(i, m) == Allowed(m) /\ m \in uses[i].knows

\* The adapter's setModel.
SetModel(a, m) ==
    LET i == agent[a].running IN
    /\ i # None /\ ~inst[i].starting /\ Settable(i, m) /\ choice = None /\ Changed
    /\ uses' = [uses EXCEPT ![i].model = m]
    /\ choice' = [agent |-> a, model |-> m]
    /\ UNCHANGED <<settings, stores, record, disk, wrote, request, history>>

\* chooseModel goes on once pi has switched: the choice is kept in the record, or refused.
KeepChoice ==
    /\ choice # None /\ choice' = None /\ UNCHANGED changes
    /\ \/ /\ Allowed(choice.model)
          /\ Patches(choice.agent, [record[choice.agent] EXCEPT !.model = choice.model])
       \/ /\ ~Allowed(choice.model) \/ agent[choice.agent].status = "deleted"
          /\ UNCHANGED <<settings, stores, record, files, request, history>>

--------------------------------------------------------------------------
ConfigurationTypeOK ==
    /\ organization \in Allowances /\ document \in Allowances /\ metadata \in Allowances
    /\ offered \subseteq Models /\ registered \subseteq Connections
    /\ profile \in [Profiles -> ProfileRec \cup {None}]
    /\ record \in [Agents -> Record \cup {None}] /\ disk \in [Agents -> Config]
    /\ uses \in [Instances -> Config]
    /\ \A c \in Calls : wrote[c] # "nothing" \/ c \in late => At(c, "scaffold")
    /\ Cardinality({p \in Profiles : profile[p] # None /\ profile[p].worker}) <= 1

\* Nothing is being started, stopped, written or delivered.
Settled ==
    /\ organization = metadata /\ request.pc = "none" /\ choice = None
    /\ \A c \in Calls : At(c, "idle")

\* What the admin no longer allows is not used: once the settings are applied and all is
\* settled, the process of an agent runs no model, and reaches no connection, that its record
\* names and the organization does not allow, however saves, deliveries, starts, stops,
\* crashes, changes of the agent and switches of its model came about; and it knows its
\* model.  Short of a start that was writing its files when settings or providers changed,
\* and of two starts at once.
SettingsHold ==
    Settled => \A a \in Agents \ overlapped :
        LET i == agent[a].running IN
        i # None /\ record[a] # None /\ agent[a].status # "deleted" /\ i \notin astray =>
            /\ uses[i].model = record[a].model => Allowed(uses[i].model)
            /\ uses[i].mcp \cap record[a].mcp \subseteq metadata.mcp
            /\ uses[i].model \in uses[i].knows

====
