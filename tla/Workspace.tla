---- MODULE Workspace ----
(***************************************************************************)
(* The workspace server and what is around it: AgentManager's agents, with    *)
(* the Configuration they are started with, on the OpenShell runtime in their *)
(* Sandboxes, the Chat of one of them in a browser tab, and the Dialogs its   *)
(* extensions raise.                                                          *)
(*                                                                          *)
(* What the parts share is the manager's map (does the server reach a         *)
(* process of this agent?) and the processes: whoever starts or ends one, the *)
(* conversation, the dialogs and the sandbox see it.                          *)
(***************************************************************************)
EXTENDS Chat, Dialogs, Sandboxes, Configuration

CONSTANTS
    Shown,         \* the agent whose conversation and dialogs are modelled
    Offers,        \* what profiles are saved as
    Scopes         \* what may happen: one record of quotas is drawn at the start

\* The agents of a scope, what may happen in it, and how often the rest does.
Scope == [agents: SUBSET Agents, requests: Nat, overlap: BOOLEAN, crash: BOOLEAN, sandboxed: BOOLEAN, fault: Nat,
          dialogs: Nat, configured: BOOLEAN, changes: Nat, profiles: BOOLEAN, open: Nat, prompt: Nat, new: Nat,
          timeout: Nat, drop: Nat, tool: Nat, report: Nat]

\* With a configuration there is one agent, whom settings are applied to (a bound).
ASSUME WorkspaceAssumption ==
    /\ Scopes \subseteq Scope /\ \A s \in Scopes : s.configured => \A a, b \in s.agents : a = b
    /\ Shown \in Agents /\ Offers \subseteq ProfileRec

allVars == <<vars, chatVars, dialogVars, sandboxVars, configVars>>

WorkspaceInit ==
    /\ Init /\ ChatInit /\ DialogsInit /\ SandboxesInit /\ ConfigurationInit
    /\ left \in Scopes /\ faults = left.fault

Sandboxed == left.sandboxed
Configured == left.configured

\* With a configuration, only an agent that may be started is.
MayStart ==
    Configured => \A c \in Calls : (At(c, "scaffold"))' => At(c, "scaffold") \/ Startable(call'[c].agent)

\* Processes that can say something.  (External: once it was told to go, pi says no more.)
Speaking(a) == {i \in Instances : inst[i].phase = "alive" /\ inst[i].signal = "none" /\ inst[i].agent = a}
Latest(is) == IF is = {} THEN None ELSE CHOOSE i \in is : \A j \in is : j <= i

\* The conversation follows the agent's newest process.
ChatFollows ==
    LET i == Latest(Speaking(Shown)') IN
    IF i = pi.inst THEN UNCHANGED chatVars ELSE PiBecomes(i)

\* A slot is free again when what follows its stop is over.
Free(c) == after[c].pc = "none"

\* On OpenShell a release is a stop and what follows it, and a purge a delete.
AfterTheStop(a, c, then) ==
    \/ UNCHANGED sandboxVars
    \/ Sandboxed /\ then = "none" /\ Releases(a, c)
    \/ Sandboxed /\ then = "delete" /\ Purges(a, c)

Requests ==
    \E a \in left.agents, c \in Calls :
        /\ UNCHANGED configVars
        /\ Free(c) /\ (left.overlap \/ \A d \in Calls : At(d, "idle"))
        /\ \/ requests < left.requests /\ Start(a, c) /\ UNCHANGED sandboxVars
           \/ Fire(a, c) /\ UNCHANGED sandboxVars
           \/ \E then \in {"none", "start", "delete"} :
                 /\ requests < left.requests /\ Stop(a, c, then)
                 /\ IF call'[c].pc = "waitIdle" THEN UNCHANGED sandboxVars ELSE AfterTheStop(a, c, then)

\* A start's process is made once its files are written and its sandbox is ready.
FilesOver(c) == IF Configured THEN StartOver(c) ELSE UNCHANGED configVars

Starting ==
    \E c \in Calls :
        \/ ScaffoldFails(c) /\ PrepareOver(c) /\ FilesOver(c)
        \/ \E i \in Instances :
              Spawn(c, i) /\ (Sandboxed => prepared[c] = "ready") /\ PrepareOver(c) /\ FilesOver(c)
        \/ (ProbeOk(c) \/ ProbeFail(c)) /\ UNCHANGED <<sandboxVars, configVars>>

Ending ==
    /\ UNCHANGED configVars
    /\ \/ \E c \in Calls : StopFinish(c) /\ AfterTheStop(call[c].agent, c, call[c].then)
       \/ \E i \in Instances, signalled \in BOOLEAN :
             /\ left.crash \/ inst[i].signal # "none" \/ i \in dead
             /\ Exit(i, signalled) /\ UNCHANGED sandboxVars

ManagerStep == (Requests \/ Starting \/ Ending) /\ MayStart /\ ChatFollows /\ UNCHANGED dialogVars

\* The agent is made, changed and switched, while the settings, the providers and the profiles
\* change; a start writes its files.
ConfigurationStep ==
    /\ Configured
    /\ \/ \E c \in Calls : Free(c) /\ RequestEnds(c)
       \/ \E a \in left.agents, c \in Calls : Free(c) /\ Load(a, c)
       \/ /\ UNCHANGED vars
          /\ \/ AdminStep \/ Deliver \/ RequestWrites \/ KeepChoice
             \/ left.profiles /\ RegistryStep
             \/ left.profiles /\ \E p \in Profiles : RemoveProfile(p) \/ \E rec \in Offers : SaveProfile(p, rec)
             \/ \E a \in left.agents : Patch(a) \/ \E p \in Profiles, m \in Models \cup {None} : Create(a, p, m)
             \/ \E a \in left.agents, m \in Models : SetModel(a, m)
             \/ \E c \in Calls : StartWrites(c)
          /\ changes' <= left.changes
    /\ MayStart
    /\ UNCHANGED <<chatVars, dialogVars, sandboxVars>>

InIt(a) == {i \in Instances : inst[i].phase = "alive" /\ inst[i].agent = a}

SandboxStep ==
    /\ Sandboxed
    /\ \/ \E c \in Calls : /\ At(c, "scaffold")
                           /\ EnsureSandbox(call[c].agent, c) \/ Seed(call[c].agent, c)
       \/ \E a \in Agents, i \in Instances : i \in Speaking(a) /\ Says(a, i)
       \/ \E c \in Calls : \/ ReleaseCopies(c)
                           \/ ReleaseDeletes(c, InIt(after[c].agent)) \/ PurgeDeletes(c, InIt(after[c].agent))
       \/ \E a \in Agents : SandboxBreaks(a, InIt(a))
    /\ UNCHANGED <<vars, chatVars, dialogVars, configVars>>

ChatSteps ==
    /\ ChatStep(agent[Shown].running # None, agent[Shown].status = "running")
    /\ UNCHANGED <<vars, dialogVars, sandboxVars, configVars>>

DialogSteps ==
    /\ left.dialogs > 0 /\ DialogStep(agent[Shown].running, Speaking(Shown))
    /\ Cardinality(raised') <= left.dialogs
    /\ UNCHANGED <<vars, chatVars, sandboxVars, configVars>>

WorkspaceNext == ManagerStep \/ SandboxStep \/ ChatSteps \/ DialogSteps \/ ConfigurationStep

WorkspaceSpec == WorkspaceInit /\ [][WorkspaceNext]_allVars

--------------------------------------------------------------------------
\* The types of the variables, and what follows from the shape of each part: a slot that
\* prepares a sandbox is a start's, and a connection that is closed has nothing to forward.
WorkspaceTypeOK ==
    /\ TypeOK /\ ChatTypeOK /\ DialogsTypeOK /\ SandboxesTypeOK /\ ConfigurationTypeOK
    /\ pi.inst = Latest(Speaking(Shown))
    /\ \A c \in Calls : prepared[c] # "none" => At(c, "scaffold")

\* DialogHasAnswerer of Dialogs, of the agent's process that the server reaches.
DialogNotStuck == DialogHasAnswerer(agent[Shown].running)

====
