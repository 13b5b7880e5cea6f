---- MODULE WorkspaceProofs ----
(***************************************************************************)
(* What Workspace's runs check of the agents, their sandboxes, dialogs and  *)
(* conversations while all of them go on at once, proved for any agents,    *)
(* tabs, processes and scopes.                                              *)
(*                                                                          *)
(* The manager's own promises carry over because the workspace implements   *)
(* the manager: every step of the whole is a step of it or leaves it alone. *)
(* Then what the admin allows is what agents run on, for any settings,      *)
(* agents' changes, starts, stops and crashes, the types of it all, and what *)
(* the operator's tab shows of a conversation.                              *)
(***************************************************************************)
EXTENDS Workspace, AgentManagerProofs, WellFoundedInduction

--------------------------------------------------------------------------
(* The workspace implements the agent manager                              *)

\* Requests that make or change an agent.
RequestRec == [pc: {"none", "settings", "connections", "then"}, agent: Agents, then: {"none", "start", "restart"}]

\* Whoever asks something of the manager names one of its agents.
AsksOfAgents ==
    /\ left \in Scope
    /\ request \in RequestRec
    /\ choice # None => choice.agent \in Agents

\* A quota is spent, and a scope stays one.
LEMMA SpendKeepsScope ==
  ASSUME left \in Scope, NEW q \in {"open", "prompt", "new", "timeout", "drop", "tool", "report"}, Spend(q)
  PROVE  left' \in Scope
  <1>1. left[q] > 0 /\ left' = [left EXCEPT ![q] = @ - 1] BY DEF Spend
  <1>2. left[q] \in Nat BY DEF Scope
  <1>3. left[q] - 1 \in Nat BY <1>1, <1>2
  <1> QED BY <1>1, <1>3 DEF Scope

\* The conversation spends quotas, and nothing else of them.
LEMMA ChatKeepsScope ==
  ASSUME left \in Scope, NEW running, NEW status, ChatStep(running, status)
  PROVE  left' \in Scope
  <1>1. \/ left' = left
        \/ \E q \in {"open", "prompt", "new", "timeout", "drop", "tool", "report"} : Spend(q)
    BY Zenon DEF ChatStep, OpenChat, Prompt, NewSession, Receives, BootTimesOut, SocketDrops, SocketOpens,
           ServerReceives, ReadChunk, PiReads, PiSpeaks, PiUsesTool, PiEndsTurn, PiSettles, PiReports
  <1> QED BY <1>1, SpendKeepsScope

\* A request that is under way keeps its agent.
LEMMA RequestsStand ==
  ASSUME AsksOfAgents, NEW c, RequestEnds(c) \/ RequestWrites \/ KeepChoice
  PROVE  request' \in RequestRec /\ (choice' # None => choice'.agent \in Agents)
  <1>0. NoRequest \in RequestRec
    <2>1. Unused.agent \in Agents BY IdleTypes DEF InstanceRec
    <2> QED BY <2>1 DEF NoRequest, RequestRec
  <1>1. request \in RequestRec /\ (choice # None => choice.agent \in Agents) BY DEF AsksOfAgents
  <1>2. CASE RequestEnds(c) BY <1>0, <1>1, <1>2 DEF RequestEnds
  <1>3. CASE RequestWrites
    <2>1. choice' = choice BY <1>3 DEF RequestWrites
    <2>2. \/ request' \in {NoRequest, [request EXCEPT !.pc = "connections"], [request EXCEPT !.pc = "then"]}
      BY <1>3 DEF RequestWrites
    <2> QED BY <1>0, <1>1, <2>1, <2>2 DEF RequestRec
  <1>4. CASE KeepChoice
    <2>1. choice' = None /\ choice # None BY <1>4 DEF KeepChoice
    <2>2. \/ request' = request
          \/ \E rec : Patches(choice.agent, rec)
      BY <1>4 DEF KeepChoice
    <2>3. ASSUME NEW rec, Patches(choice.agent, rec) PROVE request' \in RequestRec
      <3>1. request' = [pc |-> "settings", agent |-> choice.agent,
                        then |-> IF rec.mcp # record[choice.agent].mcp THEN "restart" ELSE "none"]
        BY <2>3 DEF Patches
      <3> QED BY <1>1, <2>1, <3>1 DEF RequestRec
    <2> QED BY <1>1, <2>1, <2>2, <2>3
  <1> QED BY <1>2, <1>3, <1>4

\* A request, or a switch of the model, is made of the agent it is about.
LEMMA RequestsName ==
  ASSUME AsksOfAgents, NEW a \in Agents,
         \/ \E p \in Profiles, m \in Models \cup {None} : Create(a, p, m)
         \/ Patch(a) \/ \E m \in Models : SetModel(a, m)
  PROVE  request' \in RequestRec /\ (choice' # None => choice'.agent \in Agents)
  <1>1. request \in RequestRec /\ (choice # None => choice.agent \in Agents) BY DEF AsksOfAgents
  <1>2. CASE \E p \in Profiles, m \in Models \cup {None} : Create(a, p, m)
    <2>1. choice' = choice /\ request' = [pc |-> "settings", agent |-> a, then |-> "start"]
      BY <1>2 DEF Create
    <2> QED BY <1>1, <2>1 DEF RequestRec
  <1>3. CASE Patch(a)
    <2>1. PICK rec : Patches(a, rec) BY <1>3, Zenon DEF Patch
    <2>2. request' = [pc |-> "settings", agent |-> a,
                      then |-> IF rec.mcp # record[a].mcp THEN "restart" ELSE "none"]
      BY <2>1 DEF Patches
    <2>3. choice' = choice BY <1>3, Zenon DEF Patch
    <2> QED BY <1>1, <2>2, <2>3 DEF RequestRec
  <1>4. CASE \E m \in Models : SetModel(a, m)
    <2>1. request' = request /\ \E m \in Models : choice' = [agent |-> a, model |-> m]
      BY <1>4, Zenon DEF SetModel
    <2> QED BY <1>1, <2>1
  <1> QED BY <1>2, <1>3, <1>4

\* What the admin and the registries do makes no request.
LEMMA NoRequestMade ==
  ASSUME NEW p, NEW rec, NEW c,
         \/ AdminStep \/ Deliver \/ RegistryStep \/ RemoveProfile(p) \/ SaveProfile(p, rec) \/ StartWrites(c)
  PROVE  UNCHANGED asked
  BY Zenon DEF AdminStep, LabelModels, RestrictWorkspace, Deliver, RegistryStep, Reload, Reloaded, Discovers,
               FindSidecars, Register, RemoveProfile, SaveProfile, StartWrites

\* Every step of the workspace names agents.
LEMMA AsksStep == AsksOfAgents /\ [WorkspaceNext]_allVars => AsksOfAgents'
  <1> SUFFICES ASSUME AsksOfAgents, [WorkspaceNext]_allVars PROVE AsksOfAgents' OBVIOUS
  <1>0. /\ left \in Scope /\ request \in RequestRec /\ (choice # None => choice.agent \in Agents)
        /\ left.agents \subseteq Agents
    BY DEF AsksOfAgents, Scope
  <1>1. CASE UNCHANGED allVars
    BY <1>0, <1>1 DEF AsksOfAgents, allVars, chatVars, configVars, asked
  <1>2. CASE ManagerStep
    <2>1. left' = left BY <1>2, Zenon DEF ManagerStep, ChatFollows, PiBecomes, chatVars
    <2>2. UNCHANGED asked
      BY <1>2, Zenon DEF ManagerStep, Requests, Starting, Ending, FilesOver, StartOver, configVars
    <2> QED BY <1>0, <2>1, <2>2 DEF AsksOfAgents, asked
  <1>3. CASE SandboxStep
    <2>1. UNCHANGED <<chatVars, configVars>> BY <1>3 DEF SandboxStep
    <2> QED BY <1>0, <2>1 DEF AsksOfAgents, chatVars, configVars, asked
  <1>4. CASE ChatSteps
    <2>1. left' \in Scope BY <1>0, <1>4, ChatKeepsScope DEF ChatSteps
    <2>2. UNCHANGED configVars BY <1>4 DEF ChatSteps
    <2> QED BY <1>0, <2>1, <2>2 DEF AsksOfAgents, configVars, asked
  <1>5. CASE DialogSteps
    <2>1. UNCHANGED <<chatVars, configVars>> BY <1>5 DEF DialogSteps
    <2> QED BY <1>0, <2>1 DEF AsksOfAgents, chatVars, configVars, asked
  <1>6. CASE ConfigurationStep
    <2>1. left' = left BY <1>6 DEF ConfigurationStep, chatVars
    <2>2. request' \in RequestRec /\ (choice' # None => choice'.agent \in Agents)
      <3>1. CASE \E c \in Calls : RequestEnds(c) BY <3>1, RequestsStand
      <3>2. CASE RequestWrites \/ KeepChoice BY <3>2, RequestsStand
      <3>3. CASE \E a \in left.agents, c \in Calls : Load(a, c)
        <4>1. UNCHANGED asked BY <3>3 DEF Load
        <4> QED BY <1>0, <4>1 DEF asked
      <3>4. CASE \E a \in left.agents :
                   \/ Patch(a) \/ \E p \in Profiles, m \in Models \cup {None} : Create(a, p, m)
                   \/ \E m \in Models : SetModel(a, m)
        <4>1. PICK a \in Agents : \/ Patch(a) \/ \E p \in Profiles, m \in Models \cup {None} : Create(a, p, m)
                                  \/ \E m \in Models : SetModel(a, m)
          BY <1>0, <3>4
        <4> QED BY <4>1, RequestsName
      <3>5. CASE \E p, rec, c : \/ AdminStep \/ Deliver \/ RegistryStep \/ RemoveProfile(p)
                                \/ SaveProfile(p, rec) \/ StartWrites(c)
        <4>1. UNCHANGED asked BY <3>5, NoRequestMade
        <4> QED BY <1>0, <4>1 DEF asked
      <3> QED BY <1>6, <3>1, <3>2, <3>3, <3>4, <3>5, Zenon DEF ConfigurationStep
    <2> QED BY <1>0, <2>1, <2>2 DEF AsksOfAgents
  <1> QED BY <1>1, <1>2, <1>3, <1>4, <1>5, <1>6 DEF WorkspaceNext

\* No request has been made.
LEMMA AsksInit == WorkspaceInit => AsksOfAgents
  <1>1. Unused.agent \in Agents BY IdleTypes DEF InstanceRec
  <1> QED BY <1>1, WorkspaceAssumption
          DEF WorkspaceInit, ConfigurationInit, AsksOfAgents, NoRequest, RequestRec

\* Whoever asks names an agent, throughout.
LEMMA AsksAlways == WorkspaceSpec => []AsksOfAgents
  BY AsksInit, AsksStep, PTL DEF WorkspaceSpec

\* A step of the workspace is one of the manager, or leaves it alone.
LEMMA ManagerSteps == AsksOfAgents /\ [WorkspaceNext]_allVars => [Next]_vars
  <1> SUFFICES ASSUME AsksOfAgents, [WorkspaceNext]_allVars PROVE Next \/ UNCHANGED vars OBVIOUS
  <1>0. left.agents \subseteq Agents /\ request.agent \in Agents
    BY DEF AsksOfAgents, Scope, RequestRec
  <1>1. CASE UNCHANGED allVars BY <1>1 DEF allVars
  <1>2. CASE ManagerStep
    <2>1. CASE Requests
      <3>1. \E a \in Agents, c \in Calls :
              Start(a, c) \/ Fire(a, c) \/ \E then \in {"none", "start", "delete"} : Stop(a, c, then)
        BY <1>0, <2>1, Zenon DEF Requests
      <3> QED BY <3>1, Zenon DEF Next
    <2>2. CASE Starting BY <2>2, Zenon DEF Starting, Next
    <2>3. CASE Ending BY <2>3, Zenon DEF Ending, Next
    <2> QED BY <1>2, <2>1, <2>2, <2>3 DEF ManagerStep
  <1>3. CASE SandboxStep \/ ChatSteps \/ DialogSteps BY <1>3 DEF SandboxStep, ChatSteps, DialogSteps
  <1>4. CASE ConfigurationStep
    <2>1. \/ UNCHANGED vars
          \/ \E a \in Agents, c \in Calls : Start(a, c) \/ \E then \in {"none", "start"} : Stop(a, c, then)
      <3>1. CASE \E c \in Calls : RequestEnds(c) BY <1>0, <3>1, Zenon DEF RequestEnds
      <3>2. CASE \E a \in left.agents, c \in Calls : Load(a, c) BY <1>0, <3>2, Zenon DEF Load
      <3>3. CASE UNCHANGED vars BY <3>3
      <3> QED BY <1>4, <3>1, <3>2, <3>3, Zenon DEF ConfigurationStep
    <2> QED BY <2>1, Zenon DEF Next
  <1> QED BY <1>1, <1>2, <1>3, <1>4 DEF WorkspaceNext

\* The workspace implements the agent manager: whatever the chat, the dialogs,
\* the sandboxes and the settings do, its agents behave as AgentManager says.
THEOREM ManagerImplemented == WorkspaceSpec => Spec
  <1>1. WorkspaceInit => Init BY DEF WorkspaceInit
  <1> QED BY <1>1, AsksAlways, ManagerSteps, PTL DEF WorkspaceSpec, Spec

\* The manager's inductive invariant holds in the workspace.
LEMMA ManagerInvHere == WorkspaceSpec => []ManagerInv
  BY ManagerImplemented, ManagerInvariant, PTL

\* In the workspace as a whole no process is left behind.
THEOREM NothingOrphanedHere == WorkspaceSpec => []NoOrphans
  BY ManagerImplemented, NothingOrphaned, PTL

\* In the workspace as a whole a record that says "running" has its process.
THEOREM StatusTellsHere == WorkspaceSpec => []StatusTells
  BY ManagerImplemented, StatusTellsTheTruth, PTL

\* In the workspace as a whole a stop is never taken for a crash.
THEOREM StopsAreNoCrashesHere == WorkspaceSpec => StopIsNoCrash
  BY ManagerImplemented, StopsAreNoCrashes, PTL

--------------------------------------------------------------------------
(* Dialogs                                                                 *)

\* Who waits on a dialog is a process that was started, so no later one is
\* taken for it; and the timers are those of connections there are.
DialogInv ==
    /\ reached \subseteq raised /\ raised \subseteq DialogIds /\ open \subseteq Tabs
    /\ pending \in [Tabs -> SUBSET DialogIds]
    /\ waits \in [DialogIds -> Instances \cup {None}]
    /\ \A d \in DialogIds : waits[d] # None => inst[waits[d]].phase # "unused"
    /\ DialogNotStuck

\* What the manager may do to a dialog: a process once started was, and the map
\* goes over to one that was not.
MapMoves ==
    /\ \A i \in Instances : inst[i].phase # "unused" => inst'[i].phase # "unused"
    /\ \A a \in Agents : \/ agent'[a].running \in {agent[a].running, None}
                         \/ agent'[a].running \in Instances /\ inst[agent'[a].running].phase = "unused"

\* Every step of the manager is such a move.
LEMMA ManagerMovesMap == ManagerInv /\ [Next]_vars => MapMoves
  <1> SUFFICES ASSUME ManagerInv, [Next]_vars PROVE MapMoves OBVIOUS
  <1>0. TypeOK /\ agent \in [Agents -> AgentRec] /\ inst \in [Instances -> InstanceRec]
    BY DEF ManagerInv, TypeOK
  <1>1. CASE UNCHANGED vars BY <1>1 DEF vars, MapMoves
  <1>2. ASSUME NEW a \in Agents, NEW c \in Calls, Start(a, c) \/ Fire(a, c) PROVE MapMoves
    <2>1. inst' = inst /\ \E q \in AgentRec, k \in CallRec : Segment(a, c, q, k) /\ q.running = agent[a].running
      BY <1>0, <1>2, StartEffect
    <2> QED BY <1>0, <2>1 DEF MapMoves, Segment, Writes
  <1>3. ASSUME NEW a \in Agents, NEW c \in Calls, NEW then \in {"none", "start", "delete"}, Stop(a, c, then)
        PROVE  MapMoves
    <2>1. CASE agent[a].running = None
      <3>1. PICK q \in AgentRec, k \in CallRec :
              Segment(a, c, q, k) /\ q.running = None /\ q.status # "running" /\ ~q.timer
        BY <1>0, <1>3, <2>1, StopEffect
      <3>2. inst' = inst BY <1>0, <1>3, <2>1, StopEffect
      <3> QED BY <1>0, <3>1, <3>2 DEF MapMoves, Segment, Writes
    <2>2. CASE agent[a].running # None
      <3>1. PICK q \in AgentRec, k \in CallRec :
              /\ Writes(a, c, q, k)
              /\ q.running = agent[a].running /\ q.status = agent[a].status /\ ~q.timer
              /\ k.pc = "waitIdle" /\ k.inst \in Instances
        BY <1>0, <1>3, <2>2, StopEffect
      <3>2. inst' = [inst EXCEPT ![agent[a].running].stopReq = TRUE] BY <1>0, <1>3, <2>2, StopEffect
      <3>3. \A i \in Instances : inst'[i].phase = inst[i].phase BY <1>0, <3>2 DEF InstanceRec
      <3> QED BY <1>0, <3>1, <3>3 DEF MapMoves, Writes
    <2> QED BY <2>1, <2>2
  <1>4. ASSUME NEW c \in Calls, ScaffoldFails(c) PROVE MapMoves
    <2>1. inst' = inst BY <1>0, <1>4, ScaffoldFailsEffect
    <2>2. PICK a \in Agents, q \in AgentRec :
            /\ agent' = [agent EXCEPT ![a] = q]
            /\ q.running = agent[a].running /\ q.timer = agent[a].timer
            /\ q.status \in {agent[a].status, "error", "deleted"}
      BY <1>0, <1>4, ScaffoldFailsEffect
    <2> QED BY <1>0, <2>1, <2>2 DEF MapMoves
  <1>5. ASSUME NEW c \in Calls, NEW i \in Instances, Spawn(c, i) PROVE MapMoves
    <2>1. inst[i].phase = "unused" BY <1>0, <1>5, SpawnEffect
    <2>2. PICK q \in AgentRec, k \in CallRec, p \in InstanceRec :
            /\ agent' = [agent EXCEPT ![call[c].agent] = q] /\ call' = [call EXCEPT ![c] = k]
            /\ inst' = [inst EXCEPT ![i] = p]
            /\ q.running = i /\ q.timer = agent[call[c].agent].timer
            /\ q.status = agent[call[c].agent].status
            /\ k.pc = "probe" /\ k.inst = i /\ k.agent = call[c].agent
            /\ p.agent = call[c].agent /\ p.phase = "alive"
      BY <1>0, <1>5, SpawnEffect
    <2> QED BY <1>0, <2>1, <2>2 DEF MapMoves
  <1>6. ASSUME NEW c \in Calls, ProbeOk(c) PROVE MapMoves
    <2>1. \E q \in AgentRec : agent' = [agent EXCEPT ![call[c].agent] = q]
                              /\ q.running = agent[call[c].agent].running
      BY <1>0, <1>6, ProbeOkEffect
    <2>2. inst' = [inst EXCEPT ![call[c].inst].starting = FALSE] BY <1>0, <1>6, ProbeOkEffect
    <2>3. \A i \in Instances : inst'[i].phase = inst[i].phase BY <1>0, <2>2 DEF InstanceRec
    <2> QED BY <1>0, <2>1, <2>3 DEF MapMoves
  <1>7. ASSUME NEW c \in Calls, ProbeFail(c) PROVE MapMoves
    <2>1. \E q \in AgentRec : agent' = [agent EXCEPT ![call[c].agent] = q]
                              /\ q.running \in {agent[call[c].agent].running, None}
      BY <1>0, <1>7, ProbeFailEffect
    <2>2. inst' = [inst EXCEPT ![call[c].inst].signal = "KILL"] BY <1>0, <1>7, ProbeFailEffect
    <2>3. \A i \in Instances : inst'[i].phase = inst[i].phase BY <1>0, <2>2 DEF InstanceRec
    <2> QED BY <1>0, <2>1, <2>3 DEF MapMoves
  <1>8. ASSUME NEW c \in Calls, StopFinish(c) PROVE MapMoves
    <2>1. \E q \in AgentRec, k \in CallRec : Segment(call[c].agent, c, q, k)
                                             /\ q.running \in {agent[call[c].agent].running, None}
      BY <1>0, <1>8, StopFinishEffect
    <2>2. inst' = inst \/ inst' = [inst EXCEPT ![call[c].inst].signal = "TERM"]
      BY <1>0, <1>8, StopFinishEffect
    <2>3. \A i \in Instances : inst'[i].phase = inst[i].phase BY <1>0, <2>2 DEF InstanceRec
    <2> QED BY <1>0, <2>1, <2>3 DEF MapMoves, Segment, Writes
  <1>9. ASSUME NEW i \in Instances, NEW signalled \in BOOLEAN, Exit(i, signalled) PROVE MapMoves
    <2>1. \E q \in AgentRec : agent' = [agent EXCEPT ![inst[i].agent] = q]
                              /\ q.running \in {agent[inst[i].agent].running, None}
      BY <1>0, <1>9, ExitEffect
    <2>2. inst' = [inst EXCEPT ![i].phase = "exited", ![i].starting = FALSE] BY <1>0, <1>9, ExitEffect
    <2>3. \A j \in Instances : inst[j].phase # "unused" => inst'[j].phase # "unused"
      BY <1>0, <2>2 DEF InstanceRec
    <2> QED BY <1>0, <2>1, <2>3 DEF MapMoves
  <1> QED BY <1>1, <1>2, <1>3, <1>4, <1>5, <1>6, <1>7, <1>8, <1>9 DEF Next

\* The map moves on under the dialogs: who waits on one is not what comes next.
LEMMA DialogsUnderManager ==
  ASSUME DialogInv, MapMoves, UNCHANGED dialogVars
  PROVE  DialogInv'
  <1> USE WorkspaceAssumption DEF MapMoves
  <1>1. /\ reached' \subseteq raised' /\ raised' \subseteq DialogIds /\ open' \subseteq Tabs
        /\ pending' \in [Tabs -> SUBSET DialogIds] /\ waits' \in [DialogIds -> Instances \cup {None}]
    BY DEF DialogInv, dialogVars
  <1>2. \A d \in DialogIds : waits'[d] # None => inst'[waits'[d]].phase # "unused"
    BY DEF DialogInv, dialogVars
  <1>3. DialogNotStuck'
    <2> SUFFICES ASSUME NEW d \in reached, waits[d] # None, waits[d] = agent'[Shown].running
                 PROVE  <<d, agent'[Shown].running>> \in told \/ \E t \in open : d \in pending[t]
      BY DEF DialogNotStuck, DialogHasAnswerer, dialogVars
    <2>1. d \in DialogIds /\ waits[d] \in Instances /\ inst[waits[d]].phase # "unused" BY DEF DialogInv
    <2>2. agent'[Shown].running = agent[Shown].running BY <2>1
    <2> QED BY <2>2 DEF DialogInv, DialogNotStuck, DialogHasAnswerer
  <1> QED BY <1>1, <1>2, <1>3 DEF DialogInv

\* A step of the dialogs: whoever stops waiting for an answer in the server
\* writes one first.
LEMMA DialogsStep ==
  ASSUME ManagerInv, DialogInv, UNCHANGED vars, NEW alive, DialogStep(agent[Shown].running, alive)
  PROVE  DialogInv'
  <1> DEFINE running == agent[Shown].running
  <1>1. /\ reached \subseteq raised /\ raised \subseteq DialogIds /\ open \subseteq Tabs
        /\ pending \in [Tabs -> SUBSET DialogIds]
        /\ waits \in [DialogIds -> Instances \cup {None}]
        /\ \A d \in DialogIds : waits[d] # None => inst[waits[d]].phase # "unused"
        /\ \A d \in reached : (waits[d] # None /\ waits[d] = running) =>
              <<d, running>> \in told \/ \E t \in open : d \in pending[t]
    BY DEF DialogInv, DialogNotStuck, DialogHasAnswerer
  <1>2. /\ running # None => running \in Instances /\ inst[running].phase # "unused"
        /\ running' = running /\ inst' = inst
    BY WorkspaceAssumption DEF ManagerInv, MapHoldsItsOwn, TypeOK, AgentRec, vars
  <1> DEFINE Holds ==
        /\ reached' \subseteq raised' /\ raised' \subseteq DialogIds /\ open' \subseteq Tabs
        /\ pending' \in [Tabs -> SUBSET DialogIds]
        /\ waits' \in [DialogIds -> Instances \cup {None}]
        /\ \A d \in DialogIds : waits'[d] # None => inst[waits'[d]].phase # "unused"
        /\ \A d \in reached' : (waits'[d] # None /\ waits'[d] = running) =>
              <<d, running>> \in told' \/ \E t \in open' : d \in pending'[t]
  <1>3. Holds => DialogInv'
    BY <1>2 DEF DialogInv, DialogNotStuck, DialogHasAnswerer
  <1> HIDE DEF running
  <1>4. ASSUME NEW t \in Tabs, TabOpens(t) PROVE Holds
    BY <1>1, <1>4 DEF TabOpens
  <1>5. ASSUME NEW t \in Tabs, TabCloses(t, running) PROVE Holds
    <2>1. /\ open' = open \ {t} /\ pending' = [pending EXCEPT ![t] = {}]
          /\ UNCHANGED <<waits, raised, reached>>
          /\ told' = told \cup (IF running = None THEN {} ELSE pending[t] \X {running})
      BY <1>5 DEF TabCloses, Cancels, Responds
    <2>2. ASSUME NEW d \in reached, waits[d] # None, waits[d] = running
          PROVE  <<d, running>> \in told' \/ \E u \in open' : d \in pending'[u]
      <3>1. CASE <<d, running>> \in told BY <2>1, <3>1
      <3>2. CASE \E u \in open : d \in pending[u]
        <4>1. PICK u \in open : d \in pending[u] BY <3>2
        <4>2. CASE u = t
          <5>1. <<d, running>> \in pending[t] \X {running} BY <4>1, <4>2
          <5> QED BY <2>1, <2>2, <5>1
        <4>3. CASE u # t
          <5>1. u \in open' /\ d \in pending'[u] BY <1>1, <2>1, <4>1, <4>3
          <5> QED BY <5>1
        <4> QED BY <4>2, <4>3
      <3> QED BY <1>1, <2>2, <3>1, <3>2
    <2>3. pending' \in [Tabs -> SUBSET DialogIds] BY <1>1, <2>1
    <2> QED BY <1>1, <2>1, <2>2, <2>3
  <1>6. ASSUME NEW t \in Tabs, NEW d \in DialogIds, TabShows(t, d) \/ TabAnswers(t, d) PROVE Holds
    <2>1. UNCHANGED <<open, pending, waits, told, raised, reached>> BY <1>6 DEF TabShows, TabAnswers
    <2> QED BY <1>1, <2>1
  <1>7. ASSUME NEW t \in Tabs, NEW d \in DialogIds,
               ServerHears(t, d, running) \/ TimerFires(t, d, running)
        PROVE  Holds
    <2>1. /\ pending' = [pending EXCEPT ![t] = @ \ {d}] /\ UNCHANGED <<open, waits, raised, reached>>
          /\ told' = told \cup (IF running = None THEN {} ELSE {d} \X {running})
      BY <1>7 DEF ServerHears, TimerFires, Responds
    <2>2. ASSUME NEW e \in reached, waits[e] # None, waits[e] = running
          PROVE  <<e, running>> \in told' \/ \E u \in open' : e \in pending'[u]
      <3>1. CASE e = d
        <4>1. <<d, running>> \in {d} \X {running} OBVIOUS
        <4> QED BY <2>1, <2>2, <3>1, <4>1
      <3>2. CASE e # d
        <4>1. \A u \in open : e \in pending[u] => e \in pending'[u] BY <1>1, <2>1, <3>2
        <4> QED BY <1>1, <2>1, <2>2, <4>1
      <3> QED BY <3>1, <3>2
    <2>3. pending' \in [Tabs -> SUBSET DialogIds] BY <1>1, <2>1
    <2> QED BY <1>1, <2>1, <2>2, <2>3
  <1>8. ASSUME NEW d \in DialogIds, Raise(d, running) PROVE Holds
    <2>1. /\ d \notin raised /\ running # None /\ raised' = raised \cup {d}
          /\ reached' = IF open = {} THEN reached ELSE reached \cup {d}
          /\ waits' = [waits EXCEPT ![d] = running]
          /\ pending' = [t \in Tabs |-> IF t \in open THEN pending[t] \cup {d} ELSE pending[t]]
          /\ open' = open /\ told' = told
      BY <1>8 DEF Raise
    <2>2. ASSUME NEW e \in reached', waits'[e] # None, waits'[e] = running
          PROVE  <<e, running>> \in told' \/ \E u \in open' : e \in pending'[u]
      <3>1. CASE e = d
        <4>1. open # {} BY <1>1, <2>1, <2>2, <3>1
        <4> QED BY <1>1, <2>1, <3>1, <4>1
      <3>2. CASE e # d
        <4>1. e \in reached /\ waits'[e] = waits[e] BY <1>1, <2>1, <3>2
        <4>2. \A u \in open : pending[u] \subseteq pending'[u] BY <1>1, <2>1
        <4> QED BY <1>1, <2>1, <2>2, <4>1, <4>2
      <3> QED BY <3>1, <3>2
    <2>3. pending' \in [Tabs -> SUBSET DialogIds] BY <1>1, <2>1
    <2>4. /\ waits' \in [DialogIds -> Instances \cup {None}]
          /\ \A e \in DialogIds : waits'[e] # None => inst[waits'[e]].phase # "unused"
      BY <1>1, <1>2, <2>1
    <2>5. reached' \subseteq raised' /\ raised' \subseteq DialogIds BY <1>1, <2>1
    <2> QED BY <1>1, <2>1, <2>2, <2>3, <2>4, <2>5
  <1>9. ASSUME NEW d \in DialogIds, NEW i \in alive, PiHears(d, i) PROVE Holds
    <2>1. /\ told' = told \ {<<d, i>>}
          /\ waits' = IF waits[d] = i THEN [waits EXCEPT ![d] = None] ELSE waits
          /\ UNCHANGED <<open, pending, raised, reached>>
      BY <1>9 DEF PiHears
    <2>2. ASSUME NEW e \in reached, waits'[e] # None, waits'[e] = running
          PROVE  <<e, running>> \in told' \/ \E u \in open' : e \in pending'[u]
      <3>1. waits[e] = running /\ (e # d \/ i # running) BY <1>1, <2>1, <2>2
      <3>2. <<e, running>> # <<d, i>> BY <3>1
      <3> QED BY <1>1, <2>1, <2>2, <3>1, <3>2
    <2>3. /\ waits' \in [DialogIds -> Instances \cup {None}]
          /\ \A e \in DialogIds : waits'[e] # None => inst[waits'[e]].phase # "unused"
      BY <1>1, <2>1
    <2> QED BY <1>1, <2>1, <2>2, <2>3
  <1>10. DialogStep(running, alive) BY DEF running
  <1> HIDE DEF Holds
  <1> QED BY <1>3, <1>4, <1>5, <1>6, <1>7, <1>8, <1>9, <1>10 DEF DialogStep

\* No dialog has been raised.
LEMMA DialogsBegin == WorkspaceInit => DialogInv
  BY DEF WorkspaceInit, DialogsInit, DialogInv, DialogNotStuck, DialogHasAnswerer

\* Every step of the workspace keeps the dialogs answered.
LEMMA DialogInvStep == ManagerInv /\ AsksOfAgents /\ DialogInv /\ [WorkspaceNext]_allVars => DialogInv'
  <1> SUFFICES ASSUME ManagerInv, AsksOfAgents, DialogInv, [WorkspaceNext]_allVars PROVE DialogInv' OBVIOUS
  <1>1. MapMoves BY ManagerSteps, ManagerMovesMap
  <1>2. CASE UNCHANGED dialogVars BY <1>1, <1>2, DialogsUnderManager
  <1>3. CASE DialogSteps BY <1>3, DialogsStep DEF DialogSteps
  <1> QED BY <1>2, <1>3 DEF WorkspaceNext, ManagerStep, SandboxStep, ChatSteps, ConfigurationStep, allVars

\* A dialog that the agent's process waits on, and some tab was told of, always
\* has a timer or a response, however tabs, answers and processes come and go.
THEOREM DialogsAnswered == WorkspaceSpec => []DialogNotStuck
  <1>1. DialogInv => DialogNotStuck BY DEF DialogInv
  <1> QED BY <1>1, DialogsBegin, DialogInvStep, ManagerInvHere, AsksAlways, PTL DEF WorkspaceSpec

--------------------------------------------------------------------------
(* Sandboxes                                                               *)

SandboxRec == [there: BOOLEAN, broken: BOOLEAN, has: SUBSET Nat]

\* A release that is about to delete a sandbox has what is in it saved, or
\* given up; a place without a sandbox holds nothing.
SandboxInv ==
    /\ sandbox \in [Agents -> SandboxRec]
    /\ saved \in [Agents -> SUBSET Nat] /\ forsaken \in [Agents -> SUBSET Nat]
    /\ said \in [Agents -> Nat]
    /\ after \in [Calls -> [pc: {"none", "copy", "delete", "purge"}, agent: Agents]]
    /\ \A a \in Agents : sandbox[a].there \/ sandbox[a].has = {}
    /\ \A a \in Agents : sandbox[a].has \cup saved[a] \subseteq 1 .. said[a]
    /\ \A c \in Calls : after[c].pc = "delete" =>
          sandbox[after[c].agent].has \subseteq saved[after[c].agent] \cup forsaken[after[c].agent]
    /\ KeptSomewhere

\* One agent's part of the invariant, of any values of its variables.
Safe(box, kept, given, n) ==
    /\ box \in SandboxRec /\ kept \in SUBSET Nat /\ given \in SUBSET Nat /\ n \in Nat
    /\ box.there \/ box.has = {}
    /\ box.has \cup kept \subseteq 1 .. n
    /\ (1 .. n) \ given \subseteq box.has \cup kept

Deleting(a) == \E c \in Calls : after[c].pc = "delete" /\ after[c].agent = a

\* The invariant, agent by agent.
LEMMA SandboxInvByAgent ==
  SandboxInv <=>
    /\ sandbox = [a \in Agents |-> sandbox[a]] /\ saved = [a \in Agents |-> saved[a]]
    /\ forsaken = [a \in Agents |-> forsaken[a]] /\ said = [a \in Agents |-> said[a]]
    /\ after \in [Calls -> [pc: {"none", "copy", "delete", "purge"}, agent: Agents]]
    /\ \A a \in Agents : /\ Safe(sandbox[a], saved[a], forsaken[a], said[a])
                         /\ Deleting(a) => sandbox[a].has \subseteq saved[a] \cup forsaken[a]
  BY DEF SandboxInv, Safe, Deleting, KeptSomewhere

Afters == [pc: {"none", "copy", "delete", "purge"}, agent: Agents]

\* A step that changes what one agent has, and safely, keeps the invariant.
LEMMA OneSandbox ==
  ASSUME SandboxInv, NEW a \in Agents, NEW box, NEW kept, NEW given, NEW n,
         Safe(box, kept, given, n),
         sandbox' = [sandbox EXCEPT ![a] = box], saved' = [saved EXCEPT ![a] = kept],
         forsaken' = [forsaken EXCEPT ![a] = given], said' = [said EXCEPT ![a] = n],
         after' \in [Calls -> Afters],
         \A c \in Calls : after'[c].pc = "delete" => after'[c].agent = a \/ after'[c] = after[c],
         Deleting(a)' => box.has \subseteq kept \cup given
  PROVE  SandboxInv'
  <1>1. /\ sandbox \in [Agents -> SandboxRec] /\ saved \in [Agents -> SUBSET Nat]
        /\ forsaken \in [Agents -> SUBSET Nat] /\ said \in [Agents -> Nat]
        /\ \A b \in Agents : Safe(sandbox[b], saved[b], forsaken[b], said[b])
        /\ \A b \in Agents : Deleting(b) => sandbox[b].has \subseteq saved[b] \cup forsaken[b]
    BY SandboxInvByAgent DEF SandboxInv
  <1>2. box \in SandboxRec /\ kept \in SUBSET Nat /\ given \in SUBSET Nat /\ n \in Nat BY DEF Safe
  <1>3. \A b \in Agents : /\ sandbox'[b] = IF b = a THEN box ELSE sandbox[b]
                          /\ saved'[b] = IF b = a THEN kept ELSE saved[b]
                          /\ forsaken'[b] = IF b = a THEN given ELSE forsaken[b]
                          /\ said'[b] = IF b = a THEN n ELSE said[b]
    BY <1>1
  <1>4. \A b \in Agents : Safe(sandbox'[b], saved'[b], forsaken'[b], said'[b])
    <2> TAKE b \in Agents
    <2>1. CASE b = a BY <1>3, <2>1
    <2>2. CASE b # a BY <1>1, <1>3, <2>2
    <2> QED BY <2>1, <2>2
  <1>5. ASSUME NEW b \in Agents, Deleting(b)' PROVE sandbox'[b].has \subseteq saved'[b] \cup forsaken'[b]
    <2>1. CASE b = a BY <1>3, <1>5, <2>1
    <2>2. CASE b # a
      <3>1. Deleting(b) BY <1>5, <2>2 DEF Deleting
      <3> QED BY <1>1, <1>3, <2>2, <3>1
    <2> QED BY <2>1, <2>2
  <1>6. /\ sandbox' \in [Agents -> SandboxRec] /\ saved' \in [Agents -> SUBSET Nat]
        /\ forsaken' \in [Agents -> SUBSET Nat] /\ said' \in [Agents -> Nat]
    BY <1>1, <1>2
  <1>7. \A c \in Calls : after'[c].pc = "delete" =>
          sandbox'[after'[c].agent].has \subseteq saved'[after'[c].agent] \cup forsaken'[after'[c].agent]
    BY <1>5 DEF Deleting, Afters
  <1> QED BY <1>4, <1>6, <1>7 DEF SandboxInv, Safe, KeptSomewhere, Afters

\* What SandboxInv says of one agent, and of the steps of its releases.
LEMMA SandboxFacts ==
  ASSUME SandboxInv, NEW a \in Agents
  PROVE  /\ Safe(sandbox[a], saved[a], forsaken[a], said[a])
         /\ Deleting(a) => sandbox[a].has \subseteq saved[a] \cup forsaken[a]
         /\ after \in [Calls -> Afters]
         /\ sandbox = [sandbox EXCEPT ![a] = sandbox[a]] /\ saved = [saved EXCEPT ![a] = saved[a]]
         /\ forsaken = [forsaken EXCEPT ![a] = forsaken[a]] /\ said = [said EXCEPT ![a] = said[a]]
  <1>1. /\ Safe(sandbox[a], saved[a], forsaken[a], said[a])
        /\ Deleting(a) => sandbox[a].has \subseteq saved[a] \cup forsaken[a]
    BY SandboxInvByAgent
  <1> QED BY <1>1 DEF SandboxInv, Afters

\* A start's sandbox: what only a broken one held is given up.
LEMMA EnsureKeeps ==
  ASSUME SandboxInv, NEW a \in Agents, NEW c \in Calls, EnsureSandbox(a, c)
  PROVE  SandboxInv'
  <1> DEFINE reuse == sandbox[a].there /\ ~sandbox[a].broken
             box == IF reuse THEN sandbox[a] ELSE [NoSandbox EXCEPT !.there = TRUE]
             given == IF sandbox[a].broken THEN forsaken[a] \cup (sandbox[a].has \ saved[a]) ELSE forsaken[a]
  <1>1. /\ sandbox' = [sandbox EXCEPT ![a] = box] /\ forsaken' = [forsaken EXCEPT ![a] = given]
        /\ UNCHANGED <<saved, said, after>>
    BY DEF EnsureSandbox
  <1>2. Safe(sandbox[a], saved[a], forsaken[a], said[a])
        /\ (Deleting(a) => sandbox[a].has \subseteq saved[a] \cup forsaken[a])
    BY SandboxFacts
  <1>3. box.has = (IF reuse THEN sandbox[a].has ELSE {}) /\ box \in SandboxRec /\ (box.there \/ box.has = {})
    BY <1>2 DEF Safe, NoSandbox, SandboxRec
  <1>4. Safe(box, saved[a], given, said[a])
    <2> HIDE DEF box
    <2> QED BY <1>2, <1>3 DEF Safe
  <1>5. Deleting(a)' => box.has \subseteq saved[a] \cup given
    <2> HIDE DEF box
    <2> QED BY <1>1, <1>2, <1>3 DEF Deleting
  <1> HIDE DEF box, given
  <1>6. /\ saved' = [saved EXCEPT ![a] = saved[a]] /\ said' = [said EXCEPT ![a] = said[a]]
        /\ after' \in [Calls -> Afters] /\ \A d \in Calls : after'[d] = after[d]
    BY <1>1, SandboxFacts
  <1> QED BY <1>1, <1>4, <1>5, <1>6, OneSandbox

\* A new sandbox is given what the host has.
LEMMA SeedKeeps ==
  ASSUME SandboxInv, NEW a \in Agents, NEW c \in Calls, Seed(a, c)
  PROVE  SandboxInv'
  <1> DEFINE box == [sandbox[a] EXCEPT !.has = IF sandbox[a].there THEN @ \cup saved[a] ELSE @]
  <1>1. /\ UNCHANGED <<saved, said, after, forsaken>>
        /\ sandbox' = sandbox \/ sandbox' = [sandbox EXCEPT ![a] = box]
    BY DEF Seed
  <1>2. Safe(sandbox[a], saved[a], forsaken[a], said[a])
        /\ (Deleting(a) => sandbox[a].has \subseteq saved[a] \cup forsaken[a])
    BY SandboxFacts
  <1>3. box \in SandboxRec /\ box.there = sandbox[a].there
        /\ box.has = IF sandbox[a].there THEN sandbox[a].has \cup saved[a] ELSE sandbox[a].has
    BY <1>2 DEF Safe, SandboxRec
  <1> HIDE DEF box
  <1>4. Safe(box, saved[a], forsaken[a], said[a]) BY <1>2, <1>3 DEF Safe
  <1>5. Deleting(a) => box.has \subseteq saved[a] \cup forsaken[a] BY <1>2, <1>3
  <1>6. Deleting(a)' => Deleting(a) BY <1>1 DEF Deleting
  <1>7. /\ saved' = [saved EXCEPT ![a] = saved[a]] /\ said' = [said EXCEPT ![a] = said[a]]
        /\ forsaken' = [forsaken EXCEPT ![a] = forsaken[a]]
        /\ after' \in [Calls -> Afters] /\ \A d \in Calls : after'[d] = after[d]
    BY <1>1, SandboxFacts
  <1>8. CASE sandbox' = sandbox
    <2>1. sandbox' = [sandbox EXCEPT ![a] = sandbox[a]] BY <1>8, SandboxFacts
    <2> QED BY <1>2, <1>6, <1>7, <2>1, OneSandbox
  <1>9. CASE sandbox' = [sandbox EXCEPT ![a] = box]
    BY <1>4, <1>5, <1>6, <1>7, <1>9, OneSandbox
  <1> QED BY <1>1, <1>8, <1>9

\* Something is said: it is in the sandbox, and after a release copied, given up.
LEMMA SaysKeeps ==
  ASSUME SandboxInv, NEW a \in Agents, NEW i, Says(a, i)
  PROVE  SandboxInv'
  <1> DEFINE m == said[a] + 1
             box == [sandbox[a] EXCEPT !.has = @ \cup {m}]
             given == IF \E c \in Calls : after[c] = [pc |-> "delete", agent |-> a]
                      THEN forsaken[a] \cup {m} ELSE forsaken[a]
  <1>1. /\ sandbox' = [sandbox EXCEPT ![a] = box] /\ forsaken' = [forsaken EXCEPT ![a] = given]
        /\ said' = [said EXCEPT ![a] = m] /\ UNCHANGED <<saved, after>> /\ sandbox[a].there
    BY DEF Says
  <1>2. Safe(sandbox[a], saved[a], forsaken[a], said[a])
        /\ (Deleting(a) => sandbox[a].has \subseteq saved[a] \cup forsaken[a])
    BY SandboxFacts
  <1>3. m \in Nat /\ (1 .. m) = (1 .. said[a]) \cup {m} BY <1>2 DEF Safe
  <1> HIDE DEF m
  <1>4. box \in SandboxRec /\ box.has = sandbox[a].has \cup {m} /\ box.there
    BY <1>1, <1>2, <1>3 DEF Safe, SandboxRec
  <1>5. Deleting(a) => given = forsaken[a] \cup {m}
    BY SandboxFacts DEF Deleting, Afters
  <1>6. given \in SUBSET Nat /\ forsaken[a] \subseteq given BY <1>2, <1>3 DEF Safe
  <1> HIDE DEF box, given
  <1>7. Safe(box, saved[a], given, m) BY <1>2, <1>3, <1>4, <1>6 DEF Safe
  <1>8. Deleting(a)' => box.has \subseteq saved[a] \cup given
    BY <1>1, <1>2, <1>4, <1>5 DEF Deleting
  <1> QED BY <1>1, <1>7, <1>8, SandboxFacts, OneSandbox

\* A microVM is lost: its sandbox stays, in error.
LEMMA BreaksKeeps ==
  ASSUME SandboxInv, NEW a \in Agents, NEW procs, SandboxBreaks(a, procs)
  PROVE  SandboxInv'
  <1> DEFINE box == [sandbox[a] EXCEPT !.broken = TRUE]
  <1>1. sandbox' = [sandbox EXCEPT ![a] = box] /\ UNCHANGED <<saved, said, after, forsaken>>
    BY DEF SandboxBreaks
  <1>2. Safe(sandbox[a], saved[a], forsaken[a], said[a])
        /\ (Deleting(a) => sandbox[a].has \subseteq saved[a] \cup forsaken[a])
    BY SandboxFacts
  <1>3. box \in SandboxRec /\ box.has = sandbox[a].has /\ box.there = sandbox[a].there
    BY <1>2 DEF Safe, SandboxRec
  <1> HIDE DEF box
  <1>4. Safe(box, saved[a], forsaken[a], said[a]) BY <1>2, <1>3 DEF Safe
  <1>5. Deleting(a)' => box.has \subseteq saved[a] \cup forsaken[a] BY <1>1, <1>2, <1>3 DEF Deleting
  <1>6. /\ sandbox' = [sandbox EXCEPT ![a] = box] /\ Safe(box, saved[a], forsaken[a], said[a])
        /\ saved' = [saved EXCEPT ![a] = saved[a]] /\ said' = [said EXCEPT ![a] = said[a]]
        /\ forsaken' = [forsaken EXCEPT ![a] = forsaken[a]]
        /\ after' \in [Calls -> Afters] /\ \A d \in Calls : after'[d] = after[d]
    BY <1>1, <1>4, SandboxFacts
  <1> QED BY <1>5, <1>6, OneSandbox

\* A release or a purge that begins, goes on or is over changes its slot only,
\* and is not about to delete.
LEMMA SlotKeeps ==
  ASSUME SandboxInv, UNCHANGED <<sandbox, saved, forsaken, said>>,
         after' \in [Calls -> Afters],
         \A c \in Calls : after'[c].pc = "delete" => after'[c] = after[c]
  PROVE  SandboxInv'
  <1>1. \A c \in Calls : after'[c].pc = "delete" =>
          sandbox[after'[c].agent].has \subseteq saved[after'[c].agent] \cup forsaken[after'[c].agent]
    BY DEF SandboxInv
  <1> QED BY <1>1 DEF SandboxInv, KeptSomewhere, Afters

\* NothingAfter is a slot's rest.
LEMMA RestTypes == NothingAfter \in Afters /\ NothingAfter.pc = "none"
  <1>1. Unused.agent \in Agents BY IdleTypes DEF InstanceRec
  <1> QED BY <1>1 DEF NothingAfter, Afters

\* What follows a stop begins with the copy, or with the purge.
LEMMA BeginsKeeps ==
  ASSUME SandboxInv, NEW a \in Agents, NEW c \in Calls, Releases(a, c) \/ Purges(a, c)
  PROVE  SandboxInv'
  <1>1. PICK step \in {"copy", "purge"} : after' = [after EXCEPT ![c] = [pc |-> step, agent |-> a]]
    BY DEF Releases, Purges
  <1>2. UNCHANGED <<sandbox, saved, forsaken, said>> BY DEF Releases, Purges
  <1>3. after \in [Calls -> Afters] BY SandboxFacts DEF SandboxInv, Afters
  <1>4. [pc |-> step, agent |-> a] \in Afters BY DEF Afters
  <1>5. /\ after' \in [Calls -> Afters]
        /\ \A d \in Calls : after'[d].pc = "delete" => after'[d] = after[d]
    BY <1>1, <1>3, <1>4
  <1> QED BY <1>2, <1>5, SlotKeeps

\* The copy: what is in the sandbox is saved, or given up, before the slot goes
\* on to delete it; a copy that fails keeps the sandbox.
LEMMA CopiesKeeps ==
  ASSUME SandboxInv, NEW c \in Calls, ReleaseCopies(c)
  PROVE  SandboxInv'
  <1> DEFINE a == after[c].agent
  <1>0. after \in [Calls -> Afters] BY DEF SandboxInv, Afters
  <1>1. a \in Agents /\ after[c].pc = "copy" BY <1>0 DEF Afters, ReleaseCopies
  <1>2. Safe(sandbox[a], saved[a], forsaken[a], said[a])
        /\ (Deleting(a) => sandbox[a].has \subseteq saved[a] \cup forsaken[a])
    BY <1>1, SandboxFacts
  <1>3. UNCHANGED <<sandbox, said>> BY DEF ReleaseCopies
  <1>4. CASE after' = [after EXCEPT ![c].pc = "delete"]
    <2>0. \/ saved' = [saved EXCEPT ![a] = @ \cup sandbox[a].has] /\ UNCHANGED forsaken
          \/ UNCHANGED saved /\ forsaken' = [forsaken EXCEPT ![a] = @ \cup (sandbox[a].has \ saved[a])]
      <3>1. after'[c].pc = "delete" BY <1>0, <1>4 DEF Afters
      <3>2. ~Over(c) BY <1>0, <3>1, RestTypes DEF Over
      <3> QED BY <3>2 DEF ReleaseCopies, Kept
    <2>1. PICK kept, given :
            /\ saved' = [saved EXCEPT ![a] = kept] /\ forsaken' = [forsaken EXCEPT ![a] = given]
            /\ \/ kept = saved[a] \cup sandbox[a].has /\ given = forsaken[a]
               \/ kept = saved[a] /\ given = forsaken[a] \cup (sandbox[a].has \ saved[a])
      <3>1. saved = [saved EXCEPT ![a] = saved[a]] /\ forsaken = [forsaken EXCEPT ![a] = forsaken[a]]
        BY <1>1, SandboxFacts
      <3> QED BY <2>0, <3>1
    <2>2. Safe(sandbox[a], kept, given, said[a]) BY <1>2, <2>1 DEF Safe, SandboxRec
    <2>3. sandbox[a].has \subseteq kept \cup given BY <2>1
    <2>4. /\ after' \in [Calls -> Afters]
          /\ \A d \in Calls : after'[d].pc = "delete" => after'[d].agent = a \/ after'[d] = after[d]
      BY <1>0, <1>4 DEF Afters
    <2>5. /\ sandbox' = [sandbox EXCEPT ![a] = sandbox[a]] /\ said' = [said EXCEPT ![a] = said[a]]
      BY <1>1, <1>3, SandboxFacts
    <2> HIDE DEF a
    <2> QED BY <1>1, <2>1, <2>2, <2>3, <2>4, <2>5, OneSandbox
  <1>5. CASE after' # [after EXCEPT ![c].pc = "delete"]
    <2>1. Over(c) /\ UNCHANGED <<saved, forsaken>> BY <1>5 DEF ReleaseCopies, Kept
    <2>2. /\ after' \in [Calls -> Afters]
          /\ \A d \in Calls : after'[d].pc = "delete" => after'[d] = after[d]
      BY <1>0, <2>1, RestTypes DEF Over
    <2> QED BY <1>3, <2>1, <2>2, SlotKeeps
  <1> QED BY <1>4, <1>5

\* The deletion: what the sandbox held is saved or given up, whoever said or
\* copied what since.
LEMMA DeletesKeeps ==
  ASSUME SandboxInv, NEW c \in Calls, NEW procs, ReleaseDeletes(c, procs)
  PROVE  SandboxInv'
  <1> DEFINE a == after[c].agent
  <1>0. after \in [Calls -> Afters] BY DEF SandboxInv, Afters
  <1>1. a \in Agents /\ Deleting(a) BY <1>0 DEF Afters, ReleaseDeletes, Deleting
  <1>2. Safe(sandbox[a], saved[a], forsaken[a], said[a])
        /\ sandbox[a].has \subseteq saved[a] \cup forsaken[a]
    BY <1>1, SandboxFacts
  <1>3. /\ after' = [after EXCEPT ![c] = NothingAfter] /\ UNCHANGED <<saved, said, forsaken>>
        /\ sandbox' = sandbox \/ sandbox' = [sandbox EXCEPT ![a] = NoSandbox]
    BY DEF ReleaseDeletes, Over
  <1>4. /\ after' \in [Calls -> Afters]
        /\ \A d \in Calls : after'[d].pc = "delete" => after'[d] = after[d]
    BY <1>0, <1>3, RestTypes
  <1>5. CASE sandbox' = sandbox BY <1>3, <1>4, <1>5, SlotKeeps
  <1>6. CASE sandbox' = [sandbox EXCEPT ![a] = NoSandbox]
    <2>1. Safe(NoSandbox, saved[a], forsaken[a], said[a]) /\ NoSandbox.has = {}
      BY <1>2 DEF Safe, NoSandbox, SandboxRec
    <2>2. /\ saved' = [saved EXCEPT ![a] = saved[a]] /\ forsaken' = [forsaken EXCEPT ![a] = forsaken[a]]
          /\ said' = [said EXCEPT ![a] = said[a]]
      BY <1>1, <1>3, SandboxFacts
    <2>3. NoSandbox.has \subseteq saved[a] \cup forsaken[a] BY <2>1
    <2> HIDE DEF a
    <2> QED BY <1>1, <1>4, <1>6, <2>1, <2>2, <2>3, OneSandbox
  <1> QED BY <1>3, <1>5, <1>6

\* A purge gives up everything that was said.
LEMMA PurgesKeeps ==
  ASSUME SandboxInv, NEW c \in Calls, NEW procs, PurgeDeletes(c, procs)
  PROVE  SandboxInv'
  <1> DEFINE a == after[c].agent
  <1>0. after \in [Calls -> Afters] BY DEF SandboxInv, Afters
  <1>1. a \in Agents BY <1>0 DEF Afters
  <1>2. Safe(sandbox[a], saved[a], forsaken[a], said[a]) BY <1>1, SandboxFacts
  <1>3. /\ after' = [after EXCEPT ![c] = NothingAfter] /\ said' = said
        /\ sandbox' = sandbox \/ sandbox' = [sandbox EXCEPT ![a] = NoSandbox]
        /\ saved' = [saved EXCEPT ![a] = {}] /\ forsaken' = [forsaken EXCEPT ![a] = 1 .. said[a]]
    BY DEF PurgeDeletes, Over
  <1>4. /\ after' \in [Calls -> Afters]
        /\ \A d \in Calls : after'[d].pc = "delete" => after'[d].agent = a \/ after'[d] = after[d]
    BY <1>0, <1>3, RestTypes
  <1>5. PICK box \in {sandbox[a], NoSandbox} :
          sandbox' = [sandbox EXCEPT ![a] = box] /\ said' = [said EXCEPT ![a] = said[a]]
    <2>1. sandbox = [sandbox EXCEPT ![a] = sandbox[a]] /\ said = [said EXCEPT ![a] = said[a]]
      BY <1>1, SandboxFacts
    <2> QED BY <1>3, <2>1
  <1>6. Safe(box, {}, 1 .. said[a], said[a]) /\ box.has \subseteq {} \cup (1 .. said[a])
    <2>1. CASE box = sandbox[a] BY <1>2, <2>1 DEF Safe
    <2>2. CASE box = NoSandbox BY <1>2, <2>2 DEF Safe, NoSandbox, SandboxRec
    <2> QED BY <1>5, <2>1, <2>2
  <1> HIDE DEF a
  <1> QED BY <1>1, <1>3, <1>4, <1>5, <1>6, OneSandbox

\* What the manager's steps do to the sandboxes is to begin what follows a stop.
LEMMA ManagerKeepsSandboxes ==
  ASSUME TypeOK, AsksOfAgents, SandboxInv, ManagerStep
  PROVE  SandboxInv'
  <1>0. /\ \A c \in Calls : call[c].agent \in Agents
        /\ left.agents \subseteq Agents
    BY DEF TypeOK, CallRec, AsksOfAgents, Scope
  <1>1. CASE UNCHANGED sandboxVars
    <2>1. UNCHANGED <<sandbox, saved, forsaken, said, after>> BY <1>1 DEF sandboxVars
    <2> QED BY <2>1, SlotKeeps DEF SandboxInv, Afters
  <1>2. CASE \E a \in Agents, c \in Calls : Releases(a, c) \/ Purges(a, c) BY <1>2, BeginsKeeps
  <1>3. CASE \E c \in Calls : PrepareOver(c)
    <2>1. UNCHANGED <<sandbox, saved, forsaken, said, after>> BY <1>3 DEF PrepareOver
    <2> QED BY <2>1, SlotKeeps DEF SandboxInv, Afters
  <1>4. CASE \E then : \E a \in Agents, c \in Calls : AfterTheStop(a, c, then)
    BY <1>1, <1>2, <1>4, Zenon DEF AfterTheStop
  <1>5. Requests => UNCHANGED sandboxVars \/ \E then : \E a \in Agents, c \in Calls : AfterTheStop(a, c, then)
    BY <1>0, Zenon DEF Requests
  <1>6. Starting => UNCHANGED sandboxVars \/ \E c \in Calls : PrepareOver(c)
    BY Zenon DEF Starting
  <1>7. Ending => UNCHANGED sandboxVars \/ \E then : \E a \in Agents, c \in Calls : AfterTheStop(a, c, then)
    BY <1>0, Zenon DEF Ending
  <1> QED BY <1>1, <1>3, <1>4, <1>5, <1>6, <1>7 DEF ManagerStep

\* The sandboxes' own steps.
LEMMA SandboxStepKeeps ==
  ASSUME TypeOK, SandboxInv, SandboxStep
  PROVE  SandboxInv'
  <1>0. \A c \in Calls : call[c].agent \in Agents BY DEF TypeOK, CallRec
  <1>1. ASSUME NEW c \in Calls, EnsureSandbox(call[c].agent, c) \/ Seed(call[c].agent, c) PROVE SandboxInv'
    BY <1>0, <1>1, EnsureKeeps, SeedKeeps
  <1>2. ASSUME NEW a \in Agents, NEW i, Says(a, i) PROVE SandboxInv' BY <1>2, SaysKeeps
  <1>3. ASSUME NEW c \in Calls, NEW procs,
               ReleaseCopies(c) \/ ReleaseDeletes(c, procs) \/ PurgeDeletes(c, procs)
        PROVE  SandboxInv'
    BY <1>3, CopiesKeeps, DeletesKeeps, PurgesKeeps
  <1>4. ASSUME NEW a \in Agents, NEW procs, SandboxBreaks(a, procs) PROVE SandboxInv' BY <1>4, BreaksKeeps
  <1> QED BY <1>1, <1>2, <1>3, <1>4, Zenon DEF SandboxStep

\* There is no sandbox, and nothing was said.
LEMMA SandboxesBegin == WorkspaceInit => SandboxInv
  <1> SUFFICES ASSUME WorkspaceInit PROVE SandboxInv OBVIOUS
  <1>1. NoSandbox \in SandboxRec /\ NoSandbox.has = {} BY DEF NoSandbox, SandboxRec
  <1>2. /\ sandbox = [a \in Agents |-> NoSandbox] /\ saved = [a \in Agents |-> {}]
        /\ forsaken = [a \in Agents |-> {}] /\ said = [a \in Agents |-> 0]
        /\ after = [c \in Calls |-> NothingAfter]
    BY DEF WorkspaceInit, SandboxesInit
  <1>3. (1 .. 0) = {} OBVIOUS
  <1> QED BY <1>1, <1>2, <1>3, RestTypes DEF SandboxInv, KeptSomewhere, Afters

\* Every step of the workspace keeps the conversations somewhere.
LEMMA SandboxInvStep == TypeOK /\ AsksOfAgents /\ SandboxInv /\ [WorkspaceNext]_allVars => SandboxInv'
  <1> SUFFICES ASSUME TypeOK, AsksOfAgents, SandboxInv, [WorkspaceNext]_allVars PROVE SandboxInv' OBVIOUS
  <1>1. CASE UNCHANGED sandboxVars
    <2>1. UNCHANGED <<sandbox, saved, forsaken, said, after>> BY <1>1 DEF sandboxVars
    <2> QED BY <2>1, SlotKeeps DEF SandboxInv, Afters
  <1>2. CASE ManagerStep BY <1>2, ManagerKeepsSandboxes
  <1>3. CASE SandboxStep BY <1>3, SandboxStepKeeps
  <1>4. CASE ChatSteps \/ DialogSteps \/ ConfigurationStep \/ UNCHANGED allVars
    <2>1. UNCHANGED sandboxVars BY <1>4 DEF ChatSteps, DialogSteps, ConfigurationStep, allVars
    <2> QED BY <1>1, <2>1
  <1> QED BY <1>2, <1>3, <1>4 DEF WorkspaceNext

\* What was said in an agent's conversations is in its sandbox or on the host,
\* whatever starts, releases, purges and failing copies overlap, short of what
\* the runtime gives up by what it says of itself.
THEOREM ConversationsKept == WorkspaceSpec => []KeptSomewhere
  <1>1. SandboxInv => KeptSomewhere BY DEF SandboxInv
  <1>2. ManagerInv => TypeOK BY DEF ManagerInv
  <1> QED BY <1>1, <1>2, SandboxesBegin, SandboxInvStep, ManagerInvHere, AsksAlways, PTL DEF WorkspaceSpec

--------------------------------------------------------------------------
(* What agents are started with                                            *)

\* The types of what is said of settings, profiles and agents.
SettingsTypes ==
    /\ organization \in Allowances /\ document \in Allowances /\ metadata \in Allowances
    /\ offered \subseteq Models /\ registered \subseteq Connections
    /\ profile \in [Profiles -> ProfileRec \cup {None}] /\ profile[DefaultProfile] \in ProfileRec
    /\ record \in [Agents -> Record \cup {None}] /\ disk \in [Agents -> Config]
    /\ uses \in [Instances -> Config]
    /\ wrote \in [Calls -> {"nothing", "settings", "all"}]
    /\ choice # None => choice.agent \in Agents /\ choice.model \in Models

\* Only the agent of a scope with a configuration has a record, and there is one such agent.
OneConfigured ==
    /\ Configured => \A a, b \in left.agents : a = b
    /\ \A a \in Agents : record[a] # None => Configured /\ a \in left.agents
    /\ request.pc # "none" => Configured /\ record[request.agent] # None
    /\ Configured => \A c \in Calls : At(c, "scaffold") => record[call[c].agent] # None

\* A start that writes files, or that is overtaken, is one that is under way.
WritersStart == \A c \in Calls : wrote[c] # "nothing" \/ c \in late => Configured /\ At(c, "scaffold")

\* What a start that is not overtaken has written so far is what is allowed.
FilesAllowed(c) ==
    LET a == call[c].agent IN
    Configured /\ At(c, "scaffold") /\ c \notin late /\ a \notin overlapped =>
        /\ record[a] # None /\ metadata.models # {}
        /\ record[a].model # None => Allowed(record[a].model)
        /\ wrote[c] # "nothing" => disk[a].model \in metadata.models /\ disk[a].model \in disk[a].knows
        /\ wrote[c] = "all" => disk[a].mcp \subseteq metadata.mcp

\* A stop of the agent's process is under way.
Stopping(a) == \E c \in Calls : At(c, "waitIdle") /\ call[c].agent = a /\ call[c].inst = agent[a].running
\* A change of the agent's connections is, and restarts it.
ToRestart(a) == request.pc # "none" /\ request.agent = a /\ request.then = "restart"

\* A process that runs what is no longer allowed is being stopped or restarted.
RunsAllowed(a) ==
    LET i == agent[a].running IN
    Configured /\ i # None /\ a \notin overlapped /\ agent[a].status # "deleted" /\ i \notin astray =>
        /\ record[a] # None
        /\ uses[i].model \in uses[i].knows
        /\ uses[i].model = record[a].model => Allowed(uses[i].model) \/ Stopping(a)
        /\ uses[i].mcp \cap record[a].mcp \subseteq metadata.mcp \/ Stopping(a) \/ ToRestart(a)

SettingsInv ==
    /\ SettingsTypes /\ OneConfigured /\ WritersStart
    /\ \A c \in Calls : FilesAllowed(c)
    /\ \A a \in Agents : RunsAllowed(a)

--------------------------------------------------------------------------
(* What the helpers choose and write                                       *)

\* A set of naturals has a least one.
LEMMA Least ==
  ASSUME NEW S \in SUBSET Nat, S # {}
  PROVE  \E n \in S : \A k \in S : n <= k
  <1>1. \E n \in S : \A k \in S : ~(<<k, n>> \in OpToRel(<, Nat))
    BY NatLessThanWellFounded, WFMin
  <1>2. \A k, n \in Nat : (<<k, n>> \in OpToRel(<, Nat)) <=> k < n
    BY Zenon DEF OpToRel
  <1>3. \E n \in S : \A k \in S : ~(k < n)
    BY <1>1, <1>2, Zenon
  <1> QED BY <1>3

\* The default model is an allowed one, and there is one while any is allowed and
\* every provider has said what it has.
LEMMA DefaultAllowed ==
  ASSUME metadata.models \subseteq Models
  PROVE  /\ DefaultModel \in Models \cup {None}
         /\ DefaultModel # None => DefaultModel \in metadata.models
         /\ metadata.models # {} /\ offered = Models => DefaultModel \in metadata.models
  <1> DEFINE I == {n \in 1 .. Len(Catalogue) : Allowed(Catalogue[n]) /\ Catalogue[n] \in offered}
             first == SelectInSeq(Catalogue, LAMBDA m : Allowed(m) /\ m \in offered)
  <1>0. first = IF I # {} THEN Min(I) ELSE 0 BY DEF SelectInSeq
  <1>1. DefaultModel = IF first = 0 THEN None ELSE Catalogue[first] BY DEF DefaultModel
  <1>2. /\ \A n \in 1 .. Len(Catalogue) : Catalogue[n] \in Models
        /\ \A m \in Models : \E n \in 1 .. Len(Catalogue) : m = Catalogue[n]
    BY ConfigurationAssumption DEF Models, Range
  <1>3. I # {} => Min(I) \in I
    <2> SUFFICES ASSUME I # {} PROVE Min(I) \in I OBVIOUS
    <2>1. I \in SUBSET Nat OBVIOUS
    <2>2. \E n \in I : \A k \in I : n <= k BY <2>1, Least
    <2> QED BY <2>2 DEF Min
  <1>4. CASE I = {}
    <2>1. DefaultModel = None BY <1>0, <1>1, <1>4
    <2>2. ~(metadata.models # {} /\ offered = Models) BY <1>2, <1>4 DEF Allowed
    <2> QED BY <2>1, <2>2
  <1>5. CASE I # {}
    <2>1. first \in I BY <1>0, <1>3, <1>5
    <2>2. first # 0 BY <2>1
    <2>3. DefaultModel = Catalogue[first] BY <1>1, <2>2
    <2> QED BY <1>2, <2>1, <2>3 DEF Allowed
  <1> QED BY <1>4, <1>5

--------------------------------------------------------------------------
(* What a step of the manager leaves                                       *)

\* A start that meets a deleted record leaves it deleted.
LEMMA SegmentLeavesDeleted ==
  ASSUME TypeOK, NEW a \in Agents, NEW c, NEW r \in AgentRec, NEW auto, StartSegment(a, c, r, auto),
         r.status = "deleted"
  PROVE  agent' = [agent EXCEPT ![a] = r]
  BY DEF StartSegment

\* A deleted record stays deleted, however late what was under way ends.
LEMMA DeletedStays ==
  ASSUME TypeOK, Next, NEW b \in Agents, agent[b].status = "deleted"
  PROVE  agent'[b].status = "deleted"
  <1>0. agent \in [Agents -> AgentRec] /\ call \in [Calls -> CallRec] /\ inst \in [Instances -> InstanceRec]
    BY DEF TypeOK
  <1>a. ASSUME NEW a, \E q : agent' = [agent EXCEPT ![a] = q] /\ (a = b => q.status = "deleted")
        PROVE  agent'[b].status = "deleted"
    BY <1>0, <1>a
  <1>b. \A i \in Instances \cup {None} : Drop(agent[b], i) \in AgentRec /\ Drop(agent[b], i).status = "deleted"
    BY <1>0, DropEffect
  <1>c. \A r \in AgentRec, s \in Statuses : r.status = "deleted" => SetStatus(r, s) \in AgentRec /\ SetStatus(r, s).status = "deleted"
    BY SetStatusEffect
  <1>1. ASSUME NEW a \in Agents, NEW c \in Calls, Start(a, c) \/ Fire(a, c) PROVE agent'[b].status = "deleted"
    <2> DEFINE fired == [agent[a] EXCEPT !.timer = FALSE]
    <2>1. agent[a] \in AgentRec /\ fired \in AgentRec /\ fired.status = agent[a].status BY <1>0 DEF AgentRec
    <2>2. StartSegment(a, c, agent[a], FALSE) \/ StartSegment(a, c, fired, TRUE) BY <1>1 DEF Start, Fire
    <2>3. CASE a = b
      <3> HIDE DEF fired
      <3> QED BY <1>a, <2>1, <2>2, <2>3, SegmentLeavesDeleted
    <2>4. CASE a # b
      <3>1. \E q : agent' = [agent EXCEPT ![a] = q] BY <1>1, StartEffect DEF Segment, Writes
      <3> QED BY <1>a, <2>4, <3>1
    <2> QED BY <2>3, <2>4
  <1>2. ASSUME NEW a \in Agents, NEW c \in Calls, NEW r \in AgentRec, NEW then \in {"none", "start", "delete"},
               AfterStop(a, c, r, then), a = b => r.status = "deleted"
        PROVE  agent'[b].status = "deleted"
    <2>1. CASE then = "start"
      <3>1. StartSegment(a, c, r, FALSE) BY <1>2, <2>1 DEF AfterStop
      <3>2. \E q : agent' = [agent EXCEPT ![a] = q] BY <3>1, Zenon DEF StartSegment
      <3> QED BY <1>a, <1>2, <3>1, <3>2, SegmentLeavesDeleted
    <2>2. CASE then # "start"
      <3>1. agent' = [agent EXCEPT ![a] = IF then = "delete" THEN [r EXCEPT !.status = "deleted"] ELSE r]
        BY <1>2, <2>2 DEF AfterStop
      <3>2. [r EXCEPT !.status = "deleted"].status = "deleted" BY DEF AgentRec
      <3> QED BY <1>a, <1>2, <3>1, <3>2
    <2> QED BY <2>1, <2>2
  <1>3. ASSUME NEW a \in Agents, NEW c \in Calls, NEW then \in {"none", "start", "delete"}, Stop(a, c, then)
        PROVE  agent'[b].status = "deleted"
    <2> DEFINE r == CancelPendingRestart(agent[a])
    <2>1. agent[a] \in AgentRec /\ r \in AgentRec /\ r.status = agent[a].status BY <1>0, CancelEffect
    <2>2. SetStatus(r, "stopped") \in AgentRec /\ (r.status = "deleted" => SetStatus(r, "stopped").status = "deleted")
      BY <2>1, SetStatusEffect DEF Statuses
    <2>3. AfterStop(a, c, SetStatus(r, "stopped"), then) \/ agent' = [agent EXCEPT ![a] = r]
      BY <1>3 DEF Stop
    <2> HIDE DEF r
    <2>4. CASE AfterStop(a, c, SetStatus(r, "stopped"), then) BY <1>2, <2>1, <2>2, <2>4
    <2>5. CASE agent' = [agent EXCEPT ![a] = r] BY <1>a, <2>1, <2>5
    <2> QED BY <2>3, <2>4, <2>5
  <1>4. ASSUME NEW c \in Calls, StopFinish(c) PROVE agent'[b].status = "deleted"
    <2> DEFINE a == call[c].agent  d == Drop(agent[a], call[c].inst)
    <2>1. a \in Agents /\ call[c].inst \in Instances \cup {None} /\ call[c].then \in {"none", "start", "delete"}
      BY <1>0 DEF CallRec
    <2>2. d \in AgentRec /\ d.status = agent[a].status BY <1>0, <2>1, DropEffect
    <2>3. SetStatus(d, "stopped") \in AgentRec /\ (d.status = "deleted" => SetStatus(d, "stopped").status = "deleted")
      BY <2>2, SetStatusEffect DEF Statuses
    <2>4. AfterStop(a, c, SetStatus(d, "stopped"), call[c].then) BY <1>4 DEF StopFinish
    <2> HIDE DEF a, d
    <2> QED BY <1>2, <2>1, <2>2, <2>3, <2>4
  <1>5. ASSUME NEW c \in Calls, ScaffoldFails(c) \/ ProbeOk(c) \/ ProbeFail(c) \/ \E i \in Instances : Spawn(c, i)
        PROVE  agent'[b].status = "deleted"
    <2> DEFINE a == call[c].agent
    <2>1. CASE ScaffoldFails(c)
      <3>1. CASE UNCHANGED agent BY <3>1
      <3>2. CASE agent' = [agent EXCEPT ![a] = SetStatus(agent[a], "error")]
        BY <1>0, <1>a, <1>c, <3>2 DEF Statuses
      <3> QED BY <2>1, <3>1, <3>2 DEF ScaffoldFails
    <2>2. CASE ProbeOk(c)
      <3> DEFINE r == SetStatus(agent[a], "running")
      <3>1. agent' = [agent EXCEPT ![a] = [r EXCEPT !.budget = IF call[c].auto THEN 0 ELSE @]] BY <2>2 DEF ProbeOk
      <3>2. a = b => r \in AgentRec /\ r.status = "deleted" BY <1>0, <1>c DEF Statuses
      <3> HIDE DEF r
      <3>3. a = b => [r EXCEPT !.budget = IF call[c].auto THEN 0 ELSE @].status = "deleted" BY <3>2 DEF AgentRec
      <3> QED BY <1>a, <3>1, <3>3
    <2>3. CASE ProbeFail(c)
      <3>1. agent' = [agent EXCEPT ![a] = SetStatus(Drop(agent[a], call[c].inst), "error")] BY <2>3 DEF ProbeFail
      <3>2. call[c].inst \in Instances \cup {None} BY <1>0 DEF CallRec
      <3>3. a = b => SetStatus(Drop(agent[a], call[c].inst), "error").status = "deleted" BY <1>b, <1>c, <3>2 DEF Statuses
      <3> QED BY <1>a, <3>1, <3>3
    <2>4. CASE \E i \in Instances : Spawn(c, i)
      <3>1. PICK i \in Instances : Spawn(c, i) BY <2>4
      <3>2. PICK q \in AgentRec, k \in CallRec, p \in InstanceRec :
              /\ agent' = [agent EXCEPT ![call[c].agent] = q] /\ call' = [call EXCEPT ![c] = k]
              /\ inst' = [inst EXCEPT ![i] = p]
              /\ q.running = i /\ q.timer = agent[call[c].agent].timer
              /\ q.status = agent[call[c].agent].status
              /\ k.pc = "probe" /\ k.inst = i /\ k.agent = call[c].agent
              /\ p.agent = call[c].agent /\ p.phase = "alive"
        BY <3>1, SpawnEffect
      <3> QED BY <1>a, <3>2
    <2> QED BY <1>5, <2>1, <2>2, <2>3, <2>4
  <1>6. ASSUME NEW i \in Instances, NEW signalled \in BOOLEAN, Exit(i, signalled)
        PROVE  agent'[b].status = "deleted"
    <2> DEFINE r == Drop(agent[b], i)
    <2>1. r \in AgentRec /\ r.status = "deleted" BY <1>b
    <2>2. SetStatus(r, "error").status = "deleted" /\ SetStatus(r, "stopped") \in AgentRec
          /\ SetStatus(r, "stopped").status = "deleted"
      BY <1>c, <2>1 DEF Statuses
    <2>3. [SetStatus(r, "stopped") EXCEPT !.budget = 0].status = "deleted" BY <2>2 DEF AgentRec
    <2>4. Crashed(r).status = "deleted" 
      <3> DEFINE e == SetStatus(r, "error")
      <3>1. e \in AgentRec /\ e.status = "deleted" BY <1>c, <2>1 DEF Statuses
      <3>2. Crashed(r) = [e EXCEPT !.budget = @ + 1,
                                   !.timer = IF r.budget + 1 <= MaxRestarts THEN TRUE ELSE @]
        BY DEF Crashed
      <3> HIDE DEF e
      <3> QED BY <3>1, <3>2 DEF AgentRec
    <2>5. CASE inst[i].agent = b
      <3> HIDE DEF r
      <3>1. \E q \in {r, SetStatus(r, "error"), [SetStatus(r, "stopped") EXCEPT !.budget = 0], Crashed(r)} :
              agent' = [agent EXCEPT ![b] = q]
        BY <1>6, <2>5 DEF Exit, r
      <3> QED BY <1>0, <2>1, <2>2, <2>3, <2>4, <3>1
    <2>6. CASE inst[i].agent # b
      <3>1. \E q : agent' = [agent EXCEPT ![inst[i].agent] = q] BY <1>6, Zenon DEF Exit
      <3> QED BY <1>a, <2>6, <3>1
    <2> QED BY <2>5, <2>6
  <1> QED BY <1>1, <1>3, <1>4, <1>5, <1>6 DEF Next

\* A step of the manager that makes no process: the map keeps an agent's process or drops
\* it, starts go on but for those that are over, and a stop is over when its process is dropped.
QuietMoves(over) ==
    /\ \A a \in Agents : agent'[a].running \in {agent[a].running, None}
    /\ overlapped \subseteq overlapped'
    /\ \A c \in Calls : At(c, "scaffold") => IF c \in over THEN ~At(c, "scaffold")' ELSE call'[c] = call[c]
    /\ \A a \in Agents : Stopping(a) => Stopping(a)' \/ agent'[a].running = None

\* Such is a step that changes a record and a call, unless it drops the process of a stop
\* or makes the call another start.
LEMMA WriteIsQuiet ==
  ASSUME TypeOK, NEW a \in Agents, NEW c \in Calls, NEW q, NEW k, Writes(a, c, q, k),
         q.running \in {agent[a].running, None}, overlapped \subseteq overlapped',
         NEW over, (call[c].pc # "scaffold" /\ over = {}) \/ (k.pc # "scaffold" /\ over = {c}),
         call[c].pc = "waitIdle" => call[c].agent = a /\ (call[c].inst = agent[a].running => q.running = None)
  PROVE  QuietMoves(over)
  <1>1. /\ \A b \in Agents : agent'[b] = IF b = a THEN q ELSE agent[b]
        /\ \A d \in Calls : call'[d] = IF d = c THEN k ELSE call[d]
    BY DEF Writes, TypeOK
  <1>2. ASSUME NEW b \in Agents, Stopping(b), agent'[b].running # None PROVE Stopping(b)'
    <2>1. PICK d \in Calls : At(d, "waitIdle") /\ call[d].agent = b /\ call[d].inst = agent[b].running
      BY <1>2 DEF Stopping
    <2>2. agent'[b].running = agent[b].running BY <1>1, <1>2
    <2>3. d # c BY <1>1, <1>2, <2>1 DEF At
    <2>4. call'[d] = call[d] BY <1>1, <2>3
    <2> QED BY <2>1, <2>2, <2>4 DEF Stopping, At
  <1>3. \A d \in Calls : At(d, "scaffold") => IF d \in over THEN ~At(d, "scaffold")' ELSE call'[d] = call[d]
    BY <1>1 DEF At
  <1> QED BY <1>1, <1>2, <1>3 DEF QuietMoves

\* Every step of the manager is such, or makes a process.
LEMMA ManagerIsQuiet ==
  ASSUME ManagerInv
  PROVE  /\ \A a \in Agents, c \in Calls :
              Start(a, c) \/ Fire(a, c) \/ (\E then \in {"none", "start", "delete"} : Stop(a, c, then)) => QuietMoves({})
         /\ \A c \in Calls : ProbeOk(c) \/ ProbeFail(c) \/ StopFinish(c) => QuietMoves({})
         /\ \A c \in Calls : ScaffoldFails(c) => QuietMoves({c})
         /\ \A i \in Instances, signalled \in BOOLEAN : Exit(i, signalled) => QuietMoves({})
  <1>0. /\ TypeOK /\ IdleCall.pc = "idle" /\ \A c \in Calls : call[c].agent \in Agents
        /\ agent \in [Agents -> AgentRec] /\ call \in [Calls -> CallRec]
    BY IdleTypes DEF ManagerInv, TypeOK, CallRec
  <1>1. ASSUME NEW a \in Agents, NEW c \in Calls, Start(a, c) \/ Fire(a, c) PROVE QuietMoves({})
    <2>1. At(c, "idle") BY <1>0, <1>1, StartEffect
    <2>2. PICK q \in AgentRec, k \in CallRec : Segment(a, c, q, k) /\ q.running = agent[a].running
      BY <1>0, <1>1, StartEffect
    <2>3. Writes(a, c, q, k) /\ overlapped \subseteq overlapped' BY <2>2 DEF Segment
    <2> QED BY <1>0, <2>1, <2>2, <2>3, WriteIsQuiet DEF At
  <1>2. ASSUME NEW a \in Agents, NEW c \in Calls, NEW then \in {"none", "start", "delete"}, Stop(a, c, then)
        PROVE  QuietMoves({})
    <2>1. At(c, "idle") BY <1>0, <1>2, StopEffect
    <2>2. CASE agent[a].running = None
      <3>1. PICK q \in AgentRec, k \in CallRec :
              Segment(a, c, q, k) /\ q.running = None /\ q.status # "running" /\ ~q.timer
        BY <1>0, <1>2, <2>2, StopEffect
      <3>2. Writes(a, c, q, k) /\ overlapped \subseteq overlapped' BY <3>1 DEF Segment
      <3> QED BY <1>0, <2>1, <3>1, <3>2, WriteIsQuiet DEF At
    <2>3. CASE agent[a].running # None
      <3>1. PICK q \in AgentRec, k \in CallRec :
              /\ Writes(a, c, q, k)
              /\ q.running = agent[a].running /\ q.status = agent[a].status /\ ~q.timer
              /\ k.pc = "waitIdle" /\ k.inst \in Instances
        BY <1>0, <1>2, <2>3, StopEffect
      <3>2. overlapped' = overlapped BY <1>0, <1>2, <2>3, StopEffect
      <3> QED BY <1>0, <2>1, <3>1, <3>2, WriteIsQuiet DEF At
    <2> QED BY <2>2, <2>3
  <1>3. ASSUME NEW c \in Calls, ScaffoldFails(c) PROVE QuietMoves({c})
    <2>1. PICK a \in Agents, q \in AgentRec :
            /\ agent' = [agent EXCEPT ![a] = q]
            /\ q.running = agent[a].running /\ q.timer = agent[a].timer
            /\ q.status \in {agent[a].status, "error", "deleted"}
      BY <1>0, <1>3, ScaffoldFailsEffect
    <2>2. At(c, "scaffold") /\ call' = [call EXCEPT ![c] = IdleCall] /\ overlapped' = overlapped
      BY <1>0, <1>3, ScaffoldFailsEffect
    <2> QED BY <1>0, <2>1, <2>2, WriteIsQuiet DEF Writes, At
  <1>4. ASSUME NEW c \in Calls, ProbeOk(c) PROVE QuietMoves({})
    <2>1. PICK q \in AgentRec :
            /\ agent' = [agent EXCEPT ![call[c].agent] = q]
            /\ q.running = agent[call[c].agent].running /\ q.timer = agent[call[c].agent].timer
            /\ q.status \in {"running", "deleted"}
      BY <1>0, <1>4, ProbeOkEffect
    <2>2. At(c, "probe") /\ call' = [call EXCEPT ![c] = IdleCall] /\ overlapped' = overlapped
      BY <1>0, <1>4, ProbeOkEffect
    <2> QED BY <1>0, <2>1, <2>2, WriteIsQuiet DEF Writes, At
  <1>5. ASSUME NEW c \in Calls, ProbeFail(c) PROVE QuietMoves({})
    <2>1. PICK q \in AgentRec :
            /\ agent' = [agent EXCEPT ![call[c].agent] = q]
            /\ q.running = IF agent[call[c].agent].running = call[c].inst THEN None
                           ELSE agent[call[c].agent].running
            /\ q.timer = agent[call[c].agent].timer /\ q.status \in {"error", "deleted"}
      BY <1>0, <1>5, ProbeFailEffect
    <2>2. At(c, "probe") /\ call' = [call EXCEPT ![c] = IdleCall] /\ overlapped' = overlapped
      BY <1>0, <1>5, ProbeFailEffect
    <2> QED BY <1>0, <2>1, <2>2, WriteIsQuiet DEF Writes, At
  <1>6. ASSUME NEW c \in Calls, StopFinish(c) PROVE QuietMoves({})
    <2>1. PICK q \in AgentRec, k \in CallRec :
            /\ Segment(call[c].agent, c, q, k)
            /\ q.running = IF agent[call[c].agent].running = call[c].inst THEN None
                           ELSE agent[call[c].agent].running
            /\ q.status \in {"stopped", "starting", "deleted"}
            /\ (q.timer => agent[call[c].agent].timer)
      BY <1>0, <1>6, StopFinishEffect
    <2>2. At(c, "waitIdle") BY <1>0, <1>6, StopFinishEffect
    <2>3. Writes(call[c].agent, c, q, k) /\ overlapped \subseteq overlapped' BY <2>1 DEF Segment
    <2> QED BY <1>0, <2>1, <2>2, <2>3, WriteIsQuiet DEF At
  <1>7. ASSUME NEW i \in Instances, NEW signalled \in BOOLEAN, Exit(i, signalled) PROVE QuietMoves({})
    <2>1. PICK q \in AgentRec :
            /\ agent' = [agent EXCEPT ![inst[i].agent] = q]
            /\ q.running = IF agent[inst[i].agent].running = i THEN None
                           ELSE agent[inst[i].agent].running
            /\ (q.status = "running" =>
                  agent[inst[i].agent].status = "running"
                  /\ (inst[i].starting \/ agent[inst[i].agent].running # i))
            /\ (q.timer /\ ~agent[inst[i].agent].timer => ~inst[i].stopReq)
      BY <1>0, <1>7, ExitEffect
    <2>2. /\ call' = [c \in Calls |-> IF c \in Probing(i) THEN IdleCall ELSE call[c]]
          /\ overlapped' = overlapped
      BY <1>0, <1>7, ExitEffect
    <2>3. \A c \in Calls : call'[c].pc \in {"scaffold", "waitIdle"} => call'[c] = call[c] 
      BY <1>0, <2>2
    <2>4. \A c \in Calls : call[c].pc = "waitIdle" => call'[c] = call[c]
      BY <2>2 DEF Probing, At
    <2>5. \A a \in Agents : agent'[a].running \in {agent[a].running, None} BY <1>0, <2>1
    <2>6. \A c \in Calls : call[c].pc = "scaffold" => call'[c] = call[c]
      BY <2>2 DEF Probing, At
    <2> QED BY <2>2, <2>3, <2>4, <2>5, <2>6 DEF QuietMoves, Stopping, At
  <1> QED BY <1>1, <1>2, <1>3, <1>4, <1>5, <1>6, <1>7

--------------------------------------------------------------------------
(* Files and records                                                       *)

\* What scaffoldAgent writes is well typed and allowed: a model that may be used, once
\* every provider has said what it has, and connections that may be.
LEMMA WritesAllowed ==
  ASSUME SettingsTypes, NEW a \in Agents
  PROVE  /\ record[a] # None => SettingsFile(a) \in Config
         /\ SettingsFile(a).mcp = disk[a].mcp
         /\ ConnectionsFile(a) \in Config
         /\ ConnectionsFile(a).mcp \subseteq metadata.mcp
         /\ ConnectionsFile(a).model = disk[a].model /\ ConnectionsFile(a).knows = disk[a].knows
         /\ /\ record[a] # None /\ offered = Models /\ metadata.models # {}
            /\ record[a].model # None => Allowed(record[a].model)
            => SettingsFile(a).model \in metadata.models /\ SettingsFile(a).model \in SettingsFile(a).knows
  <1>0. /\ metadata.models \subseteq Models /\ metadata.mcp \subseteq Connections
        /\ disk[a] \in Config /\ (record[a] # None => record[a] \in Record)
    BY DEF SettingsTypes, Allowances
  <1> DEFINE m == IF record[a].model # None THEN record[a].model ELSE DefaultModel
             ns == record[a].mcp \cap DefaultConnections
  <1>1. record[a] # None => m \in Models \cup {None} BY <1>0, DefaultAllowed DEF Record
  <1>2. SettingsFile(a) = [disk[a] EXCEPT !.model = m, !.knows = ModelsFile] BY DEF SettingsFile
  <1>3. ModelsFile \subseteq Models /\ (offered = Models => ModelsFile = metadata.models)
    BY <1>0 DEF ModelsFile
  <1>4. ConnectionsFile(a) = [disk[a] EXCEPT !.mcp = ns] BY DEF ConnectionsFile
  <1>5. ns \subseteq metadata.mcp BY DEF DefaultConnections
  <1>6. /\ offered = Models /\ metadata.models # {} /\ (record[a].model # None => Allowed(record[a].model))
        => m \in metadata.models
    BY <1>0, DefaultAllowed DEF Allowed
  <1> HIDE DEF m, ns
  <1>7. SettingsFile(a).model = m /\ SettingsFile(a).knows = ModelsFile /\ SettingsFile(a).mcp = disk[a].mcp
    BY <1>0, <1>2 DEF Config
  <1>8. record[a] # None => SettingsFile(a) \in Config BY <1>0, <1>1, <1>2, <1>3 DEF Config
  <1>9. /\ ConnectionsFile(a) \in Config /\ ConnectionsFile(a).mcp = ns
        /\ ConnectionsFile(a).model = disk[a].model /\ ConnectionsFile(a).knows = disk[a].knows
    BY <1>0, <1>4, <1>5 DEF Config
  <1> QED BY <1>3, <1>5, <1>6, <1>7, <1>8, <1>9

\* A new agent's record is one.
LEMMA NewRecordAllowed ==
  ASSUME SettingsTypes, NEW p \in Profiles, NEW m \in Models \cup {None}, m # None => Allowed(m)
  PROVE  NewRecord(p, m) \in Record
  <1> DEFINE pr == Resolve(p)
             n == IF m # None THEN m ELSE IF pr.model # None /\ Allowed(pr.model) THEN pr.model ELSE DefaultModel
             ns == IF pr.mcp # {} THEN pr.mcp ELSE DefaultConnections
  <1>1. metadata.models \subseteq Models /\ metadata.mcp \subseteq Connections
    BY DEF SettingsTypes, Allowances
  <1>2. pr \in ProfileRec BY DEF SettingsTypes, Resolve
  <1>3. NewRecord(p, m) = [profile |-> p, model |-> n, mcp |-> ns] BY DEF NewRecord
  <1>4. DefaultModel \in Models \cup {None} BY <1>1, DefaultAllowed
  <1> HIDE DEF pr
  <1>5. n \in Models \cup {None} BY <1>2, <1>4 DEF ProfileRec
  <1>6. ns \subseteq Connections BY <1>1, <1>2 DEF ProfileRec, DefaultConnections
  <1> HIDE DEF n, ns
  <1> QED BY <1>3, <1>5, <1>6 DEF Record

--------------------------------------------------------------------------
(* The steps that change what is configured                                *)

\* What holds of a start's files, or of a process, does while what it is about stays.
LEMMA FilesStand ==
  ASSUME NEW c \in Calls, FilesAllowed(c), call'[c] = call[c], left'.configured = left.configured,
         overlapped \subseteq overlapped', metadata' = metadata, record' = record, disk' = disk,
         wrote'[c] = wrote[c], c \in late => c \in late'
  PROVE  FilesAllowed(c)'
  BY DEF FilesAllowed, At, Configured, Allowed

LEMMA RunsStand ==
  ASSUME NEW a \in Agents, RunsAllowed(a), agent'[a].running = agent[a].running,
         agent[a].status = "deleted" => agent'[a].status = "deleted",
         overlapped \subseteq overlapped', left'.configured = left.configured, metadata' = metadata,
         record'[a] = record[a], uses' = uses, astray \subseteq astray',
         Stopping(a) => Stopping(a)', ToRestart(a) => ToRestart(a)' \/ Stopping(a)'
  PROVE  RunsAllowed(a)'
  <1> SUFFICES ASSUME agent[a].running # None, Configured, a \notin overlapped, agent[a].status # "deleted",
                      agent[a].running \notin astray
               PROVE  LET i == agent[a].running IN
                        /\ record[a] # None
                        /\ uses[i].model \in uses[i].knows
                        /\ uses[i].model = record[a].model => Allowed(uses[i].model) \/ Stopping(a)'
                        /\ uses[i].mcp \cap record[a].mcp \subseteq metadata.mcp \/ Stopping(a)' \/ ToRestart(a)'
    BY DEF RunsAllowed, Configured, Allowed
  <1> QED BY DEF RunsAllowed

\* What is being stopped is, while the manager does nothing.
LEMMA StoppingStands ==
  ASSUME NEW a, UNCHANGED vars
  PROVE  Stopping(a)' <=> Stopping(a)
  BY DEF Stopping, At, vars

\* Nothing an agent runs on changes.
LEMMA NothingChanges ==
  ASSUME SettingsInv, SettingsTypes',
         UNCHANGED <<vars, metadata, record, disk, wrote, uses, request, late, astray>>,
         left'.configured = left.configured, left'.agents = left.agents
  PROVE  SettingsInv'
  <1>0. /\ OneConfigured /\ WritersStart /\ (\A c \in Calls : FilesAllowed(c))
        /\ (\A a \in Agents : RunsAllowed(a))
    BY DEF SettingsInv
  <1>1. OneConfigured' BY <1>0 DEF OneConfigured, Configured, At, vars
  <1>2. WritersStart' BY <1>0 DEF WritersStart, At, Configured, vars
  <1>3. \A c \in Calls : FilesAllowed(c)' BY <1>0, FilesStand DEF vars
  <1>4. ASSUME NEW a \in Agents PROVE RunsAllowed(a)'
    <2>1. RunsAllowed(a) BY <1>0
    <2>2. Stopping(a) => Stopping(a)' BY StoppingStands
    <2>3. ToRestart(a) => ToRestart(a)' BY DEF ToRestart
    <2> QED BY <2>1, <2>2, <2>3, RunsStand DEF vars
  <1> QED BY <1>1, <1>2, <1>3, <1>4 DEF SettingsInv

\* The admin's settings on their way, the providers, the connections and the profiles.
LEMMA AroundKeeps ==
  ASSUME SettingsInv, UNCHANGED <<vars, left>>, NEW p, NEW rec,
         \/ AdminStep \/ Deliver \/ RegistryStep \/ RemoveProfile(p)
         \/ rec \in Offers /\ SaveProfile(p, rec)
  PROVE  SettingsInv'
  <1>0. SettingsTypes BY DEF SettingsInv
  <1>1. UNCHANGED <<metadata, record, disk, wrote, uses, request, choice, late, astray>>
    BY Zenon DEF AdminStep, LabelModels, RestrictWorkspace, Deliver, RegistryStep, Reload, Reloaded, Discovers,
                 FindSidecars, Register, RemoveProfile, SaveProfile, files, asked, history, settings
  <1>2. organization' \in Allowances /\ document' \in Allowances
    <2>0. organization \in Allowances /\ document \in Allowances BY <1>0 DEF SettingsTypes
    <2>1. CASE AdminStep
      <3>1. document' = document BY <2>1 DEF AdminStep, LabelModels, RestrictWorkspace
      <3>2. \/ \E ms \in SUBSET Models : organization' = [organization EXCEPT !.models = ms]
            \/ \E ns \in SUBSET Connections : organization' = [organization EXCEPT !.mcp = ns]
        BY <2>1, Zenon DEF AdminStep, LabelModels, RestrictWorkspace, Labels, Restricts
      <3> QED BY <2>0, <3>1, <3>2 DEF Allowances
    <2>2. CASE Deliver BY <2>0, <2>2 DEF Deliver
    <2>3. CASE RegistryStep \/ RemoveProfile(p) \/ SaveProfile(p, rec)
      <3>1. organization' = organization /\ document' = document
        BY <2>3, Zenon DEF RegistryStep, Reload, Reloaded, Discovers, FindSidecars, Register, RemoveProfile,
                           SaveProfile, settings
      <3> QED BY <2>0, <3>1
    <2> QED BY <2>1, <2>2, <2>3
  <1>3. offered' \subseteq Models /\ registered' \subseteq Connections
    <2>0. offered \subseteq Models /\ registered \subseteq Connections BY <1>0 DEF SettingsTypes
    <2>1. CASE RegistryStep
      <3>1. offered' \in {offered, {}, Models \ Discovered, Models}
        BY <2>1, Zenon DEF RegistryStep, Reload, Reloaded, Discovers, FindSidecars, Register
      <3>2. \/ registered' = registered
            \/ \E ns \in SUBSET Connections : registered' = registered \cup ns
            \/ \E n : registered' = registered \ {n}
        <4>1. \/ registered' = registered \/ registered' = registered \cup Sidecars
              \/ \E n \in Connections : registered' \in {registered \cup {n}, registered \ {n}}
          BY <2>1 DEF RegistryStep, Reload, Reloaded, Discovers, FindSidecars, Register, Puts, Removes
        <4>2. Sidecars \subseteq Connections BY ConfigurationAssumption
        <4> QED BY <4>1, <4>2
      <3> QED BY <2>0, <3>1, <3>2
    <2>2. CASE AdminStep \/ Deliver \/ RemoveProfile(p) \/ SaveProfile(p, rec)
      <3>1. offered' = offered /\ registered' = registered
        BY <2>2, Zenon DEF AdminStep, LabelModels, RestrictWorkspace, Deliver, RemoveProfile, SaveProfile, stores
      <3> QED BY <2>0, <3>1
    <2> QED BY <2>1, <2>2
  <1>4. profile' \in [Profiles -> ProfileRec \cup {None}] /\ profile'[DefaultProfile] \in ProfileRec
    <2>0. /\ profile \in [Profiles -> ProfileRec \cup {None}] /\ profile[DefaultProfile] \in ProfileRec
          /\ DefaultProfile \in Profiles /\ (rec \in Offers => rec \in ProfileRec)
      BY <1>0, ConfigurationAssumption, WorkspaceAssumption DEF SettingsTypes
    <2>1. CASE RemoveProfile(p)
      <3>1. p # DefaultProfile /\ profile' = [profile EXCEPT ![p] = None] BY <2>1 DEF RemoveProfile
      <3>2. profile' = [q \in Profiles |-> IF q = p THEN None ELSE profile[q]] BY <2>0, <3>1
      <3> QED BY <2>0, <3>1, <3>2
    <2>2. CASE rec \in Offers /\ SaveProfile(p, rec)
      <3>1. profile' = [q \in Profiles |-> TakesWorker(p, q, rec)] BY <2>2 DEF SaveProfile
      <3>2. ASSUME NEW q \in Profiles
            PROVE  \/ TakesWorker(p, q, rec) \in {rec, profile[q]}
                   \/ /\ profile[q] \in ProfileRec
                      /\ TakesWorker(p, q, rec) = [profile[q] EXCEPT !.worker = FALSE]
        BY <2>0 DEF TakesWorker
      <3>3. ASSUME NEW q \in Profiles, profile[q] \in ProfileRec
            PROVE  [profile[q] EXCEPT !.worker = FALSE] \in ProfileRec
        BY <3>3 DEF ProfileRec
      <3> QED BY <2>0, <2>2, <3>1, <3>2, <3>3
    <2>3. CASE AdminStep \/ Deliver \/ RegistryStep
      <3>1. profile' = profile
        BY <2>3, Zenon DEF AdminStep, LabelModels, RestrictWorkspace, Deliver, RegistryStep, Reload, Reloaded,
                           Discovers, FindSidecars, Register, stores
      <3> QED BY <2>0, <3>1
    <2> QED BY <2>1, <2>2, <2>3
  <1>5. SettingsTypes' BY <1>0, <1>1, <1>2, <1>3, <1>4 DEF SettingsTypes
  <1> QED BY <1>1, <1>5, NothingChanges

\* A request writes the files of its agent, or fails.
LEMMA RequestWritesKeeps ==
  ASSUME TypeOK, SettingsInv, AsksOfAgents, UNCHANGED <<vars, left>>, RequestWrites
  PROVE  SettingsInv'
  <1> DEFINE a == request.agent
  <1>0. /\ SettingsTypes /\ OneConfigured /\ WritersStart /\ (\A c \in Calls : FilesAllowed(c))
        /\ (\A b \in Agents : RunsAllowed(b))
    BY DEF SettingsInv
  <1>1. a \in Agents /\ request \in RequestRec BY DEF AsksOfAgents, RequestRec
  <1>2. /\ UNCHANGED <<settings, stores, record, uses, wrote, choice>>
        /\ astray' = IF request'.pc = "none" /\ request.then = "restart"
                     THEN astray \cup {agent[a].running} ELSE astray
        /\ request.pc # "none"
    BY DEF RequestWrites
  <1>3. \/ /\ request.pc = "settings" /\ request' = [request EXCEPT !.pc = "connections"]
           /\ disk' = [disk EXCEPT ![a] = SettingsFile(a)]
           /\ late' = IF offered # Models THEN late \cup Scaffolding(a) ELSE late
        \/ /\ disk' = [disk EXCEPT ![a] = ConnectionsFile(a)] /\ late' = late
           /\ request' = IF request.then = "none" THEN NoRequest ELSE [request EXCEPT !.pc = "then"]
        \/ request' = NoRequest /\ disk' = disk /\ late' = late
    BY DEF RequestWrites
  <1>4. NoRequest.pc = "none" /\ NoRequest.then = "none" BY DEF NoRequest
  <1>5. OneConfigured'
    <2>1. Configured BY <1>0, <1>2 DEF OneConfigured
    <2>2. request'.pc # "none" => request'.agent = a BY <1>1, <1>3, <1>4 DEF RequestRec
    <2> QED BY <1>0, <1>2, <2>1, <2>2 DEF OneConfigured, Configured, At, vars
  <1>6. WritersStart'
    <2>1. \A c \in late' : c \in late \/ c \in Scaffolding(a) BY <1>3
    <2>2. Configured BY <1>0, <1>2 DEF OneConfigured
    <2> QED BY <1>0, <1>2, <2>1, <2>2 DEF WritersStart, Scaffolding, At, Configured, vars
  <1>7. ASSUME NEW b \in Agents PROVE RunsAllowed(b)'
    <2>1. RunsAllowed(b) BY <1>0
    <2>2. Stopping(b) => Stopping(b)' BY StoppingStands
    <2>3. CASE request'.pc = "none" /\ request.then = "restart" /\ b = a
      <3>1. agent'[b].running \in astray' BY <1>2, <2>3 DEF vars
      <3> QED BY <3>1 DEF RunsAllowed
    <2>4. CASE ~(request'.pc = "none" /\ request.then = "restart" /\ b = a)
      <3>1. ToRestart(b) => ToRestart(b)' BY <1>1, <1>3, <1>4, <2>4 DEF ToRestart, RequestRec
      <3>2. astray \subseteq astray' /\ metadata' = metadata /\ record' = record /\ uses' = uses
        BY <1>2 DEF settings
      <3> QED BY <2>1, <2>2, <3>1, <3>2, RunsStand DEF vars
    <2> QED BY <2>3, <2>4
  <1>8. ASSUME NEW c \in Calls PROVE FilesAllowed(c)'
    <2>0. FilesAllowed(c) BY <1>0
    <2> DEFINE b == call[c].agent
    <2>1. SUFFICES ASSUME Configured, At(c, "scaffold"), c \notin late', b \notin overlapped
                   PROVE  /\ record[b] # None /\ metadata.models # {}
                          /\ record[b].model # None => Allowed(record[b].model)
                          /\ wrote[c] # "nothing" => disk'[b].model \in metadata.models
                                                     /\ disk'[b].model \in disk'[b].knows
                          /\ wrote[c] = "all" => disk'[b].mcp \subseteq metadata.mcp
      BY <1>2 DEF FilesAllowed, Configured, Allowed, At, vars, settings
    <2>2. c \notin late BY <1>3, <2>1
    <2>3. /\ record[b] # None /\ metadata.models # {}
          /\ record[b].model # None => Allowed(record[b].model)
          /\ wrote[c] # "nothing" => disk[b].model \in metadata.models /\ disk[b].model \in disk[b].knows
          /\ wrote[c] = "all" => disk[b].mcp \subseteq metadata.mcp
      BY <2>0, <2>1, <2>2 DEF FilesAllowed
    <2>4. disk \in [Agents -> Config] BY <1>0 DEF SettingsTypes
    <2>5. CASE b = a
      <3>1. CASE /\ disk' = [disk EXCEPT ![a] = SettingsFile(a)]
                 /\ late' = IF offered # Models THEN late \cup Scaffolding(a) ELSE late
        <4>1. disk'[a] = SettingsFile(a) BY <1>1, <2>4, <3>1
        <4>2. offered = Models BY <2>1, <2>5, <3>1 DEF Scaffolding
        <4> QED BY <1>0, <1>1, <2>3, <2>5, <4>1, <4>2, WritesAllowed
      <3>2. CASE disk' = [disk EXCEPT ![a] = ConnectionsFile(a)]
        <4>1. disk'[a] = ConnectionsFile(a) BY <1>1, <2>4, <3>2
        <4> QED BY <1>0, <1>1, <2>3, <2>5, <4>1, WritesAllowed
      <3>3. CASE disk' = disk BY <2>3, <3>3
      <3> QED BY <1>3, <3>1, <3>2, <3>3
    <2>6. CASE b # a
      <3>0. b \in Agents BY DEF TypeOK, CallRec
      <3>1. disk'[b] = disk[b] BY <1>3, <2>4, <2>6, <3>0
      <3> QED BY <2>3, <3>1
    <2> QED BY <2>5, <2>6
  <1>9. SettingsTypes'
    <2>1. disk' \in [Agents -> Config]
      <3>1. CASE disk' = [disk EXCEPT ![a] = SettingsFile(a)] /\ record[a] # None
        BY <1>0, <1>1, <3>1, WritesAllowed DEF SettingsTypes
      <3>2. CASE disk' = [disk EXCEPT ![a] = ConnectionsFile(a)] \/ disk' = disk
        BY <1>0, <1>1, <3>2, WritesAllowed DEF SettingsTypes
      <3>3. record[a] # None BY <1>0, <1>2 DEF OneConfigured
      <3> QED BY <1>3, <3>1, <3>2, <3>3
    <2> QED BY <1>0, <1>2, <2>1 DEF SettingsTypes, settings, stores
  <1> QED BY <1>5, <1>6, <1>7, <1>8, <1>9 DEF SettingsInv

\* An agent is changed: to a model that may be used, or to connections, for a restart.
LEMMA PatchesKeeps ==
  ASSUME TypeOK, SettingsInv, Configured, UNCHANGED <<vars, left>>, NEW a \in Agents, NEW rec \in Record,
         Patches(a, rec), rec.model # None /\ rec.model # record[a].model => Allowed(rec.model),
         choice' \in {choice, None}
  PROVE  SettingsInv'
  <1>0. /\ SettingsTypes /\ OneConfigured /\ WritersStart /\ (\A c \in Calls : FilesAllowed(c))
        /\ (\A b \in Agents : RunsAllowed(b))
    BY DEF SettingsInv
  <1>1. /\ record[a] # None /\ request.pc = "none" /\ record' = [record EXCEPT ![a] = rec]
        /\ request' = [pc |-> "settings", agent |-> a,
                       then |-> IF rec.mcp # record[a].mcp THEN "restart" ELSE "none"]
        /\ UNCHANGED <<settings, stores, disk, wrote, uses, late, astray>>
    BY DEF Patches, files, history
  <1>2. rec # None BY ConfigurationAssumption
  <1>3. record \in [Agents -> Record \cup {None}] /\ uses \in [Instances -> Config] BY <1>0 DEF SettingsTypes
  <1>4. record' \in [Agents -> Record \cup {None}] /\ \A b \in Agents : record'[b] = IF b = a THEN rec ELSE record[b]
    BY <1>1, <1>3
  <1>5. SettingsTypes' BY <1>0, <1>1, <1>4 DEF SettingsTypes, settings, stores
  <1>a. \A c \in Calls : call[c].agent \in Agents BY DEF TypeOK, CallRec
  <1>6. OneConfigured' BY <1>0, <1>1, <1>2, <1>4, <1>a DEF OneConfigured, Configured, At, vars
  <1>7. WritersStart' BY <1>0, <1>1 DEF WritersStart, At, Configured, vars
  <1>8. ASSUME NEW c \in Calls PROVE FilesAllowed(c)'
    <2>1. CASE call[c].agent \in Agents
      BY <1>0, <1>1, <1>2, <1>4, <2>1 DEF FilesAllowed, At, Configured, Allowed, vars, settings
    <2>2. CASE call[c].agent \notin Agents
      <3>1. record'[call[c].agent] = record[call[c].agent] BY <1>1, <1>3, <2>2
      <3> QED BY <1>0, <1>1, <3>1 DEF FilesAllowed, At, Configured, Allowed, vars, settings
    <2> QED BY <2>1, <2>2
  <1>9. ASSUME NEW b \in Agents PROVE RunsAllowed(b)'
    <2>0. RunsAllowed(b) /\ ~ToRestart(b) BY <1>0, <1>1 DEF ToRestart
    <2>1. Stopping(b) => Stopping(b)' BY StoppingStands
    <2>2. CASE b # a
      <3>1. record'[b] = record[b] BY <1>4, <2>2
      <3> QED BY <1>1, <2>0, <2>1, <3>1, RunsStand DEF vars, settings
    <2>3. CASE b = a
      <3> DEFINE i == agent[a].running
      <3>1. SUFFICES ASSUME i # None, a \notin overlapped, agent[a].status # "deleted", i \notin astray
                     PROVE  /\ uses[i].model \in uses[i].knows
                            /\ uses[i].model = rec.model => Allowed(uses[i].model) \/ Stopping(a)
                            /\ uses[i].mcp \cap rec.mcp \subseteq metadata.mcp \/ Stopping(a) \/ ToRestart(a)'
        BY <1>1, <1>2, <1>4, <2>1, <2>3 DEF RunsAllowed, Allowed, vars, settings
      <3>2. /\ uses[i].model \in uses[i].knows
            /\ uses[i].model = record[a].model => Allowed(uses[i].model) \/ Stopping(a)
            /\ uses[i].mcp \cap record[a].mcp \subseteq metadata.mcp \/ Stopping(a)
        BY <2>0, <2>3, <3>1 DEF RunsAllowed
      <3>3. uses[i].knows \subseteq Models
        <4>1. i \in Instances BY <3>1 DEF TypeOK, AgentRec
        <4> QED BY <1>3, <4>1 DEF Config
      <3>4. uses[i].model = rec.model => Allowed(uses[i].model) \/ Stopping(a) BY <3>2, <3>3, ConfigurationAssumption
      <3>5. rec.mcp # record[a].mcp => ToRestart(a)' BY <1>1 DEF ToRestart
      <3> QED BY <3>2, <3>4, <3>5
    <2> QED BY <2>2, <2>3
  <1> QED BY <1>5, <1>6, <1>7, <1>8, <1>9 DEF SettingsInv

\* patchAgent, and a switch of the model that is kept or refused.
LEMMA PatchKeeps ==
  ASSUME TypeOK, SettingsInv, Configured, UNCHANGED <<vars, left>>, NEW a \in Agents, Patch(a) \/ KeepChoice
  PROVE  SettingsInv'
  <1>0. SettingsTypes /\ \A b \in Agents : record[b] # None => record[b] \in Record
    BY DEF SettingsInv, SettingsTypes
  <1>1. ASSUME NEW b \in Agents, NEW m \in Models \cup {None}, record[b] # None
        PROVE  LET rec == [record[b] EXCEPT !.model = m] IN rec \in Record /\ rec.model = m
    BY <1>0, <1>1 DEF Record
  <1>2. CASE Patch(a)
    <2>1. record[a] # None /\ choice' = choice BY <1>2, Zenon DEF Patch
    <2>2. CASE \E m \in Models \cup {None} : (m # None => Allowed(m)) /\ Patches(a, [record[a] EXCEPT !.model = m])
      <3>1. PICK m \in Models \cup {None} : (m # None => Allowed(m)) /\ Patches(a, [record[a] EXCEPT !.model = m])
        BY <2>2
      <3> DEFINE rec == [record[a] EXCEPT !.model = m]
      <3>2. rec \in Record /\ rec.model = m BY <1>1, <2>1
      <3> HIDE DEF rec
      <3>3. Patches(a, rec) BY <3>1 DEF rec
      <3> QED BY <2>1, <3>1, <3>2, <3>3, PatchesKeeps
    <2>3. CASE \E ns \in SUBSET Connections : ns # record[a].mcp /\ Patches(a, [record[a] EXCEPT !.mcp = ns])
      <3>1. PICK ns \in SUBSET Connections : ns # record[a].mcp /\ Patches(a, [record[a] EXCEPT !.mcp = ns])
        BY <2>3
      <3> DEFINE rec == [record[a] EXCEPT !.mcp = ns]
      <3>2. rec \in Record /\ rec.model = record[a].model BY <1>0, <2>1 DEF Record
      <3> HIDE DEF rec
      <3>3. Patches(a, rec) BY <3>1 DEF rec
      <3> QED BY <2>1, <3>2, <3>3, PatchesKeeps
    <2>4. \/ \E m \in Models \cup {None} : (m # None => Allowed(m)) /\ Patches(a, [record[a] EXCEPT !.model = m])
          \/ \E ns \in SUBSET Connections : ns # record[a].mcp /\ Patches(a, [record[a] EXCEPT !.mcp = ns])
      BY <1>2 DEF Patch
    <2> QED BY <2>2, <2>3, <2>4
  <1>3. CASE KeepChoice
    <2>1. choice # None /\ choice' = None BY <1>3 DEF KeepChoice
    <2>2. choice.agent \in Agents /\ choice.model \in Models BY <1>0, <2>1 DEF SettingsTypes
    <2>3. CASE Allowed(choice.model) /\ Patches(choice.agent, [record[choice.agent] EXCEPT !.model = choice.model])
      <3> DEFINE b == choice.agent  rec == [record[b] EXCEPT !.model = choice.model]
      <3>1. record[b] # None BY <2>3 DEF Patches
      <3>2. rec \in Record /\ rec.model = choice.model BY <1>1, <2>2, <3>1
      <3> HIDE DEF rec
      <3>3. Patches(b, rec) BY <2>3 DEF rec
      <3> QED BY <2>1, <2>2, <2>3, <3>2, <3>3, PatchesKeeps
    <2>4. CASE UNCHANGED <<settings, stores, record, files, request, history>>
      <3>1. SettingsTypes' BY <1>0, <2>1, <2>4 DEF SettingsTypes, settings, stores, files
      <3> QED BY <2>4, <3>1, NothingChanges DEF settings, files, history
    <2> QED BY <1>3, <2>3, <2>4 DEF KeepChoice
  <1> QED BY <1>2, <1>3

\* An agent is made; no process was made of one without a record.
LEMMA CreateKeeps ==
  ASSUME TypeOK, SettingsInv, Configured, UNCHANGED <<vars, left>>, NEW a \in left.agents, a \in Agents,
         NEW p \in Profiles, NEW m \in Models \cup {None}, Create(a, p, m)
  PROVE  SettingsInv'
  <1>0. /\ SettingsTypes /\ OneConfigured /\ WritersStart /\ (\A c \in Calls : FilesAllowed(c))
        /\ (\A b \in Agents : RunsAllowed(b))
    BY DEF SettingsInv
  <1>1. /\ record[a] = None /\ request.pc = "none" /\ record' = [record EXCEPT ![a] = NewRecord(p, m)]
        /\ request' = [pc |-> "settings", agent |-> a, then |-> "start"] /\ (m # None => Allowed(m))
        /\ UNCHANGED <<settings, stores, disk, wrote, uses, choice, late, astray>>
    BY DEF Create, files, history
  <1>2. NewRecord(p, m) \in Record /\ NewRecord(p, m) # None
    BY <1>0, <1>1, NewRecordAllowed, ConfigurationAssumption
  <1>3. /\ record \in [Agents -> Record \cup {None}] /\ record' \in [Agents -> Record \cup {None}]
        /\ record'[a] # None /\ \A b : b # a => record'[b] = record[b]
    BY <1>0, <1>1, <1>2 DEF SettingsTypes
  <1>4. SettingsTypes' BY <1>0, <1>1, <1>3 DEF SettingsTypes, settings, stores
  <1>5. OneConfigured' BY <1>0, <1>1, <1>3 DEF OneConfigured, Configured, At, vars
  <1>6. WritersStart' BY <1>0, <1>1 DEF WritersStart, At, Configured, vars
  <1>7. ASSUME NEW c \in Calls PROVE FilesAllowed(c)'
    <2>1. CASE call[c].agent = a
      <3>1. ~(At(c, "scaffold") /\ c \notin late /\ a \notin overlapped) BY <1>0, <1>1, <2>1 DEF FilesAllowed
      <3> QED BY <1>1, <2>1, <3>1 DEF FilesAllowed, At, vars
    <2>2. CASE call[c].agent # a
      <3>1. record'[call[c].agent] = record[call[c].agent] BY <1>3, <2>2
      <3> QED BY <1>0, <1>1, <3>1 DEF FilesAllowed, At, Configured, Allowed, vars, settings
    <2> QED BY <2>1, <2>2
  <1>8. ASSUME NEW b \in Agents PROVE RunsAllowed(b)'
    <2>0. RunsAllowed(b) /\ ~ToRestart(b) BY <1>0, <1>1 DEF ToRestart
    <2>1. Stopping(b) => Stopping(b)' BY StoppingStands
    <2>2. CASE b = a BY <1>1, <2>0, <2>2 DEF RunsAllowed, Configured, vars
    <2>3. CASE b # a
      <3>1. record'[b] = record[b] BY <1>3, <2>3
      <3> QED BY <1>1, <2>0, <2>1, <3>1, RunsStand DEF vars, settings
    <2> QED BY <2>2, <2>3
  <1> QED BY <1>4, <1>5, <1>6, <1>7, <1>8 DEF SettingsInv

\* A process is switched to a model that may be used and that it knows.
LEMMA SetModelKeeps ==
  ASSUME TypeOK, SettingsInv, Configured, UNCHANGED <<vars, left>>, NEW a \in Agents, NEW m \in Models, SetModel(a, m)
  PROVE  SettingsInv'
  <1> DEFINE i == agent[a].running
  <1>0. /\ SettingsTypes /\ OneConfigured /\ WritersStart /\ (\A c \in Calls : FilesAllowed(c))
        /\ (\A b \in Agents : RunsAllowed(b))
    BY DEF SettingsInv
  <1>1. /\ i # None /\ Allowed(m) /\ m \in uses[i].knows /\ uses' = [uses EXCEPT ![i].model = m]
        /\ choice' = [agent |-> a, model |-> m]
        /\ UNCHANGED <<settings, stores, record, disk, wrote, request, late, astray>>
    BY DEF SetModel, Settable, history
  <1>2. i \in Instances /\ uses \in [Instances -> Config] BY <1>0, <1>1 DEF TypeOK, AgentRec, SettingsTypes
  <1>3. [uses[i] EXCEPT !.model = m] \in Config BY <1>2 DEF Config
  <1>4. uses' = [uses EXCEPT ![i] = [uses[i] EXCEPT !.model = m]] BY <1>1
  <1>5. uses' \in [Instances -> Config] BY <1>2, <1>3, <1>4
  <1>6. uses'[i].model = m /\ uses'[i].knows = uses[i].knows /\ uses'[i].mcp = uses[i].mcp
    BY <1>2, <1>4 DEF Config
  <1>7. \A j : j # i => uses'[j] = uses[j] BY <1>1
  <1>8. SettingsTypes' BY <1>0, <1>1, <1>5 DEF SettingsTypes, settings, stores
  <1>9. OneConfigured' BY <1>0, <1>1 DEF OneConfigured, Configured, At, vars
  <1>10. WritersStart' BY <1>0, <1>1 DEF WritersStart, At, Configured, vars
  <1>11. \A c \in Calls : FilesAllowed(c)'
    BY <1>0, <1>1, FilesStand DEF vars, settings
  <1>12. ASSUME NEW b \in Agents PROVE RunsAllowed(b)'
    <2>0. RunsAllowed(b) BY <1>0
    <2>1. (Stopping(b) => Stopping(b)') /\ (ToRestart(b) => ToRestart(b)')
      BY <1>1, StoppingStands DEF ToRestart
    <2>2. CASE agent[b].running = i
      BY <1>1, <1>6, <2>0, <2>1, <2>2 DEF RunsAllowed, Configured, Allowed, vars, settings
    <2>3. CASE agent[b].running # i
      <3>1. uses'[agent[b].running] = uses[agent[b].running] BY <1>7, <2>3
      <3> QED BY <1>1, <2>0, <2>1, <3>1 DEF RunsAllowed, Configured, Allowed, vars, settings
    <2> QED BY <2>2, <2>3
  <1> QED BY <1>8, <1>9, <1>10, <1>11, <1>12 DEF SettingsInv

\* A start writes its agent's files; no other start of the agent is under way.
LEMMA StartWritesKeeps ==
  ASSUME TypeOK, OneStart, SettingsInv, Configured, UNCHANGED <<vars, left>>, NEW c \in Calls, StartWrites(c)
  PROVE  SettingsInv'
  <1> DEFINE a == call[c].agent
  <1>0. /\ SettingsTypes /\ OneConfigured /\ WritersStart /\ (\A d \in Calls : FilesAllowed(d))
        /\ (\A b \in Agents : RunsAllowed(b))
    BY DEF SettingsInv
  <1>1. At(c, "scaffold") /\ UNCHANGED <<settings, stores, record, uses, request, choice, astray>>
    BY DEF StartWrites, asked
  <1>2. \/ /\ wrote[c] = "nothing" /\ wrote' = [wrote EXCEPT ![c] = "settings"]
           /\ disk' = [disk EXCEPT ![a] = SettingsFile(a)]
           /\ late' = IF offered # Models THEN late \cup {c} ELSE late
        \/ /\ wrote[c] = "settings" /\ wrote' = [wrote EXCEPT ![c] = "all"]
           /\ disk' = [disk EXCEPT ![a] = ConnectionsFile(a)] /\ late' = late
    BY DEF StartWrites
  <1>3. /\ a \in Agents /\ \A d \in Calls : call[d].agent \in Agents
        /\ wrote \in [Calls -> {"nothing", "settings", "all"}] /\ disk \in [Agents -> Config]
    BY <1>0 DEF TypeOK, CallRec, SettingsTypes
  <1>4. \A b \in Agents : RunsAllowed(b)'
    BY <1>0, <1>1, StoppingStands, RunsStand DEF vars, settings, ToRestart
  <1>5. OneConfigured' BY <1>0, <1>1 DEF OneConfigured, Configured, At, vars
  <1>6. WritersStart' BY <1>0, <1>1, <1>2, <1>3 DEF WritersStart, At, Configured, vars
  <1>7. SettingsTypes'
    <2>1. wrote' \in [Calls -> {"nothing", "settings", "all"}] BY <1>2, <1>3
    <2>2. ASSUME NEW b \in Agents PROVE disk'[b] \in Config
      <3>1. CASE disk' = [disk EXCEPT ![a] = ConnectionsFile(a)] BY <1>0, <1>3, <3>1, WritesAllowed
      <3>2. CASE disk' = [disk EXCEPT ![a] = SettingsFile(a)] /\ record[a] # None
        BY <1>0, <1>3, <3>2, WritesAllowed
      <3>3. record[a] # None BY <1>0, <1>1 DEF OneConfigured
      <3> QED BY <1>2, <3>1, <3>2, <3>3
    <2> QED BY <1>0, <1>1, <1>2, <1>3, <2>1, <2>2 DEF SettingsTypes, settings, stores
  <1>8. ASSUME NEW d \in Calls PROVE FilesAllowed(d)'
    <2> DEFINE b == call[d].agent
    <2>1. SUFFICES ASSUME At(d, "scaffold"), d \notin late', b \notin overlapped
                   PROVE  /\ record[b] # None /\ metadata.models # {}
                          /\ record[b].model # None => Allowed(record[b].model)
                          /\ wrote'[d] # "nothing" => disk'[b].model \in metadata.models
                                                      /\ disk'[b].model \in disk'[b].knows
                          /\ wrote'[d] = "all" => disk'[b].mcp \subseteq metadata.mcp
      BY <1>1 DEF FilesAllowed, Configured, Allowed, At, vars, settings
    <2>2. d \notin late BY <1>2, <2>1
    <2>3. /\ record[b] # None /\ metadata.models # {}
          /\ record[b].model # None => Allowed(record[b].model)
          /\ wrote[d] # "nothing" => disk[b].model \in metadata.models /\ disk[b].model \in disk[b].knows
          /\ wrote[d] = "all" => disk[b].mcp \subseteq metadata.mcp
      BY <1>0, <2>1, <2>2 DEF FilesAllowed
    <2>4. CASE d = c
      <3>1. CASE /\ wrote' = [wrote EXCEPT ![c] = "settings"] /\ disk' = [disk EXCEPT ![a] = SettingsFile(a)]
                 /\ late' = IF offered # Models THEN late \cup {c} ELSE late
        <4>1. disk'[a] = SettingsFile(a) /\ wrote'[c] = "settings" /\ offered = Models BY <1>3, <2>1, <2>4, <3>1
        <4> QED BY <1>0, <1>3, <2>3, <2>4, <4>1, WritesAllowed
      <3>2. CASE /\ wrote[c] = "settings" /\ wrote' = [wrote EXCEPT ![c] = "all"]
                 /\ disk' = [disk EXCEPT ![a] = ConnectionsFile(a)]
        <4>1. disk'[a] = ConnectionsFile(a) BY <1>3, <3>2
        <4> QED BY <1>0, <1>3, <2>3, <2>4, <3>2, <4>1, WritesAllowed
      <3> QED BY <1>2, <3>1, <3>2
    <2>5. CASE d # c
      <3>1. b # a BY <1>1, <1>3, <2>1, <2>5 DEF OneStart
      <3>2. disk'[b] = disk[b] /\ wrote'[d] = wrote[d] BY <1>2, <1>3, <2>5, <3>1
      <3> QED BY <2>3, <3>2
    <2> QED BY <2>4, <2>5
  <1> QED BY <1>4, <1>5, <1>6, <1>7, <1>8 DEF SettingsInv

--------------------------------------------------------------------------
(* The steps that move the manager                                         *)

\* An agent that may be started runs on what is allowed now, and something is.
LEMMA StartableMeans ==
  ASSUME SettingsTypes, NEW a, Startable(a)
  PROVE  /\ record[a] # None /\ metadata.models # {}
         /\ record[a].model # None => Allowed(record[a].model)
  BY DefaultAllowed DEF Startable, Allowed, SettingsTypes, Allowances

\* A start, a stop or an exit, of which none makes a process: starts that go on have what
\* they wrote, a new one has written nothing, and a change's restart stops the process.
LEMMA QuietKeeps ==
  ASSUME ManagerInv, SettingsInv, Next, MayStart, NEW over, over \subseteq Calls, QuietMoves(over),
         \A c \in over : At(c, "scaffold"),
         UNCHANGED <<left, settings, stores, record, disk, uses, choice, astray>>,
         wrote' \in [Calls -> {"nothing", "settings", "all"}],
         \A c \in Calls : IF c \in over THEN wrote'[c] = "nothing" /\ c \notin late'
                        ELSE wrote'[c] = wrote[c] /\ (c \in late' <=> c \in late),
         \/ request' = request
         \/ /\ request' = NoRequest
            /\ \A a \in Agents : ToRestart(a) => Stopping(a)' \/ agent'[a].running = None
  PROVE  SettingsInv'
  <1>0. /\ SettingsTypes /\ OneConfigured /\ WritersStart /\ (\A c \in Calls : FilesAllowed(c))
        /\ (\A b \in Agents : RunsAllowed(b)) /\ TypeOK
    BY DEF SettingsInv, ManagerInv
  <1>1. metadata' = metadata /\ organization' = organization /\ document' = document BY DEF settings
  <1>2. SettingsTypes' BY <1>0, <1>1 DEF SettingsTypes, stores
  <1>3. ASSUME NEW c \in Calls, At(c, "scaffold")'
        PROVE  \/ call'[c] = call[c] /\ c \notin over
               \/ /\ ~At(c, "scaffold") /\ c \notin over
                  /\ Configured => Startable(call'[c].agent)
    BY <1>3 DEF QuietMoves, MayStart
  <1>4. \A c \in Calls : At(c, "scaffold") /\ c \notin over => At(c, "scaffold")' BY DEF QuietMoves, At
  <1>5. WritersStart' BY <1>0, <1>4 DEF WritersStart, Configured
  <1>6. OneConfigured'
    <2>1. request'.pc # "none" => request' = request BY DEF NoRequest
    <2>2. ASSUME Configured, NEW c \in Calls, At(c, "scaffold")' PROVE record[call'[c].agent] # None
      <3>1. CASE call'[c] = call[c] BY <1>0, <2>2, <3>1 DEF OneConfigured, At
      <3>2. CASE Startable(call'[c].agent) BY <3>2 DEF Startable
      <3> QED BY <1>3, <2>2, <3>1, <3>2
    <2> QED BY <1>0, <2>1, <2>2 DEF OneConfigured, Configured
  <1>7. ASSUME NEW c \in Calls PROVE FilesAllowed(c)'
    <2>1. SUFFICES ASSUME Configured, At(c, "scaffold")', c \notin late'
                   PROVE  FilesAllowed(c)'
      BY DEF FilesAllowed, Configured
    <2>2. CASE call'[c] = call[c] /\ c \notin over
      <3>1. overlapped \subseteq overlapped' BY DEF QuietMoves
      <3> QED BY <1>0, <1>1, <2>2, <3>1, FilesStand
    <2>3. CASE ~At(c, "scaffold") /\ c \notin over /\ Startable(call'[c].agent)
      <3>1. wrote'[c] = "nothing" BY <1>0, <2>3 DEF WritersStart
      <3>2. LET a == call'[c].agent IN
              record[a] # None /\ metadata.models # {} /\ (record[a].model # None => Allowed(record[a].model))
        BY <1>0, <2>3, StartableMeans
      <3> QED BY <1>1, <3>1, <3>2 DEF FilesAllowed, Allowed
    <2> QED BY <1>3, <2>1, <2>2, <2>3
  <1>8. ASSUME NEW a \in Agents PROVE RunsAllowed(a)'
    <2>1. CASE agent'[a].running = None BY <2>1 DEF RunsAllowed
    <2>2. CASE agent'[a].running # None
      <3>1. /\ agent'[a].running = agent[a].running /\ overlapped \subseteq overlapped'
            /\ Stopping(a) => Stopping(a)'
        BY <2>2 DEF QuietMoves
      <3>2. agent[a].status = "deleted" => agent'[a].status = "deleted" BY <1>0, DeletedStays
      <3>3. ToRestart(a) => ToRestart(a)' \/ Stopping(a)'
        <4>1. CASE request' = request BY <4>1 DEF ToRestart
        <4>2. CASE \A b \in Agents : ToRestart(b) => Stopping(b)' \/ agent'[b].running = None BY <2>2, <4>2
        <4> QED BY <4>1, <4>2
      <3>4. RunsAllowed(a) BY <1>0
      <3> QED BY <1>1, <3>1, <3>2, <3>3, <3>4, RunsStand
    <2> QED BY <2>1, <2>2
  <1> QED BY <1>2, <1>5, <1>6, <1>7, <1>8 DEF SettingsInv

\* A stop of an agent whose process is there waits for it.
LEMMA StopWaits ==
  ASSUME TypeOK, NEW a \in Agents, NEW c \in Calls, NEW then, Stop(a, c, then), agent[a].running # None
  PROVE  Stopping(a)'
  <1> DEFINE k == [IdleCall EXCEPT !.pc = "waitIdle", !.agent = a, !.inst = agent[a].running, !.then = then]
  <1>1. /\ call' = [call EXCEPT ![c] = k] /\ agent' = [agent EXCEPT ![a] = CancelPendingRestart(agent[a])]
    BY DEF Stop
  <1>2. k.pc = "waitIdle" /\ k.agent = a /\ k.inst = agent[a].running BY DEF IdleCall
  <1>3. agent'[a].running = agent[a].running
    <2>1. CancelPendingRestart(agent[a]).running = agent[a].running BY CancelEffect DEF TypeOK
    <2> QED BY <1>1, <2>1 DEF TypeOK
  <1> HIDE DEF k
  <1>4. call'[c] = k BY <1>1 DEF TypeOK
  <1> QED BY <1>2, <1>3, <1>4 DEF Stopping, At

\* A request starts its agent, or restarts it if it runs.
LEMMA RequestEndsKeeps ==
  ASSUME ManagerInv, AsksOfAgents, SettingsInv, MayStart, UNCHANGED left, NEW c \in Calls, RequestEnds(c)
  PROVE  SettingsInv'
  <1>a. PICK a \in Agents : a = request.agent BY DEF AsksOfAgents, RequestRec
  <1>0. SettingsTypes /\ TypeOK /\ \A b \in Agents : ToRestart(b) => b = a /\ request.then = "restart"
    BY <1>a DEF SettingsInv, ManagerInv, ToRestart
  <1>1. /\ request' = NoRequest /\ UNCHANGED <<settings, stores, record, disk, wrote, uses, choice, late, astray>>
    BY DEF RequestEnds, files, history
  <1>2. CASE request.then = "start" /\ Start(a, c)
    <2>1. QuietMoves({}) /\ Next BY <1>0, <1>2, ManagerIsQuiet DEF Next
    <2> QED BY <1>0, <1>1, <1>2, <2>1, QuietKeeps DEF SettingsTypes
  <1>3. CASE Stop(a, c, "start") /\ agent[a].running # None
    <2>1. QuietMoves({}) /\ Next BY <1>0, <1>3, ManagerIsQuiet DEF Next
    <2>2. Stopping(a)' BY <1>0, <1>3, StopWaits
    <2> QED BY <1>0, <1>1, <2>1, <2>2, QuietKeeps DEF SettingsTypes
  <1>4. CASE request.then = "restart" /\ agent[a].running = None /\ UNCHANGED vars
    <2>0. /\ OneConfigured /\ WritersStart /\ (\A d \in Calls : FilesAllowed(d))
          /\ (\A b \in Agents : RunsAllowed(b))
      BY DEF SettingsInv
    <2>1. SettingsTypes' BY <1>0, <1>1 DEF SettingsTypes, settings, stores
    <2>2. OneConfigured' BY <1>1, <1>4, <2>0 DEF OneConfigured, Configured, At, vars, NoRequest
    <2>3. WritersStart' BY <1>1, <1>4, <2>0 DEF WritersStart, At, Configured, vars
    <2>4. \A d \in Calls : FilesAllowed(d)' BY <1>1, <1>4, <2>0, FilesStand DEF vars, settings
    <2>5. ASSUME NEW b \in Agents PROVE RunsAllowed(b)'
      <3>1. CASE b = a BY <1>4, <3>1 DEF RunsAllowed, vars
      <3>2. CASE b # a
        <4>1. ~ToRestart(b) BY <1>0, <3>2
        <4>2. Stopping(b) => Stopping(b)' BY <1>4, StoppingStands
        <4> QED BY <1>1, <1>4, <2>0, <4>1, <4>2, RunsStand DEF vars, settings
      <3> QED BY <3>1, <3>2
    <2> QED BY <2>1, <2>2, <2>3, <2>4, <2>5 DEF SettingsInv
  <1> QED BY <1>a, <1>2, <1>3, <1>4 DEF RequestEnds

\* The settings reach the workspace: the agent's process is stopped or restarted unless
\* its record stays within them, and starts under way are overtaken.
LEMMA LoadKeeps ==
  ASSUME ManagerInv, SettingsInv, Configured, UNCHANGED left, NEW a \in left.agents, a \in Agents, NEW c \in Calls,
         Load(a, c)
  PROVE  SettingsInv'
  <1> DEFINE does == IF agent[a].running = None \/ agent[a].status = "deleted" THEN "nothing"
                     ELSE Applies(record[a], document)
  <1>0. /\ SettingsTypes /\ OneConfigured /\ WritersStart /\ (\A d \in Calls : FilesAllowed(d))
        /\ (\A b \in Agents : RunsAllowed(b)) /\ TypeOK
    BY DEF SettingsInv, ManagerInv
  <1>1. /\ metadata' = document /\ late' = late \cup {d \in Calls : At(d, "scaffold")}
        /\ UNCHANGED <<organization, document, stores, record, disk, wrote, uses, request, choice, astray>>
    BY DEF Load, files, asked
  <1>2. \/ does = "nothing" /\ UNCHANGED vars
        \/ \E then \in {"none", "start"} : Stop(a, c, then) /\ agent[a].running # None
    BY DEF Load, Applies
  <1>3. /\ \A d \in Calls : At(d, "scaffold")' <=> At(d, "scaffold")
        /\ \A d \in Calls : At(d, "scaffold") => call'[d] = call[d]
        /\ \A b \in Agents : agent'[b].running = agent[b].running /\ agent'[b].status = agent[b].status
        /\ overlapped' = overlapped
        /\ does = "nothing" \/ Stopping(a)'
    <2>1. CASE does = "nothing" /\ UNCHANGED vars BY <2>1 DEF vars, At
    <2>2. CASE \E then \in {"none", "start"} : Stop(a, c, then) /\ agent[a].running # None
      <3>1. PICK then \in {"none", "start", "delete"} : Stop(a, c, then) /\ agent[a].running # None BY <2>2
      <3>2. PICK q \in AgentRec, k \in CallRec :
              /\ Writes(a, c, q, k)
              /\ q.running = agent[a].running /\ q.status = agent[a].status /\ ~q.timer
              /\ k.pc = "waitIdle" /\ k.inst \in Instances
        BY <1>0, <3>1, StopEffect
      <3>3. overlapped' = overlapped /\ At(c, "idle") BY <1>0, <3>1, StopEffect
      <3>4. Stopping(a)' BY <1>0, <3>1, StopWaits
      <3>5. /\ \A b \in Agents : agent'[b] = IF b = a THEN q ELSE agent[b]
            /\ \A d \in Calls : call'[d] = IF d = c THEN k ELSE call[d]
        BY <1>0, <3>2 DEF Writes, TypeOK
      <3> QED BY <3>2, <3>3, <3>4, <3>5 DEF At
    <2> QED BY <1>2, <2>1, <2>2
  <1>4. SettingsTypes' BY <1>0, <1>1 DEF SettingsTypes, stores
  <1>5. OneConfigured' BY <1>0, <1>1, <1>3 DEF OneConfigured, Configured, At
  <1>6. WritersStart' BY <1>0, <1>1, <1>3 DEF WritersStart, Configured
  <1>7. \A d \in Calls : FilesAllowed(d)' BY <1>1, <1>3 DEF FilesAllowed
  <1>8. ASSUME NEW b \in Agents PROVE RunsAllowed(b)'
    <2> DEFINE i == agent[b].running
    <2>1. SUFFICES ASSUME i # None, b \notin overlapped, agent[b].status # "deleted", i \notin astray
                   PROVE  /\ record[b] # None
                          /\ uses[i].model \in uses[i].knows
                          /\ uses[i].model = record[b].model => uses[i].model \in document.models \/ Stopping(b)'
                          /\ uses[i].mcp \cap record[b].mcp \subseteq document.mcp \/ Stopping(b)'
      BY <1>1, <1>3 DEF RunsAllowed, Allowed
    <2>2. record[b] # None /\ uses[i].model \in uses[i].knows BY <1>0, <2>1 DEF RunsAllowed
    <2>3. b = a BY <1>0, <2>2 DEF OneConfigured
    <2>4. uses[i].knows \subseteq Models
      <3>1. i \in Instances BY <1>0, <2>1 DEF TypeOK, AgentRec
      <3> QED BY <1>0, <3>1 DEF SettingsTypes, Config
    <2>5. uses[i].model # None BY <2>2, <2>4, ConfigurationAssumption
    <2>6. CASE does = "nothing"
      <3>1. /\ record[a].model = None \/ record[a].model \in document.models
            /\ record[a].mcp \subseteq document.mcp
        BY <2>1, <2>3, <2>6 DEF Applies
      <3> QED BY <2>2, <2>3, <2>5, <3>1
    <2> QED BY <1>3, <2>2, <2>3, <2>6
  <1> QED BY <1>4, <1>5, <1>6, <1>7, <1>8 DEF SettingsInv

\* A process is made, on the files its start wrote.
LEMMA SpawnKeepsSettings ==
  ASSUME ManagerInv, SettingsInv, UNCHANGED left, NEW c \in Calls, NEW i \in Instances, Spawn(c, i), FilesOver(c)
  PROVE  SettingsInv'
  <1> DEFINE a == call[c].agent
  <1>0. /\ SettingsTypes /\ OneConfigured /\ WritersStart /\ (\A d \in Calls : FilesAllowed(d))
        /\ (\A b \in Agents : RunsAllowed(b)) /\ TypeOK /\ MapHoldsItsOwn
    BY DEF SettingsInv, ManagerInv
  <1>1. PICK q \in AgentRec, k \in CallRec, p \in InstanceRec :
          /\ agent' = [agent EXCEPT ![a] = q] /\ call' = [call EXCEPT ![c] = k]
          /\ inst' = [inst EXCEPT ![i] = p]
          /\ q.running = i /\ q.timer = agent[a].timer /\ q.status = agent[a].status
          /\ k.pc = "probe" /\ k.inst = i /\ k.agent = a
          /\ p.agent = a /\ p.phase = "alive"
    BY <1>0, SpawnEffect
  <1>2. call[c].pc = "scaffold" /\ inst[i].phase = "unused" /\ overlapped' = overlapped
    BY <1>0, SpawnEffect DEF At
  <1>3. /\ a \in Agents /\ i # None
        /\ \A b \in Agents : agent'[b] = IF b = a THEN q ELSE agent[b]
        /\ \A d \in Calls : call'[d] = IF d = c THEN k ELSE call[d]
    BY <1>0, <1>1, ManagerAssumption DEF TypeOK, CallRec
  <1>4. /\ UNCHANGED <<settings, stores, record, disk, request, choice>>
        /\ \A d \in Calls \ {c} : wrote'[d] = wrote[d] /\ (d \in late' <=> d \in late)
        /\ wrote'[c] = "nothing" /\ c \notin late' /\ wrote' \in [Calls -> {"nothing", "settings", "all"}]
        /\ Configured => /\ wrote[c] = "all" /\ uses' = [uses EXCEPT ![i] = disk[a]]
                         /\ astray' = IF c \in late THEN astray \cup {i} ELSE astray
        /\ ~Configured => uses' = uses
    <2>1. CASE Configured
      <3>1. StartOver(c) BY <2>1 DEF FilesOver
      <3>2. call'[c].inst = i BY <1>1, <1>3
      <3>3. /\ wrote' = [wrote EXCEPT ![c] = "nothing"] /\ late' = late \ {c}
            /\ wrote[c] = "all" /\ uses' = [uses EXCEPT ![i] = disk[a]]
            /\ astray' = IF c \in late THEN astray \cup {i} ELSE astray
            /\ UNCHANGED <<settings, stores, record, disk, asked>>
        BY <1>3, <3>1, <3>2 DEF StartOver, LocalProcess
      <3> QED BY <1>0, <2>1, <3>3 DEF asked, SettingsTypes
    <2>2. CASE ~Configured
      <3>1. UNCHANGED <<settings, stores, record, disk, wrote, uses, asked, late>>
        BY <2>2 DEF FilesOver, configVars, files, history
      <3>2. wrote[c] = "nothing" /\ c \notin late BY <1>0, <2>2 DEF WritersStart
      <3> QED BY <1>0, <2>2, <3>1, <3>2 DEF asked, SettingsTypes
    <2> QED BY <2>1, <2>2
  <1>5. SettingsTypes'
    <2>1. uses' \in [Instances -> Config] BY <1>0, <1>3, <1>4 DEF SettingsTypes
    <2> QED BY <1>0, <1>4, <2>1 DEF SettingsTypes, settings, stores
  <1>6. OneConfigured' BY <1>0, <1>1, <1>3, <1>4 DEF OneConfigured, Configured, At
  <1>7. WritersStart' BY <1>0, <1>1, <1>3, <1>4 DEF WritersStart, Configured, At
  <1>8. ASSUME NEW d \in Calls PROVE FilesAllowed(d)'
    <2>1. CASE d = c BY <1>1, <1>3, <2>1 DEF FilesAllowed, At
    <2>2. CASE d # c
      <3>1. /\ call'[d] = call[d] /\ wrote'[d] = wrote[d] /\ (d \in late => d \in late')
            /\ metadata' = metadata /\ record' = record /\ disk' = disk
        BY <1>3, <1>4, <2>2 DEF settings
      <3> QED BY <1>0, <1>2, <3>1, FilesStand
    <2> QED BY <2>1, <2>2
  <1>9. ASSUME NEW b \in Agents, Configured PROVE RunsAllowed(b)'
    <2>0. metadata' = metadata /\ record' = record /\ request' = request BY <1>4 DEF settings
    <2>1. CASE b = a
      <3>1. SUFFICES ASSUME a \notin overlapped, i \notin astray'
                     PROVE  /\ record[a] # None
                            /\ uses'[i].model \in uses'[i].knows
                            /\ uses'[i].model \in metadata.models
                            /\ uses'[i].mcp \subseteq metadata.mcp
        BY <1>1, <1>2, <1>3, <2>0, <2>1 DEF RunsAllowed, Allowed
      <3>2. c \notin late BY <1>4, <1>9, <3>1
      <3>3. uses'[i] = disk[a] BY <1>0, <1>4, <1>9 DEF SettingsTypes
      <3> QED BY <1>0, <1>2, <1>4, <1>9, <3>1, <3>2, <3>3 DEF FilesAllowed, At
    <2>2. CASE b # a
      <3>1. agent'[b] = agent[b] BY <1>3, <2>2
      <3>2. agent[b].running # None => agent[b].running # i BY <1>0, <1>2 DEF MapHoldsItsOwn
      <3>3. Stopping(b) => Stopping(b)' BY <1>2, <1>3, <3>1 DEF Stopping, At
      <3>a. uses \in [Instances -> Config] /\ agent[b].running \in Instances \cup {None}
        BY <1>0 DEF SettingsTypes, TypeOK, AgentRec
      <3>4. agent[b].running # None => uses'[agent[b].running] = uses[agent[b].running]
        BY <1>4, <1>9, <3>2, <3>a
      <3>5. astray \subseteq astray' BY <1>4, <1>9
      <3>6. RunsAllowed(b) BY <1>0
      <3> QED BY <1>2, <2>0, <3>1, <3>3, <3>4, <3>5, <3>6 DEF RunsAllowed, Configured, Allowed, ToRestart
    <2> QED BY <2>1, <2>2
  <1>10. ASSUME NEW b \in Agents, ~Configured PROVE RunsAllowed(b)'
    BY <1>10 DEF RunsAllowed, Configured
  <1> QED BY <1>5, <1>6, <1>7, <1>8, <1>9, <1>10 DEF SettingsInv

\* The manager's steps, in the workspace.
LEMMA ManagerKeepsSettings ==
  ASSUME ManagerInv, AsksOfAgents, SettingsInv, ManagerStep
  PROVE  SettingsInv'
  <1>0. /\ SettingsTypes /\ TypeOK /\ left.agents \subseteq Agents /\ MayStart /\ left' = left
        /\ wrote \in [Calls -> {"nothing", "settings", "all"}]
    BY DEF SettingsInv, ManagerInv, AsksOfAgents, Scope, ManagerStep, ChatFollows, PiBecomes, chatVars, SettingsTypes
  <1>1. ASSUME UNCHANGED configVars, QuietMoves({}), Next PROVE SettingsInv'
    <2>1. UNCHANGED <<settings, stores, record, disk, wrote, uses, request, choice, late, astray>>
      BY <1>1 DEF configVars, files, asked, history
    <2> QED BY <1>0, <1>1, <2>1, QuietKeeps
  <1>2. CASE Requests
    <2>1. UNCHANGED configVars BY <1>2 DEF Requests
    <2>2. PICK a \in Agents, c \in Calls :
            Start(a, c) \/ Fire(a, c) \/ \E then \in {"none", "start", "delete"} : Stop(a, c, then)
      BY <1>0, <1>2, Zenon DEF Requests
    <2>3. QuietMoves({}) BY <2>2, ManagerIsQuiet
    <2>4. Next BY <2>2, Zenon DEF Next
    <2> QED BY <1>1, <2>1, <2>3, <2>4
  <1>3. CASE Ending
    <2>1. UNCHANGED configVars BY <1>3 DEF Ending
    <2>2. \/ \E c \in Calls : StopFinish(c)
          \/ \E i \in Instances, signalled \in BOOLEAN : Exit(i, signalled)
      BY <1>3, Zenon DEF Ending
    <2>3. QuietMoves({}) BY <2>2, ManagerIsQuiet
    <2>4. Next BY <2>2, Zenon DEF Next
    <2> QED BY <1>1, <2>1, <2>3, <2>4
  <1>4. CASE Starting
    <2>1. CASE \E c \in Calls : (ProbeOk(c) \/ ProbeFail(c)) /\ UNCHANGED <<sandboxVars, configVars>>
      <3>1. UNCHANGED configVars /\ \E c \in Calls : ProbeOk(c) \/ ProbeFail(c) BY <2>1
      <3>2. QuietMoves({}) BY <3>1, ManagerIsQuiet
      <3>3. Next BY <3>1, Zenon DEF Next
      <3> QED BY <1>1, <3>1, <3>2, <3>3
    <2>2. CASE \E c \in Calls, i \in Instances : Spawn(c, i) /\ FilesOver(c)
      BY <1>0, <2>2, SpawnKeepsSettings
    <2>3. ASSUME NEW c \in Calls, ScaffoldFails(c), FilesOver(c) PROVE SettingsInv'
      <3>1. At(c, "scaffold") /\ call' = [call EXCEPT ![c] = IdleCall] BY <1>0, <2>3, ScaffoldFailsEffect
      <3>2. QuietMoves({c}) BY <2>3, ManagerIsQuiet
      <3>3. Next BY <2>3, Zenon DEF Next
      <3>4. call'[c].inst = None BY <1>0, <3>1 DEF TypeOK, IdleCall
      <3>5. /\ UNCHANGED <<settings, stores, record, disk, uses, request, choice, astray>>
            /\ wrote' = [wrote EXCEPT ![c] = "nothing"] /\ late' = late \ {c}
        <4>1. CASE Configured
          BY <2>3, <3>4, <4>1 DEF FilesOver, StartOver, asked
        <4>2. CASE ~Configured
          <5>1. UNCHANGED <<settings, stores, record, disk, uses, request, choice, astray, wrote, late>>
            BY <2>3, <4>2 DEF FilesOver, configVars, files, asked, history
          <5>2. wrote[c] = "nothing" /\ c \notin late BY <4>2 DEF SettingsInv, WritersStart
          <5> QED BY <1>0, <5>1, <5>2
        <4> QED BY <4>1, <4>2
      <3>6. \A d \in Calls : IF d \in {c} THEN wrote'[d] = "nothing" /\ d \notin late'
                             ELSE wrote'[d] = wrote[d] /\ (d \in late' <=> d \in late)
        BY <1>0, <3>5
      <3>7. wrote' \in [Calls -> {"nothing", "settings", "all"}] BY <1>0, <3>5
      <3> QED BY <1>0, <3>1, <3>2, <3>3, <3>5, <3>6, <3>7, QuietKeeps
    <2> QED BY <1>4, <2>1, <2>2, <2>3, Zenon DEF Starting
  <1> QED BY <1>2, <1>3, <1>4 DEF ManagerStep

\* The settings, the agents and their requests, in the workspace.
LEMMA ConfigurationKeeps ==
  ASSUME ManagerInv, AsksOfAgents, SettingsInv, ConfigurationStep
  PROVE  SettingsInv'
  <1>0. /\ TypeOK /\ OneStart /\ left.agents \subseteq Agents /\ MayStart /\ left' = left /\ Configured
    BY DEF ManagerInv, AsksOfAgents, Scope, ConfigurationStep, chatVars
  <1>1. CASE \E c \in Calls : RequestEnds(c) BY <1>0, <1>1, RequestEndsKeeps
  <1>2. CASE \E a \in left.agents, c \in Calls : Load(a, c) BY <1>0, <1>2, LoadKeeps
  <1>3. ASSUME UNCHANGED vars, NEW p, NEW rec,
               \/ AdminStep \/ Deliver \/ RegistryStep \/ RemoveProfile(p)
               \/ rec \in Offers /\ SaveProfile(p, rec)
        PROVE  SettingsInv'
    BY <1>0, <1>3, AroundKeeps
  <1>4. CASE UNCHANGED vars /\ RequestWrites BY <1>0, <1>4, RequestWritesKeeps
  <1>5. CASE UNCHANGED vars /\ (KeepChoice \/ \E a \in left.agents : Patch(a))
    <2>1. Agents # {} BY ManagerAssumption
    <2> QED BY <1>0, <1>5, <2>1, PatchKeeps
  <1>6. CASE /\ UNCHANGED vars
             /\ \E a \in left.agents : \E p \in Profiles, m \in Models \cup {None} : Create(a, p, m)
    BY <1>0, <1>6, CreateKeeps
  <1>7. CASE UNCHANGED vars /\ \E a \in left.agents, m \in Models : SetModel(a, m)
    BY <1>0, <1>7, SetModelKeeps
  <1>8. CASE UNCHANGED vars /\ \E c \in Calls : StartWrites(c)
    BY <1>0, <1>8, StartWritesKeeps
  <1> QED BY <1>1, <1>2, <1>3, <1>4, <1>5, <1>6, <1>7, <1>8, Zenon DEF ConfigurationStep

\* What goes on around the agents: conversations, dialogs, sandboxes.
LEMMA ElsewhereKeeps ==
  ASSUME SettingsInv, AsksOfAgents, SandboxStep \/ ChatSteps \/ DialogSteps \/ UNCHANGED allVars
  PROVE  SettingsInv'
  <1>1. UNCHANGED <<vars, configVars>> BY DEF SandboxStep, ChatSteps, DialogSteps, allVars
  <1>2. left'.configured = left.configured /\ left'.agents = left.agents
    <2>1. CASE ChatSteps
      <3>1. \/ left' = left
            \/ \E q \in {"open", "prompt", "new", "timeout", "drop", "tool", "report"} : Spend(q)
        BY <2>1, Zenon DEF ChatSteps, ChatStep, OpenChat, Prompt, NewSession, Receives, BootTimesOut, SocketDrops,
               SocketOpens, ServerReceives, ReadChunk, PiReads, PiSpeaks, PiUsesTool, PiEndsTurn, PiSettles, PiReports
      <3>2. ASSUME NEW q \in {"open", "prompt", "new", "timeout", "drop", "tool", "report"}, Spend(q)
            PROVE  left'.configured = left.configured /\ left'.agents = left.agents
        BY <3>2 DEF Spend, AsksOfAgents, Scope
      <3> QED BY <3>1, <3>2
    <2>2. CASE ~ChatSteps
      <3>1. left' = left BY <2>2 DEF SandboxStep, DialogSteps, allVars, chatVars
      <3> QED BY <3>1
    <2> QED BY <2>1, <2>2
  <1>3. UNCHANGED <<settings, stores, record, disk, wrote, uses, request, choice, late, astray>>
    BY <1>1 DEF configVars, files, asked, history
  <1>4. SettingsTypes' BY <1>3 DEF SettingsInv, SettingsTypes, settings, stores
  <1> QED BY <1>1, <1>2, <1>3, <1>4, NothingChanges DEF settings

\* Every step keeps it.
LEMMA SettingsStep == ManagerInv /\ AsksOfAgents /\ SettingsInv /\ [WorkspaceNext]_allVars => SettingsInv'
  BY ManagerKeepsSettings, ConfigurationKeeps, ElsewhereKeeps DEF WorkspaceNext

\* Nothing is configured, and nothing runs.
LEMMA SettingsBegin == WorkspaceInit => SettingsInv
  <1> SUFFICES ASSUME WorkspaceInit PROVE SettingsInv OBVIOUS
  <1>0. /\ \A a \in Agents : agent[a].running = None
        /\ \A c \in Calls : call[c].pc = "idle"
        /\ left \in Scopes /\ ConfigurationInit
    BY IdleTypes DEF WorkspaceInit, Init
  <1>1. Everything \in Allowances BY DEF Everything, Allowances
  <1>2. Blank \in Config BY DEF Blank, Config
  <1>3. DefaultProfile \in Profiles /\ [model |-> None, mcp |-> {}, worker |-> FALSE] \in ProfileRec
    BY ConfigurationAssumption DEF ProfileRec
  <1>4. SettingsTypes BY <1>0, <1>1, <1>2, <1>3 DEF ConfigurationInit, SettingsTypes
  <1>5. OneConfigured BY <1>0, WorkspaceAssumption DEF ConfigurationInit, OneConfigured, Configured, NoRequest, At
  <1>6. WritersStart BY <1>0 DEF ConfigurationInit, WritersStart
  <1>7. \A c \in Calls : FilesAllowed(c) BY <1>0 DEF FilesAllowed, At
  <1>8. \A a \in Agents : RunsAllowed(a) BY <1>0 DEF RunsAllowed
  <1> QED BY <1>4, <1>5, <1>6, <1>7, <1>8 DEF SettingsInv

\* Once nothing is under way, what is being stopped is none.
LEMMA SettingsSettle == SettingsInv => SettingsHold
  <1> SUFFICES ASSUME SettingsInv, Settled, NEW a \in Agents \ overlapped,
                      agent[a].running # None, record[a] # None, agent[a].status # "deleted",
                      agent[a].running \notin astray
               PROVE  LET i == agent[a].running IN
                        /\ uses[i].model = record[a].model => Allowed(uses[i].model)
                        /\ uses[i].mcp \cap record[a].mcp \subseteq metadata.mcp
                        /\ uses[i].model \in uses[i].knows
    BY DEF SettingsHold
  <1>1. ~Stopping(a) /\ ~ToRestart(a) BY DEF Settled, Stopping, ToRestart, At
  <1>2. Configured /\ RunsAllowed(a) BY DEF SettingsInv, OneConfigured
  <1> QED BY <1>1, <1>2 DEF RunsAllowed

\* What the admin no longer allows is not used: once all is settled no agent's process runs
\* a model, or reaches a connection, that its record names and the organization does not
\* allow, whatever the settings, the operator, the starts and the crashes did.
THEOREM SettingsAreHeld == WorkspaceSpec => []SettingsHold
  BY SettingsBegin, SettingsStep, SettingsSettle, ManagerInvHere, AsksAlways, PTL DEF WorkspaceSpec

--------------------------------------------------------------------------
(* The types of the workspace                                              *)

\* The dialogs on their way to tabs, shown there and answered are raised ones, and a connection
\* that is closed forwards nothing.
DialogTypes ==
    /\ coming \in [Tabs -> SUBSET DialogIds] /\ shows \in [Tabs -> SUBSET DialogIds] /\ answers \in [Tabs -> SUBSET DialogIds]
    /\ \A t \in Tabs : /\ coming[t] \subseteq raised /\ shows[t] \subseteq raised /\ answers[t] \subseteq raised
                       /\ t \notin open => pending[t] = {} /\ coming[t] = {} /\ answers[t] = {}

\* What a start prepares is a sandbox, and only one there is is broken.
SandboxTypes ==
    /\ prepared \in [Calls -> {"none", "seed", "ready"}]
    /\ \A c \in Calls : prepared[c] # "none" => At(c, "scaffold")
    /\ \A a \in Agents : sandbox[a].broken => sandbox[a].there

\* At most one profile is the graph worker's.
OneWorker == \A p, q \in Profiles : profile[p] # None /\ profile[p].worker /\ profile[q] # None /\ profile[q].worker => p = q

\* A step of the dialogs keeps them so.
LEMMA DialogTypesStep ==
  ASSUME ManagerInv, DialogInv, DialogTypes, NEW alive, DialogStep(agent[Shown].running, alive)
  PROVE  DialogTypes'
  <1> DEFINE running == agent[Shown].running
  <1> DEFINE Holds ==
        /\ coming' \in [Tabs -> SUBSET DialogIds] /\ shows' \in [Tabs -> SUBSET DialogIds] /\ answers' \in [Tabs -> SUBSET DialogIds]
        /\ \A t \in Tabs : /\ coming'[t] \subseteq raised' /\ shows'[t] \subseteq raised' /\ answers'[t] \subseteq raised'
                           /\ t \notin open' => pending'[t] = {} /\ coming'[t] = {} /\ answers'[t] = {}
  <1>1. /\ coming \in [Tabs -> SUBSET DialogIds] /\ shows \in [Tabs -> SUBSET DialogIds] /\ answers \in [Tabs -> SUBSET DialogIds]
        /\ \A t \in Tabs : /\ coming[t] \subseteq raised /\ shows[t] \subseteq raised /\ answers[t] \subseteq raised
                           /\ t \notin open => pending[t] = {} /\ coming[t] = {} /\ answers[t] = {}
        /\ pending \in [Tabs -> SUBSET DialogIds] /\ raised \subseteq DialogIds
    BY DEF DialogTypes, DialogInv
  <1> HIDE DEF running
  <1>2. ASSUME NEW t \in Tabs, TabOpens(t) PROVE Holds
    <2>1. open' = open \cup {t} /\ UNCHANGED <<pending, coming, shows, answers, raised>> BY <1>2 DEF TabOpens
    <2> QED BY <1>1, <2>1
  <1>3. ASSUME NEW t \in Tabs, TabCloses(t, running) PROVE Holds
    <2>1. /\ open' = open \ {t} /\ pending' = [pending EXCEPT ![t] = {}] /\ coming' = [coming EXCEPT ![t] = {}]
          /\ answers' = [answers EXCEPT ![t] = {}] /\ UNCHANGED <<shows, raised>>
      BY <1>3 DEF TabCloses
    <2>2. coming' \in [Tabs -> SUBSET DialogIds] /\ shows' \in [Tabs -> SUBSET DialogIds] /\ answers' \in [Tabs -> SUBSET DialogIds]
      BY <1>1, <2>1
    <2>3. ASSUME NEW u \in Tabs
          PROVE  /\ coming'[u] \subseteq raised' /\ shows'[u] \subseteq raised' /\ answers'[u] \subseteq raised'
                 /\ u \notin open' => pending'[u] = {} /\ coming'[u] = {} /\ answers'[u] = {}
      <3>1. CASE u = t BY <1>1, <2>1, <3>1
      <3>2. CASE u # t BY <1>1, <2>1, <3>2
      <3> QED BY <3>1, <3>2
    <2> QED BY <2>2, <2>3
  <1>4. ASSUME NEW t \in Tabs, NEW d \in DialogIds, TabShows(t, d) \/ TabAnswers(t, d) PROVE Holds
    <2>1. CASE TabShows(t, d)
      <3>1. /\ d \in coming[t] /\ coming' = [coming EXCEPT ![t] = @ \ {d}] /\ shows' = [shows EXCEPT ![t] = @ \cup {d}]
            /\ UNCHANGED <<open, pending, answers, raised>>
        BY <2>1 DEF TabShows
      <3>2. coming' \in [Tabs -> SUBSET DialogIds] /\ shows' \in [Tabs -> SUBSET DialogIds] BY <1>1, <3>1
      <3>3. \A u \in Tabs : /\ coming'[u] \subseteq coming[u]
                            /\ shows'[u] \subseteq raised
        BY <1>1, <3>1
      <3> QED BY <1>1, <3>1, <3>2, <3>3
    <2>2. CASE TabAnswers(t, d)
      <3>1. /\ d \in shows[t] /\ t \in open /\ shows' = [shows EXCEPT ![t] = @ \ {d}] /\ answers' = [answers EXCEPT ![t] = @ \cup {d}]
            /\ UNCHANGED <<open, pending, coming, raised>>
        BY <2>2 DEF TabAnswers
      <3>2. answers' \in [Tabs -> SUBSET DialogIds] /\ shows' \in [Tabs -> SUBSET DialogIds] BY <1>1, <3>1
      <3>3. \A u \in Tabs : /\ shows'[u] \subseteq shows[u] /\ answers'[u] \subseteq raised
                            /\ u \notin open => answers'[u] = answers[u]
        BY <1>1, <3>1
      <3> QED BY <1>1, <3>1, <3>2, <3>3
    <2> QED BY <1>4, <2>1, <2>2
  <1>5. ASSUME NEW t \in Tabs, NEW d \in DialogIds, ServerHears(t, d, running) PROVE Holds
    <2>1. /\ answers' = [answers EXCEPT ![t] = @ \ {d}] /\ pending' = [pending EXCEPT ![t] = @ \ {d}]
          /\ UNCHANGED <<open, coming, shows, raised>>
      BY <1>5 DEF ServerHears
    <2>2. answers' \in [Tabs -> SUBSET DialogIds] /\ \A u \in Tabs : answers'[u] \subseteq answers[u] /\ pending'[u] \subseteq pending[u]
      BY <1>1, <2>1
    <2> QED BY <1>1, <2>1, <2>2
  <1>6. ASSUME NEW t \in Tabs, NEW d \in DialogIds, TimerFires(t, d, running) PROVE Holds
    <2>1. pending' = [pending EXCEPT ![t] = @ \ {d}] /\ UNCHANGED <<open, coming, shows, answers, raised>> BY <1>6 DEF TimerFires
    <2>2. \A u \in Tabs : pending'[u] \subseteq pending[u] BY <1>1, <2>1
    <2> QED BY <1>1, <2>1, <2>2
  <1>7. ASSUME NEW d \in DialogIds, Raise(d, running) PROVE Holds
    <2>1. /\ raised' = raised \cup {d}
          /\ pending' = [t \in Tabs |-> IF t \in open THEN pending[t] \cup {d} ELSE pending[t]]
          /\ coming' = [t \in Tabs |-> IF t \in open THEN coming[t] \cup {d} ELSE coming[t]]
          /\ UNCHANGED <<open, shows, answers>>
      BY <1>7 DEF Raise
    <2>2. coming' \in [Tabs -> SUBSET DialogIds] BY <1>1, <2>1
    <2>3. \A u \in Tabs : /\ coming'[u] \subseteq raised'
                          /\ u \notin open => coming'[u] = coming[u] /\ pending'[u] = pending[u]
      BY <1>1, <2>1
    <2> QED BY <1>1, <2>1, <2>2, <2>3
  <1>8. ASSUME NEW d \in DialogIds, NEW i \in alive, PiHears(d, i) PROVE Holds
    <2>1. UNCHANGED <<open, pending, coming, shows, answers, raised>> BY <1>8 DEF PiHears
    <2> QED BY <1>1, <2>1
  <1>9. DialogStep(running, alive) BY DEF running
  <1>10. Holds => DialogTypes' BY DEF DialogTypes
  <1> HIDE DEF Holds
  <1> QED BY <1>2, <1>3, <1>4, <1>5, <1>6, <1>7, <1>8, <1>9, <1>10 DEF DialogStep

\* What the manager does to the slots of starts.
LEMMA ScaffoldsStand ==
  ASSUME ManagerInv, AsksOfAgents, ManagerStep \/ ConfigurationStep, NEW c \in Calls, At(c, "scaffold"), ~At(c, "scaffold")'
  PROVE  PrepareOver(c)
  <1>0. /\ \A d \in Calls : call[d].agent \in Agents /\ left.agents \subseteq Agents /\ request.agent \in Agents
        /\ call \in [Calls -> CallRec]
    BY DEF ManagerInv, TypeOK, CallRec, AsksOfAgents, Scope, RequestRec
  <1>1. ~QuietMoves({}) BY DEF QuietMoves, At
  <1>2. ASSUME NEW a \in Agents, NEW d \in Calls,
               Start(a, d) \/ Fire(a, d) \/ \E then \in {"none", "start", "delete"} : Stop(a, d, then)
        PROVE  FALSE
    BY <1>1, <1>2, ManagerIsQuiet
  <1>3. ~UNCHANGED vars BY DEF vars, At
  <1>4. CASE ConfigurationStep
    <2>1. CASE \E d \in Calls : RequestEnds(d) BY <1>0, <1>2, <1>3, <2>1, Zenon DEF RequestEnds
    <2>2. CASE \E a \in left.agents, d \in Calls : Load(a, d) BY <1>0, <1>2, <1>3, <2>2, Zenon DEF Load
    <2> QED BY <1>3, <1>4, <2>1, <2>2, Zenon DEF ConfigurationStep
  <1>5. CASE ManagerStep
    <2>1. CASE Requests BY <1>0, <1>2, <2>1, Zenon DEF Requests
    <2>2. CASE Starting
      <3>1. PICK d \in Calls : \/ ScaffoldFails(d) /\ PrepareOver(d)
                               \/ \E i \in Instances : Spawn(d, i) /\ PrepareOver(d)
                               \/ ProbeOk(d) \/ ProbeFail(d)
        BY <2>2, Zenon DEF Starting
      <3>2. ~(ProbeOk(d) \/ ProbeFail(d)) BY <1>1, ManagerIsQuiet
      <3>3. CASE ScaffoldFails(d) /\ PrepareOver(d)
        <4>1. QuietMoves({d}) BY <3>3, ManagerIsQuiet
        <4>2. c = d BY <4>1 DEF QuietMoves, At
        <4> QED BY <3>3, <4>2
      <3>4. CASE \E i \in Instances : Spawn(d, i) /\ PrepareOver(d)
        <4>1. PICK i \in Instances : Spawn(d, i) /\ PrepareOver(d) BY <3>4
        <4>2. call' = [call EXCEPT ![d].pc = "probe", ![d].inst = i] BY <4>1 DEF Spawn
        <4>3. c = d BY <1>0, <4>2 DEF At
        <4> QED BY <4>1, <4>3
      <3> QED BY <3>1, <3>2, <3>3, <3>4
    <2>3. CASE Ending
      <3>1. \/ \E d \in Calls : StopFinish(d)
            \/ \E i \in Instances, signalled \in BOOLEAN : Exit(i, signalled)
        BY <2>3, Zenon DEF Ending
      <3> QED BY <1>1, <3>1, ManagerIsQuiet
    <2> QED BY <1>5, <2>1, <2>2, <2>3 DEF ManagerStep
  <1> QED BY <1>4, <1>5


\* A process that can say something, the newest there is, is a process or none.
LEMMA LatestIs == ASSUME NEW S \in SUBSET Instances PROVE Latest(S) \in Instances \cup {None}
  <1>1. CASE S = {} BY <1>1 DEF Latest
  <1>2. CASE S # {}
    <2> DEFINE D == {MaxInstances - i : i \in S}
    <2>0. MaxInstances \in Nat /\ \A i \in S : i \in Nat /\ i <= MaxInstances BY ManagerAssumption DEF Instances
    <2>1. D \in SUBSET Nat /\ D # {} BY <1>2, <2>0
    <2>2. PICK d \in D : \A e \in D : d <= e BY <2>1, Least
    <2>3. PICK i \in S : d = MaxInstances - i BY <2>2
    <2>4. \A j \in S : j <= i BY <2>0, <2>2, <2>3
    <2> QED BY <1>2, <2>4 DEF Latest
  <1> QED BY <1>1, <1>2

\* The conversation is of the agent's newest process that can say something.
PiIsLatest == pi.inst = Latest(Speaking(Shown))

\* The conversation goes over to the agent's newest process, and keeps its types.
LEMMA ChatUnderManager ==
  ASSUME ChatTypes, PiIsLatest, ChatFollows
  PROVE  ChatTypes' /\ PiIsLatest'
  <1> DEFINE S == Speaking(Shown)'
             i == Latest(S)
  <1>0. S \in SUBSET Instances BY DEF Speaking
  <1>1. i \in Instances \cup {None} BY <1>0, LatestIs
  <1>2. Latest(Speaking(Shown))' = i BY DEF Latest
  <1>a. pi \in PiRec BY DEF ChatTypes, PiRight
  <1>3. CASE i = pi.inst
    <2>1. UNCHANGED chatVars BY <1>3 DEF ChatFollows
    <2>2. ChatTypes' BY <2>1 DEF ChatTypes, chatVars
    <2>3. pi' = pi BY <2>1 DEF chatVars
    <2> QED BY <1>2, <1>3, <2>2, <2>3 DEF PiIsLatest
  <1>4. CASE i # pi.inst
    <2>1. PiBecomes(i) BY <1>4 DEF ChatFollows
    <2>2. ChatTypes' BY <1>1, <2>1, BecomesTypes
    <2>3. pi'.inst = i BY <1>a, <2>1 DEF PiBecomes, PiRec
    <2> QED BY <1>2, <2>2, <2>3 DEF PiIsLatest
  <1> QED BY <1>3, <1>4

\* What the settings' requests do to the manager ends no process and starts none.
LEMMA SpeakingStays ==
  ASSUME ManagerInv, AsksOfAgents, ConfigurationStep
  PROVE  Speaking(Shown)' = Speaking(Shown)
  <1>0. /\ TypeOK /\ inst \in [Instances -> InstanceRec] /\ left.agents \subseteq Agents /\ request.agent \in Agents
    BY DEF ManagerInv, TypeOK, AsksOfAgents, Scope, RequestRec
  <1>1. \/ UNCHANGED vars
        \/ \E a \in Agents, c \in Calls : Start(a, c) \/ \E then \in {"none", "start", "delete"} : Stop(a, c, then)
    <2>1. CASE \E c \in Calls : RequestEnds(c) BY <1>0, <2>1, Zenon DEF RequestEnds
    <2>2. CASE \E a \in left.agents, c \in Calls : Load(a, c) BY <1>0, <2>2, Zenon DEF Load
    <2>3. CASE UNCHANGED vars BY <2>3
    <2> QED BY <2>1, <2>2, <2>3, Zenon DEF ConfigurationStep
  <1>2. ASSUME inst' = inst PROVE Speaking(Shown)' = Speaking(Shown) BY <1>2 DEF Speaking
  <1>3. CASE UNCHANGED vars BY <1>2, <1>3 DEF vars
  <1>4. ASSUME NEW a \in Agents, NEW c \in Calls, Start(a, c) PROVE inst' = inst BY <1>4 DEF Start
  <1>5. ASSUME NEW a \in Agents, NEW c \in Calls, NEW then \in {"none", "start", "delete"}, Stop(a, c, then)
        PROVE  Speaking(Shown)' = Speaking(Shown)
    <2>1. CASE agent[a].running = None
      <3>1. inst' = inst BY <1>5, <2>1, Zenon DEF Stop
      <3> QED BY <1>2, <3>1
    <2>2. CASE agent[a].running # None
      <3>1. inst' = [inst EXCEPT ![agent[a].running].stopReq = TRUE] BY <1>0, <1>5, <2>2, StopEffect
      <3>2. \A i \in Instances : inst'[i].phase = inst[i].phase /\ inst'[i].signal = inst[i].signal
                                 /\ inst'[i].agent = inst[i].agent
        BY <1>0, <3>1 DEF InstanceRec
      <3> QED BY <3>2 DEF Speaking
    <2> QED BY <2>1, <2>2
  <1> QED BY <1>1, <1>2, <1>3, <1>4, <1>5

\* What follows a stop, and what a start's end leaves, is nothing a sandbox is made of.
LEMMA SandboxesUnderManager ==
  ASSUME ManagerInv, AsksOfAgents, SandboxInv, SandboxTypes, ManagerStep \/ ConfigurationStep
  PROVE  SandboxTypes'
  <1>1. sandbox' = sandbox /\ (prepared' = prepared \/ \E d \in Calls : prepared' = [prepared EXCEPT ![d] = "none"])
    <2>1. CASE UNCHANGED sandboxVars BY <2>1 DEF sandboxVars
    <2>2. CASE \E d \in Calls : PrepareOver(d) BY <2>2, Zenon DEF PrepareOver
    <2>3. CASE \E a, c, then : AfterTheStop(a, c, then) BY <2>1, <2>3, Zenon DEF AfterTheStop, Releases, Purges
    <2>4. Requests => UNCHANGED sandboxVars \/ \E a, c, then : AfterTheStop(a, c, then) BY Zenon DEF Requests
    <2>5. Starting => UNCHANGED sandboxVars \/ \E c \in Calls : PrepareOver(c) BY Zenon DEF Starting
    <2>6. Ending => UNCHANGED sandboxVars \/ \E a, c, then : AfterTheStop(a, c, then) BY Zenon DEF Ending
    <2> QED BY <2>1, <2>2, <2>3, <2>4, <2>5, <2>6, Zenon DEF ManagerStep, ConfigurationStep
  <1>2. prepared \in [Calls -> {"none", "seed", "ready"}] /\ \A c \in Calls : prepared[c] # "none" => At(c, "scaffold")
    BY DEF SandboxTypes
  <1>3. prepared' \in [Calls -> {"none", "seed", "ready"}] /\ \A c \in Calls : prepared'[c] \in {prepared[c], "none"}
    BY <1>1, <1>2
  <1>4. ASSUME NEW c \in Calls, prepared'[c] # "none" PROVE At(c, "scaffold")'
    <2>1. At(c, "scaffold") BY <1>2, <1>3, <1>4
    <2>2. ASSUME ~At(c, "scaffold")' PROVE FALSE
      <3>1. PrepareOver(c) BY <2>1, <2>2, ScaffoldsStand
      <3> QED BY <1>2, <1>4, <3>1 DEF PrepareOver
    <2> QED BY <2>2
  <1> QED BY <1>1, <1>3, <1>4 DEF SandboxTypes

\* The sandboxes' own steps: a start's is made and filled, and what breaks is there.
LEMMA SandboxesMove ==
  ASSUME ManagerInv, SandboxInv, SandboxTypes, SandboxStep
  PROVE  SandboxTypes'
  <1>0. /\ sandbox \in [Agents -> SandboxRec] /\ after \in [Calls -> Afters] /\ UNCHANGED vars
        /\ \A c \in Calls : call[c].agent \in Agents /\ after[c].agent \in Agents
    BY DEF SandboxInv, Afters, SandboxStep, ManagerInv, TypeOK, CallRec
  <1>1. /\ prepared \in [Calls -> {"none", "seed", "ready"}] /\ \A c \in Calls : prepared[c] # "none" => At(c, "scaffold")
        /\ \A a \in Agents : sandbox[a].broken => sandbox[a].there
    BY DEF SandboxTypes
  <1>2. \A c \in Calls : At(c, "scaffold")' <=> At(c, "scaffold") BY <1>0 DEF At, vars
  <1>3. ASSUME prepared' \in [Calls -> {"none", "seed", "ready"}],
               \A c \in Calls : prepared'[c] # "none" => At(c, "scaffold"),
               sandbox' = sandbox \/ \E a \in Agents, box \in SandboxRec :
                                        sandbox' = [sandbox EXCEPT ![a] = box] /\ (box.broken => box.there)
        PROVE  SandboxTypes'
    <2>1. \A a \in Agents : sandbox'[a].broken => sandbox'[a].there BY <1>0, <1>1, <1>3
    <2> QED BY <1>2, <1>3, <2>1 DEF SandboxTypes
  <1> DEFINE New == [NoSandbox EXCEPT !.there = TRUE]
  <1>4. /\ NoSandbox \in SandboxRec /\ ~NoSandbox.broken /\ New \in SandboxRec /\ ~New.broken
    BY DEF NoSandbox, SandboxRec
  <1> HIDE DEF New
  <1>5. ASSUME NEW c \in Calls, At(c, "scaffold"), NEW a \in Agents, EnsureSandbox(a, c) PROVE SandboxTypes'
    <2>1. \E p \in {"ready", "seed"} : prepared' = [prepared EXCEPT ![c] = p] BY <1>5 DEF EnsureSandbox
    <2>2. sandbox' = [sandbox EXCEPT ![a] = sandbox[a]] \/ sandbox' = [sandbox EXCEPT ![a] = New]
      BY <1>5 DEF EnsureSandbox, New
    <2>3. sandbox' = sandbox \/ sandbox' = [sandbox EXCEPT ![a] = New] BY <1>0, <2>2
    <2> QED BY <1>1, <1>3, <1>4, <1>5, <2>1, <2>3
  <1>6. ASSUME NEW c \in Calls, At(c, "scaffold"), NEW a \in Agents, Seed(a, c) PROVE SandboxTypes'
    <2> DEFINE H == IF sandbox[a].there THEN sandbox[a].has \cup saved[a] ELSE sandbox[a].has
               box == [sandbox[a] EXCEPT !.has = H]
    <2>1. prepared' = [prepared EXCEPT ![c] = "ready"] BY <1>6 DEF Seed
    <2>2. H \in SUBSET Nat BY <1>0 DEF SandboxInv, SandboxRec
    <2>3. sandbox' = sandbox \/ sandbox' = [sandbox EXCEPT ![a] = box] BY <1>6 DEF Seed
    <2> HIDE DEF H
    <2>4. box \in SandboxRec /\ (box.broken => box.there) BY <1>0, <1>1, <2>2 DEF SandboxRec
    <2> QED BY <1>1, <1>3, <1>6, <2>1, <2>3, <2>4
  <1>7. ASSUME NEW a \in Agents, NEW i, Says(a, i) PROVE SandboxTypes'
    <2> DEFINE m == said[a] + 1
               box == [sandbox[a] EXCEPT !.has = @ \cup {m}]
    <2>1. prepared' = prepared /\ sandbox' = [sandbox EXCEPT ![a] = box] BY <1>7 DEF Says
    <2>2. m \in Nat BY DEF SandboxInv
    <2> HIDE DEF m
    <2>3. box \in SandboxRec /\ (box.broken => box.there) BY <1>0, <1>1, <2>2 DEF SandboxRec
    <2> QED BY <1>1, <1>3, <2>1, <2>3
  <1>8. ASSUME NEW c \in Calls, NEW procs, ReleaseCopies(c) \/ ReleaseDeletes(c, procs) \/ PurgeDeletes(c, procs)
        PROVE  SandboxTypes'
    <2>1. /\ prepared' = prepared
          /\ sandbox' = sandbox \/ sandbox' = [sandbox EXCEPT ![after[c].agent] = NoSandbox]
      BY <1>8, Zenon DEF ReleaseCopies, ReleaseDeletes, PurgeDeletes
    <2> QED BY <1>0, <1>1, <1>3, <1>4, <2>1
  <1>9. ASSUME NEW a \in Agents, NEW procs, SandboxBreaks(a, procs) PROVE SandboxTypes'
    <2> DEFINE box == [sandbox[a] EXCEPT !.broken = TRUE]
    <2>1. prepared' = prepared /\ sandbox' = [sandbox EXCEPT ![a] = box] /\ sandbox[a].there BY <1>9 DEF SandboxBreaks
    <2>2. box \in SandboxRec /\ box.there BY <1>0, <2>1 DEF SandboxRec
    <2> QED BY <1>1, <1>3, <2>1, <2>2
  <1> QED BY <1>0, <1>5, <1>6, <1>7, <1>8, <1>9, Zenon DEF SandboxStep

\* The graph worker's profile is taken from any other, and made by nobody else.
LEMMA OneWorkerStep ==
  ASSUME SettingsTypes, OneWorker, [WorkspaceNext]_allVars
  PROVE  OneWorker'
  <1>0. profile \in [Profiles -> ProfileRec \cup {None}] BY DEF SettingsTypes
  <1>1. ASSUME profile' = profile PROVE OneWorker' BY <1>1 DEF OneWorker
  <1>2. ASSUME NEW p \in Profiles, RemoveProfile(p) PROVE OneWorker'
    <2>1. \A q \in Profiles : profile'[q] \in {profile[q], None} BY <1>0, <1>2 DEF RemoveProfile
    <2> QED BY <2>1 DEF OneWorker
  <1>3. ASSUME NEW p \in Profiles, NEW rec \in Offers, SaveProfile(p, rec) PROVE OneWorker'
    <2>0. rec \in ProfileRec BY WorkspaceAssumption
    <2>1. \A q \in Profiles : profile'[q] = TakesWorker(p, q, rec) BY <1>3 DEF SaveProfile
    <2>2. ASSUME NEW q \in Profiles, q # p, profile'[q] # None, profile'[q].worker
          PROVE  ~rec.worker /\ profile[q] # None /\ profile[q].worker
      <3>1. profile'[q] = IF rec.worker /\ profile[q] # None THEN [profile[q] EXCEPT !.worker = FALSE] ELSE profile[q]
        BY <2>1, <2>2 DEF TakesWorker
      <3>2. profile[q] # None => profile[q] \in ProfileRec BY <1>0
      <3>3. CASE rec.worker /\ profile[q] # None
        <4>1. profile'[q].worker = FALSE BY <3>1, <3>2, <3>3 DEF ProfileRec
        <4> QED BY <2>2, <4>1
      <3>4. CASE ~(rec.worker /\ profile[q] # None) BY <2>2, <3>1, <3>4
      <3> QED BY <3>3, <3>4
    <2>3. profile'[p] = rec BY <2>1 DEF TakesWorker
    <2> QED BY <2>2, <2>3 DEF OneWorker
  <1>4. profile' = profile \/ (\E p \in Profiles : RemoveProfile(p)) \/ \E p \in Profiles, rec \in Offers : SaveProfile(p, rec)
    <2>1. ManagerStep => profile' = profile
      <3>1. UNCHANGED configVars => profile' = profile BY DEF configVars, stores
      <3>2. \A c \in Calls : StartOver(c) => profile' = profile BY DEF StartOver, stores
      <3> QED BY <3>1, <3>2, Zenon DEF ManagerStep, Requests, Starting, Ending, FilesOver
    <2>2. SandboxStep \/ ChatSteps \/ DialogSteps \/ UNCHANGED allVars => profile' = profile
      BY Zenon DEF SandboxStep, ChatSteps, DialogSteps, allVars, configVars, stores
    <2>3. ASSUME ConfigurationStep
          PROVE  profile' = profile \/ (\E p \in Profiles : RemoveProfile(p)) \/ \E p \in Profiles, rec \in Offers : SaveProfile(p, rec)
      <3>1. (\E c : RequestEnds(c) \/ StartWrites(c)) \/ (\E a, c : Load(a, c)) => profile' = profile
        BY Zenon DEF RequestEnds, StartWrites, Load, stores
      <3>2. AdminStep \/ Deliver \/ RegistryStep \/ RequestWrites \/ KeepChoice => profile' = profile
        BY Zenon DEF AdminStep, LabelModels, RestrictWorkspace, Deliver, RequestWrites, KeepChoice, Patches,
               RegistryStep, Reload, Reloaded, Discovers, FindSidecars, Register, stores
      <3>3. (\E a, p, m : Create(a, p, m)) \/ (\E a : Patch(a)) \/ (\E a, m : SetModel(a, m)) => profile' = profile
        BY Zenon DEF Create, Patch, Patches, SetModel, stores
      <3> QED BY <2>3, <3>1, <3>2, <3>3, Zenon DEF ConfigurationStep
    <2> QED BY <2>1, <2>2, <2>3 DEF WorkspaceNext
  <1> QED BY <1>1, <1>2, <1>3, <1>4

\* So there is at most one.
LEMMA OneWorkerMeans ==
  ASSUME OneWorker PROVE Cardinality({p \in Profiles : profile[p] # None /\ profile[p].worker}) <= 1
  <1> DEFINE W == {p \in Profiles : profile[p] # None /\ profile[p].worker}
  <1>1. \A p, q \in W : p = q BY DEF OneWorker
  <1> HIDE DEF W
  <1>2. Cardinality(W) <= 1
    <2>1. CASE W = {}
      <3>1. Cardinality(W) = 0 BY <2>1, FS_EmptySet
      <3> QED BY <3>1
    <2>2. CASE W # {}
      <3>1. PICK w \in W : TRUE BY <2>2
      <3>2. W = {w} BY <1>1, <3>1
      <3>3. Cardinality({w}) = 1 BY FS_Singleton
      <3> QED BY <3>2, <3>3
    <2> QED BY <2>1, <2>2
  <1> QED BY <1>2 DEF W

--------------------------------------------------------------------------
\* The types of the workspace, with what keeps them.
WorkspaceTypes == DialogTypes /\ SandboxTypes /\ OneWorker /\ ChatTypes /\ PiIsLatest

\* They hold of a workspace where nothing runs.
LEMMA WorkspaceTypesBegin == WorkspaceInit => WorkspaceTypes
  <1> SUFFICES ASSUME WorkspaceInit PROVE WorkspaceTypes OBVIOUS
  <1>1. ChatInit /\ DialogsInit /\ SandboxesInit /\ ConfigurationInit /\ Init BY DEF WorkspaceInit
  <1>2. ChatTypes BY <1>1, ChatBegins
  <1>3. PiIsLatest
    <2>1. \A i \in Instances : inst[i].phase = "unused" BY <1>1 DEF Init, Unused
    <2>2. Speaking(Shown) = {} BY <2>1 DEF Speaking
    <2> QED BY <1>1, <2>2 DEF PiIsLatest, Latest, ChatInit
  <1>4. DialogTypes BY <1>1 DEF DialogTypes, DialogsInit
  <1>5. SandboxTypes BY <1>1 DEF SandboxTypes, SandboxesInit, NoSandbox
  <1>6. OneWorker BY <1>1 DEF OneWorker, ConfigurationInit
  <1> QED BY <1>2, <1>3, <1>4, <1>5, <1>6 DEF WorkspaceTypes

\* Every step of the workspace keeps them.
LEMMA WorkspaceTypesStep ==
  ASSUME ManagerInv, AsksOfAgents, DialogInv, SandboxInv, SettingsInv, WorkspaceTypes, [WorkspaceNext]_allVars
  PROVE  WorkspaceTypes'
  <1>0. DialogTypes /\ SandboxTypes /\ OneWorker /\ ChatTypes /\ PiIsLatest /\ SettingsTypes
    BY DEF WorkspaceTypes, SettingsInv
  <1>1. OneWorker' BY <1>0, OneWorkerStep
  <1>2. DialogTypes'
    <2>1. UNCHANGED dialogVars => DialogTypes' BY <1>0 DEF DialogTypes, dialogVars
    <2>2. DialogSteps => DialogTypes' BY <1>0, DialogTypesStep DEF DialogSteps
    <2> QED BY <2>1, <2>2, Zenon DEF WorkspaceNext, ManagerStep, SandboxStep, ChatSteps, ConfigurationStep, allVars
  <1>3. SandboxTypes'
    <2>1. ManagerStep \/ ConfigurationStep => SandboxTypes' BY <1>0, SandboxesUnderManager
    <2>2. SandboxStep => SandboxTypes' BY <1>0, SandboxesMove
    <2>3. ASSUME UNCHANGED sandboxVars, UNCHANGED vars PROVE SandboxTypes'
      BY <1>0, <2>3 DEF SandboxTypes, sandboxVars, vars, At
    <2> QED BY <2>1, <2>2, <2>3, Zenon DEF WorkspaceNext, ChatSteps, DialogSteps, allVars
  <1>4. ChatTypes' /\ PiIsLatest'
    <2>1. CASE ManagerStep BY <1>0, <2>1, ChatUnderManager DEF ManagerStep
    <2>2. ASSUME UNCHANGED chatVars, Speaking(Shown)' = Speaking(Shown) PROVE ChatTypes' /\ PiIsLatest'
      <3>1. ChatTypes' BY <1>0, <2>2 DEF ChatTypes, chatVars
      <3>2. pi' = pi BY <2>2 DEF chatVars
      <3> QED BY <1>0, <2>2, <3>1, <3>2 DEF PiIsLatest, Latest
    <2>3. UNCHANGED vars => Speaking(Shown)' = Speaking(Shown) BY DEF vars, Speaking
    <2>4. CASE ConfigurationStep
      <3>1. UNCHANGED chatVars BY <2>4 DEF ConfigurationStep
      <3> QED BY <2>2, <2>4, <3>1, SpeakingStays
    <2>5. CASE SandboxStep \/ DialogSteps \/ UNCHANGED allVars
      BY <2>2, <2>3, <2>5, Zenon DEF SandboxStep, DialogSteps, allVars
    <2>6. CASE ChatSteps
      <3>1. ChatStep(agent[Shown].running # None, agent[Shown].status = "running") /\ UNCHANGED vars
        BY <2>6 DEF ChatSteps
      <3>2. Quotas BY DEF Quotas, AsksOfAgents, Scope
      <3>3. ChatTypes' BY <1>0, <3>1, <3>2, ChatStepTypes
      <3>4. pi \in PiRec BY <1>0 DEF ChatTypes, PiRight
      <3>5. pi'.inst = pi.inst
        <4>1. pi' = pi \/ PiReads \/ PiSpeaks \/ PiUsesTool \/ PiEndsTurn \/ PiSettles
          BY <3>1, Zenon DEF ChatStep, OpenChat, Prompt, NewSession, Receives, BootTimesOut, SocketDrops, SocketOpens,
                 ServerReceives, ReadChunk, PiReports
        <4>2. PiReads => pi'.inst = pi.inst
          <5>1. CASE PiReads /\ \E b, x : pi' = [pi EXCEPT !.busy = b, !.said = x] BY <3>4, <5>1 DEF PiRec
          <5>2. CASE PiReads /\ \E x : pi' = [pi EXCEPT !.said = x] BY <3>4, <5>2 DEF PiRec
          <5>3. PiReads => \/ pi' = pi \/ (\E x : pi' = [pi EXCEPT !.said = x])
                           \/ \E b, x : pi' = [pi EXCEPT !.busy = b, !.said = x]
            BY <1>0, ReadsMove
          <5> QED BY <5>1, <5>2, <5>3
        <4>3. PiSpeaks \/ PiUsesTool \/ PiEndsTurn \/ PiSettles => pi'.inst = pi.inst
          BY <3>4 DEF PiSpeaks, PiUsesTool, PiEndsTurn, PiSettles, PiRec
        <4> QED BY <4>1, <4>2, <4>3
      <3> QED BY <1>0, <2>3, <3>1, <3>3, <3>5 DEF PiIsLatest, Latest
    <2> QED BY <2>1, <2>4, <2>5, <2>6 DEF WorkspaceNext
  <1> QED BY <1>1, <1>2, <1>3, <1>4 DEF WorkspaceTypes

\* The types the runs check follow.
LEMMA WorkspaceTypesMean ==
  ASSUME ManagerInv, DialogInv, SandboxInv, SettingsInv, WorkspaceTypes
  PROVE  WorkspaceTypeOK
  <1>1. TypeOK BY DEF ManagerInv
  <1>2. ChatTypeOK BY ChatTypesMean DEF WorkspaceTypes
  <1>3. DialogsTypeOK BY DEF WorkspaceTypes, DialogTypes, DialogInv, DialogsTypeOK
  <1>4. SandboxesTypeOK BY DEF WorkspaceTypes, SandboxTypes, SandboxInv, SandboxesTypeOK
  <1>5. ConfigurationTypeOK
    <2>1. Cardinality({p \in Profiles : profile[p] # None /\ profile[p].worker}) <= 1
      BY OneWorkerMeans DEF WorkspaceTypes
    <2> QED BY <2>1 DEF SettingsInv, SettingsTypes, WritersStart, ConfigurationTypeOK
  <1> QED BY <1>1, <1>2, <1>3, <1>4, <1>5 DEF WorkspaceTypes, PiIsLatest, SandboxTypes, WorkspaceTypeOK

\* The variables of the workspace keep their types, the conversation is that of the agent's
\* newest process, only a start prepares a sandbox, and there is one graph worker's profile,
\* whatever requests, settings, tabs, sockets and crashes come together.
THEOREM WorkspaceTypeCorrect == WorkspaceSpec => []WorkspaceTypeOK
  <1>1. ManagerInv => TypeOK BY DEF ManagerInv
  <1>2. ManagerInv /\ AsksOfAgents /\ DialogInv /\ SandboxInv /\ SettingsInv /\ WorkspaceTypes /\ [WorkspaceNext]_allVars
          => WorkspaceTypes'
    BY WorkspaceTypesStep
  <1>3. ManagerInv /\ DialogInv /\ SandboxInv /\ SettingsInv /\ WorkspaceTypes => WorkspaceTypeOK BY WorkspaceTypesMean
  <1> QED BY <1>1, <1>2, <1>3, WorkspaceTypesBegin, ManagerInvHere, AsksAlways, DialogsBegin, DialogInvStep,
             SandboxesBegin, SandboxInvStep, SettingsBegin, SettingsStep, PTL DEF WorkspaceSpec

--------------------------------------------------------------------------
(* What the tab shows                                                      *)

\* Every step of the workspace keeps the conversation in step: those of the chat itself do, a
\* newest process that comes or goes takes the conversation along, and all others leave it alone.
LEMMA WorkspaceInStep ==
  ASSUME AsksOfAgents, WorkspaceTypes, ChatInStep, [WorkspaceNext]_allVars
  PROVE  ChatInStep'
  <1>0. ChatTypes BY DEF WorkspaceTypes
  <1>1. CASE UNCHANGED chatVars BY <1>1, InStepStays
  <1>2. CASE ManagerStep
    <2> DEFINE i == Latest(Speaking(Shown)')
    <2>1. IF i = pi.inst THEN UNCHANGED chatVars ELSE PiBecomes(i) BY <1>2 DEF ManagerStep, ChatFollows
    <2>2. Speaking(Shown)' \subseteq Instances BY DEF Speaking
    <2>3. i \in Instances \cup {None} BY <2>2, LatestIs
    <2> HIDE DEF i
    <2>4. CASE i = pi.inst BY <1>1, <2>1, <2>4
    <2>5. CASE i # pi.inst
      <3>1. PiBecomes(i) BY <2>1, <2>5
      <3> QED BY <1>0, <2>3, <3>1, BecomesInStep
    <2> QED BY <2>4, <2>5
  <1>3. CASE ChatSteps
    <2>1. ChatStep(agent[Shown].running # None, agent[Shown].status = "running") BY <1>3 DEF ChatSteps
    <2>2. Quotas BY DEF Quotas, AsksOfAgents, Scope
    <2>3. Counted BY DEF Counted, AsksOfAgents, Scope
    <2> QED BY <1>0, <2>1, <2>2, <2>3, ChatStepInStep
  <1>4. SandboxStep \/ DialogSteps \/ ConfigurationStep \/ UNCHANGED allVars => UNCHANGED chatVars
    BY Zenon DEF SandboxStep, DialogSteps, ConfigurationStep, allVars
  <1> QED BY <1>1, <1>2, <1>3, <1>4, Zenon DEF WorkspaceNext

\* What the operator's tab shows once nothing is on its way is what the agent's process said, a
\* message once and in order, whatever prompts, new sessions, dropped sockets, snapshots, chunks of
\* output, starts, stops and crashes came before.
THEOREM ConversationsShown == WorkspaceSpec => []ShownIsSaid
  <1>1. WorkspaceInit => ChatInStep
    <2>1. WorkspaceInit => ChatInit BY DEF WorkspaceInit
    <2> QED BY <2>1, ChatBeginsInStep
  <1>2. AsksOfAgents /\ WorkspaceTypes /\ ChatInStep /\ [WorkspaceNext]_allVars => ChatInStep' BY WorkspaceInStep
  <1>3. ManagerInv /\ AsksOfAgents /\ DialogInv /\ SandboxInv /\ SettingsInv /\ WorkspaceTypes /\ [WorkspaceNext]_allVars
          => WorkspaceTypes'
    BY WorkspaceTypesStep
  <1>4. WorkspaceTypes /\ ChatInStep => ShownIsSaid
    <2>1. WorkspaceTypes => ChatTypes BY DEF WorkspaceTypes
    <2> QED BY <2>1, InStepMeans
  <1>5. ManagerInv => TypeOK BY DEF ManagerInv
  <1> QED BY <1>1, <1>2, <1>3, <1>4, <1>5, WorkspaceTypesBegin, ManagerInvHere, AsksAlways, DialogsBegin, DialogInvStep,
             SandboxesBegin, SandboxInvStep, SettingsBegin, SettingsStep, PTL DEF WorkspaceSpec

====
