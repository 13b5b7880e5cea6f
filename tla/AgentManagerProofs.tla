---- MODULE AgentManagerProofs ----
(***************************************************************************)
(* What AgentManager's runs check on one agent, proved for any agents, any  *)
(* number of overlapping starts and stops and any number of processes.      *)
(*                                                                          *)
(* The two invariants hold because a start stays the only one of its agent: *)
(* ManagerInv says which calls may be where while NoOrphans and StatusTells *)
(* hold, and is inductive.                                                  *)
(*                                                                          *)
(* Then what a conversation with an agent's process keeps at every step:    *)
(* ChatTypes, the types of its lines and commands, and ChatInStep, that     *)
(* what the tab shows and what is on its way to it are what was said.       *)
(* WorkspaceProofs has the theorems that rest on them.                      *)
(***************************************************************************)
EXTENDS AgentManager, Chat, SequenceTheorems, FiniteSetTheorems, TLAPS

\* What the map holds is a process of that agent that was started.
MapHoldsItsOwn ==
    \A a \in Agents : agent[a].running # None =>
        inst[agent[a].running].agent = a /\ inst[agent[a].running].phase # "unused"

\* A probe, and a wait for idle, is of an instance; a probe's is alive and its agent's.
CallsHaveInstances ==
    \A c \in Calls :
        /\ At(c, "probe") \/ At(c, "waitIdle") => call[c].inst \in Instances
        /\ At(c, "probe") => inst[call[c].inst].agent = call[c].agent
                             /\ inst[call[c].inst].phase = "alive"

\* One start made an instance, and it alone probes it.
OneProbe ==
    \A c, d \in Calls : (At(c, "probe") /\ At(d, "probe") /\ call[c].inst = call[d].inst) => c = d

\* Short of two starts before their spawn, an agent's start is alone: nothing
\* runs while it scaffolds, and what it probes is what the map holds.
OneStart ==
    \A a \in Agents \ overlapped :
        /\ \A c \in Calls : At(c, "scaffold") /\ call[c].agent = a => agent[a].running = None
        /\ \A c, d \in Calls : (/\ At(c, "scaffold") /\ call[c].agent = a
                                /\ At(d, "scaffold") /\ call[d].agent = a) => c = d
        /\ \A c \in Calls : At(c, "probe") /\ call[c].agent = a => agent[a].running = call[c].inst

ManagerInv ==
    /\ TypeOK /\ MapHoldsItsOwn /\ CallsHaveInstances /\ OneProbe /\ OneStart
    /\ NoOrphans /\ StatusTells

Statuses == {"stopped", "starting", "running", "error", "deleted"}

--------------------------------------------------------------------------
(* What the helpers do to a record                                         *)

\* An idle call and an unused instance are well typed.
LEMMA IdleTypes == IdleCall \in CallRec /\ Unused \in InstanceRec
                   /\ IdleCall.pc = "idle" /\ Unused.phase = "unused" /\ Unused.signal = "none"
  <1>1. (CHOOSE a \in Agents : TRUE) \in Agents BY ManagerAssumption
  <1> QED BY <1>1 DEF IdleCall, Unused, CallRec, InstanceRec

\* setStatus writes the status only, and not that of a deleted record.
LEMMA SetStatusEffect ==
  ASSUME NEW r \in AgentRec, NEW s \in Statuses
  PROVE  /\ SetStatus(r, s) \in AgentRec
         /\ SetStatus(r, s).running = r.running /\ SetStatus(r, s).timer = r.timer
         /\ SetStatus(r, s).budget = r.budget
         /\ SetStatus(r, s).status = IF r.status = "deleted" THEN "deleted" ELSE s
  BY DEF SetStatus, AgentRec, Statuses

\* Dropping an instance leaves the map empty where it held that instance.
LEMMA DropEffect ==
  ASSUME NEW r \in AgentRec, NEW i \in Instances \cup {None}
  PROVE  /\ Drop(r, i) \in AgentRec
         /\ Drop(r, i).running = IF r.running = i THEN None ELSE r.running
         /\ Drop(r, i).status = r.status /\ Drop(r, i).timer = r.timer /\ Drop(r, i).budget = r.budget
  BY DEF Drop, AgentRec

\* A requested stop forgets the crashes and the timer.
LEMMA CancelEffect ==
  ASSUME NEW r \in AgentRec
  PROVE  /\ CancelPendingRestart(r) \in AgentRec
         /\ CancelPendingRestart(r).running = r.running /\ CancelPendingRestart(r).status = r.status
         /\ ~CancelPendingRestart(r).timer
  BY DEF CancelPendingRestart, AgentRec

\* A crash leaves an error, whatever the record said.
LEMMA CrashedEffect ==
  ASSUME NEW r \in AgentRec
  PROVE  /\ Crashed(r) \in AgentRec /\ Crashed(r).running = r.running
         /\ Crashed(r).status \in {"error", "deleted"}
  <1> DEFINE e == SetStatus(r, "error")
  <1>1. e \in AgentRec /\ e.running = r.running /\ e.status \in {"error", "deleted"}
    BY SetStatusEffect DEF Statuses
  <1>2. Crashed(r) = [e EXCEPT !.budget = @ + 1,
                               !.timer = IF r.budget + 1 <= MaxRestarts THEN TRUE ELSE @]
    BY DEF Crashed
  <1> HIDE DEF e
  <1>3. (IF r.budget + 1 <= MaxRestarts THEN TRUE ELSE e.timer) \in BOOLEAN
    BY <1>1 DEF AgentRec
  <1>4. e.budget + 1 \in Nat BY <1>1 DEF AgentRec
  <1> QED BY <1>1, <1>2, <1>3, <1>4 DEF AgentRec

\* Agent a's record becomes q and call c becomes k.
Writes(a, c, q, k) == agent' = [agent EXCEPT ![a] = q] /\ call' = [call EXCEPT ![c] = k]

\* The code up to a start's first await, or a stop that need not wait: the call
\* is over or goes on to scaffold, which marks an agent that already scaffolds.
Segment(a, c, q, k) ==
    /\ Writes(a, c, q, k)
    /\ \/ k.pc = "idle" /\ overlapped' = overlapped
       \/ /\ k.pc = "scaffold" /\ k.agent = a /\ q.running = None
          /\ overlapped' = IF Scaffolding(a) = {} THEN overlapped ELSE overlapped \cup {a}

\* The first segment of a start changes its agent's record and its call only;
\* it leaves the map, says "running" only if the record did, and when it goes
\* on to scaffold nothing runs and an agent that already scaffolds is marked.
LEMMA StartSegmentEffect ==
  ASSUME TypeOK, NEW a \in Agents, NEW c \in Calls, NEW r \in AgentRec, NEW auto \in BOOLEAN,
         StartSegment(a, c, r, auto)
  PROVE  \E q \in AgentRec, k \in CallRec :
           /\ Segment(a, c, q, k)
           /\ q.running = r.running /\ q.status \in {r.status, "starting"} /\ (q.timer => r.timer)
  <1> DEFINE cancelled == [r EXCEPT !.timer = FALSE]
  <1>0. cancelled \in AgentRec /\ cancelled.running = r.running /\ cancelled.status = r.status
        /\ ~cancelled.timer
    BY DEF AgentRec
  <1>1. CASE /\ agent' = [agent EXCEPT ![a] = IF auto /\ r.status # "deleted" THEN [r EXCEPT !.budget = 0] ELSE r]
             /\ Return(c) /\ UNCHANGED overlapped
    <2> DEFINE q == IF auto /\ r.status # "deleted" THEN [r EXCEPT !.budget = 0] ELSE r
    <2>1. q \in AgentRec /\ q.running = r.running /\ q.status = r.status /\ q.timer = r.timer
      BY DEF AgentRec
    <2>2. agent' = [agent EXCEPT ![a] = q] /\ call' = [call EXCEPT ![c] = IdleCall]
      BY <1>1 DEF Return
    <2> HIDE DEF q
    <2>3. Segment(a, c, q, IdleCall) BY <1>1, <2>2, IdleTypes DEF Segment, Writes
    <2> QED BY <2>1, <2>3, IdleTypes
  <1>2. CASE agent' = [agent EXCEPT ![a] = cancelled] /\ Return(c) /\ UNCHANGED overlapped
    <2> HIDE DEF cancelled
    <2>1. Segment(a, c, cancelled, IdleCall) BY <1>2, IdleTypes DEF Segment, Writes, Return
    <2> QED BY <1>0, <2>1, IdleTypes
  <1>3. CASE /\ r.status # "deleted" /\ r.running = None
             /\ agent' = [agent EXCEPT ![a] = SetStatus(cancelled, "starting")]
             /\ call' = [call EXCEPT ![c] = [IdleCall EXCEPT !.pc = "scaffold", !.agent = a, !.auto = auto]]
             /\ overlapped' = IF Scaffolding(a) = {} THEN overlapped ELSE overlapped \cup {a}
    <2> DEFINE q == SetStatus(cancelled, "starting")
               k == [IdleCall EXCEPT !.pc = "scaffold", !.agent = a, !.auto = auto]
    <2>1. k \in CallRec /\ k.pc = "scaffold" /\ k.agent = a BY IdleTypes DEF CallRec
    <2>2. q \in AgentRec /\ q.running = r.running /\ q.status = "starting" /\ ~q.timer
      <3> HIDE DEF cancelled
      <3> QED BY <1>0, <1>3, SetStatusEffect DEF Statuses
    <2> HIDE DEF q, k
    <2>3. agent' = [agent EXCEPT ![a] = q] /\ call' = [call EXCEPT ![c] = k] BY <1>3 DEF q, k
    <2>4. Segment(a, c, q, k) BY <1>3, <2>1, <2>2, <2>3 DEF Segment, Writes
    <2> QED BY <2>1, <2>2, <2>4
  <1> QED BY <1>1, <1>2, <1>3 DEF StartSegment

--------------------------------------------------------------------------
(* What an action changes                                                  *)

\* A start or the firing timer: the start's first segment on the record.
LEMMA StartEffect ==
  ASSUME TypeOK, NEW a \in Agents, NEW c \in Calls, Start(a, c) \/ Fire(a, c)
  PROVE  /\ At(c, "idle") /\ inst' = inst
         /\ halted' \subseteq Agents /\ revived' \in [Agents -> Nat] /\ requests' \in Nat
         /\ \E q \in AgentRec, k \in CallRec :
              /\ Segment(a, c, q, k)
              /\ q.running = agent[a].running /\ q.status \in {agent[a].status, "starting"}
              /\ (q.timer => agent[a].timer)
  <1>0. agent[a] \in AgentRec BY DEF TypeOK
  <1>1. CASE Start(a, c)
    <2>1. StartSegment(a, c, agent[a], FALSE) BY <1>1 DEF Start
    <2>2. /\ At(c, "idle") /\ inst' = inst /\ halted' \subseteq Agents
          /\ revived' \in [Agents -> Nat] /\ requests' \in Nat
      BY <1>1, ManagerAssumption DEF Start, Asked, TypeOK
    <2> QED BY <1>0, <2>1, <2>2, StartSegmentEffect
  <1>2. CASE Fire(a, c)
    <2> DEFINE r == [agent[a] EXCEPT !.timer = FALSE]
    <2>1. r \in AgentRec /\ r.running = agent[a].running /\ r.status = agent[a].status /\ ~r.timer
      BY <1>0 DEF AgentRec
    <2>2. StartSegment(a, c, r, TRUE) BY <1>2 DEF Fire
    <2>3. /\ At(c, "idle") /\ inst' = inst /\ halted' \subseteq Agents
          /\ revived' \in [Agents -> Nat] /\ requests' \in Nat
      BY <1>2 DEF Fire, TypeOK
    <2> HIDE DEF r
    <2>4. PICK q \in AgentRec, k \in CallRec :
            /\ Segment(a, c, q, k) /\ q.running = r.running
            /\ q.status \in {r.status, "starting"} /\ (q.timer => r.timer)
      BY <2>1, <2>2, StartSegmentEffect
    <2>5. q.status \in {agent[a].status, "starting"} /\ (q.timer => agent[a].timer) BY <2>1, <2>4
    <2> QED BY <2>1, <2>3, <2>4, <2>5
  <1> QED BY <1>1, <1>2

\* What follows a stop that left the agent as r: a start's first segment, or
\* the record as it is, or its deletion.
LEMMA AfterStopEffect ==
  ASSUME TypeOK, NEW a \in Agents, NEW c \in Calls, NEW r \in AgentRec,
         NEW then \in {"none", "start", "delete"}, AfterStop(a, c, r, then)
  PROVE  \E q \in AgentRec, k \in CallRec :
           /\ Segment(a, c, q, k)
           /\ q.running = r.running /\ q.status \in {r.status, "starting", "deleted"}
           /\ (q.timer => r.timer)
  <1>1. CASE then = "start"
    <2>1. StartSegment(a, c, r, FALSE) BY <1>1 DEF AfterStop
    <2> QED BY <2>1, StartSegmentEffect
  <1>2. CASE then # "start"
    <2> DEFINE q == IF then = "delete" THEN [r EXCEPT !.status = "deleted"] ELSE r
    <2>1. q \in AgentRec /\ q.running = r.running /\ q.status \in {r.status, "deleted"} /\ q.timer = r.timer
      BY DEF AgentRec
    <2>2. /\ agent' = [agent EXCEPT ![a] = q] /\ call' = [call EXCEPT ![c] = IdleCall]
          /\ overlapped' = overlapped
      BY <1>2 DEF AfterStop, Return
    <2> HIDE DEF q
    <2>3. Segment(a, c, q, IdleCall) BY <2>2, IdleTypes DEF Segment, Writes
    <2> QED BY <2>1, <2>3, IdleTypes
  <1> QED BY <1>1, <1>2

\* A stop of an agent that does not run is over at once; one that runs is
\* marked, and the stop waits for it to be idle.
LEMMA StopEffect ==
  ASSUME TypeOK, NEW a \in Agents, NEW c \in Calls, NEW then \in {"none", "start", "delete"},
         Stop(a, c, then)
  PROVE  /\ At(c, "idle")
         /\ halted' \subseteq Agents /\ revived' \in [Agents -> Nat] /\ requests' \in Nat
         /\ agent[a].running = None =>
              /\ inst' = inst
              /\ \E q \in AgentRec, k \in CallRec :
                   Segment(a, c, q, k) /\ q.running = None /\ q.status # "running" /\ ~q.timer
         /\ agent[a].running # None =>
              /\ agent[a].running \in Instances /\ overlapped' = overlapped
              /\ inst' = [inst EXCEPT ![agent[a].running].stopReq = TRUE]
              /\ \E q \in AgentRec, k \in CallRec :
                   /\ Writes(a, c, q, k)
                   /\ q.running = agent[a].running /\ q.status = agent[a].status /\ ~q.timer
                   /\ k.pc = "waitIdle" /\ k.inst \in Instances
  <1> DEFINE r == CancelPendingRestart(agent[a])
  <1>0. agent[a] \in AgentRec /\ agent[a].running \in Instances \cup {None} BY DEF TypeOK, AgentRec
  <1>1. r \in AgentRec /\ r.running = agent[a].running /\ r.status = agent[a].status /\ ~r.timer
    BY <1>0, CancelEffect
  <1>2. /\ At(c, "idle") /\ halted' \subseteq Agents
        /\ revived' \in [Agents -> Nat] /\ requests' \in Nat
    BY ManagerAssumption DEF Stop, Asked, TypeOK
  <1>3. CASE agent[a].running = None
    <2>1. AfterStop(a, c, SetStatus(r, "stopped"), then) /\ inst' = inst BY <1>3 DEF Stop
    <2> HIDE DEF r
    <2>2. /\ SetStatus(r, "stopped") \in AgentRec /\ SetStatus(r, "stopped").running = None
          /\ SetStatus(r, "stopped").status \in {"stopped", "deleted"} /\ ~SetStatus(r, "stopped").timer
      BY <1>1, <1>3, SetStatusEffect DEF Statuses
    <2>3. PICK q \in AgentRec, k \in CallRec :
            /\ Segment(a, c, q, k)
            /\ q.running = None /\ q.status \in {"stopped", "starting", "deleted"} /\ ~q.timer
      BY <2>1, <2>2, AfterStopEffect
    <2> QED BY <1>2, <1>3, <2>1, <2>3
  <1>4. CASE agent[a].running # None
    <2> DEFINE k == [IdleCall EXCEPT !.pc = "waitIdle", !.agent = a, !.inst = agent[a].running, !.then = then]
    <2>1. k \in CallRec /\ k.pc = "waitIdle" /\ k.inst = agent[a].running
      BY <1>0, IdleTypes DEF CallRec
    <2>2. /\ inst' = [inst EXCEPT ![agent[a].running].stopReq = TRUE]
          /\ Writes(a, c, r, k) /\ overlapped' = overlapped
      BY <1>4 DEF Stop, Writes
    <2> HIDE DEF r, k
    <2> QED BY <1>0, <1>1, <1>2, <1>4, <2>1, <2>2
  <1> QED BY <1>3, <1>4

\* A failed scaffold ends its call; the agent keeps its status or says "error".
LEMMA ScaffoldFailsEffect ==
  ASSUME TypeOK, NEW c \in Calls, ScaffoldFails(c)
  PROVE  /\ At(c, "scaffold") /\ call' = [call EXCEPT ![c] = IdleCall]
         /\ UNCHANGED <<inst, overlapped, halted, revived, requests>>
         /\ \E a \in Agents, q \in AgentRec :
              /\ agent' = [agent EXCEPT ![a] = q]
              /\ q.running = agent[a].running /\ q.timer = agent[a].timer
              /\ q.status \in {agent[a].status, "error", "deleted"}
  <1> DEFINE a == call[c].agent
  <1>1. a \in Agents /\ agent[a] \in AgentRec BY DEF TypeOK, CallRec
  <1>2. /\ At(c, "scaffold") /\ call' = [call EXCEPT ![c] = IdleCall]
        /\ UNCHANGED <<inst, overlapped, halted, revived, requests>>
    BY DEF ScaffoldFails, Return
  <1>3. CASE UNCHANGED agent
    <2>1. agent' = [agent EXCEPT ![a] = agent[a]] BY <1>3 DEF TypeOK
    <2> HIDE DEF a
    <2> QED BY <1>1, <1>2, <2>1
  <1>4. CASE agent' = [agent EXCEPT ![a] = SetStatus(@, "error")]
    <2> DEFINE q == SetStatus(agent[a], "error")
    <2>1. agent' = [agent EXCEPT ![a] = q] BY <1>4
    <2>2. q \in AgentRec /\ q.running = agent[a].running /\ q.timer = agent[a].timer
          /\ q.status \in {"error", "deleted"}
      BY <1>1, SetStatusEffect DEF Statuses
    <2> HIDE DEF a, q
    <2> QED BY <1>1, <1>2, <2>1, <2>2
  <1> QED BY <1>3, <1>4 DEF ScaffoldFails

\* A spawn makes an unused instance the agent's process, which the call probes.
LEMMA SpawnEffect ==
  ASSUME TypeOK, NEW c \in Calls, NEW i \in Instances, Spawn(c, i)
  PROVE  /\ At(c, "scaffold") /\ inst[i].phase = "unused"
         /\ UNCHANGED <<overlapped, halted, revived, requests>>
         /\ \E q \in AgentRec, k \in CallRec, p \in InstanceRec :
              /\ agent' = [agent EXCEPT ![call[c].agent] = q] /\ call' = [call EXCEPT ![c] = k]
              /\ inst' = [inst EXCEPT ![i] = p]
              /\ q.running = i /\ q.timer = agent[call[c].agent].timer
              /\ q.status = agent[call[c].agent].status
              /\ k.pc = "probe" /\ k.inst = i /\ k.agent = call[c].agent
              /\ p.agent = call[c].agent /\ p.phase = "alive"
  <1> DEFINE a == call[c].agent
             q == [agent[a] EXCEPT !.running = i]
             k == [call[c] EXCEPT !.pc = "probe", !.inst = i]
             p == [Unused EXCEPT !.agent = a, !.phase = "alive", !.starting = TRUE]
  <1>1. a \in Agents /\ agent[a] \in AgentRec /\ call[c] \in CallRec BY DEF TypeOK, CallRec
  <1>2. q \in AgentRec /\ q.running = i /\ q.timer = agent[a].timer /\ q.status = agent[a].status
    BY <1>1 DEF AgentRec
  <1>3. k \in CallRec /\ k.pc = "probe" /\ k.inst = i /\ k.agent = a BY <1>1 DEF CallRec
  <1>4. p \in InstanceRec /\ p.agent = a /\ p.phase = "alive" BY <1>1, IdleTypes DEF InstanceRec
  <1>5. /\ agent' = [agent EXCEPT ![a] = q] /\ call' = [call EXCEPT ![c] = k]
        /\ inst' = [inst EXCEPT ![i] = p]
        /\ At(c, "scaffold") /\ inst[i].phase = "unused"
        /\ UNCHANGED <<overlapped, halted, revived, requests>>
    BY DEF Spawn
  <1> HIDE DEF q, k, p
  <1> QED BY <1>2, <1>3, <1>4, <1>5

\* A probe that is answered: the agent runs.
LEMMA ProbeOkEffect ==
  ASSUME TypeOK, NEW c \in Calls, ProbeOk(c)
  PROVE  /\ At(c, "probe") /\ call' = [call EXCEPT ![c] = IdleCall]
         /\ inst' = [inst EXCEPT ![call[c].inst].starting = FALSE]
         /\ UNCHANGED <<overlapped, halted, revived, requests>>
         /\ \E q \in AgentRec :
              /\ agent' = [agent EXCEPT ![call[c].agent] = q]
              /\ q.running = agent[call[c].agent].running /\ q.timer = agent[call[c].agent].timer
              /\ q.status \in {"running", "deleted"}
  <1> DEFINE a == call[c].agent
             e == SetStatus(agent[a], "running")
             q == [e EXCEPT !.budget = IF call[c].auto THEN 0 ELSE @]
  <1>1. a \in Agents /\ agent[a] \in AgentRec BY DEF TypeOK, CallRec
  <1>2. e \in AgentRec /\ e.running = agent[a].running /\ e.timer = agent[a].timer
        /\ e.status \in {"running", "deleted"}
    BY <1>1, SetStatusEffect DEF Statuses
  <1>3. q \in AgentRec /\ q.running = agent[a].running /\ q.timer = agent[a].timer
        /\ q.status \in {"running", "deleted"}
    <2> HIDE DEF e
    <2>1. (IF call[c].auto THEN 0 ELSE e.budget) \in Nat BY <1>2 DEF AgentRec
    <2> QED BY <1>2, <2>1 DEF AgentRec
  <1>4. agent' = [agent EXCEPT ![a] = q] BY DEF ProbeOk
  <1>5. /\ At(c, "probe") /\ call' = [call EXCEPT ![c] = IdleCall]
        /\ inst' = [inst EXCEPT ![call[c].inst].starting = FALSE]
        /\ UNCHANGED <<overlapped, halted, revived, requests>>
    BY DEF ProbeOk, Return
  <1> HIDE DEF q
  <1> QED BY <1>3, <1>4, <1>5

\* A probe that fails: the map drops the instance, which is killed.
LEMMA ProbeFailEffect ==
  ASSUME TypeOK, NEW c \in Calls, ProbeFail(c)
  PROVE  /\ At(c, "probe") /\ call' = [call EXCEPT ![c] = IdleCall]
         /\ inst' = [inst EXCEPT ![call[c].inst].signal = "KILL"]
         /\ UNCHANGED <<overlapped, halted, revived, requests>>
         /\ \E q \in AgentRec :
              /\ agent' = [agent EXCEPT ![call[c].agent] = q]
              /\ q.running = IF agent[call[c].agent].running = call[c].inst THEN None
                             ELSE agent[call[c].agent].running
              /\ q.timer = agent[call[c].agent].timer /\ q.status \in {"error", "deleted"}
  <1> DEFINE a == call[c].agent
             d == Drop(agent[a], call[c].inst)
             q == SetStatus(d, "error")
  <1>1. a \in Agents /\ agent[a] \in AgentRec /\ call[c].inst \in Instances \cup {None}
    BY DEF TypeOK, CallRec
  <1>2. /\ d \in AgentRec /\ d.timer = agent[a].timer
        /\ d.running = IF agent[a].running = call[c].inst THEN None ELSE agent[a].running
    BY <1>1, DropEffect
  <1>3. q \in AgentRec /\ q.running = d.running /\ q.timer = d.timer /\ q.status \in {"error", "deleted"}
    <2> HIDE DEF d
    <2> QED BY <1>2, SetStatusEffect DEF Statuses
  <1>4. agent' = [agent EXCEPT ![a] = q] BY DEF ProbeFail
  <1>5. /\ At(c, "probe") /\ call' = [call EXCEPT ![c] = IdleCall]
        /\ inst' = [inst EXCEPT ![call[c].inst].signal = "KILL"]
        /\ UNCHANGED <<overlapped, halted, revived, requests>>
    BY DEF ProbeFail, Return
  <1> HIDE DEF q, d
  <1> QED BY <1>2, <1>3, <1>4, <1>5

\* The end of a stop: the process is signalled unless it was, the map drops it,
\* and the start or the delete that waited for it follows.
LEMMA StopFinishEffect ==
  ASSUME TypeOK, NEW c \in Calls, StopFinish(c)
  PROVE  /\ At(c, "waitIdle") /\ Probing(call[c].inst) = {}
         /\ UNCHANGED <<halted, revived, requests>>
         /\ inst' = IF inst[call[c].inst].phase = "alive" /\ inst[call[c].inst].signal = "none"
                    THEN [inst EXCEPT ![call[c].inst].signal = "TERM"] ELSE inst
         /\ \E q \in AgentRec, k \in CallRec :
              /\ Segment(call[c].agent, c, q, k)
              /\ q.running = IF agent[call[c].agent].running = call[c].inst THEN None
                             ELSE agent[call[c].agent].running
              /\ q.status \in {"stopped", "starting", "deleted"}
              /\ (q.timer => agent[call[c].agent].timer)
  <1> DEFINE a == call[c].agent
             d == Drop(agent[a], call[c].inst)
             r == SetStatus(d, "stopped")
  <1>1. /\ a \in Agents /\ agent[a] \in AgentRec /\ call[c].inst \in Instances \cup {None}
        /\ call[c].then \in {"none", "start", "delete"}
    BY DEF TypeOK, CallRec
  <1>2. /\ d \in AgentRec /\ d.timer = agent[a].timer
        /\ d.running = IF agent[a].running = call[c].inst THEN None ELSE agent[a].running
    BY <1>1, DropEffect
  <1>3. /\ r \in AgentRec /\ r.running = d.running /\ r.timer = d.timer
        /\ r.status \in {"stopped", "deleted"}
    <2> HIDE DEF d
    <2> QED BY <1>2, SetStatusEffect DEF Statuses
  <1>4. AfterStop(a, c, r, call[c].then) BY DEF StopFinish
  <1>5. /\ At(c, "waitIdle") /\ Probing(call[c].inst) = {}
        /\ UNCHANGED <<halted, revived, requests>>
        /\ inst' = IF inst[call[c].inst].phase = "alive" /\ inst[call[c].inst].signal = "none"
                   THEN [inst EXCEPT ![call[c].inst].signal = "TERM"] ELSE inst
    BY DEF StopFinish
  <1> HIDE DEF a, d, r
  <1>6. PICK q \in AgentRec, k \in CallRec :
          /\ Segment(a, c, q, k)
          /\ q.running = r.running /\ q.status \in {r.status, "starting", "deleted"}
          /\ (q.timer => r.timer)
    BY <1>1, <1>3, <1>4, AfterStopEffect
  <1>7. /\ q.running = IF agent[a].running = call[c].inst THEN None ELSE agent[a].running
        /\ q.status \in {"stopped", "starting", "deleted"} /\ (q.timer => agent[a].timer)
    BY <1>2, <1>3, <1>6
  <1> QED BY <1>5, <1>6, <1>7 DEF a

\* An exit: the map drops the instance, a start that probed it ends, and the
\* record says "running" after it only if it did and the instance was starting
\* or another's; an instance that was asked to stop arms no timer.
LEMMA ExitEffect ==
  ASSUME TypeOK, NEW i \in Instances, NEW signalled \in BOOLEAN, Exit(i, signalled)
  PROVE  /\ inst[i].phase = "alive"
         /\ UNCHANGED <<overlapped, halted, revived, requests>>
         /\ inst' = [inst EXCEPT ![i].phase = "exited", ![i].starting = FALSE]
         /\ call' = [c \in Calls |-> IF c \in Probing(i) THEN IdleCall ELSE call[c]]
         /\ \E q \in AgentRec :
              /\ agent' = [agent EXCEPT ![inst[i].agent] = q]
              /\ q.running = IF agent[inst[i].agent].running = i THEN None
                             ELSE agent[inst[i].agent].running
              /\ (q.status = "running" =>
                    agent[inst[i].agent].status = "running"
                    /\ (inst[i].starting \/ agent[inst[i].agent].running # i))
              /\ (q.timer /\ ~agent[inst[i].agent].timer => ~inst[i].stopReq)
  <1> DEFINE a == inst[i].agent
             r == Drop(agent[a], i)
             q == CASE inst[i].starting -> IF Probing(i) # {} THEN SetStatus(r, "error") ELSE r
                    [] ~inst[i].starting /\ agent[a].running \notin {None, i} -> r
                    [] ~inst[i].starting /\ agent[a].running \in {None, i} /\ Deliberate(i, signalled) ->
                         [SetStatus(r, "stopped") EXCEPT !.budget = 0]
                    [] OTHER -> Crashed(r)
  <1>1. a \in Agents /\ agent[a] \in AgentRec /\ inst[i] \in InstanceRec BY DEF TypeOK, InstanceRec
  <1>2. /\ r \in AgentRec /\ r.timer = agent[a].timer /\ r.status = agent[a].status
        /\ r.running = IF agent[a].running = i THEN None ELSE agent[a].running
    BY <1>1, DropEffect
  <1>3. agent' = [agent EXCEPT ![a] = q] BY DEF Exit
  <1>4. /\ inst[i].phase = "alive"
        /\ UNCHANGED <<overlapped, halted, revived, requests>>
        /\ inst' = [inst EXCEPT ![i].phase = "exited", ![i].starting = FALSE]
        /\ call' = [c \in Calls |-> IF c \in Probing(i) THEN IdleCall ELSE call[c]]
    BY DEF Exit
  <1> HIDE DEF r
  <1>5. /\ q \in AgentRec /\ q.running = r.running
        /\ (q.status = "running" => agent[a].status = "running"
                                    /\ (inst[i].starting \/ agent[a].running # i))
        /\ (q.timer /\ ~agent[a].timer => ~inst[i].stopReq)
    <2>1. CASE inst[i].starting /\ Probing(i) # {}
      <3>1. q = SetStatus(r, "error") BY <2>1
      <3> QED BY <1>1, <1>2, <3>1, SetStatusEffect DEF Statuses
    <2>2. CASE inst[i].starting /\ Probing(i) = {}
      <3>1. q = r BY <2>2
      <3> QED BY <1>2, <2>2, <3>1
    <2>3. CASE ~inst[i].starting /\ agent[a].running \notin {None, i}
      <3>1. q = r BY <2>3
      <3> QED BY <1>2, <2>3, <3>1
    <2>4. CASE ~inst[i].starting /\ agent[a].running \in {None, i} /\ Deliberate(i, signalled)
      <3> DEFINE e == SetStatus(r, "stopped")
      <3>1. q = [e EXCEPT !.budget = 0] BY <2>4
      <3>2. e \in AgentRec /\ e.running = r.running /\ e.timer = agent[a].timer
            /\ e.status \in {"stopped", "deleted"}
        BY <1>2, SetStatusEffect DEF Statuses
      <3> HIDE DEF e, q
      <3>3. q \in AgentRec /\ q.running = e.running /\ q.timer = e.timer /\ q.status = e.status
        BY <3>1, <3>2 DEF AgentRec
      <3> QED BY <3>2, <3>3
    <2>5. CASE ~inst[i].starting /\ agent[a].running \in {None, i} /\ ~Deliberate(i, signalled)
      <3>1. q = Crashed(r) BY <2>5
      <3>2. ~inst[i].stopReq BY <2>5 DEF Deliberate
      <3> QED BY <1>2, <3>1, <3>2, CrashedEffect
    <2> QED BY <2>1, <2>2, <2>3, <2>4, <2>5
  <1> HIDE DEF q
  <1>6. q.running = IF agent[a].running = i THEN None ELSE agent[a].running BY <1>2, <1>5
  <1> QED BY <1>3, <1>4, <1>5, <1>6

--------------------------------------------------------------------------
(* Types                                                                   *)

\* Marking an agent that starts twice keeps the type of the history.
LEMMA SegmentTypes ==
  ASSUME TypeOK, NEW a \in Agents, NEW c \in Calls, NEW q \in AgentRec, NEW k \in CallRec,
         Segment(a, c, q, k)
  PROVE  agent' \in [Agents -> AgentRec] /\ call' \in [Calls -> CallRec] /\ overlapped' \subseteq Agents
  BY DEF Segment, Writes, TypeOK

\* Marking or signalling an instance keeps its type.
LEMMA InstanceTypes ==
  ASSUME TypeOK, NEW i
  PROVE  /\ [inst EXCEPT ![i].stopReq = TRUE] \in [Instances -> InstanceRec]
         /\ [inst EXCEPT ![i].starting = FALSE] \in [Instances -> InstanceRec]
         /\ \A s \in {"TERM", "KILL"} : [inst EXCEPT ![i].signal = s] \in [Instances -> InstanceRec]
         /\ [inst EXCEPT ![i].phase = "exited", ![i].starting = FALSE] \in [Instances -> InstanceRec]
  <1>1. CASE i \in Instances
    <2> DEFINE p == inst[i]
    <2>1. p \in InstanceRec /\ inst \in [Instances -> InstanceRec] BY <1>1 DEF TypeOK
    <2>2. [p EXCEPT !.stopReq = TRUE] \in InstanceRec BY <2>1 DEF InstanceRec
    <2>3. [p EXCEPT !.starting = FALSE] \in InstanceRec BY <2>1 DEF InstanceRec
    <2>4. \A s \in {"TERM", "KILL"} : [p EXCEPT !.signal = s] \in InstanceRec BY <2>1 DEF InstanceRec
    <2>5. [[p EXCEPT !.phase = "exited"] EXCEPT !.starting = FALSE] \in InstanceRec BY <2>1 DEF InstanceRec
    <2>6. [inst EXCEPT ![i].phase = "exited", ![i].starting = FALSE]
          = [inst EXCEPT ![i] = [[p EXCEPT !.phase = "exited"] EXCEPT !.starting = FALSE]]
      BY <1>1, <2>1
    <2> QED BY <1>1, <2>1, <2>2, <2>3, <2>4, <2>5, <2>6
  <1>2. CASE i \notin Instances
    BY <1>2 DEF TypeOK
  <1> QED BY <1>1, <1>2

\* Every action keeps the types.
LEMMA TypeStep == TypeOK /\ [Next]_vars => TypeOK'
  <1> SUFFICES ASSUME TypeOK, [Next]_vars PROVE TypeOK' OBVIOUS
  <1>1. CASE UNCHANGED vars BY <1>1 DEF vars, TypeOK
  <1>2. ASSUME NEW a \in Agents, NEW c \in Calls, Start(a, c) \/ Fire(a, c) PROVE TypeOK'
    <2>1. /\ inst' = inst /\ halted' \subseteq Agents /\ revived' \in [Agents -> Nat] /\ requests' \in Nat
          /\ \E q \in AgentRec, k \in CallRec : Segment(a, c, q, k)
      BY <1>2, StartEffect
    <2>2. agent' \in [Agents -> AgentRec] /\ call' \in [Calls -> CallRec] /\ overlapped' \subseteq Agents
      BY <2>1, SegmentTypes
    <2> QED BY <2>1, <2>2 DEF TypeOK
  <1>3. ASSUME NEW a \in Agents, NEW c \in Calls, NEW then \in {"none", "start", "delete"},
               Stop(a, c, then)
        PROVE  TypeOK'
    <2>1. halted' \subseteq Agents /\ revived' \in [Agents -> Nat] /\ requests' \in Nat
      BY <1>3, StopEffect
    <2>2. CASE agent[a].running = None
      <3>1. inst' = inst /\ \E q \in AgentRec, k \in CallRec : Segment(a, c, q, k)
        BY <1>3, <2>2, StopEffect
      <3>2. agent' \in [Agents -> AgentRec] /\ call' \in [Calls -> CallRec] /\ overlapped' \subseteq Agents
        BY <3>1, SegmentTypes
      <3> QED BY <2>1, <3>1, <3>2 DEF TypeOK
    <2>3. CASE agent[a].running # None
      <3>1. /\ overlapped' = overlapped /\ inst' = [inst EXCEPT ![agent[a].running].stopReq = TRUE]
            /\ \E q \in AgentRec, k \in CallRec : Writes(a, c, q, k)
        BY <1>3, <2>3, StopEffect
      <3>2. inst' \in [Instances -> InstanceRec] BY <3>1, InstanceTypes
      <3> QED BY <2>1, <3>1, <3>2 DEF TypeOK, Writes
    <2> QED BY <2>2, <2>3
  <1>4. ASSUME NEW c \in Calls, ScaffoldFails(c) PROVE TypeOK'
    <2>1. /\ call' = [call EXCEPT ![c] = IdleCall]
          /\ UNCHANGED <<inst, overlapped, halted, revived, requests>>
          /\ \E a \in Agents, q \in AgentRec : agent' = [agent EXCEPT ![a] = q]
      BY <1>4, ScaffoldFailsEffect
    <2> QED BY <2>1, IdleTypes DEF TypeOK
  <1>5. ASSUME NEW c \in Calls, NEW i \in Instances, Spawn(c, i) PROVE TypeOK'
    <2>1. /\ UNCHANGED <<overlapped, halted, revived, requests>>
          /\ \E q \in AgentRec, k \in CallRec, p \in InstanceRec :
               /\ agent' = [agent EXCEPT ![call[c].agent] = q] /\ call' = [call EXCEPT ![c] = k]
               /\ inst' = [inst EXCEPT ![i] = p]
      BY <1>5, SpawnEffect
    <2> QED BY <2>1 DEF TypeOK
  <1>6. ASSUME NEW c \in Calls, ProbeOk(c) PROVE TypeOK'
    <2>1. /\ call' = [call EXCEPT ![c] = IdleCall]
          /\ inst' = [inst EXCEPT ![call[c].inst].starting = FALSE]
          /\ UNCHANGED <<overlapped, halted, revived, requests>>
          /\ \E q \in AgentRec : agent' = [agent EXCEPT ![call[c].agent] = q]
      BY <1>6, ProbeOkEffect
    <2>2. inst' \in [Instances -> InstanceRec] BY <2>1, InstanceTypes
    <2> QED BY <2>1, <2>2, IdleTypes DEF TypeOK
  <1>7. ASSUME NEW c \in Calls, ProbeFail(c) PROVE TypeOK'
    <2>1. /\ call' = [call EXCEPT ![c] = IdleCall]
          /\ inst' = [inst EXCEPT ![call[c].inst].signal = "KILL"]
          /\ UNCHANGED <<overlapped, halted, revived, requests>>
          /\ \E q \in AgentRec : agent' = [agent EXCEPT ![call[c].agent] = q]
      BY <1>7, ProbeFailEffect
    <2>2. inst' \in [Instances -> InstanceRec] BY <2>1, InstanceTypes
    <2> QED BY <2>1, <2>2, IdleTypes DEF TypeOK
  <1>8. ASSUME NEW c \in Calls, StopFinish(c) PROVE TypeOK'
    <2>1. /\ UNCHANGED <<halted, revived, requests>>
          /\ inst' = IF inst[call[c].inst].phase = "alive" /\ inst[call[c].inst].signal = "none"
                     THEN [inst EXCEPT ![call[c].inst].signal = "TERM"] ELSE inst
          /\ \E q \in AgentRec, k \in CallRec : Segment(call[c].agent, c, q, k)
      BY <1>8, StopFinishEffect
    <2>2. inst' \in [Instances -> InstanceRec]
      <3>1. inst \in [Instances -> InstanceRec] BY DEF TypeOK
      <3>2. [inst EXCEPT ![call[c].inst].signal = "TERM"] \in [Instances -> InstanceRec] BY InstanceTypes
      <3> QED BY <2>1, <3>1, <3>2
    <2>3. call[c].agent \in Agents BY DEF TypeOK, CallRec
    <2>4. agent' \in [Agents -> AgentRec] /\ call' \in [Calls -> CallRec] /\ overlapped' \subseteq Agents
      BY <2>1, <2>3, SegmentTypes
    <2> QED BY <2>1, <2>2, <2>4 DEF TypeOK
  <1>9. ASSUME NEW i \in Instances, NEW signalled \in BOOLEAN, Exit(i, signalled) PROVE TypeOK'
    <2>1. /\ UNCHANGED <<overlapped, halted, revived, requests>>
          /\ inst' = [inst EXCEPT ![i].phase = "exited", ![i].starting = FALSE]
          /\ call' = [c \in Calls |-> IF c \in Probing(i) THEN IdleCall ELSE call[c]]
          /\ \E q \in AgentRec : agent' = [agent EXCEPT ![inst[i].agent] = q]
      BY <1>9, ExitEffect
    <2>2. inst' \in [Instances -> InstanceRec] BY <2>1, InstanceTypes
    <2>3. call' \in [Calls -> CallRec] BY <2>1, IdleTypes DEF TypeOK
    <2> QED BY <2>1, <2>2, <2>3, ZenonT(60) DEF TypeOK
  <1> QED BY <1>1, <1>2, <1>3, <1>4, <1>5, <1>6, <1>7, <1>8, <1>9 DEF Next

\* Nothing has been started.
LEMMA TypeInit == Init => TypeOK
  BY IdleTypes, ManagerAssumption DEF Init, TypeOK, AgentRec

\* Type correctness of the agent manager, for any agents, calls and processes.
THEOREM ManagerTypeCorrect == Spec => []TypeOK
  BY TypeInit, TypeStep, PTL DEF Spec

--------------------------------------------------------------------------
(* No orphans, and a status that tells                                     *)

\* What an action leaves of the instances for the invariant: who made them, how
\* far they are, whether they answered; a signal may be added, never taken back.
InstancesStand ==
    \A i \in Instances :
        /\ inst'[i].agent = inst[i].agent /\ inst'[i].phase = inst[i].phase
        /\ inst'[i].starting = inst[i].starting
        /\ inst'[i].signal = "none" => inst[i].signal = "none"

\* The map keeps an agent's instance, or drops one that is not probed and, if
\* alive, has been signalled.
KeepsOrSettles(a, q) ==
    \/ q.running = agent[a].running
    \/ /\ q.running = None /\ agent[a].running \in Instances /\ Probing(agent[a].running) = {}
       /\ ~(inst'[agent[a].running].phase = "alive" /\ inst'[agent[a].running].signal = "none")

\* A start's first segment, at once or after a stop, keeps the invariant.
LEMMA SegmentKeeps ==
  ASSUME ManagerInv, TypeOK', InstancesStand,
         NEW a \in Agents, NEW c \in Calls, NEW q \in AgentRec, NEW k \in CallRec,
         Segment(a, c, q, k), call[c].pc \in {"idle", "waitIdle"}, KeepsOrSettles(a, q),
         q.status = "running" => agent[a].status = "running" /\ q.running = agent[a].running
  PROVE  ManagerInv'
  <1>1. /\ \A b \in Agents : agent'[b] = IF b = a THEN q ELSE agent[b]
        /\ \A d \in Calls : call'[d] = IF d = c THEN k ELSE call[d]
        /\ \A d \in Calls : call[d].agent \in Agents
        /\ \A i \in Instances : inst[i].agent \in Agents
        /\ \A b \in Agents : agent[b].running \in Instances \cup {None}
    BY DEF Segment, Writes, ManagerInv, TypeOK, CallRec, InstanceRec, AgentRec
  <1>2. /\ k.pc \in {"idle", "scaffold"} /\ overlapped \subseteq overlapped'
        /\ k.pc = "scaffold" => k.agent = a /\ q.running = None
                                /\ (Scaffolding(a) # {} => a \in overlapped')
    BY DEF Segment
  <1>3. MapHoldsItsOwn'
    BY <1>1, ManagerAssumption DEF MapHoldsItsOwn, ManagerInv, InstancesStand, KeepsOrSettles
  <1>4. CallsHaveInstances'
    BY <1>1, <1>2 DEF CallsHaveInstances, ManagerInv, InstancesStand, At
  <1>5. OneProbe'
    BY <1>1, <1>2 DEF OneProbe, ManagerInv, At
  <1>6. OneStart'
    <2> SUFFICES ASSUME NEW b \in Agents, b \notin overlapped'
                 PROVE  /\ \A d \in Calls : At(d, "scaffold")' /\ call'[d].agent = b => agent'[b].running = None
                        /\ \A d, e \in Calls : (/\ At(d, "scaffold")' /\ call'[d].agent = b
                                                /\ At(e, "scaffold")' /\ call'[e].agent = b) => d = e
                        /\ \A d \in Calls : At(d, "probe")' /\ call'[d].agent = b
                                              => agent'[b].running = call'[d].inst
      BY DEF OneStart
    <2>1. b \in Agents \ overlapped BY <1>2
    <2>2. /\ \A d \in Calls : At(d, "scaffold") /\ call[d].agent = b => agent[b].running = None
          /\ \A d, e \in Calls : (/\ At(d, "scaffold") /\ call[d].agent = b
                                  /\ At(e, "scaffold") /\ call[e].agent = b) => d = e
          /\ \A d \in Calls : At(d, "probe") /\ call[d].agent = b => agent[b].running = call[d].inst
      BY <2>1 DEF ManagerInv, OneStart
    <2>3. ASSUME NEW d \in Calls, At(d, "scaffold")', call'[d].agent = b PROVE agent'[b].running = None
      BY <1>1, <1>2, <2>2, <2>3 DEF At, KeepsOrSettles
    <2>4. ASSUME NEW d \in Calls, At(d, "scaffold")', call'[d].agent = b,
                 NEW e \in Calls, At(e, "scaffold")', call'[e].agent = b
          PROVE  d = e
      BY <1>1, <1>2, <2>2, <2>4 DEF At, Scaffolding
    <2>5. ASSUME NEW d \in Calls, At(d, "probe")', call'[d].agent = b
          PROVE  agent'[b].running = call'[d].inst
      BY <1>1, <1>2, <2>2, <2>5 DEF At, KeepsOrSettles, Probing
    <2> QED BY <2>3, <2>4, <2>5
  <1>7. NoOrphans'
    BY <1>1, <1>2 DEF NoOrphans, ManagerInv, InstancesStand, KeepsOrSettles
  <1>8. StatusTells'
    BY <1>1, <1>2 DEF StatusTells, ManagerInv, InstancesStand
  <1> QED BY <1>3, <1>4, <1>5, <1>6, <1>7, <1>8 DEF ManagerInv

\* Starting, by a request or by the timer.
LEMMA StartKeeps ==
  ASSUME ManagerInv, TypeOK', NEW a \in Agents, NEW c \in Calls, Start(a, c) \/ Fire(a, c)
  PROVE  ManagerInv'
  <1>1. TypeOK BY DEF ManagerInv
  <1>2. PICK q \in AgentRec, k \in CallRec :
          /\ Segment(a, c, q, k)
          /\ q.running = agent[a].running /\ q.status \in {agent[a].status, "starting"}
    BY <1>1, StartEffect
  <1>3. At(c, "idle") /\ inst' = inst BY <1>1, StartEffect
  <1>4. InstancesStand BY <1>3 DEF InstancesStand
  <1> QED BY <1>2, <1>3, <1>4, SegmentKeeps DEF At, KeepsOrSettles

\* Stopping up to the wait for idle.
LEMMA StopKeeps ==
  ASSUME ManagerInv, TypeOK', NEW a \in Agents, NEW c \in Calls,
         NEW then \in {"none", "start", "delete"}, Stop(a, c, then)
  PROVE  ManagerInv'
  <1>0. TypeOK /\ At(c, "idle") BY StopEffect DEF ManagerInv
  <1>1. CASE agent[a].running = None
    <2>1. PICK q \in AgentRec, k \in CallRec :
            Segment(a, c, q, k) /\ q.running = None /\ q.status # "running"
      BY <1>0, <1>1, StopEffect
    <2>2. inst' = inst BY <1>0, <1>1, StopEffect
    <2>3. InstancesStand BY <2>2 DEF InstancesStand
    <2> QED BY <1>0, <1>1, <2>1, <2>3, SegmentKeeps DEF At, KeepsOrSettles
  <1>2. CASE agent[a].running # None
    <2>1. PICK q \in AgentRec, k \in CallRec :
            /\ Writes(a, c, q, k)
            /\ q.running = agent[a].running /\ q.status = agent[a].status /\ ~q.timer
            /\ k.pc = "waitIdle" /\ k.inst \in Instances
      BY <1>0, <1>2, StopEffect
    <2>2. overlapped' = overlapped /\ inst' = [inst EXCEPT ![agent[a].running].stopReq = TRUE]
      BY <1>0, <1>2, StopEffect
    <2>3. /\ \A b \in Agents : agent'[b].running = agent[b].running /\ agent'[b].status = agent[b].status
          /\ \A d \in Calls : call'[d] = IF d = c THEN k ELSE call[d]
          /\ \A d \in Calls : call[d].agent \in Agents
      BY <1>0, <2>1 DEF TypeOK, CallRec, Writes
    <2>4. \A i \in Instances : /\ inst'[i].agent = inst[i].agent /\ inst'[i].phase = inst[i].phase
                               /\ inst'[i].starting = inst[i].starting /\ inst'[i].signal = inst[i].signal
                               /\ inst[i].agent \in Agents
      BY <1>0, <2>2 DEF TypeOK, InstanceRec
    <2>5. \A b \in Agents : agent[b].running \in Instances \cup {None} BY <1>0 DEF TypeOK, AgentRec
    <2>6. MapHoldsItsOwn' BY <2>3, <2>4, <2>5 DEF MapHoldsItsOwn, ManagerInv
    <2>7. CallsHaveInstances' BY <2>1, <2>3, <2>4 DEF CallsHaveInstances, ManagerInv, At
    <2>8. OneProbe' BY <2>1, <2>3 DEF OneProbe, ManagerInv, At
    <2>9. OneStart' BY <2>1, <2>2, <2>3 DEF OneStart, ManagerInv, At
    <2>10. NoOrphans' BY <2>2, <2>3, <2>4 DEF NoOrphans, ManagerInv
    <2>11. StatusTells' BY <2>2, <2>3, <2>4 DEF StatusTells, ManagerInv
    <2> QED BY <2>6, <2>7, <2>8, <2>9, <2>10, <2>11 DEF ManagerInv
  <1> QED BY <1>1, <1>2

\* A stop that ends.
LEMMA StopFinishKeeps ==
  ASSUME ManagerInv, TypeOK', NEW c \in Calls, StopFinish(c)
  PROVE  ManagerInv'
  <1> DEFINE i == call[c].inst  a == call[c].agent
  <1>0. TypeOK BY DEF ManagerInv
  <1>1. /\ a \in Agents /\ agent[a].running \in Instances \cup {None}
        /\ call[c].pc = "waitIdle" /\ i \in Instances
    BY <1>0, StopFinishEffect DEF ManagerInv, CallsHaveInstances, TypeOK, CallRec, AgentRec, At
  <1>2. PICK q \in AgentRec, k \in CallRec :
          /\ Segment(a, c, q, k)
          /\ q.running = IF agent[a].running = i THEN None ELSE agent[a].running
          /\ q.status \in {"stopped", "starting", "deleted"}
    BY <1>0, StopFinishEffect
  <1>3. /\ Probing(i) = {}
        /\ inst' = IF inst[i].phase = "alive" /\ inst[i].signal = "none"
                   THEN [inst EXCEPT ![i].signal = "TERM"] ELSE inst
    BY <1>0, StopFinishEffect
  <1>4. InstancesStand /\ ~(inst'[i].phase = "alive" /\ inst'[i].signal = "none")
    BY <1>0, <1>1, <1>3 DEF InstancesStand, TypeOK, InstanceRec
  <1>5. KeepsOrSettles(a, q) BY <1>1, <1>2, <1>3, <1>4 DEF KeepsOrSettles
  <1> QED BY <1>1, <1>2, <1>4, <1>5, SegmentKeeps

\* A scaffold that fails.
LEMMA ScaffoldFailsKeeps ==
  ASSUME ManagerInv, TypeOK', NEW c \in Calls, ScaffoldFails(c)
  PROVE  ManagerInv'
  <1>0. TypeOK BY DEF ManagerInv
  <1>1. PICK a \in Agents, q \in AgentRec :
          /\ agent' = [agent EXCEPT ![a] = q]
          /\ q.running = agent[a].running /\ q.status \in {agent[a].status, "error", "deleted"}
    BY <1>0, ScaffoldFailsEffect
  <1>2. /\ call' = [call EXCEPT ![c] = IdleCall] /\ inst' = inst /\ overlapped' = overlapped
    BY <1>0, ScaffoldFailsEffect
  <1>3. /\ \A b \in Agents : /\ agent'[b].running = agent[b].running
                             /\ agent'[b].status = "running" => agent[b].status = "running"
        /\ \A d \in Calls : call'[d] = IF d = c THEN IdleCall ELSE call[d]
    BY <1>0, <1>1, <1>2 DEF TypeOK
  <1>4. IdleCall.pc = "idle" BY IdleTypes
  <1>5. MapHoldsItsOwn' BY <1>2, <1>3 DEF MapHoldsItsOwn, ManagerInv
  <1>6. CallsHaveInstances' BY <1>2, <1>3, <1>4 DEF CallsHaveInstances, ManagerInv, At
  <1>7. OneProbe' BY <1>3, <1>4 DEF OneProbe, ManagerInv, At
  <1>8. OneStart' BY <1>2, <1>3, <1>4 DEF OneStart, ManagerInv, At
  <1>9. NoOrphans' BY <1>0, <1>2, <1>3 DEF NoOrphans, ManagerInv, TypeOK, InstanceRec
  <1>10. StatusTells' BY <1>2, <1>3 DEF StatusTells, ManagerInv
  <1> QED BY <1>5, <1>6, <1>7, <1>8, <1>9, <1>10 DEF ManagerInv

\* A spawn: nothing of the agent ran, so the map loses no process.
LEMMA SpawnKeeps ==
  ASSUME ManagerInv, TypeOK', NEW c \in Calls, NEW i \in Instances, Spawn(c, i)
  PROVE  ManagerInv'
  <1> DEFINE a == call[c].agent
  <1>0. TypeOK BY DEF ManagerInv
  <1>1. PICK q \in AgentRec, k \in CallRec, p \in InstanceRec :
          /\ agent' = [agent EXCEPT ![a] = q] /\ call' = [call EXCEPT ![c] = k]
          /\ inst' = [inst EXCEPT ![i] = p]
          /\ q.running = i /\ q.timer = agent[a].timer /\ q.status = agent[a].status
          /\ k.pc = "probe" /\ k.inst = i /\ k.agent = a
          /\ p.agent = a /\ p.phase = "alive"
    BY <1>0, SpawnEffect
  <1>2. call[c].pc = "scaffold" /\ inst[i].phase = "unused" /\ overlapped' = overlapped
    BY <1>0, SpawnEffect DEF At
  <1>3. /\ \A b \in Agents : agent'[b] = IF b = a THEN q ELSE agent[b]
        /\ \A d \in Calls : call'[d] = IF d = c THEN k ELSE call[d]
        /\ \A j \in Instances : inst'[j] = IF j = i THEN p ELSE inst[j]
        /\ \A j \in Instances : inst[j].agent \in Agents
        /\ \A b \in Agents : agent[b].running \in Instances \cup {None}
        /\ a \in Agents
    BY <1>0, <1>1 DEF TypeOK, CallRec, InstanceRec, AgentRec
  <1>4. i # None BY ManagerAssumption
  <1>5. a \notin overlapped => agent[a].running = None /\ agent[a].status # "running"
    BY <1>2, <1>3, ManagerAssumption DEF ManagerInv, OneStart, StatusTells, At
  <1> HIDE DEF a
  <1>6. MapHoldsItsOwn' BY <1>1, <1>2, <1>3, <1>4 DEF MapHoldsItsOwn, ManagerInv
  <1>7. CallsHaveInstances' BY <1>1, <1>2, <1>3 DEF CallsHaveInstances, ManagerInv, At
  <1>8. OneProbe' BY <1>1, <1>2, <1>3 DEF OneProbe, CallsHaveInstances, ManagerInv, At
  <1>9. OneStart'
    <2> SUFFICES ASSUME NEW b \in Agents, b \notin overlapped
                 PROVE  /\ \A d \in Calls : At(d, "scaffold")' /\ call'[d].agent = b => agent'[b].running = None
                        /\ \A d, e \in Calls : (/\ At(d, "scaffold")' /\ call'[d].agent = b
                                                /\ At(e, "scaffold")' /\ call'[e].agent = b) => d = e
                        /\ \A d \in Calls : At(d, "probe")' /\ call'[d].agent = b
                                              => agent'[b].running = call'[d].inst
      BY <1>2 DEF OneStart
    <2>1. /\ \A d \in Calls : At(d, "scaffold") /\ call[d].agent = b => agent[b].running = None
          /\ \A d, e \in Calls : (/\ At(d, "scaffold") /\ call[d].agent = b
                                  /\ At(e, "scaffold") /\ call[e].agent = b) => d = e
          /\ \A d \in Calls : At(d, "probe") /\ call[d].agent = b => agent[b].running = call[d].inst
          /\ \A d \in Calls : At(d, "probe") => call[d].inst # None
      BY ManagerAssumption DEF ManagerInv, OneStart, CallsHaveInstances
    <2>2. ASSUME NEW d \in Calls, At(d, "scaffold")', call'[d].agent = b PROVE agent'[b].running = None
      BY <1>1, <1>2, <1>3, <2>1, <2>2 DEF At, a
    <2>3. ASSUME NEW d \in Calls, At(d, "scaffold")', call'[d].agent = b,
                 NEW e \in Calls, At(e, "scaffold")', call'[e].agent = b
          PROVE  d = e
      BY <1>1, <1>3, <2>1, <2>3 DEF At
    <2>4. ASSUME NEW d \in Calls, At(d, "probe")', call'[d].agent = b
          PROVE  agent'[b].running = call'[d].inst
      BY <1>1, <1>3, <1>5, <2>1, <2>4 DEF At
    <2> QED BY <2>2, <2>3, <2>4
  <1>10. NoOrphans' BY <1>1, <1>2, <1>3, <1>4, <1>5, ManagerAssumption DEF NoOrphans, ManagerInv
  <1>11. StatusTells' BY <1>1, <1>2, <1>3, <1>5 DEF StatusTells, ManagerInv
  <1> QED BY <1>6, <1>7, <1>8, <1>9, <1>10, <1>11 DEF ManagerInv

\* A probe that is answered: the instance has, and it is what the map holds.
LEMMA ProbeOkKeeps ==
  ASSUME ManagerInv, TypeOK', NEW c \in Calls, ProbeOk(c)
  PROVE  ManagerInv'
  <1> DEFINE a == call[c].agent  i == call[c].inst
  <1>0. TypeOK BY DEF ManagerInv
  <1>1. PICK q \in AgentRec :
          /\ agent' = [agent EXCEPT ![a] = q]
          /\ q.running = agent[a].running /\ q.timer = agent[a].timer
          /\ q.status \in {"running", "deleted"}
    BY <1>0, ProbeOkEffect
  <1>2. /\ call[c].pc = "probe" /\ call' = [call EXCEPT ![c] = IdleCall]
        /\ inst' = [inst EXCEPT ![i].starting = FALSE] /\ overlapped' = overlapped
    BY <1>0, ProbeOkEffect DEF At
  <1>3. /\ a \in Agents /\ i \in Instances /\ inst[i].phase = "alive" /\ IdleCall.pc = "idle"
        /\ a \notin overlapped => agent[a].running = i
    BY <1>0, <1>2, IdleTypes DEF TypeOK, CallRec, ManagerInv, CallsHaveInstances, OneStart, At
  <1>4. /\ \A b \in Agents : agent'[b].running = agent[b].running
        /\ \A b \in Agents \ {a} : agent'[b].status = agent[b].status
        /\ \A d \in Calls : call'[d] = IF d = c THEN IdleCall ELSE call[d]
        /\ \A j \in Instances : inst[j].agent \in Agents
        /\ \A b \in Agents : agent[b].running \in Instances \cup {None}
    BY <1>0, <1>1, <1>2 DEF TypeOK, InstanceRec, AgentRec
  <1>5. /\ \A j \in Instances : /\ inst'[j].agent = inst[j].agent /\ inst'[j].phase = inst[j].phase
                                /\ inst'[j].signal = inst[j].signal
        /\ \A j \in Instances : inst'[j].starting => inst[j].starting
        /\ ~inst'[i].starting
    BY <1>0, <1>2 DEF TypeOK, InstanceRec
  <1> HIDE DEF a, i
  <1>6. MapHoldsItsOwn' BY <1>4, <1>5 DEF MapHoldsItsOwn, ManagerInv
  <1>7. CallsHaveInstances' BY <1>3, <1>4, <1>5 DEF CallsHaveInstances, ManagerInv, At
  <1>8. OneProbe' BY <1>3, <1>4 DEF OneProbe, ManagerInv, At
  <1>9. OneStart' BY <1>2, <1>3, <1>4 DEF OneStart, ManagerInv, At
  <1>10. NoOrphans' BY <1>2, <1>4, <1>5 DEF NoOrphans, ManagerInv
  <1>11. StatusTells'
    <2> SUFFICES ASSUME NEW b \in Agents, b \notin overlapped, agent'[b].status = "running"
                 PROVE  \E j \in Instances : /\ agent'[b].running = j /\ inst'[j].phase = "alive"
                                             /\ ~inst'[j].starting
      BY <1>2 DEF StatusTells
    <2>1. CASE b = a BY <1>3, <1>4, <1>5, <2>1
    <2>2. CASE b # a
      <3>1. PICK j \in Instances : agent[b].running = j /\ inst[j].phase = "alive" /\ ~inst[j].starting
        BY <1>4, <2>2 DEF ManagerInv, StatusTells
      <3> QED BY <1>4, <1>5, <3>1
    <2> QED BY <2>1, <2>2
  <1> QED BY <1>6, <1>7, <1>8, <1>9, <1>10, <1>11 DEF ManagerInv

\* A probe that fails: what the map drops is killed.
LEMMA ProbeFailKeeps ==
  ASSUME ManagerInv, TypeOK', NEW c \in Calls, ProbeFail(c)
  PROVE  ManagerInv'
  <1> DEFINE a == call[c].agent  i == call[c].inst
  <1>0. TypeOK BY DEF ManagerInv
  <1>1. PICK q \in AgentRec :
          /\ agent' = [agent EXCEPT ![a] = q]
          /\ q.running = IF agent[a].running = i THEN None ELSE agent[a].running
          /\ q.timer = agent[a].timer /\ q.status \in {"error", "deleted"}
    BY <1>0, ProbeFailEffect
  <1>2. /\ call[c].pc = "probe" /\ call' = [call EXCEPT ![c] = IdleCall]
        /\ inst' = [inst EXCEPT ![i].signal = "KILL"] /\ overlapped' = overlapped
    BY <1>0, ProbeFailEffect DEF At
  <1>3. /\ a \in Agents /\ i \in Instances /\ IdleCall.pc = "idle"
        /\ a \notin overlapped => agent[a].running = i
    BY <1>0, <1>2, IdleTypes DEF TypeOK, CallRec, ManagerInv, CallsHaveInstances, OneStart, At
  <1>4. /\ \A b \in Agents : agent'[b] = IF b = a THEN q ELSE agent[b]
        /\ \A d \in Calls : call'[d] = IF d = c THEN IdleCall ELSE call[d]
        /\ \A j \in Instances : inst[j].agent \in Agents
        /\ \A b \in Agents : agent[b].running \in Instances \cup {None}
    BY <1>0, <1>1, <1>2 DEF TypeOK, InstanceRec, AgentRec
  <1>5. \A j \in Instances : /\ inst'[j].agent = inst[j].agent /\ inst'[j].phase = inst[j].phase
                             /\ inst'[j].starting = inst[j].starting
                             /\ inst'[j].signal = IF j = i THEN "KILL" ELSE inst[j].signal
    BY <1>0, <1>2 DEF TypeOK, InstanceRec
  <1>6. \A d \in Calls : (At(d, "probe") /\ call[d].inst = i) => d = c
    BY <1>2 DEF ManagerInv, OneProbe, At
  <1> HIDE DEF a, i
  <1>7. MapHoldsItsOwn' BY <1>1, <1>4, <1>5 DEF MapHoldsItsOwn, ManagerInv
  <1>8. CallsHaveInstances' BY <1>3, <1>4, <1>5 DEF CallsHaveInstances, ManagerInv, At
  <1>9. OneProbe' BY <1>3, <1>4 DEF OneProbe, ManagerInv, At
  <1>10. OneStart' BY <1>1, <1>2, <1>3, <1>4, <1>6 DEF OneStart, ManagerInv, At
  <1>11. NoOrphans' BY <1>1, <1>2, <1>4, <1>5 DEF NoOrphans, ManagerInv
  <1>12. StatusTells' BY <1>1, <1>2, <1>4, <1>5 DEF StatusTells, ManagerInv
  <1> QED BY <1>7, <1>8, <1>9, <1>10, <1>11, <1>12 DEF ManagerInv

\* An exit: the map drops what is gone, and a record that says "running" is
\* then of another process, or was of none that had answered.
LEMMA ExitKeeps ==
  ASSUME ManagerInv, TypeOK', NEW i \in Instances, NEW signalled \in BOOLEAN, Exit(i, signalled)
  PROVE  ManagerInv'
  <1> DEFINE a == inst[i].agent
  <1>0. TypeOK BY DEF ManagerInv
  <1>1. PICK q \in AgentRec :
          /\ agent' = [agent EXCEPT ![a] = q]
          /\ q.running = IF agent[a].running = i THEN None ELSE agent[a].running
          /\ (q.status = "running" =>
                agent[a].status = "running" /\ (inst[i].starting \/ agent[a].running # i))
          /\ (q.timer /\ ~agent[a].timer => ~inst[i].stopReq)
    BY <1>0, ExitEffect
  <1>2. /\ inst[i].phase = "alive" /\ overlapped' = overlapped
        /\ inst' = [inst EXCEPT ![i].phase = "exited", ![i].starting = FALSE]
        /\ call' = [c \in Calls |-> IF c \in Probing(i) THEN IdleCall ELSE call[c]]
    BY <1>0, ExitEffect
  <1>3. /\ a \in Agents /\ IdleCall.pc = "idle"
        /\ \A b \in Agents : agent'[b] = IF b = a THEN q ELSE agent[b]
        /\ \A j \in Instances : inst[j].agent \in Agents
        /\ \A b \in Agents : agent[b].running \in Instances \cup {None}
    BY <1>0, <1>1, IdleTypes DEF TypeOK, InstanceRec, AgentRec
  <1>4. \A d \in Calls : call'[d].pc # "idle" =>
            call'[d] = call[d] /\ ~(call[d].pc = "probe" /\ call[d].inst = i)
    BY <1>2, <1>3 DEF Probing, At
  <1>5. /\ \A j \in Instances : inst'[j].agent = inst[j].agent /\ inst'[j].signal = inst[j].signal
        /\ \A j \in Instances \ {i} : inst'[j].phase = inst[j].phase /\ inst'[j].starting = inst[j].starting
        /\ inst'[i].phase = "exited"
    BY <1>0, <1>2 DEF TypeOK, InstanceRec
  <1>6. \A b \in Agents \ {a} : agent[b].running # i
    BY ManagerAssumption DEF ManagerInv, MapHoldsItsOwn
  <1> HIDE DEF a
  <1>7. MapHoldsItsOwn' BY <1>1, <1>3, <1>5, <1>6 DEF MapHoldsItsOwn, ManagerInv
  <1>8. CallsHaveInstances' BY <1>4, <1>5 DEF CallsHaveInstances, ManagerInv, At
  <1>9. OneProbe' BY <1>4 DEF OneProbe, ManagerInv, At
  <1>10. OneStart' BY <1>1, <1>2, <1>3, <1>4 DEF OneStart, ManagerInv, At
  <1>11. NoOrphans'
    <2> SUFFICES ASSUME NEW j \in Instances, inst'[j].phase = "alive", inst'[j].signal = "none",
                        inst'[j].agent \notin overlapped
                 PROVE  agent'[inst'[j].agent].running = j
      BY <1>2 DEF NoOrphans
    <2>1. j # i /\ inst'[j].agent = inst[j].agent /\ inst[j].agent \in Agents BY <1>3, <1>5
    <2>2. agent[inst[j].agent].running = j BY <1>5, <2>1 DEF ManagerInv, NoOrphans
    <2> QED BY <1>1, <1>3, <2>1, <2>2
  <1>12. StatusTells'
    <2> SUFFICES ASSUME NEW b \in Agents, b \notin overlapped, agent'[b].status = "running"
                 PROVE  \E j \in Instances : /\ agent'[b].running = j /\ inst'[j].phase = "alive"
                                             /\ ~inst'[j].starting
      BY <1>2 DEF StatusTells
    <2>1. agent[b].status = "running" BY <1>1, <1>3
    <2>2. PICK j \in Instances : agent[b].running = j /\ inst[j].phase = "alive" /\ ~inst[j].starting
      BY <2>1 DEF ManagerInv, StatusTells
    <2>3. j # i /\ agent'[b].running = j BY <1>1, <1>3, <1>6, <2>2
    <2> QED BY <1>5, <2>2, <2>3
  <1> QED BY <1>7, <1>8, <1>9, <1>10, <1>11, <1>12 DEF ManagerInv

\* The invariant is inductive.
LEMMA ManagerInvStep == ManagerInv /\ [Next]_vars => ManagerInv'
  <1> SUFFICES ASSUME ManagerInv, [Next]_vars PROVE ManagerInv' OBVIOUS
  <1>1. TypeOK' BY TypeStep DEF ManagerInv
  <1>2. CASE UNCHANGED vars
    BY <1>1, <1>2 DEF vars, ManagerInv, MapHoldsItsOwn, CallsHaveInstances, OneProbe, OneStart,
                      NoOrphans, StatusTells, At
  <1>3. CASE Next
    BY <1>1, <1>3, StartKeeps, StopKeeps, ScaffoldFailsKeeps, SpawnKeeps, ProbeOkKeeps, ProbeFailKeeps,
       StopFinishKeeps, ExitKeeps DEF Next
  <1> QED BY <1>2, <1>3

\* Nothing runs and nothing is in flight.
LEMMA ManagerInit == Init => ManagerInv
  <1> SUFFICES ASSUME Init PROVE ManagerInv OBVIOUS
  <1>1. /\ \A a \in Agents : agent[a].running = None /\ agent[a].status = "stopped"
        /\ \A c \in Calls : call[c] = IdleCall
        /\ \A i \in Instances : inst[i] = Unused
    BY DEF Init
  <1> QED BY <1>1, IdleTypes, TypeInit DEF ManagerInv, MapHoldsItsOwn, CallsHaveInstances, OneProbe,
                 OneStart, NoOrphans, StatusTells, At

\* The inductive invariant holds throughout.
LEMMA ManagerInvariant == Spec => []ManagerInv
  BY ManagerInit, ManagerInvStep, PTL DEF Spec

\* No process is left behind, for any agents, however their starts, stops,
\* crashes and deletes overlap.
THEOREM NothingOrphaned == Spec => []NoOrphans
  <1>1. ManagerInv => NoOrphans BY DEF ManagerInv
  <1> QED BY <1>1, ManagerInvariant, PTL

\* A record that says "running" has a live process that has answered.
THEOREM StatusTellsTheTruth == Spec => []StatusTells
  <1>1. ManagerInv => StatusTells BY DEF ManagerInv
  <1> QED BY <1>1, ManagerInvariant, PTL

\* Only an instance's own exit makes it exited, and that exit finds its mark:
\* a stopped instance is never taken for crashed.
THEOREM StopsAreNoCrashes == Spec => StopIsNoCrash
  <1> DEFINE NoCrash == \A i \in Instances :
        (inst[i].stopReq /\ inst[i].phase = "alive" /\ inst'[i].phase = "exited") =>
            \A a \in Agents : agent'[a].timer => agent[a].timer
  <1>1. ASSUME TypeOK, [Next]_vars PROVE NoCrash
    <2> SUFFICES ASSUME NEW i \in Instances, inst[i].stopReq, inst[i].phase = "alive",
                        inst'[i].phase = "exited"
                 PROVE  \A a \in Agents : agent'[a].timer => agent[a].timer
      OBVIOUS
    <2>0. inst \in [Instances -> InstanceRec] /\ agent \in [Agents -> AgentRec] BY <1>1 DEF TypeOK
    <2>1. CASE UNCHANGED vars BY <2>1 DEF vars
    <2>2. ASSUME NEW a \in Agents, NEW c \in Calls, Start(a, c) \/ Fire(a, c) PROVE FALSE
      BY <1>1, <2>2, StartEffect
    <2>3. ASSUME NEW a \in Agents, NEW c \in Calls, NEW then \in {"none", "start", "delete"},
                 Stop(a, c, then)
          PROVE  FALSE
      <3>1. inst' = inst \/ inst' = [inst EXCEPT ![agent[a].running].stopReq = TRUE]
        BY <1>1, <2>3, StopEffect
      <3> QED BY <2>0, <3>1 DEF InstanceRec
    <2>4. ASSUME NEW c \in Calls, ScaffoldFails(c) PROVE FALSE
      BY <1>1, <2>4, ScaffoldFailsEffect
    <2>5. ASSUME NEW c \in Calls, NEW j \in Instances, Spawn(c, j) PROVE FALSE
      <3>1. \E p \in InstanceRec : inst' = [inst EXCEPT ![j] = p] /\ p.phase = "alive"
        BY <1>1, <2>5, SpawnEffect
      <3> QED BY <2>0, <3>1
    <2>6. ASSUME NEW c \in Calls, ProbeOk(c) PROVE FALSE
      <3>1. inst' = [inst EXCEPT ![call[c].inst].starting = FALSE] BY <1>1, <2>6, ProbeOkEffect
      <3> QED BY <2>0, <3>1 DEF InstanceRec
    <2>7. ASSUME NEW c \in Calls, ProbeFail(c) PROVE FALSE
      <3>1. inst' = [inst EXCEPT ![call[c].inst].signal = "KILL"] BY <1>1, <2>7, ProbeFailEffect
      <3> QED BY <2>0, <3>1 DEF InstanceRec
    <2>8. ASSUME NEW c \in Calls, StopFinish(c) PROVE FALSE
      <3>1. inst' = inst \/ inst' = [inst EXCEPT ![call[c].inst].signal = "TERM"]
        BY <1>1, <2>8, StopFinishEffect
      <3> QED BY <2>0, <3>1 DEF InstanceRec
    <2>9. ASSUME NEW j \in Instances, NEW signalled \in BOOLEAN, Exit(j, signalled)
          PROVE  \A a \in Agents : agent'[a].timer => agent[a].timer
      <3>1. inst' = [inst EXCEPT ![j].phase = "exited", ![j].starting = FALSE]
        BY <1>1, <2>9, ExitEffect
      <3>2. i = j BY <2>0, <3>1 DEF InstanceRec
      <3>3. PICK q \in AgentRec : /\ agent' = [agent EXCEPT ![inst[j].agent] = q]
                                  /\ (q.timer /\ ~agent[inst[j].agent].timer => ~inst[j].stopReq)
        BY <1>1, <2>9, ExitEffect
      <3> QED BY <2>0, <3>2, <3>3
    <2> QED BY <1>1, <2>1, <2>2, <2>3, <2>4, <2>5, <2>6, <2>7, <2>8, <2>9 DEF Next
  <1> QED BY <1>1, ManagerTypeCorrect, PTL DEF Spec, StopIsNoCrash

--------------------------------------------------------------------------
(* The conversation: those of a sequence that are picked                   *)

\* How many of xs are up to x.
Rank(xs, x) == Cardinality({y \in xs : y <= x})
\* The position in s of the k-th that is picked.
PickAt(xs, k) == CHOOSE x \in xs : Rank(xs, x) = k

\* Numbers have ranks: the k-th of a set of positions is there, and they go up.
LEMMA Ranked ==
  ASSUME NEW n \in Nat, NEW xs \in SUBSET (1 .. n)
  PROVE  /\ IsFiniteSet(xs) /\ Cardinality(xs) \in Nat
         /\ \A k \in 1 .. Cardinality(xs) : PickAt(xs, k) \in xs /\ Rank(xs, PickAt(xs, k)) = k
         /\ \A x \in xs : Rank(xs, x) \in 1 .. Cardinality(xs) /\ PickAt(xs, Rank(xs, x)) = x
         /\ \A j, k \in 1 .. Cardinality(xs) : j < k => PickAt(xs, j) < PickAt(xs, k)
  <1> DEFINE upto(x) == {y \in xs : y <= x}
  <1> DEFINE f == [x \in xs |-> Rank(xs, x)]
  <1> DEFINE N == Cardinality(xs)
  <1>0. IsFiniteSet(1 .. n) BY FS_Interval
  <1>a. \A x \in xs : x \in Int OBVIOUS
  <1>1. IsFiniteSet(xs) BY <1>0, FS_Subset
  <1>2. N \in Nat BY <1>1, FS_CardinalityType
  <1>3. \A x \in xs : IsFiniteSet(upto(x)) /\ Rank(xs, x) \in Nat /\ Rank(xs, x) <= N
    <2> TAKE x \in xs
    <2>1. upto(x) \in SUBSET xs OBVIOUS
    <2>2. IsFiniteSet(upto(x)) /\ Cardinality(upto(x)) <= N BY <1>1, <2>1, FS_Subset
    <2>3. Cardinality(upto(x)) \in Nat BY <2>2, FS_CardinalityType
    <2> QED BY <2>2, <2>3 DEF Rank
  <1>4. \A x, y \in xs : x < y => Rank(xs, x) < Rank(xs, y)
    <2> TAKE x, y \in xs
    <2> HAVE x < y
    <2>0. \A z \in xs : z \in Int BY <1>a
    <2>1. upto(x) \in SUBSET upto(y)
      <3>1. \A z \in xs : z <= x => z <= y BY <2>0
      <3> QED BY <3>1
    <2>2. y \in upto(y) /\ y \notin upto(x) BY <2>0
    <2>3. Cardinality(upto(x)) <= Cardinality(upto(y)) /\ (Cardinality(upto(y)) = Cardinality(upto(x)) => upto(y) = upto(x))
      BY <1>3, <2>1, FS_Subset
    <2>4. Cardinality(upto(x)) # Cardinality(upto(y)) BY <2>2, <2>3
    <2> HIDE DEF upto
    <2>5. Rank(xs, x) = Cardinality(upto(x)) /\ Rank(xs, y) = Cardinality(upto(y)) BY DEF Rank, upto
    <2> QED BY <1>3, <2>3, <2>4, <2>5
  <1>5. \A x \in xs : Rank(xs, x) >= 1
    <2> TAKE x \in xs
    <2>1. x \in upto(x) BY <1>a
    <2>2. Cardinality(upto(x)) # 0 BY <1>3, <2>1, FS_EmptySet
    <2> QED BY <1>3, <2>2 DEF Rank
  <1>d. \A x \in xs : Rank(xs, x) \in Int
    <2> TAKE x \in xs
    <2>1. Rank(xs, x) \in Nat BY <1>3
    <2> QED BY <2>1
  <1> HIDE DEF upto
  <1>b. \A x \in xs : Rank(xs, x) \in 1 .. N
    <2> TAKE x \in xs
    <2>1. Rank(xs, x) \in Nat /\ Rank(xs, x) <= N /\ Rank(xs, x) >= 1 BY <1>3, <1>5
    <2> HIDE DEF N
    <2>2. N \in Int BY <1>2
    <2> QED BY <2>1, <2>2
  <1>c. \A x, y \in xs : Rank(xs, x) = Rank(xs, y) => x = y
    <2> TAKE x, y \in xs
    <2> HAVE Rank(xs, x) = Rank(xs, y)
    <2>1. Rank(xs, x) \in Int /\ Rank(xs, y) \in Int BY <1>d
    <2>2. ~(x < y) BY <1>4, <2>1
    <2>3. ~(y < x) BY <1>4, <2>1
    <2>4. x \in Int /\ y \in Int BY <1>a
    <2> QED BY <2>2, <2>3, <2>4
  <1>6. f \in Injection(xs, 1 .. N)
    <2>1. f \in [xs -> 1 .. N] BY <1>b
    <2>2. \A x, y \in xs : f[x] = f[y] => x = y BY <1>c
    <2> QED BY <2>1, <2>2 DEF Injection, IsInjective
  <1>7. IsFiniteSet(1 .. N) /\ Cardinality(1 .. N) = N BY <1>2, FS_Interval
  <1>8. f \in Surjection(xs, 1 .. N) BY <1>6, <1>7, FS_Injection
  <1>9. \A k \in 1 .. N : \E x \in xs : Rank(xs, x) = k BY <1>8 DEF Surjection
  <1>10. \A k \in 1 .. N : PickAt(xs, k) \in xs /\ Rank(xs, PickAt(xs, k)) = k BY <1>9 DEF PickAt
  <1>13. \A x \in xs : PickAt(xs, Rank(xs, x)) = x BY <1>b, <1>c, <1>10
  <1>14. \A j, k \in 1 .. N : j < k => PickAt(xs, j) < PickAt(xs, k)
    <2> TAKE j, k \in 1 .. N
    <2> HAVE j < k
    <2>1. PickAt(xs, j) \in xs /\ PickAt(xs, k) \in xs /\ Rank(xs, PickAt(xs, j)) = j /\ Rank(xs, PickAt(xs, k)) = k BY <1>10
    <2>2. j \in Int /\ k \in Int BY <1>2
    <2>3. PickAt(xs, j) # PickAt(xs, k) BY <2>1, <2>2
    <2>4. ~(PickAt(xs, k) < PickAt(xs, j))
      <3>1. PickAt(xs, k) < PickAt(xs, j) => Rank(xs, PickAt(xs, k)) < Rank(xs, PickAt(xs, j)) BY <1>4, <2>1
      <3>2. ~(k < j) BY <2>2
      <3> QED BY <2>1, <3>1, <3>2
    <2>5. PickAt(xs, j) \in Int /\ PickAt(xs, k) \in Int BY <1>a, <2>1
    <2> QED BY <2>3, <2>4, <2>5
  <1> QED BY <1>1, <1>2, <1>b, <1>10, <1>13, <1>14

\* What is picked comes from the positions h, which keep their order.
PicksBy(s, xs, P, h) ==
    /\ h \in [1 .. Len(P) -> xs]
    /\ \A k \in 1 .. Len(P) : P[k] = s[h[k]]
    /\ \A j, k \in 1 .. Len(P) : j < k => h[j] < h[k]
    /\ \A x \in xs : \E k \in 1 .. Len(P) : h[k] = x
\* Such positions there are.
LEMMA PickedIs ==
  ASSUME NEW T, NEW s \in Seq(T), NEW xs \in SUBSET (1 .. Len(s))
  PROVE  Picked(s, xs) \in Seq(T) /\ \E h : PicksBy(s, xs, Picked(s, xs), h)
  <1> DEFINE N == Cardinality(xs)
  <1>0. Len(s) \in Nat OBVIOUS
  <1>1. /\ N \in Nat
        /\ \A k \in 1 .. N : PickAt(xs, k) \in xs
        /\ \A x \in xs : Rank(xs, x) \in 1 .. N /\ PickAt(xs, Rank(xs, x)) = x
        /\ \A j, k \in 1 .. N : j < k => PickAt(xs, j) < PickAt(xs, k)
    BY <1>0, Ranked
  <1>2. Picked(s, xs) = [k \in 1 .. N |-> s[PickAt(xs, k)]] BY DEF Picked, PickAt, Rank
  <1> DEFINE h == [k \in 1 .. N |-> PickAt(xs, k)]
  <1> HIDE DEF N
  <1>a. \A x \in xs : s[x] \in T BY ElementOfSeq
  <1>3. \A k \in 1 .. N : s[PickAt(xs, k)] \in T BY <1>a, <1>1
  <1>4. Picked(s, xs) \in Seq(T) BY <1>1, <1>2, <1>3
  <1>5. Len(Picked(s, xs)) = N BY <1>1, <1>2, <1>3, <1>4
  <1>6. h \in [1 .. N -> xs] BY <1>1
  <1>7. \A k \in 1 .. N : Picked(s, xs)[k] = s[h[k]] BY <1>2
  <1>8. \A j, k \in 1 .. N : j < k => h[j] < h[k] BY <1>1
  <1>9. \A x \in xs : \E k \in 1 .. N : h[k] = x BY <1>1
  <1> HIDE DEF h
  <1>10. PicksBy(s, xs, Picked(s, xs), h) BY <1>5, <1>6, <1>7, <1>8, <1>9 DEF PicksBy
  <1> QED BY <1>4, <1>10

--------------------------------------------------------------------------
(* Types                                                                   *)

\* A command the tab sends.
Order == [cmd : {"state", "messages", "prompt"}, for : Nat, steer : BOOLEAN, conn : Nat \cup {None}]
         \cup [cmd : {"new"}, for : {None}, steer : BOOLEAN, conn : Nat \cup {None}]
\* What pi is asked came over a connection.
TakenOrder == {c \in Order : c.conn \in Nat}
\* What pi prints, and what goes to the tab.
Line == [line : {"start", "settled", "running"}, m : {None}, results : {<<>>}]
        \cup [line : {"message"}, m : Msg, results : {<<>>}]
        \cup [line : {"turn"}, m : Msg, results : Seq(Msg)]
        \cup [line : {"answer"}, to : {c \in TakenOrder : c.cmd = "state"}, data : BOOLEAN]
        \cup [line : {"answer"}, to : {c \in TakenOrder : c.cmd = "messages"}, data : Seq(Msg)]
        \cup [line : {"answer"}, to : {c \in TakenOrder : c.cmd = "new"}, data : {None}]
\* Pi.
PiRec == [inst : Instances \cup {None}, busy : BOOLEAN, turn : {"none", "spoken", "tooled", "over"}, said : Seq(Msg), results : Seq(Msg)]

\* A tab of which every optimistic prompt shows, and every pass is of a generation there was.
TabRight(t) ==
    /\ t \in TabRec /\ t.optimistic \subseteq Range(t.shown)
    /\ \A b \in t.boots : b.gen \in 1 .. t.gen

\* A pi that has said what its turn is of.
PiRight(p) ==
    /\ p \in PiRec
    /\ p.turn # "none" => p.busy
    /\ p.turn = "spoken" => p.results = <<>> /\ Len(p.said) >= 1
    /\ p.turn = "tooled" => Len(p.results) = 1 /\ Len(p.said) >= 2

\* The types of a chat, with what its parts have to do with each other.
ChatTypes ==
    /\ PiRight(pi)
    /\ stdin \in Seq(TakenOrder) /\ up \in Seq(Order) /\ unsent \in Seq(Order)
    /\ stdout \in Seq(Line) /\ down \in Seq(Line)
    /\ conn \in Nat \cup {None} /\ excused \in BOOLEAN
    /\ conn # None => unsent = <<>>
    /\ conn = None => up = <<>> /\ down = <<>>
    /\ tab # None => TabRight(tab)
\* What may still happen is counted.
Quotas == left.prompt \in Nat /\ left.drop \in Nat

\* What is sent goes over the connection there is, or waits for one.
LEMMA SendKeeps ==
  ASSUME up \in Seq(Order), unsent \in Seq(Order), conn # None => unsent = <<>>, conn = None => up = <<>>,
         NEW cmds \in Seq(Order), Send(cmds)
  PROVE  /\ up' \in Seq(Order) /\ unsent' \in Seq(Order)
         /\ conn # None => unsent' = <<>>
         /\ conn = None => up' = <<>>
  <1>1. CASE conn # None
    <2>1. up' = up \o cmds /\ unsent' = unsent BY <1>1 DEF Send
    <2>2. up \o cmds \in Seq(Order) OBVIOUS
    <2> QED BY <1>1, <2>1, <2>2
  <1>2. CASE conn = None
    <2>1. unsent' = unsent \o cmds /\ up' = up BY <1>2 DEF Send
    <2>2. unsent \o cmds \in Seq(Order) OBVIOUS
    <2> QED BY <1>2, <2>1, <2>2
  <1> QED BY <1>1, <1>2

\* A sequence of two.
LEMMA Pair == ASSUME NEW S, NEW a \in S, NEW b \in S PROVE <<a, b>> \in Seq(S)
  OBVIOUS

\* A sequence that gets one more element.
LEMMA Grows ==
  ASSUME NEW S, NEW s \in Seq(S), NEW e \in S
  PROVE  Append(s, e) \in Seq(S) /\ Range(Append(s, e)) = Range(s) \cup {e}
  <1>1. Append(s, e) \in Seq(S) OBVIOUS
  <1>2. Range(s) = {s[i] : i \in 1 .. Len(s)} BY RangeEquality
  <1>3. Range(Append(s, e)) = {Append(s, e)[i] : i \in 1 .. Len(Append(s, e))} BY <1>1, RangeEquality
  <1>4. Len(Append(s, e)) = Len(s) + 1 /\ Append(s, e)[Len(s) + 1] = e /\ \A i \in 1 .. Len(s) : Append(s, e)[i] = s[i] OBVIOUS
  <1>5. 1 .. Len(Append(s, e)) = 1 .. Len(s) \cup {Len(s) + 1} BY <1>4
  <1> QED BY <1>1, <1>2, <1>3, <1>4, <1>5

\* A bootstrap's requests are orders.
LEMMA AsksAre ==
  ASSUME NEW t, t.gen \in Nat
  PROVE  Asks(t) \in Seq(Order)
  <1>1. Command("state", t.gen, FALSE) \in Order BY DEF Command, Order
  <1>2. Command("messages", t.gen, FALSE) \in Order BY DEF Command, Order
  <1> QED
    <2>1. Asks(t) = <<Command("state", t.gen, FALSE), Command("messages", t.gen, FALSE)>> BY DEF Asks
    <2> QED BY <1>1, <1>2, <2>1, Pair

\* A tab that bootstraps (again) is one, of the next generation.
LEMMA BootingKeeps ==
  ASSUME NEW t, TabRight(t)
  PROVE  TabRight(Booting(t)) /\ Booting(t).gen = t.gen + 1
  <1> DEFINE b == [gen |-> t.gen + 1, state |-> None, messages |-> None]
  <1>1. t \in TabRec /\ t.gen \in Nat /\ t.boots \subseteq Boot BY DEF TabRight, TabRec
  <1>2. b \in Boot BY <1>1 DEF Boot
  <1>3. Booting(t) = [t EXCEPT !.gen = @ + 1, !.boots = @ \cup {b}] BY DEF Booting
  <1>4. \A x \in t.boots : x.gen \in 1 .. t.gen BY DEF TabRight
  <1>5. b.gen = t.gen + 1 OBVIOUS
  <1> HIDE DEF b
  <1>6. Booting(t).gen = t.gen + 1 /\ Booting(t).boots = t.boots \cup {b} /\ Booting(t).shown = t.shown /\ Booting(t).optimistic = t.optimistic
    BY <1>1, <1>3 DEF TabRec
  <1>9. t.gen + 1 \in Nat /\ t.boots \cup {b} \in SUBSET Boot BY <1>1, <1>2
  <1>7. Booting(t) \in TabRec BY <1>1, <1>9, <1>3 DEF TabRec
  <1>8. \A x \in Booting(t).boots : x.gen \in 1 .. (t.gen + 1) BY <1>1, <1>4, <1>5, <1>6
  <1> QED BY <1>6, <1>7, <1>8 DEF TabRight

\* So is a tab as it is made.
LEMMA NewTabRight == TabRight(NewTab)
  <1>1. <<>> \in Seq(Msg) OBVIOUS
  <1>2. NewTab \in TabRec BY <1>1 DEF NewTab, TabRec
  <1> QED BY <1>2 DEF TabRight, NewTab

\* Opening a chat keeps the types.
LEMMA OpenTypes ==
  ASSUME ChatTypes, Quotas, OpenChat
  PROVE  ChatTypes'
  <1> DEFINE b1 == Booting(NewTab)  b2 == Booting(b1)
  <1>1. TabRight(b1) /\ TabRight(b2) BY NewTabRight, BootingKeeps
  <1>2. b1.gen \in Nat /\ b2.gen \in Nat BY <1>1 DEF TabRight, TabRec
  <1>3. Asks(b1) \in Seq(Order) /\ Asks(b2) \in Seq(Order) BY <1>2, AsksAre
  <1>4. tab' \in {b1, b2} /\ Send(IF conn # None THEN Asks(b1) \o Asks(b2) ELSE Asks(b1))
        /\ UNCHANGED <<pi, stdin, stdout, conn, down, excused>>
    BY DEF OpenChat
  <1> HIDE DEF b1, b2
  <1>5. (IF conn # None THEN Asks(b1) \o Asks(b2) ELSE Asks(b1)) \in Seq(Order) BY <1>3
  <1>6. up' \in Seq(Order) /\ unsent' \in Seq(Order) /\ (conn # None => unsent' = <<>>) /\ (conn = None => up' = <<>>)
    BY <1>4, <1>5, SendKeeps DEF ChatTypes
  <1>7. TabRight(tab') BY <1>1, <1>4
  <1> QED BY <1>4, <1>6, <1>7 DEF ChatTypes

\* So does a prompt: what shows at once is optimistic.
LEMMA PromptTypes ==
  ASSUME ChatTypes, Quotas, Prompt
  PROVE  ChatTypes'
  <1> DEFINE u == Message("user", left.prompt)
  <1>1. u \in Typing /\ u \in Msg BY DEF Message, Msg, Quotas, Typing
  <1>2. TabRight(tab) /\ tab # None BY DEF Prompt, ChatTypes
  <1>3. tab' = [tab EXCEPT !.shown = Append(@, u), !.optimistic = @ \cup {u}] BY DEF Prompt
  <1>4. Send(<<Command("prompt", left.prompt, tab.streaming)>>) /\ UNCHANGED <<pi, stdin, stdout, conn, down>> BY DEF Prompt
  <1>5. tab.streaming \in BOOLEAN /\ tab.shown \in Seq(Msg) /\ tab.optimistic \subseteq Typing BY <1>2 DEF TabRight, TabRec
  <1>6. <<Command("prompt", left.prompt, tab.streaming)>> \in Seq(Order) BY <1>5 DEF Command, Order, Quotas
  <1>7. up' \in Seq(Order) /\ unsent' \in Seq(Order) /\ (conn # None => unsent' = <<>>) /\ (conn = None => up' = <<>>)
    BY <1>4, <1>6, SendKeeps DEF ChatTypes
  <1> HIDE DEF u
  <1>a. Append(tab.shown, u) \in Seq(Msg) /\ tab.optimistic \cup {u} \in SUBSET Typing BY <1>1, <1>5
  <1>b. tab \in TabRec BY <1>2 DEF TabRight
  <1>8. tab' \in TabRec /\ tab'.shown = Append(tab.shown, u) /\ tab'.optimistic = tab.optimistic \cup {u} /\ tab'.boots = tab.boots /\ tab'.gen = tab.gen
    BY <1>3, <1>a, <1>b DEF TabRec
  <1>9. Range(Append(tab.shown, u)) = Range(tab.shown) \cup {u} BY <1>1, <1>5, Grows
  <1>10. TabRight(tab') BY <1>2, <1>8, <1>9 DEF TabRight
  <1>11. excused' \in BOOLEAN BY DEF Prompt
  <1> QED BY <1>4, <1>7, <1>10, <1>11 DEF ChatTypes

\* So does a new conversation, asked for.
LEMMA NewTypes ==
  ASSUME ChatTypes, NewSession
  PROVE  ChatTypes'
  <1>1. <<Command("new", None, FALSE)>> \in Seq(Order) BY DEF Command, Order
  <1>2. Send(<<Command("new", None, FALSE)>>) /\ UNCHANGED <<pi, stdin, stdout, conn, down, tab, excused>> BY DEF NewSession
  <1>3. up' \in Seq(Order) /\ unsent' \in Seq(Order) /\ (conn # None => unsent' = <<>>) /\ (conn = None => up' = <<>>)
    BY <1>1, <1>2, SendKeeps DEF ChatTypes
  <1> QED BY <1>2, <1>3 DEF ChatTypes

\* So does a bootstrap that is given up.
LEMMA TimeoutTypes ==
  ASSUME ChatTypes, NEW b, BootTimesOut(b)
  PROVE  ChatTypes'
  <1>1. tab # None /\ tab' = [tab EXCEPT !.boots = @ \ {b}] /\ UNCHANGED <<pi, stdin, stdout, conn, up, down, unsent>>
    BY DEF BootTimesOut
  <1>2. TabRight(tab) BY <1>1 DEF ChatTypes
  <1>3. TabRight(tab') BY <1>1, <1>2 DEF TabRight, TabRec
  <1>4. excused' \in BOOLEAN BY DEF BootTimesOut
  <1> QED BY <1>1, <1>3, <1>4 DEF ChatTypes

\* What a line pi prints has, by its kind.
LEMMA LineIs ==
  ASSUME NEW l \in Line
  PROVE  /\ l.line \in {"start", "settled", "running", "message", "turn", "answer"}
         /\ l.line \in {"message", "turn"} => l.m \in Msg /\ l.results \in Seq(Msg)
         /\ l.line = "message" => l.results = <<>>
         /\ l.line = "answer" =>
               /\ l.to \in TakenOrder /\ l.to.conn \in Nat /\ l.to.cmd \in {"state", "messages", "new"}
               /\ l.to.cmd \in {"state", "messages"} => l.to.for \in Nat
               /\ l.to.cmd = "new" => l.to.for = None
               /\ l.to.cmd = "state" => l.data \in BOOLEAN
               /\ l.to.cmd = "messages" => l.data \in Seq(Msg)
  <1>1. \A c \in TakenOrder : /\ c.conn \in Nat /\ (c.cmd \in {"state", "messages"} => c.for \in Nat)
                          /\ (c.cmd = "new" => c.for = None)
    BY DEF TakenOrder, Order
  <1>2. CASE l \in [line : {"start", "settled", "running"}, m : {None}, results : {<<>>}] BY <1>2
  <1>3. CASE l \in [line : {"message"}, m : Msg, results : {<<>>}]
    <2>1. <<>> \in Seq(Msg) OBVIOUS
    <2> QED BY <1>3, <2>1
  <1>4. CASE l \in [line : {"turn"}, m : Msg, results : Seq(Msg)] BY <1>4
  <1>5. CASE l \in [line : {"answer"}, to : {c \in TakenOrder : c.cmd = "state"}, data : BOOLEAN] BY <1>1, <1>5
  <1>6. CASE l \in [line : {"answer"}, to : {c \in TakenOrder : c.cmd = "messages"}, data : Seq(Msg)] BY <1>1, <1>6
  <1>7. CASE l \in [line : {"answer"}, to : {c \in TakenOrder : c.cmd = "new"}, data : {None}] BY <1>1, <1>7
  <1> QED BY <1>2, <1>3, <1>4, <1>5, <1>6, <1>7 DEF Line

\* What is picked is what is at the positions.
LEMMA PickedRange ==
  ASSUME NEW T, NEW s \in Seq(T), NEW xs \in SUBSET (1 .. Len(s))
  PROVE  Picked(s, xs) \in Seq(T) /\ Range(Picked(s, xs)) = {s[x] : x \in xs}
  <1>1. Picked(s, xs) \in Seq(T) BY PickedIs
  <1>p. PICK h : PicksBy(s, xs, Picked(s, xs), h) BY PickedIs
  <1>2. /\ h \in [1 .. Len(Picked(s, xs)) -> xs]
        /\ \A k \in 1 .. Len(Picked(s, xs)) : Picked(s, xs)[k] = s[h[k]]
        /\ \A x \in xs : \E k \in 1 .. Len(Picked(s, xs)) : h[k] = x
    BY <1>p DEF PicksBy
  <1>3. Range(Picked(s, xs)) = {Picked(s, xs)[k] : k \in 1 .. Len(Picked(s, xs))} BY <1>1, RangeEquality
  <1> DEFINE P == Picked(s, xs)
  <1>4. \A k \in 1 .. Len(P) : \E x \in xs : P[k] = s[x] BY <1>2
  <1>5. \A x \in xs : \E k \in 1 .. Len(P) : P[k] = s[x] BY <1>2
  <1>6. {P[k] : k \in 1 .. Len(P)} = {s[x] : x \in xs}
    <2> HIDE DEF P
    <2>1. \A e \in {P[k] : k \in 1 .. Len(P)} : e \in {s[x] : x \in xs} BY <1>4
    <2>2. \A e \in {s[x] : x \in xs} : e \in {P[k] : k \in 1 .. Len(P)} BY <1>5
    <2> QED BY <2>1, <2>2
  <1> QED BY <1>1, <1>3, <1>6

\* The prompts that stay behind a snapshot are the optimistic ones it does not have.
LEMMA PendingIs ==
  ASSUME NEW t, NEW D, t.shown \in Seq(Msg), t.optimistic \subseteq Range(t.shown)
  PROVE  Pending(t, D) \in Seq(Msg) /\ Range(Pending(t, D)) = t.optimistic \ Range(D)
  <1> DEFINE xs == {x \in DOMAIN t.shown : t.shown[x] \in t.optimistic \ Range(D)}
  <1>1. xs \in SUBSET (1 .. Len(t.shown)) BY LenProperties
  <1>2. Pending(t, D) = Picked(t.shown, xs) BY DEF Pending
  <1>3. Range(t.shown) = {t.shown[x] : x \in 1 .. Len(t.shown)} BY RangeEquality
  <1>4. DOMAIN t.shown = 1 .. Len(t.shown) BY LenProperties
  <1>5. Pending(t, D) \in Seq(Msg) /\ Range(Pending(t, D)) = {t.shown[x] : x \in xs} BY <1>1, <1>2, PickedRange
  <1>6. {t.shown[x] : x \in xs} = t.optimistic \ Range(D) BY <1>3, <1>4
  <1> QED BY <1>5, <1>6

\* A tab that has both answers of a bootstrap keeps its types, ...
LEMMA BootedRight ==
  ASSUME NEW t, TabRight(t), NEW b \in Boot, b.state \in BOOLEAN, b.messages \in Seq(Msg)
  PROVE  TabRight(Booted(t, b))
  <1> DEFINE over == [t EXCEPT !.boots = {x \in @ : x.gen # b.gen}]  still == Pending(t, b.messages)
  <1>1. t \in TabRec /\ t.shown \in Seq(Msg) /\ t.optimistic \subseteq Range(t.shown) /\ t.optimistic \subseteq Typing /\ t.streaming \in BOOLEAN
        /\ t.boots \subseteq Boot
    BY DEF TabRight, TabRec
  <1>2. still \in Seq(Msg) /\ Range(still) = t.optimistic \ Range(b.messages) BY <1>1, PendingIs
  <1>3. {x \in t.boots : x.gen # b.gen} \in SUBSET Boot BY <1>1
  <1>4. over \in TabRec /\ over.boots \subseteq t.boots /\ over.gen = t.gen /\ over.shown = t.shown /\ over.optimistic = t.optimistic
        /\ over.streaming = t.streaming
    BY <1>1, <1>3 DEF TabRec
  <1>5. TabRight(over) BY <1>1, <1>4 DEF TabRight
  <1>6. CASE ~Current(t, b)
    <2>1. Booted(t, b) = over BY <1>6 DEF Booted
    <2> QED BY <1>5, <2>1
  <1>7. CASE Current(t, b)
    <2> DEFINE st == b.state \/ (still # <<>> /\ over.streaming)
    <2>1. Booted(t, b) = [over EXCEPT !.shown = b.messages \o still, !.optimistic = Range(still), !.booted = TRUE, !.streaming = st]
      BY <1>7 DEF Booted
    <2>2. st \in BOOLEAN OBVIOUS
    <2>3. b.messages \o still \in Seq(Msg) BY <1>2
    <2>4. Range(still) \subseteq Typing BY <1>1, <1>2
    <2>5. Range(still) \subseteq Range(b.messages \o still) BY <1>2, RangeConcatenation
    <2> HIDE DEF over, still, st
    <2>6. Booted(t, b) \in TabRec /\ Booted(t, b).shown = b.messages \o still /\ Booted(t, b).optimistic = Range(still)
          /\ Booted(t, b).boots = over.boots /\ Booted(t, b).gen = over.gen
      BY <1>4, <2>1, <2>2, <2>3, <2>4 DEF TabRec
    <2> QED BY <1>5, <2>5, <2>6 DEF TabRight
  <1> QED BY <1>6, <1>7

\* ... and so does one that has an answer.
LEMMA AnsweredRight ==
  ASSUME NEW t, TabRight(t), NEW l \in Line, l.line = "answer", l.to.cmd # "new", \E x \in t.boots : x.gen = l.to.for
  PROVE  TabRight(Answered(t, l.to, l.data))
  <1> DEFINE b == CHOOSE x \in t.boots : x.gen = l.to.for
             got == IF l.to.cmd = "state" THEN [b EXCEPT !.state = l.data] ELSE [b EXCEPT !.messages = l.data]
  <1>1. b \in t.boots /\ b.gen = l.to.for OBVIOUS
  <1>2. t \in TabRec /\ t.boots \subseteq Boot BY DEF TabRight, TabRec
  <1>3. b \in Boot BY <1>1, <1>2
  <1>4. \/ l.to.cmd = "state" /\ l.data \in BOOLEAN
        \/ l.to.cmd = "messages" /\ l.data \in Seq(Msg)
    <2>1. l.to.cmd \in {"state", "messages", "new"} BY LineIs
    <2>2. l.to.cmd = "state" => l.data \in BOOLEAN BY LineIs
    <2>3. l.to.cmd = "messages" => l.data \in Seq(Msg) BY LineIs
    <2> QED BY <2>1, <2>2, <2>3
  <1> HIDE DEF b
  <1>5. got \in Boot /\ got.gen = b.gen BY <1>3, <1>4 DEF Boot
  <1>6. Answered(t, l.to, l.data) = IF got.state # None /\ got.messages # None THEN Booted(t, got)
                                     ELSE [t EXCEPT !.boots = (@ \ {b}) \cup {got}]
    BY DEF Answered, b
  <1> HIDE DEF got
  <1>7. CASE got.state # None /\ got.messages # None
    <2>1. got.state \in BOOLEAN /\ got.messages \in Seq(Msg) BY <1>5, <1>7 DEF Boot
    <2> QED BY <1>5, <1>6, <1>7, <2>1, BootedRight
  <1>8. CASE ~(got.state # None /\ got.messages # None)
    <2> DEFINE bs == (t.boots \ {b}) \cup {got}
    <2>1. bs \in SUBSET Boot BY <1>2, <1>5
    <2>2. \A x \in bs : x.gen \in 1 .. t.gen BY <1>1, <1>5 DEF TabRight
    <2>3. Answered(t, l.to, l.data) = [t EXCEPT !.boots = bs] BY <1>6, <1>8
    <2> HIDE DEF bs
    <2>4. [t EXCEPT !.boots = bs] \in TabRec BY <1>2, <2>1 DEF TabRec
    <2>5. [t EXCEPT !.boots = bs].boots = bs /\ [t EXCEPT !.boots = bs].gen = t.gen /\ [t EXCEPT !.boots = bs].shown = t.shown
          /\ [t EXCEPT !.boots = bs].optimistic = t.optimistic
      BY <1>2 DEF TabRec
    <2> QED BY <2>2, <2>3, <2>4, <2>5 DEF TabRight
  <1> QED BY <1>7, <1>8

\* A sequence without its last element.
LEMMA FrontIs ==
  ASSUME NEW S, NEW s \in Seq(S), s # <<>>
  PROVE  Front(s) \in Seq(S) /\ Len(Front(s)) = Len(s) - 1 /\ (\A i \in 1 .. Len(s) - 1 : Front(s)[i] = s[i]) /\ Last(s) = s[Len(s)]
  <1>1. Front(s) = SubSeq(s, 1, Len(s) - 1) /\ Last(s) = s[Len(s)] BY DEF Front, Last
  <1>2. Len(s) >= 1 OBVIOUS
  <1>3. \A i \in 1 .. Len(s) - 1 : s[i] \in S BY <1>2
  <1>4. Len(s) - 1 \in Int /\ 1 <= Len(s) - 1 + 1 OBVIOUS
  <1>5. /\ SubSeq(s, 1, Len(s) - 1) \in Seq(S)
        /\ Len(SubSeq(s, 1, Len(s) - 1)) = IF 1 <= Len(s) - 1 THEN Len(s) - 1 - 1 + 1 ELSE 0
        /\ \A i \in 1 .. Len(s) - 1 - 1 + 1 : SubSeq(s, 1, Len(s) - 1)[i] = s[1 + i - 1]
    BY <1>3, <1>4, SubSeqProperties
  <1> DEFINE f == SubSeq(s, 1, Len(s) - 1)
  <1> HIDE DEF f
  <1>6. f \in Seq(S) /\ Len(f) = IF 1 <= Len(s) - 1 THEN Len(s) - 1 - 1 + 1 ELSE 0 BY <1>5 DEF f
  <1>7. \A i \in 1 .. Len(s) - 1 - 1 + 1 : f[i] = s[1 + i - 1] BY <1>5 DEF f
  <1>8. \A i \in 1 .. Len(s) - 1 : f[i] = s[i]
    <2> TAKE i \in 1 .. Len(s) - 1
    <2>1. \A n \in Nat : n - 1 - 1 + 1 = n - 1 /\ \A j \in 1 .. n - 1 : 1 + j - 1 = j OBVIOUS
    <2>2. Len(s) \in Nat OBVIOUS
    <2>3. Len(s) - 1 - 1 + 1 = Len(s) - 1 /\ 1 + i - 1 = i BY <2>1, <2>2
    <2> QED BY <1>7, <2>3
  <1>9. Len(f) = Len(s) - 1
    <2>1. \A n \in Nat : n >= 1 => (IF 1 <= n - 1 THEN n - 1 - 1 + 1 ELSE 0) = n - 1 OBVIOUS
    <2>2. Len(s) \in Nat OBVIOUS
    <2> QED BY <1>2, <1>6, <2>1, <2>2
  <1>10. Front(s) = f BY <1>1 DEF f
  <1> QED BY <1>1, <1>6, <1>8, <1>9, <1>10

\* The streamed copy gives way, and what was typed does not.
LEMMA ReplacedIs ==
  ASSUME NEW s \in Seq(Msg), NEW m \in Msg
  PROVE  /\ ReplaceOrAppend(s, m) \in Seq(Msg)
         /\ Range(s) \cap Typing \subseteq Range(ReplaceOrAppend(s, m))
  <1>1. CASE s # <<>> /\ Last(s).who = "pi"
    <2>1. ReplaceOrAppend(s, m) = Append(Front(s), m) BY <1>1 DEF ReplaceOrAppend
    <2>2. Front(s) \in Seq(Msg) /\ Len(Front(s)) = Len(s) - 1 /\ (\A i \in 1 .. Len(s) - 1 : Front(s)[i] = s[i]) /\ s[Len(s)].who = "pi"
      BY <1>1, FrontIs
    <2>3. Append(Front(s), m) \in Seq(Msg) /\ Range(Append(Front(s), m)) = Range(Front(s)) \cup {m} BY <2>2, Grows
    <2>4. \A e \in Range(s) \cap Typing : e \in Range(Front(s))
      <3> TAKE e \in Range(s) \cap Typing
      <3>1. Range(s) = {s[i] : i \in 1 .. Len(s)} /\ Range(Front(s)) = {Front(s)[i] : i \in 1 .. Len(Front(s))} BY <2>2, RangeEquality
      <3>2. PICK i \in 1 .. Len(s) : e = s[i] BY <3>1
      <3>3. e.who = "user" BY DEF Typing
      <3>4. i # Len(s) BY <2>2, <3>2, <3>3
      <3>5. Len(s) \in Nat OBVIOUS
      <3>6. i \in 1 .. Len(s) - 1 BY <3>4, <3>5
      <3> QED BY <2>2, <3>1, <3>2, <3>6
    <2> QED BY <2>1, <2>3, <2>4
  <1>2. CASE ~(s # <<>> /\ Last(s).who = "pi")
    <2>1. ReplaceOrAppend(s, m) = Append(s, m) BY <1>2 DEF ReplaceOrAppend
    <2> QED BY <2>1, Grows
  <1> QED BY <1>1, <1>2

\* A tab that is told an event keeps its types, and everything but what it shows and whether it streams.
LEMMA ToldRight ==
  ASSUME NEW t, TabRight(t), NEW l \in Line, l.line \in {"start", "settled", "message", "turn"}
  PROVE  TabRight(Told(t, l)) /\ Told(t, l).gen = t.gen /\ Told(t, l).boots = t.boots /\ Told(t, l).booted = t.booted
         /\ Told(t, l).optimistic = t.optimistic
  <1>1. t \in TabRec /\ t.shown \in Seq(Msg) /\ t.optimistic \subseteq Range(t.shown) /\ t.optimistic \subseteq Typing BY DEF TabRight, TabRec
  <1>2. CASE l.line = "start"
    <2>1. Told(t, l) = [t EXCEPT !.streaming = TRUE] BY <1>2 DEF Told
    <2> QED BY <1>1, <2>1 DEF TabRight, TabRec
  <1>3. CASE l.line = "settled"
    <2>1. Told(t, l) = [t EXCEPT !.streaming = FALSE] BY <1>3 DEF Told
    <2> QED BY <1>1, <2>1 DEF TabRight, TabRec
  <1>4. ASSUME NEW s \in Seq(Msg), Told(t, l) = [t EXCEPT !.shown = s], t.optimistic \subseteq Range(s)
        PROVE  TabRight(Told(t, l)) /\ Told(t, l).gen = t.gen /\ Told(t, l).boots = t.boots /\ Told(t, l).booted = t.booted
               /\ Told(t, l).optimistic = t.optimistic
    BY <1>1, <1>4 DEF TabRight, TabRec
  <1>5. CASE l.line = "message"
    <2>1. Told(t, l) = [t EXCEPT !.shown = Append(t.shown, l.m)] BY <1>5 DEF Told
    <2>2. l.m \in Msg BY <1>5, LineIs
    <2>3. Append(t.shown, l.m) \in Seq(Msg) /\ t.optimistic \subseteq Range(Append(t.shown, l.m)) BY <1>1, <2>2, Grows
    <2> QED BY <1>4, <2>1, <2>3
  <1>6. CASE l.line = "turn"
    <2>1. Told(t, l) = [t EXCEPT !.shown = ReplaceOrAppend(t.shown, l.m) \o l.results] BY <1>6 DEF Told
    <2>2. l.m \in Msg /\ l.results \in Seq(Msg) BY <1>6, LineIs
    <2>3. ReplaceOrAppend(t.shown, l.m) \in Seq(Msg) /\ t.optimistic \subseteq Range(ReplaceOrAppend(t.shown, l.m)) BY <1>1, <2>2, ReplacedIs
    <2>4. Range(ReplaceOrAppend(t.shown, l.m) \o l.results) = Range(ReplaceOrAppend(t.shown, l.m)) \cup Range(l.results)
      BY <2>2, <2>3, RangeConcatenation
    <2>5. ReplaceOrAppend(t.shown, l.m) \o l.results \in Seq(Msg) BY <2>2, <2>3
    <2> QED BY <1>4, <2>1, <2>3, <2>4, <2>5
  <1> QED BY <1>2, <1>3, <1>5, <1>6

\* What answers a bootstrap is no answer of a new conversation.
LEMMA NotNew ==
  ASSUME NEW t, TabRight(t), NEW l \in Line, l.line = "answer", NEW b \in t.boots, b.gen = l.to.for
  PROVE  l.to.cmd # "new"
  <1>1. b.gen \in Nat BY DEF TabRight, TabRec, Boot
  <1> QED BY <1>1, LineIs, ChatAssumption

\* Whatever a tab receives, it keeps the types.
LEMMA ReceivesTypes ==
  ASSUME ChatTypes, Receives
  PROVE  ChatTypes'
  <1> DEFINE l == Head(down)
             refreshed == Booting([tab EXCEPT !.shown = <<>>, !.optimistic = {}, !.streaming = FALSE])
  <1>1. down # <<>> /\ down' = Tail(down) /\ UNCHANGED <<left, pi, stdin, stdout, conn, excused>> BY DEF Receives
  <1>2. l \in Line /\ down' \in Seq(Line) BY <1>1 DEF ChatTypes
  <1>3. conn # None /\ conn' # None BY <1>1 DEF ChatTypes
  <1>4. SUFFICES (tab' # None => TabRight(tab')) /\ up' \in Seq(Order) /\ unsent' \in Seq(Order) /\ unsent' = <<>>
    BY <1>1, <1>2, <1>3, <1>4 DEF ChatTypes
  <1>5. up \in Seq(Order) /\ unsent \in Seq(Order) /\ unsent = <<>> BY <1>3 DEF ChatTypes
  <1>6. CASE tab = None
    <2>1. UNCHANGED <<tab, up, unsent>> BY <1>6 DEF Receives
    <2> QED BY <1>5, <2>1 DEF ChatTypes
  <1>7. ASSUME NEW cmds \in Seq(Order), Send(cmds)
        PROVE  up' \in Seq(Order) /\ unsent' \in Seq(Order) /\ unsent' = <<>>
    BY <1>3, <1>5, <1>7, SendKeeps
  <1>8. CASE tab # None
    <2>1. TabRight(tab) BY <1>8 DEF ChatTypes
    <2>2. CASE tab' = Booting(tab) /\ Send(Asks(tab'))
      <3>1. TabRight(tab') BY <2>1, <2>2, BootingKeeps
      <3>2. Asks(tab') \in Seq(Order) BY <3>1, AsksAre DEF TabRight, TabRec
      <3> QED BY <1>7, <2>2, <3>1, <3>2
    <2>3. CASE tab' = refreshed /\ Send(Asks(refreshed))
      <3>1. TabRight([tab EXCEPT !.shown = <<>>, !.optimistic = {}, !.streaming = FALSE])
        <4>1. <<>> \in Seq(Msg) OBVIOUS
        <4> QED BY <2>1, <4>1 DEF TabRight, TabRec
      <3>2. TabRight(refreshed) BY <3>1, BootingKeeps
      <3>3. Asks(refreshed) \in Seq(Order) BY <3>2, AsksAre DEF TabRight, TabRec
      <3> QED BY <1>7, <2>3, <3>2, <3>3
    <2>4. CASE /\ l.line = "answer" /\ \E b \in tab.boots : b.gen = l.to.for
               /\ tab' = Answered(tab, l.to, l.data) /\ UNCHANGED <<up, unsent>>
      BY <1>2, <1>5, <2>1, <2>4, NotNew, AnsweredRight
    <2>5. CASE l.line \in {"start", "settled", "message", "turn"} /\ tab' = Told(tab, l) /\ UNCHANGED <<up, unsent>>
      BY <1>2, <1>5, <2>1, <2>5, ToldRight
    <2>6. CASE UNCHANGED <<tab, up, unsent>> BY <1>5, <2>1, <2>6
    <2> HIDE DEF l, refreshed
    <2>7. \/ tab' = Booting(tab) /\ Send(Asks(tab'))
          \/ tab' = refreshed /\ Send(Asks(refreshed))
          \/ /\ l.line = "answer" /\ \E b \in tab.boots : b.gen = l.to.for
             /\ tab' = Answered(tab, l.to, l.data) /\ UNCHANGED <<up, unsent>>
          \/ l.line \in {"start", "settled", "message", "turn"} /\ tab' = Told(tab, l) /\ UNCHANGED <<up, unsent>>
          \/ UNCHANGED <<tab, up, unsent>>
      BY <1>8 DEF Receives, l, refreshed
    <2> QED BY <2>2, <2>3, <2>4, <2>5, <2>6, <2>7
  <1> QED BY <1>6, <1>8

\* So does a socket that drops, ...
LEMMA DropsTypes ==
  ASSUME ChatTypes, SocketDrops
  PROVE  ChatTypes'
  <1>1. conn # None /\ conn' = None /\ up' = <<>> /\ down' = <<>> /\ UNCHANGED <<pi, stdin, stdout, unsent, tab>> /\ excused' \in BOOLEAN
    BY DEF SocketDrops
  <1>2. <<>> \in Seq(Order) /\ <<>> \in Seq(Line) OBVIOUS
  <1> QED BY <1>1, <1>2 DEF ChatTypes

\* ... and one that opens.
LEMMA OpensTypes ==
  ASSUME ChatTypes, Quotas, NEW running, SocketOpens(running)
  PROVE  ChatTypes'
  <1>1. conn = None /\ conn' = left.drop + 1 /\ unsent' = <<>> /\ UNCHANGED <<left, pi, stdin, stdout, excused>> BY DEF SocketOpens
  <1>2. conn' \in Nat /\ conn' # None BY <1>1, ChatAssumption DEF Quotas
  <1>3. down' \in Seq(Line)
    <2>1. Event("running", None, <<>>) \in Line BY DEF Event, Line
    <2>2. down' = <<Event("running", None, <<>>)>> \/ down' = <<>> BY DEF SocketOpens
    <2> DEFINE e == Event("running", None, <<>>)
    <2> HIDE DEF e
    <2>3. e \in Line /\ (down' = <<e>> \/ down' = <<>>) BY <2>1, <2>2 DEF e
    <2>4. <<e>> \in Seq(Line) /\ <<>> \in Seq(Line) BY <2>3
    <2> QED BY <2>3, <2>4
  <1>4. CASE tab # None /\ ~tab.booted
    <2>1. tab' = Booting(tab) /\ up' = Asks(tab') \o unsent BY <1>4 DEF SocketOpens
    <2>2. TabRight(tab') BY <1>4, <2>1, BootingKeeps DEF ChatTypes
    <2>3. Asks(tab') \in Seq(Order) BY <2>2, AsksAre DEF TabRight, TabRec
    <2>4. up' \in Seq(Order) BY <2>1, <2>3 DEF ChatTypes
    <2>5. <<>> \in Seq(Order) OBVIOUS
    <2> QED BY <1>1, <1>2, <1>3, <2>2, <2>4, <2>5 DEF ChatTypes
  <1>5. CASE ~(tab # None /\ ~tab.booted)
    <2>1. up' = unsent /\ UNCHANGED tab BY <1>5 DEF SocketOpens
    <2>2. <<>> \in Seq(Order) OBVIOUS
    <2> QED BY <1>1, <1>2, <1>3, <2>1, <2>2 DEF ChatTypes
  <1> QED BY <1>4, <1>5

\* The server takes a command, and marks it with its connection.
LEMMA ServerTypes ==
  ASSUME ChatTypes, NEW running, ServerReceives(running)
  PROVE  ChatTypes'
  <1>1. up # <<>> /\ up' = Tail(up) /\ UNCHANGED <<left, pi, stdout, conn, down, unsent, tab>> BY DEF ServerReceives
  <1>2. up' \in Seq(Order) /\ Head(up) \in Order BY <1>1 DEF ChatTypes
  <1>3. conn \in Nat /\ conn # None BY <1>1 DEF ChatTypes
  <1>4. stdin' \in Seq(TakenOrder) /\ excused' \in BOOLEAN
    <2>1. [Head(up) EXCEPT !.conn = conn] \in TakenOrder BY <1>2, <1>3 DEF Order, TakenOrder
    <2>2. \/ stdin' = Append(stdin, [Head(up) EXCEPT !.conn = conn]) /\ UNCHANGED excused
          \/ UNCHANGED stdin /\ excused' \in BOOLEAN
      BY DEF ServerReceives
    <2>3. stdin \in Seq(TakenOrder) /\ excused \in BOOLEAN BY DEF ChatTypes
    <2> QED BY <2>1, <2>2, <2>3
  <1> QED BY <1>1, <1>2, <1>3, <1>4 DEF ChatTypes

\* Of lines, those picked are lines.
LEMMA PicksLines ==
  ASSUME NEW lines \in Seq(Line)
  PROVE  Events(lines) \in Seq(Line) /\ Answers(lines) \in Seq(Line) /\ Reaching(lines) \in Seq(Line)
  <1>1. DOMAIN lines = 1 .. Len(lines) BY LenProperties
  <1>2. Events(lines) \in Seq(Line) BY <1>1, PickedRange DEF Events
  <1>3. Answers(lines) \in Seq(Line) BY <1>1, PickedRange DEF Answers
  <1>4. Reaching(lines) \in Seq(Line) BY <1>1, PickedRange DEF Reaching
  <1> QED BY <1>2, <1>3, <1>4

\* A sequence cut in two.
LEMMA PartsAre ==
  ASSUME NEW S, NEW s \in Seq(S), NEW n \in 0 .. Len(s)
  PROVE  /\ SubSeq(s, 1, n) \in Seq(S) /\ Len(SubSeq(s, 1, n)) = n /\ \A i \in 1 .. n : SubSeq(s, 1, n)[i] = s[i]
         /\ SubSeq(s, n + 1, Len(s)) \in Seq(S) /\ Len(SubSeq(s, n + 1, Len(s))) = Len(s) - n
         /\ \A i \in 1 .. Len(s) - n : SubSeq(s, n + 1, Len(s))[i] = s[n + i]
  <1>1. Len(s) \in Nat /\ n \in Nat /\ n <= Len(s) OBVIOUS
  <1>2. \A i \in 1 .. Len(s) : s[i] \in S OBVIOUS
  <1>3. \A i \in 1 .. n : s[i] \in S BY <1>1, <1>2
  <1>4. \A i \in n + 1 .. Len(s) : s[i] \in S BY <1>1, <1>2
  <1> DEFINE f == SubSeq(s, 1, n)  g == SubSeq(s, n + 1, Len(s))
  <1>5. f \in Seq(S) /\ (Len(f) = IF 1 <= n THEN n - 1 + 1 ELSE 0) /\ \A i \in 1 .. n - 1 + 1 : f[i] = s[1 + i - 1]
    BY <1>1, <1>3, SubSeqProperties
  <1>6. g \in Seq(S) /\ (Len(g) = IF n + 1 <= Len(s) THEN Len(s) - (n + 1) + 1 ELSE 0)
        /\ \A i \in 1 .. Len(s) - (n + 1) + 1 : g[i] = s[n + 1 + i - 1]
    BY <1>1, <1>4, SubSeqProperties
  <1> DEFINE L == Len(s)
  <1>7. L \in Nat BY <1>1
  <1> HIDE DEF f, g, L
  <1>8. \A a \in Nat : (IF 1 <= a THEN a - 1 + 1 ELSE 0) = a /\ a - 1 + 1 = a OBVIOUS
  <1>9. \A a, b \in Nat : a <= b => (IF a + 1 <= b THEN b - (a + 1) + 1 ELSE 0) = b - a /\ b - (a + 1) + 1 = b - a OBVIOUS
  <1>10. Len(f) = n /\ n - 1 + 1 = n BY <1>1, <1>5, <1>8
  <1>11. Len(g) = L - n /\ L - (n + 1) + 1 = L - n BY <1>1, <1>6, <1>7, <1>9 DEF L
  <1>12. \A i \in 1 .. n : f[i] = s[i] BY <1>1, <1>5, <1>10
  <1>13. \A i \in 1 .. L - n : g[i] = s[n + i]
    <2>1. \A i \in 1 .. L - n : n + 1 + i - 1 = n + i BY <1>1, <1>7
    <2> QED BY <1>6, <1>11, <2>1 DEF L
  <1> QED BY <1>5, <1>6, <1>10, <1>11, <1>12, <1>13 DEF f, g, L

\* A read of pi's output keeps the types.
LEMMA ReadTypes ==
  ASSUME ChatTypes, NEW n \in 1 .. MaxChunk, ReadChunk(n)
  PROVE  ChatTypes'
  <1> DEFINE chunk == SubSeq(stdout, 1, n)  sent == Events(chunk) \o Answers(chunk)
  <1>1. /\ n <= Len(stdout) /\ stdout' = SubSeq(stdout, n + 1, Len(stdout)) /\ down' = down \o Reaching(sent)
        /\ UNCHANGED <<left, pi, stdin, conn, up, unsent, tab>> /\ excused' \in BOOLEAN
    BY DEF ReadChunk
  <1>2. stdout \in Seq(Line) /\ down \in Seq(Line) BY DEF ChatTypes
  <1>3. n \in 0 .. Len(stdout) BY <1>1, <1>2, ChatAssumption
  <1>4. chunk \in Seq(Line) /\ stdout' \in Seq(Line) BY <1>1, <1>2, <1>3, PartsAre
  <1>5. Events(chunk) \in Seq(Line) /\ Answers(chunk) \in Seq(Line) BY <1>4, PicksLines
  <1>6. sent \in Seq(Line) BY <1>5
  <1>7. Reaching(sent) \in Seq(Line) BY <1>6, PicksLines
  <1>8. down' \in Seq(Line) BY <1>1, <1>2, <1>7
  <1>9. conn = None => down' = <<>>
    <2>1. CASE conn = None
      <3>1. {x \in DOMAIN sent : conn # None /\ (sent[x].line = "answer" => sent[x].to.conn = conn)} = {} BY <2>1
      <3>2. Range(Reaching(sent)) = {}
        <4>1. Reaching(sent) = Picked(sent, {}) BY <3>1 DEF Reaching
        <4>2. {} \in SUBSET (1 .. Len(sent)) OBVIOUS
        <4>3. Range(Picked(sent, {})) = {sent[x] : x \in {}} BY <1>6, <4>2, PickedRange, ZenonT(60)
        <4> QED BY <4>1, <4>3
      <3>3. Reaching(sent) = <<>>
        <4>1. Range(Reaching(sent)) = {Reaching(sent)[i] : i \in 1 .. Len(Reaching(sent))} BY <1>7, RangeEquality
        <4> DEFINE R == Reaching(sent)
        <4> HIDE DEF R
        <4>2. Len(R) \in Nat BY <1>7 DEF R
        <4>3. Len(R) >= 1 => R[1] \in Range(R) BY <4>1, <4>2 DEF R
        <4>4. Len(R) = 0 BY <3>2, <4>2, <4>3 DEF R
        <4> QED BY <1>7, <4>4 DEF R
      <3>4. down = <<>> BY <2>1 DEF ChatTypes
      <3> QED BY <1>1, <3>3, <3>4
    <2> QED BY <2>1
  <1> QED BY <1>1, <1>4, <1>8, <1>9 DEF ChatTypes

\* What pi prints is lines: what happens, ...
LEMMA LinesAre ==
  /\ Event("start", None, <<>>) \in Line /\ Event("settled", None, <<>>) \in Line /\ Event("running", None, <<>>) \in Line
  /\ \A m \in Msg : Event("message", m, <<>>) \in Line
  /\ \A m \in Msg, rs \in Seq(Msg) : Event("turn", m, rs) \in Line
  <1>1. Event("start", None, <<>>) \in Line /\ Event("settled", None, <<>>) \in Line /\ Event("running", None, <<>>) \in Line
    BY DEF Event, Line
  <1>2. \A m \in Msg : Event("message", m, <<>>) \in Line BY DEF Event, Line
  <1>3. \A m \in Msg, rs \in Seq(Msg) : Event("turn", m, rs) \in Line BY DEF Event, Line
  <1> QED BY <1>1, <1>2, <1>3

\* ... and what it answers.
LEMMA AnswersAre ==
  ASSUME NEW c \in TakenOrder
  PROVE  /\ c.cmd = "state" => \A d \in BOOLEAN : Answer(c, d) \in Line
         /\ c.cmd = "messages" => \A d \in Seq(Msg) : Answer(c, d) \in Line
         /\ c.cmd = "new" => Answer(c, None) \in Line
  <1>1. c.cmd = "state" => \A d \in BOOLEAN : Answer(c, d) \in Line BY DEF Answer, Line
  <1>2. c.cmd = "messages" => \A d \in Seq(Msg) : Answer(c, d) \in Line BY DEF Answer, Line
  <1>3. c.cmd = "new" => Answer(c, None) \in Line BY DEF Answer, Line
  <1> QED BY <1>1, <1>2, <1>3

\* What pi does when nothing but its lines and its state change.
LEMMA PiTypes ==
  ASSUME ChatTypes, PiRight(pi'), UNCHANGED <<conn, up, down, unsent, tab>>, excused' \in BOOLEAN,
         stdin' = stdin \/ stdin' = <<>> \/ (stdin # <<>> /\ stdin' = Tail(stdin)),
         stdout' = stdout \/ \E l \in Line : stdout' = Append(stdout, l)
  PROVE  ChatTypes'
  <1>1. stdin \in Seq(TakenOrder) /\ stdout \in Seq(Line) BY DEF ChatTypes
  <1>2. stdin' \in Seq(TakenOrder)
    <2>1. <<>> \in Seq(TakenOrder) OBVIOUS
    <2>2. stdin # <<>> => Tail(stdin) \in Seq(TakenOrder) BY <1>1
    <2> QED BY <1>1, <2>1, <2>2
  <1>3. stdout' \in Seq(Line) BY <1>1
  <1> QED BY <1>2, <1>3 DEF ChatTypes

\* What pi does with a command it reads.
LEMMA ReadsMove ==
  ASSUME ChatTypes, PiReads, NEW c, c = Head(stdin)
  PROVE  \/ c.cmd \in {"prompt", "new"} /\ pi.busy /\ UNCHANGED <<pi, stdout>>
         \/ c.cmd = "state" /\ stdout' = Append(stdout, Answer(c, pi.busy)) /\ UNCHANGED pi
         \/ c.cmd = "messages" /\ stdout' = Append(stdout, Answer(c, pi.said)) /\ UNCHANGED pi
         \/ /\ c.cmd = "new" /\ ~pi.busy /\ stdout' = Append(stdout, Answer(c, None)) /\ pi' = [pi EXCEPT !.said = <<>>]
         \/ /\ c.cmd = "prompt" /\ ~pi.busy /\ pi' = [pi EXCEPT !.busy = TRUE, !.said = Append(@, Message("user", c.for))]
           /\ stdout' = Append(stdout, Event("start", None, <<>>))
  <1>1. c \in TakenOrder BY DEF PiReads, ChatTypes
  <1>2. c.cmd \in {"state", "messages", "new", "prompt"} BY <1>1 DEF TakenOrder, Order
  <1> QED BY <1>2 DEF PiReads, Prints

\* Pi reads a command: the types are kept, ...
LEMMA PiReadsTypes ==
  ASSUME ChatTypes, PiReads
  PROVE  ChatTypes'
  <1> DEFINE c == Head(stdin)
  <1>1. /\ stdin # <<>> /\ stdin' = Tail(stdin) /\ excused' \in BOOLEAN /\ UNCHANGED <<conn, up, down, unsent, tab>>
    BY DEF PiReads, PiRest
  <1>2. c \in TakenOrder BY <1>1 DEF ChatTypes
  <1>3. pi \in PiRec /\ PiRight(pi) /\ pi.busy \in BOOLEAN /\ pi.said \in Seq(Msg) BY DEF ChatTypes, PiRight, PiRec
  <1>4. \/ UNCHANGED <<pi, stdout>>
        \/ c.cmd = "state" /\ stdout' = Append(stdout, Answer(c, pi.busy)) /\ UNCHANGED pi
        \/ c.cmd = "messages" /\ stdout' = Append(stdout, Answer(c, pi.said)) /\ UNCHANGED pi
        \/ /\ c.cmd = "new" /\ ~pi.busy /\ stdout' = Append(stdout, Answer(c, None)) /\ pi' = [pi EXCEPT !.said = <<>>]
        \/ /\ c.cmd = "prompt" /\ ~pi.busy /\ pi' = [pi EXCEPT !.busy = TRUE, !.said = Append(@, Message("user", c.for))]
           /\ stdout' = Append(stdout, Event("start", None, <<>>))
    BY ReadsMove
  <1> HIDE DEF c
  <1>5. CASE UNCHANGED <<pi, stdout>> BY <1>1, <1>3, <1>5, PiTypes
  <1>6. CASE c.cmd = "state" /\ stdout' = Append(stdout, Answer(c, pi.busy)) /\ UNCHANGED pi
    <2>1. Answer(c, pi.busy) \in Line BY <1>2, <1>3, <1>6, AnswersAre
    <2>2. \E l \in Line : stdout' = Append(stdout, l) BY <1>6, <2>1
    <2>3. PiRight(pi') BY <1>3, <1>6
    <2> QED BY <1>1, <2>2, <2>3, PiTypes
  <1>7. CASE c.cmd = "messages" /\ stdout' = Append(stdout, Answer(c, pi.said)) /\ UNCHANGED pi
    <2>1. Answer(c, pi.said) \in Line BY <1>2, <1>3, <1>7, AnswersAre
    <2>2. \E l \in Line : stdout' = Append(stdout, l) BY <1>7, <2>1
    <2>3. PiRight(pi') BY <1>3, <1>7
    <2> QED BY <1>1, <2>2, <2>3, PiTypes
  <1>8. CASE /\ c.cmd = "new" /\ ~pi.busy /\ stdout' = Append(stdout, Answer(c, None)) /\ pi' = [pi EXCEPT !.said = <<>>]
    <2>1. <<>> \in Seq(Msg) OBVIOUS
    <2>2. pi' \in PiRec BY <1>3, <1>8, <2>1 DEF PiRec
    <2>3. pi.turn = "none" BY <1>3, <1>8 DEF PiRight, PiRec
    <2>4. pi'.turn = "none" BY <1>3, <1>8, <2>3 DEF PiRec
    <2>5. PiRight(pi') BY <2>2, <2>4 DEF PiRight
    <2>6. Answer(c, None) \in Line BY <1>2, <1>8, AnswersAre
    <2>7. \E l \in Line : stdout' = Append(stdout, l) BY <1>8, <2>6
    <2> QED BY <1>1, <2>5, <2>7, PiTypes
  <1>9. CASE /\ c.cmd = "prompt" /\ ~pi.busy /\ pi' = [pi EXCEPT !.busy = TRUE, !.said = Append(@, Message("user", c.for))]
             /\ stdout' = Append(stdout, Event("start", None, <<>>))
    <2>1. Message("user", c.for) \in Msg BY <1>2, <1>9 DEF Message, Msg, TakenOrder, Order
    <2>2. Append(pi.said, Message("user", c.for)) \in Seq(Msg) BY <1>3, <2>1
    <2>3. pi' \in PiRec BY <1>3, <1>9, <2>2 DEF PiRec
    <2>4. pi.turn = "none" BY <1>3, <1>9 DEF PiRight, PiRec
    <2>5. pi'.turn = "none" BY <1>3, <1>9, <2>4 DEF PiRec
    <2>6. PiRight(pi') BY <2>3, <2>5 DEF PiRight
    <2>7. \E l \in Line : stdout' = Append(stdout, l) BY <1>9, LinesAre
    <2> QED BY <1>1, <2>6, <2>7, PiTypes
  <1> QED BY <1>4, <1>5, <1>6, <1>7, <1>8, <1>9

\* ... as when it speaks, ...
LEMMA PiSpeaksTypes ==
  ASSUME ChatTypes, PiSpeaks
  PROVE  ChatTypes'
  <1> DEFINE m == Message("pi", Number)
  <1>1. /\ pi.busy /\ pi' = [pi EXCEPT !.turn = "spoken", !.said = Append(@, m), !.results = <<>>]
        /\ stdout' = Append(stdout, Event("message", m, <<>>)) /\ UNCHANGED <<stdin, excused, conn, up, down, unsent, tab>>
    BY DEF PiSpeaks, PiRest, Prints
  <1>2. pi \in PiRec /\ pi.said \in Seq(Msg) BY DEF ChatTypes, PiRight, PiRec
  <1>3. m \in Msg BY <1>2 DEF Message, Msg, Number
  <1> HIDE DEF m
  <1>4. Append(pi.said, m) \in Seq(Msg) /\ <<>> \in Seq(Msg) /\ Len(Append(pi.said, m)) >= 1 BY <1>2, <1>3
  <1>5. pi' \in PiRec /\ pi'.turn = "spoken" /\ pi'.results = <<>> /\ pi'.said = Append(pi.said, m) /\ pi'.busy BY <1>1, <1>2, <1>4 DEF PiRec
  <1>6. PiRight(pi') BY <1>4, <1>5 DEF PiRight
  <1>7. excused' \in BOOLEAN BY <1>1 DEF ChatTypes
  <1>8. \E l \in Line : stdout' = Append(stdout, l) BY <1>1, <1>3, LinesAre
  <1>9. UNCHANGED <<conn, up, down, unsent, tab>> /\ stdin' = stdin BY <1>1
  <1> QED BY <1>6, <1>7, <1>8, <1>9, PiTypes

\* ... uses a tool, ...
LEMMA PiUsesTypes ==
  ASSUME ChatTypes, PiUsesTool
  PROVE  ChatTypes'
  <1> DEFINE m == Message("tool", Number)
  <1>1. /\ pi.turn = "spoken" /\ pi' = [pi EXCEPT !.turn = "tooled", !.said = Append(@, m), !.results = <<m>>]
        /\ UNCHANGED <<stdin, stdout, excused, conn, up, down, unsent, tab>>
    BY DEF PiUsesTool, PiRest
  <1>2. pi \in PiRec /\ pi.said \in Seq(Msg) /\ Len(pi.said) >= 1 /\ pi.busy BY <1>1 DEF ChatTypes, PiRight, PiRec
  <1>3. m \in Msg BY <1>2 DEF Message, Msg, Number
  <1> HIDE DEF m
  <1>4. Append(pi.said, m) \in Seq(Msg) /\ <<m>> \in Seq(Msg) /\ Len(Append(pi.said, m)) >= 2 /\ Len(<<m>>) = 1 BY <1>2, <1>3
  <1>5. pi' \in PiRec /\ pi'.turn = "tooled" /\ pi'.results = <<m>> /\ pi'.said = Append(pi.said, m) /\ pi'.busy BY <1>1, <1>2, <1>4 DEF PiRec
  <1>6. PiRight(pi') BY <1>4, <1>5 DEF PiRight
  <1>7. excused' \in BOOLEAN BY <1>1 DEF ChatTypes
  <1>8. stdout' = stdout /\ UNCHANGED <<conn, up, down, unsent, tab>> /\ stdin' = stdin BY <1>1
  <1> QED BY <1>6, <1>7, <1>8, PiTypes

\* ... ends its turn: there is a message the turn is of, ...
LEMMA PiEndsTypes ==
  ASSUME ChatTypes, PiEndsTurn
  PROVE  ChatTypes'
  <1> DEFINE m == pi.said[Len(pi.said) - Len(pi.results)]
  <1>1. /\ pi.turn \in {"spoken", "tooled"} /\ pi' = [pi EXCEPT !.turn = IF @ = "tooled" THEN "none" ELSE "over"]
        /\ stdout' = Append(stdout, Event("turn", m, pi.results)) /\ UNCHANGED <<stdin, excused, conn, up, down, unsent, tab>>
    BY DEF PiEndsTurn, PiRest, Prints
  <1>2. pi \in PiRec /\ pi.said \in Seq(Msg) /\ pi.results \in Seq(Msg) /\ pi.busy BY <1>1 DEF ChatTypes, PiRight, PiRec
  <1>3. Len(pi.said) - Len(pi.results) \in 1 .. Len(pi.said)
    <2>1. CASE pi.turn = "spoken"
      <3>1. Len(pi.results) = 0 /\ Len(pi.said) >= 1 BY <2>1 DEF ChatTypes, PiRight
      <3> QED BY <1>2, <3>1
    <2>2. CASE pi.turn = "tooled"
      <3>1. Len(pi.results) = 1 /\ Len(pi.said) >= 2 BY <2>2 DEF ChatTypes, PiRight
      <3> QED BY <1>2, <3>1
    <2> QED BY <1>1, <2>1, <2>2
  <1>4. m \in Msg BY <1>2, <1>3
  <1> HIDE DEF m
  <1>5. pi' \in PiRec /\ pi'.turn \in {"none", "over"} /\ pi'.busy BY <1>1, <1>2 DEF PiRec
  <1>6. PiRight(pi') BY <1>5 DEF PiRight
  <1>7. excused' \in BOOLEAN BY <1>1 DEF ChatTypes
  <1>8. \E l \in Line : stdout' = Append(stdout, l) BY <1>1, <1>2, <1>4, LinesAre
  <1>9. UNCHANGED <<conn, up, down, unsent, tab>> /\ stdin' = stdin BY <1>1
  <1> QED BY <1>6, <1>7, <1>8, <1>9, PiTypes

\* ... and rests.
LEMMA PiSettlesTypes ==
  ASSUME ChatTypes, PiSettles
  PROVE  ChatTypes'
  <1>1. /\ pi' = [pi EXCEPT !.turn = "none", !.busy = FALSE]
        /\ stdout' = Append(stdout, Event("settled", None, <<>>)) /\ UNCHANGED <<stdin, excused, conn, up, down, unsent, tab>>
    BY DEF PiSettles, PiRest, Prints
  <1>2. pi \in PiRec BY DEF ChatTypes, PiRight
  <1>3. pi' \in PiRec /\ pi'.turn = "none" BY <1>1, <1>2 DEF PiRec
  <1>4. PiRight(pi') BY <1>3 DEF PiRight
  <1>5. excused' \in BOOLEAN BY <1>1 DEF ChatTypes
  <1>6. \E l \in Line : stdout' = Append(stdout, l) BY <1>1, LinesAre
  <1>7. UNCHANGED <<conn, up, down, unsent, tab>> /\ stdin' = stdin BY <1>1
  <1> QED BY <1>4, <1>5, <1>6, <1>7, PiTypes

\* A report of the sandbox's state is a line.
LEMMA PiReportsTypes ==
  ASSUME ChatTypes, PiReports
  PROVE  ChatTypes'
  <1>1. /\ down' = IF conn = None THEN down ELSE Append(down, Event("running", None, <<>>))
        /\ UNCHANGED <<pi, stdin, stdout, conn, up, unsent, tab, excused>>
    BY DEF PiReports
  <1>2. down' \in Seq(Line) BY <1>1, LinesAre DEF ChatTypes
  <1>3. conn = None => down' = <<>> BY <1>1 DEF ChatTypes
  <1> QED BY <1>1, <1>2, <1>3 DEF ChatTypes

\* Another process of the agent begins with nothing to read.
LEMMA BecomesTypes ==
  ASSUME ChatTypes, NEW i \in Instances \cup {None}, PiBecomes(i)
  PROVE  ChatTypes'
  <1>1. /\ pi' = [pi EXCEPT !.inst = i, !.busy = FALSE, !.turn = "none", !.results = <<>>] /\ stdin' = <<>>
        /\ excused' \in BOOLEAN /\ UNCHANGED <<left, stdout, conn, up, down, unsent, tab>>
    BY DEF PiBecomes
  <1>2. pi \in PiRec BY DEF ChatTypes, PiRight
  <1>3. <<>> \in Seq(Msg) OBVIOUS
  <1>4. pi' \in PiRec /\ pi'.turn = "none" BY <1>1, <1>2, <1>3 DEF PiRec
  <1>5. PiRight(pi') BY <1>4 DEF PiRight
  <1>6. stdout' = stdout /\ UNCHANGED <<conn, up, down, unsent, tab>> BY <1>1
  <1> QED BY <1>1, <1>5, <1>6, PiTypes

\* Every step of a chat keeps its types.
LEMMA ChatStepTypes ==
  ASSUME ChatTypes, Quotas, NEW running, NEW status, ChatStep(running, status)
  PROVE  ChatTypes'
  <1>1. \/ OpenChat \/ Prompt \/ NewSession \/ Receives \/ SocketDrops \/ SocketOpens(status) \/ ServerReceives(running)
        \/ (\E b : BootTimesOut(b)) \/ (\E n \in 1 .. MaxChunk : ReadChunk(n))
        \/ PiReads \/ PiSpeaks \/ PiUsesTool \/ PiEndsTurn \/ PiSettles \/ PiReports
    BY Zenon DEF ChatStep
  <1> QED BY <1>1, OpenTypes, PromptTypes, NewTypes, ReceivesTypes, DropsTypes, OpensTypes, ServerTypes, TimeoutTypes, ReadTypes,
             PiReadsTypes, PiSpeaksTypes, PiUsesTypes, PiEndsTypes, PiSettlesTypes, PiReportsTypes

\* A chat that is not open yet has them.
LEMMA ChatBegins == ChatInit => ChatTypes
  <1> SUFFICES ASSUME ChatInit PROVE ChatTypes OBVIOUS
  <1>1. <<>> \in Seq(Msg) /\ <<>> \in Seq(TakenOrder) /\ <<>> \in Seq(Order) /\ <<>> \in Seq(Line) OBVIOUS
  <1>2. pi \in PiRec /\ pi.turn = "none" BY <1>1 DEF ChatInit, PiRec
  <1>3. PiRight(pi) BY <1>2 DEF PiRight
  <1>4. conn \in Nat /\ excused \in BOOLEAN BY DEF ChatInit
  <1>5. up = <<>> /\ down = <<>> /\ unsent = <<>> /\ stdin = <<>> /\ stdout = <<>> /\ tab = None BY DEF ChatInit
  <1> QED BY <1>1, <1>3, <1>4, <1>5 DEF ChatTypes

\* And they are those the runs check.
LEMMA ChatTypesMean == ChatTypes => ChatTypeOK
  BY DEF ChatTypes, ChatTypeOK, PiRight, PiRec, TabRight

--------------------------------------------------------------------------
(* What is on its way in a chat                                            *)

\* Lines on their way to the tab, and commands to pi, in the order they are handled.
Flow == down \o stdout
Orders == stdin \o up \o unsent

\* A line tells what pi said, that its session is new, what was said so far, whether it is at work.
Talks(l) == l.line \in {"message", "turn"}
Renews(l) == l.line = "answer" /\ l.to.cmd = "new"
Snapshot(l) == l.line = "answer" /\ l.to.cmd = "messages"
StateOf(l) == l.line = "answer" /\ l.to.cmd = "state"

\* How many of pi's messages are before and after what a line tells, and how many are told of.
Begins(l) == IF l.line = "message" THEN l.m.n - 1 ELSE l.m.n
Ends(l) == l.m.n + Len(l.results)
End(p) == IF p.turn = "tooled" THEN Len(p.said) - 1 ELSE Len(p.said)

\* Prompts that pi has yet to read.
Prompts(C) == {y \in 1 .. Len(C) : C[y].cmd = "prompt"}
Typed(c) == Message("user", c.for)

\* A prompt is in a conversation once, and those to come have lower numbers.
Once(s) == \A i, j \in 1 .. Len(s) : s[i].who = "user" /\ s[i] = s[j] => i = j
Older(s, k) == \A i \in 1 .. Len(s) : s[i].who = "user" => s[i].n > k

\* What pi said, by how far its turn is.
SaidRight(p) ==
    /\ \A i \in 1 .. Len(p.said) : p.said[i].who # "user" => p.said[i].n = i
    /\ p.turn = "spoken" => p.said[Len(p.said)].who = "pi"
    /\ p.turn = "tooled" => /\ p.said[Len(p.said) - 1].who = "pi" /\ p.said[Len(p.said)].who = "tool"
                            /\ p.results = <<p.said[Len(p.said)]>>
    /\ p.turn = "over" => Len(p.said) >= 1 /\ p.said[Len(p.said)].who # "user"
    /\ ~p.busy /\ Len(p.said) >= 1 => p.said[Len(p.said)].who # "user"
    /\ Once(p.said)

\* A bootstrap's state is asked and answered before its messages.
InOrder(F, C, t) ==
    /\ \A x, y \in 1 .. Len(F) : Snapshot(F[x]) /\ StateOf(F[y]) /\ F[x].to.for = F[y].to.for => y < x
    /\ \A x \in 1 .. Len(F), y \in 1 .. Len(C) : Snapshot(F[x]) /\ C[y].cmd = "state" => F[x].to.for # C[y].for
    /\ \A x, y \in 1 .. Len(C) : C[x].cmd = "messages" /\ C[y].cmd = "state" /\ C[x].for = C[y].for => y < x
    /\ t # None => \A b \in t.boots : b.messages # None =>
          /\ \A x \in 1 .. Len(F) : StateOf(F[x]) => F[x].to.for # b.gen
          /\ \A y \in 1 .. Len(C) : C[y].cmd = "state" => C[y].for # b.gen

\* What is asked and answered is asked by the tab, and a chat that asks for a new session has bootstrapped.
Gens(F, C, t) ==
    /\ \A x \in 1 .. Len(F) : Snapshot(F[x]) \/ StateOf(F[x]) => t # None /\ F[x].to.for <= t.gen
    /\ \A y \in 1 .. Len(C) : C[y].cmd \in {"state", "messages"} => t # None /\ C[y].for <= t.gen
    /\ \A x \in 1 .. Len(F) : Renews(F[x]) => t # None /\ t.booted
    /\ \A y \in 1 .. Len(C) : C[y].cmd = "new" => t # None /\ t.booted
    /\ \A y \in 1 .. Len(C) : C[y].cmd = "prompt" => t # None
    /\ t # None => \A b, c \in t.boots : b.gen = c.gen => b = c

\* A line tells a message of pi and results of tools.
ByPi(l) == l.m.who = "pi" /\ \A i \in 1 .. Len(l.results) : l.results[i].who = "tool"
\* Who said what, and which prompts there were.
Numbers(F, C, t, p, k) ==
    /\ Older(p.said, k)
    /\ \A x \in 1 .. Len(F) : Snapshot(F[x]) => Older(F[x].data, k) /\ Once(F[x].data)
    /\ \A x \in 1 .. Len(F) : Talks(F[x]) => ByPi(F[x])
    /\ t # None => Older(t.shown, k) /\ Once(t.shown)
    /\ \A y \in 1 .. Len(C) : C[y].cmd = "prompt" => C[y].for > k

\* One prompt at most is on its way, to a pi that rests and said nothing the tab is yet to hear.
OnePrompt(F, C, p) ==
    \A y \in Prompts(C) :
        /\ ~p.busy /\ \A x \in 1 .. Len(F) : ~Talks(F[x])
        /\ \A z \in Prompts(C) : z = y
        /\ \A i \in 1 .. Len(p.said) : p.said[i] # Typed(C[y])

\* A line tells what was said, unless the session is renewed after it, and no line tells what
\* one before it told.
Tells(l, s) ==
    /\ l.m.n \in 1 .. Len(s) /\ s[l.m.n] = l.m /\ Ends(l) <= Len(s)
    /\ \A i \in 1 .. Len(l.results) : l.results[i] = s[l.m.n + i]
Fresh(x, F) == \A y \in 1 .. Len(F) : x < y => ~Renews(F[y])
TalkTells(F, p) ==
    /\ \A x \in 1 .. Len(F) : Talks(F[x]) /\ Fresh(x, F) => Tells(F[x], p.said) /\ Ends(F[x]) <= End(p)
    /\ \A x, y \in 1 .. Len(F) : x < y /\ Talks(F[x]) /\ Talks(F[y]) /\ Fresh(x, F) => Ends(F[x]) <= Begins(F[y])

Renewed(F) == \E x \in 1 .. Len(F) : Renews(F[x])

\* The lines after z tell all that was said after the first n messages.
Cover(n, z, F, p) ==
    /\ n <= End(p)
    /\ \A y \in 1 .. Len(F) : z < y /\ Talks(F[y]) => n <= Begins(F[y])
    /\ \A j \in n + 1 .. End(p) : \E x \in 1 .. Len(F) : z < x /\ Talks(F[x]) /\ Begins(F[x]) < j /\ j <= Ends(F[x])

\* A tab that shows X shows what is said once it has heard the lines after z and pi has read what is typed.
Leads(X, s) == Len(X) <= Len(s) /\ \A i \in 1 .. Len(X) : X[i] = s[i]
InStep(X, z, F, C, p) ==
    IF Prompts(C) # {} THEN \E y \in Prompts(C) : X = Append(p.said, Typed(C[y]))
    ELSE Leads(X, p.said) /\ Cover(Len(X), z, F, p)

\* What a tab with the optimistic prompts opt shows once it has the snapshot D.
IsBase(X, D, opt) ==
    \/ (\A u \in opt : \E i \in 1 .. Len(D) : D[i] = u) /\ X = D
    \/ \E u \in opt : /\ X = Append(D, u) /\ \A i \in 1 .. Len(D) : D[i] # u
                      /\ \A v \in opt : v = u \/ \E i \in 1 .. Len(D) : D[i] = v

\* The latest bootstrap is not over.
Asking(t) == \E b \in t.boots : b.gen = t.gen

\* What a tab shows before it is confirmed was said, or is on its way to pi.
Confirms(F, C, t, p) ==
    ~Renewed(F) => \A u \in t.optimistic : \/ \E i \in 1 .. Len(p.said) : p.said[i] = u
                                           \/ \E y \in Prompts(C) : Typed(C[y]) = u
\* A prompt that a snapshot to come will not have is still kept by the tab.
StillTyped(C, t) ==
    \A y \in Prompts(C) :
        \/ Typed(C[y]) \in t.optimistic
        \/ t.booted /\ (Asking(t) => \A x \in 1 .. Len(C) : x < y /\ C[x].cmd = "messages" => C[x].for # t.gen)

\* What the tab shows is in step with what is said, or will be with the snapshot it asked for.
Shows(F, C, t, p) == t.booted /\ ~Asking(t) /\ ~Renewed(F) => InStep(t.shown, 0, F, C, p)
WillShow(F, C, t, p) ==
    Asking(t) /\ ~Renewed(F) => \A x \in 1 .. Len(F) : Snapshot(F[x]) /\ F[x].to.for = t.gen =>
        \E X \in Seq(Msg) : IsBase(X, F[x].data, t.optimistic) /\ InStep(X, x, F, C, p)

\* The parts that speak of each line and command, and those that speak of what the tab shows.
Ordered(F, C, t, p, k) ==
    SaidRight(p) /\ InOrder(F, C, t) /\ Gens(F, C, t) /\ Numbers(F, C, t, p, k) /\ OnePrompt(F, C, p) /\ TalkTells(F, p)
Straight(F, C, t, p, k, linked) ==
    /\ Ordered(F, C, t, p, k)
    /\ t # None => Confirms(F, C, t, p) /\ StillTyped(C, t) /\ Shows(F, C, t, p) /\ (linked => WillShow(F, C, t, p))

--------------------------------------------------------------------------
(* Lines that move                                                         *)

\* The lines of G are those of F at the positions h (0: a new one, that says nothing of the
\* conversation); an answer may be overtaken, but no snapshot by what pi says after it.
Carries(F, G, h) ==
    /\ h \in [1 .. Len(G) -> 0 .. Len(F)]
    /\ \A x \in 1 .. Len(G) : IF h[x] = 0 THEN G[x].line \in {"running", "start", "settled"} ELSE G[x] = F[h[x]]
    /\ \A x, y \in 1 .. Len(G) : x < y /\ h[x] # 0 /\ h[y] # 0 =>
          \/ h[x] < h[y]
          \/ /\ h[y] < h[x] /\ F[h[x]].line # "answer" /\ F[h[y]].line = "answer"
             /\ ~(Snapshot(F[h[y]]) /\ Talks(F[h[x]]))
\* No renewal is lost that comes after what is kept, or no talk after z.
KeepsRenewals(F, G, h) ==
    \A x \in 1 .. Len(G), z \in 1 .. Len(F) : h[x] # 0 /\ h[x] < z /\ Renews(F[z]) => \E y \in 1 .. Len(G) : h[y] = z
KeepsTalk(F, G, h, z) == \A v \in 1 .. Len(F) : z < v /\ Talks(F[v]) => \E y \in 1 .. Len(G) : h[y] = v

\* What the lines that move say each.
LEMMA CarriedLines ==
  ASSUME NEW F \in Seq(Line), NEW G \in Seq(Line), NEW h, Carries(F, G, h)
  PROVE  \A x \in 1 .. Len(G) :
            Talks(G[x]) \/ G[x].line = "answer" => h[x] \in 1 .. Len(F) /\ h[x] # 0 /\ G[x] = F[h[x]]
  <1> TAKE x \in 1 .. Len(G)
  <1> HAVE Talks(G[x]) \/ G[x].line = "answer"
  <1>1. h[x] \in 0 .. Len(F) BY DEF Carries
  <1>2. h[x] # 0 BY DEF Carries, Talks
  <1>3. G[x] = F[h[x]] BY <1>2 DEF Carries
  <1>4. Len(F) \in Nat OBVIOUS
  <1> QED BY <1>1, <1>2, <1>3, <1>4

\* Two lines, of which the first is an answer or neither is one, do not change places.
LEMMA CarriedOrder ==
  ASSUME NEW F \in Seq(Line), NEW G \in Seq(Line), NEW h, Carries(F, G, h),
         NEW x \in 1 .. Len(G), NEW y \in 1 .. Len(G), x < y, h[x] # 0, h[y] # 0,
         G[x].line = "answer" \/ G[y].line # "answer" \/ (Talks(G[x]) /\ Snapshot(G[y]))
  PROVE  h[x] < h[y]
  <1>1. G[x] = F[h[x]] /\ G[y] = F[h[y]] BY DEF Carries
  <1> QED BY <1>1 DEF Carries

\* Lines that move so keep the order of answers, ...
LEMMA InOrderCarried ==
  ASSUME NEW F \in Seq(Line), NEW G \in Seq(Line), NEW h, Carries(F, G, h), NEW C, NEW t, InOrder(F, C, t)
  PROVE  InOrder(G, C, t)
  <1>1. \A x \in 1 .. Len(G) : G[x].line = "answer" => h[x] \in 1 .. Len(F) /\ h[x] # 0 /\ G[x] = F[h[x]] BY CarriedLines
  <1>2. ASSUME NEW x \in 1 .. Len(G), NEW y \in 1 .. Len(G), Snapshot(G[x]), StateOf(G[y]), G[x].to.for = G[y].to.for
        PROVE  y < x
    <2>1. h[x] \in 1 .. Len(F) /\ h[x] # 0 /\ G[x] = F[h[x]] /\ h[y] \in 1 .. Len(F) /\ h[y] # 0 /\ G[y] = F[h[y]]
      BY <1>1, <1>2 DEF Snapshot, StateOf
    <2>2. h[y] < h[x] BY <1>2, <2>1 DEF InOrder
    <2>3. x # y BY <1>2 DEF Snapshot, StateOf
    <2>4. ~(x < y)
      <3>1. x < y => h[x] < h[y] BY <1>2, <2>1, CarriedOrder DEF Snapshot
      <3>2. h[x] \in Int /\ h[y] \in Int BY <2>1
      <3> QED BY <2>2, <3>1, <3>2
    <2>5. x \in Int /\ y \in Int OBVIOUS
    <2> QED BY <2>3, <2>4, <2>5
  <1>3. \A x \in 1 .. Len(G), y \in 1 .. Len(C) : Snapshot(G[x]) /\ C[y].cmd = "state" => G[x].to.for # C[y].for
    BY <1>1 DEF InOrder, Snapshot
  <1>4. \A x \in 1 .. Len(G) : StateOf(G[x]) => \E v \in 1 .. Len(F) : G[x] = F[v] /\ StateOf(F[v]) BY <1>1 DEF StateOf
  <1>5. t # None => \A b \in t.boots : b.messages # None => \A x \in 1 .. Len(G) : StateOf(G[x]) => G[x].to.for # b.gen
    BY <1>4 DEF InOrder
  <1> QED BY <1>2, <1>3, <1>5 DEF InOrder

\* ... their numbers, and the one prompt that is on its way, ...
LEMMA PartsCarried ==
  ASSUME NEW F \in Seq(Line), NEW G \in Seq(Line), NEW h, Carries(F, G, h), NEW C, NEW t, NEW p, NEW k
  PROVE  /\ Gens(F, C, t) => Gens(G, C, t)
         /\ Numbers(F, C, t, p, k) => Numbers(G, C, t, p, k)
         /\ OnePrompt(F, C, p) => OnePrompt(G, C, p)
  <1>1. \A x \in 1 .. Len(G) : Talks(G[x]) \/ G[x].line = "answer" => \E v \in 1 .. Len(F) : G[x] = F[v] BY CarriedLines
  <1>2. \A x \in 1 .. Len(G) : Talks(G[x]) => \E v \in 1 .. Len(F) : G[x] = F[v] /\ Talks(F[v]) BY <1>1
  <1>3. \A x \in 1 .. Len(G) : G[x].line = "answer" => \E v \in 1 .. Len(F) : G[x] = F[v] BY <1>1
  <1>4. Gens(F, C, t) => Gens(G, C, t) BY <1>3 DEF Gens, Snapshot, StateOf, Renews
  <1>7. \A x \in 1 .. Len(G) : Snapshot(G[x]) => \E v \in 1 .. Len(F) : G[x] = F[v] /\ Snapshot(F[v]) BY <1>3 DEF Snapshot
  <1>5. ASSUME Numbers(F, C, t, p, k) PROVE Numbers(G, C, t, p, k)
    <2>1. \A x \in 1 .. Len(G) : Snapshot(G[x]) => Older(G[x].data, k) /\ Once(G[x].data) BY <1>5, <1>7 DEF Numbers
    <2>2. \A x \in 1 .. Len(G) : Talks(G[x]) => ByPi(G[x]) BY <1>2, <1>5 DEF Numbers
    <2>3. Older(p.said, k) /\ (t # None => Older(t.shown, k) /\ Once(t.shown)) /\ \A y \in 1 .. Len(C) : C[y].cmd = "prompt" => C[y].for > k
      BY <1>5 DEF Numbers
    <2> QED BY <2>1, <2>2, <2>3, Zenon DEF Numbers
  <1>6. OnePrompt(F, C, p) => OnePrompt(G, C, p) BY <1>2 DEF OnePrompt
  <1> QED BY <1>4, <1>5, <1>6

\* ... and tell what was said, if no new session is lost.
LEMMA TalkCarried ==
  ASSUME NEW F \in Seq(Line), NEW G \in Seq(Line), NEW h, Carries(F, G, h), KeepsRenewals(F, G, h), NEW p, TalkTells(F, p)
  PROVE  TalkTells(G, p)
  <1>1. \A x \in 1 .. Len(G) : Talks(G[x]) => h[x] \in 1 .. Len(F) /\ h[x] # 0 /\ G[x] = F[h[x]] BY CarriedLines
  <1>2. ASSUME NEW x \in 1 .. Len(G), Talks(G[x]), Fresh(x, G) PROVE Fresh(h[x], F)
    <2>1. h[x] \in 1 .. Len(F) /\ h[x] # 0 BY <1>1, <1>2
    <2> SUFFICES ASSUME NEW z \in 1 .. Len(F), h[x] < z, Renews(F[z]) PROVE FALSE BY DEF Fresh
    <2>2. PICK y \in 1 .. Len(G) : h[y] = z BY <2>1 DEF KeepsRenewals
    <2>3. h[y] # 0 /\ G[y] = F[z] BY <2>2 DEF Carries
    <2>4. ~(x < y) BY <1>2, <2>3 DEF Fresh
    <2>5. y # x BY <2>1, <2>2
    <2>6. y \in Int /\ x \in Int OBVIOUS
    <2>7. y < x BY <2>4, <2>5, <2>6
    <2>8. G[y].line = "answer" BY <2>3 DEF Renews
    <2>9. h[y] < h[x] BY <2>1, <2>3, <2>7, <2>8, CarriedOrder
    <2> QED BY <2>1, <2>2, <2>9
  <1>3. ASSUME NEW x \in 1 .. Len(G), NEW y \in 1 .. Len(G), x < y, Talks(G[x]), Talks(G[y]), Fresh(x, G)
        PROVE  Ends(G[x]) <= Begins(G[y])
    <2>1. G[x].line # "answer" /\ G[y].line # "answer" BY <1>3 DEF Talks
    <2>2. h[x] \in 1 .. Len(F) /\ h[x] # 0 /\ G[x] = F[h[x]] /\ h[y] \in 1 .. Len(F) /\ h[y] # 0 /\ G[y] = F[h[y]] BY <1>1, <1>3
    <2>3. h[x] < h[y] BY <1>3, <2>1, <2>2, CarriedOrder
    <2> QED BY <1>2, <1>3, <2>2, <2>3 DEF TalkTells
  <1>4. \A x \in 1 .. Len(G) : Talks(G[x]) /\ Fresh(x, G) => Tells(G[x], p.said) /\ Ends(G[x]) <= End(p)
    BY <1>1, <1>2 DEF TalkTells
  <1> QED BY <1>3, <1>4 DEF TalkTells

\* What the lines after z tell those after w tell, where they are the same.
LEMMA CoverCarried ==
  ASSUME NEW F \in Seq(Line), NEW G \in Seq(Line), NEW h, Carries(F, G, h), NEW n, NEW p,
         NEW z \in 0 .. Len(F), NEW w \in 0 .. Len(G), KeepsTalk(F, G, h, z),
         \A y \in 1 .. Len(G) : Talks(G[y]) => (w < y <=> z < h[y]),
         Cover(n, z, F, p)
  PROVE  Cover(n, w, G, p)
  <1>1. \A x \in 1 .. Len(G) : Talks(G[x]) => h[x] \in 1 .. Len(F) /\ G[x] = F[h[x]] BY CarriedLines
  <1>2. \A y \in 1 .. Len(G) : w < y /\ Talks(G[y]) => n <= Begins(G[y]) BY <1>1 DEF Cover
  <1>3. ASSUME NEW j \in n + 1 .. End(p)
        PROVE  \E x \in 1 .. Len(G) : w < x /\ Talks(G[x]) /\ Begins(G[x]) < j /\ j <= Ends(G[x])
    <2>1. PICK v \in 1 .. Len(F) : z < v /\ Talks(F[v]) /\ Begins(F[v]) < j /\ j <= Ends(F[v]) BY <1>3 DEF Cover
    <2>2. PICK y \in 1 .. Len(G) : h[y] = v BY <2>1 DEF KeepsTalk
    <2>3. G[y] = F[v] BY <2>2 DEF Carries
    <2>4. w < y BY <2>1, <2>2, <2>3
    <2> QED BY <2>1, <2>3, <2>4
  <1> QED BY <1>2, <1>3 DEF Cover

\* What is in step stays so if no talk behind it is lost, ...
LEMMA InStepCarried ==
  ASSUME NEW F \in Seq(Line), NEW G \in Seq(Line), NEW h, Carries(F, G, h), NEW X, NEW C, NEW p,
         NEW z \in 0 .. Len(F), NEW w \in 0 .. Len(G), KeepsTalk(F, G, h, z),
         \A y \in 1 .. Len(G) : Talks(G[y]) => (w < y <=> z < h[y]),
         InStep(X, z, F, C, p)
  PROVE  InStep(X, w, G, C, p)
  BY CoverCarried DEF InStep

\* ... what the tab shows too, ...
LEMMA ShowsCarried ==
  ASSUME NEW F \in Seq(Line), NEW G \in Seq(Line), NEW h, Carries(F, G, h), NEW C, NEW t, NEW p,
         t.booted => KeepsTalk(F, G, h, 0), Renewed(F) => Renewed(G), Shows(F, C, t, p)
  PROVE  Shows(G, C, t, p)
  <1> SUFFICES ASSUME t.booted, ~Asking(t), ~Renewed(G) PROVE InStep(t.shown, 0, G, C, p) BY DEF Shows
  <1>1. InStep(t.shown, 0, F, C, p) BY DEF Shows
  <1>2. \A y \in 1 .. Len(G) : Talks(G[y]) => h[y] \in 1 .. Len(F) BY CarriedLines
  <1>3. \A y \in 1 .. Len(G) : Talks(G[y]) => (0 < y <=> 0 < h[y]) BY <1>2
  <1>4. 0 \in 0 .. Len(F) /\ 0 \in 0 .. Len(G) OBVIOUS
  <1> QED BY <1>1, <1>3, <1>4, InStepCarried

\* ... and what a snapshot on its way will make it show.
LEMMA WillShowCarried ==
  ASSUME NEW F \in Seq(Line), NEW G \in Seq(Line), NEW h, Carries(F, G, h), NEW C, NEW t, NEW p,
         \A x \in 1 .. Len(G) : Snapshot(G[x]) => KeepsTalk(F, G, h, h[x]), Renewed(F) => Renewed(G), WillShow(F, C, t, p)
  PROVE  WillShow(G, C, t, p)
  <1> SUFFICES ASSUME Asking(t), ~Renewed(G), NEW x \in 1 .. Len(G), Snapshot(G[x]), G[x].to.for = t.gen
               PROVE  \E X \in Seq(Msg) : IsBase(X, G[x].data, t.optimistic) /\ InStep(X, x, G, C, p)
    BY DEF WillShow
  <1>1. h[x] \in 1 .. Len(F) /\ h[x] # 0 /\ G[x] = F[h[x]] BY CarriedLines DEF Snapshot
  <1>2. PICK X \in Seq(Msg) : IsBase(X, G[x].data, t.optimistic) /\ InStep(X, h[x], F, C, p) BY <1>1 DEF WillShow
  <1>3. ASSUME NEW y \in 1 .. Len(G), Talks(G[y]) PROVE x < y <=> h[x] < h[y]
    <2>1. h[y] \in 1 .. Len(F) /\ h[y] # 0 BY <1>3, CarriedLines
    <2>2. x < y => h[x] < h[y] BY <1>1, <2>1, CarriedOrder DEF Snapshot
    <2>3. y < x => h[y] < h[x] BY <1>1, <1>3, <2>1, CarriedOrder
    <2>4. x # y BY <1>3 DEF Talks, Snapshot
    <2>5. x \in Int /\ y \in Int /\ h[x] \in Int /\ h[y] \in Int BY <1>1, <2>1
    <2> QED BY <2>2, <2>3, <2>4, <2>5
  <1>4. h[x] \in 0 .. Len(F) /\ x \in 0 .. Len(G) BY <1>1
  <1>5. KeepsTalk(F, G, h, h[x]) OBVIOUS
  <1>6. InStep(X, x, G, C, p) BY <1>2, <1>3, <1>4, <1>5, InStepCarried
  <1> QED BY <1>2, <1>6

\* Lines that move so leave all straight, if no talk is lost that the tab has to hear.
LEMMA StraightCarried ==
  ASSUME NEW F \in Seq(Line), NEW G \in Seq(Line), NEW h, Carries(F, G, h), KeepsRenewals(F, G, h),
         NEW C, NEW t, NEW p, NEW k, NEW linked, NEW linking, linking => linked,
         t # None /\ (t.booted \/ linking) => KeepsTalk(F, G, h, 0),
         t # None /\ Renewed(F) => Renewed(G),
         Straight(F, C, t, p, k, linked)
  PROVE  Straight(G, C, t, p, k, linking)
  <1>1. Ordered(G, C, t, p, k) BY InOrderCarried, PartsCarried, TalkCarried DEF Straight, Ordered
  <1>2. ASSUME t # None
        PROVE  Confirms(G, C, t, p) /\ StillTyped(C, t) /\ Shows(G, C, t, p) /\ (linking => WillShow(G, C, t, p))
    <2>1. Confirms(F, C, t, p) /\ StillTyped(C, t) /\ Shows(F, C, t, p) /\ (linked => WillShow(F, C, t, p)) /\ (Renewed(F) => Renewed(G))
      BY <1>2 DEF Straight
    <2>2. Confirms(G, C, t, p) BY <2>1 DEF Confirms
    <2>3. Shows(G, C, t, p) BY <1>2, <2>1, ShowsCarried
    <2>4. ASSUME linking PROVE WillShow(G, C, t, p)
      <3>1. KeepsTalk(F, G, h, 0) BY <1>2, <2>4
      <3>2. \A x \in 1 .. Len(G) : Snapshot(G[x]) => h[x] \in 1 .. Len(F) BY CarriedLines DEF Snapshot
      <3>3. \A x \in 1 .. Len(G) : Snapshot(G[x]) => KeepsTalk(F, G, h, h[x]) BY <3>1, <3>2 DEF KeepsTalk
      <3> QED BY <2>1, <2>4, <3>3, WillShowCarried
    <2> QED BY <2>1, <2>2, <2>3, <2>4
  <1> QED BY <1>1, <1>2 DEF Straight

--------------------------------------------------------------------------
(* Commands that move                                                      *)

\* The commands of B are those of C at the positions g, in their order (0: a new one).
Comes(C, B, g) ==
    /\ g \in [1 .. Len(B) -> 0 .. Len(C)]
    /\ \A y \in 1 .. Len(B) : g[y] # 0 => B[y].cmd = C[g[y]].cmd /\ B[y].for = C[g[y]].for
    /\ \A x, y \in 1 .. Len(B) : x < y /\ g[x] # 0 /\ g[y] # 0 => g[x] < g[y]
KeepsPrompts(C, B, g) == \A z \in Prompts(C) : \E y \in 1 .. Len(B) : g[y] = z

\* What is new asks for a new session, or for the state and then the messages of a later bootstrap.
NewOrders(B, g, t, s) ==
    /\ \A y \in 1 .. Len(B) : g[y] = 0 =>
          /\ t # None /\ s # None
          /\ \/ B[y].cmd = "new" /\ s.booted
             \/ B[y].cmd \in {"state", "messages"} /\ t.gen < B[y].for /\ B[y].for <= s.gen
    /\ \A x, y \in 1 .. Len(B) : g[x] = 0 /\ g[y] = 0 /\ B[x].cmd = "messages" /\ B[y].cmd = "state" /\ B[x].for = B[y].for => y < x

\* A tab that bootstraps again shows what it showed.
Reboots(t, s) ==
    /\ t # None /\ s # None /\ t.gen < s.gen /\ Asking(s)
    /\ s.shown = t.shown /\ s.optimistic = t.optimistic /\ s.booted = t.booted
    /\ \A b \in s.boots : b \in t.boots \/ (b.messages = None /\ t.gen < b.gen)
    /\ \A b, c \in s.boots : b.gen = c.gen => b = c

\* What a command has, by its kind.
LEMMA OrderIs ==
  ASSUME NEW c \in Order
  PROVE  /\ c.cmd \in {"state", "messages", "prompt", "new"}
         /\ c.cmd \in {"state", "messages", "prompt"} => c.for \in Nat
         /\ c.cmd = "new" => c.for = None
  BY DEF Order

\* Commands that move so are the same prompts, ...
LEMMA PromptsCome ==
  ASSUME NEW C, NEW B, NEW g, NEW t, NEW s, Comes(C, B, g), NewOrders(B, g, t, s), Len(C) \in Nat
  PROVE  /\ \A y \in Prompts(B) : g[y] # 0 /\ g[y] \in Prompts(C) /\ Typed(B[y]) = Typed(C[g[y]])
         /\ KeepsPrompts(C, B, g) => \A z \in Prompts(C) : \E y \in Prompts(B) : g[y] = z /\ Typed(B[y]) = Typed(C[z])
  <1>1. ASSUME NEW y \in Prompts(B) PROVE g[y] # 0 /\ g[y] \in Prompts(C) /\ Typed(B[y]) = Typed(C[g[y]])
    <2>1. y \in 1 .. Len(B) /\ B[y].cmd = "prompt" BY <1>1 DEF Prompts
    <2>2. g[y] # 0 BY <2>1 DEF NewOrders
    <2>3. g[y] \in 0 .. Len(C) /\ B[y].cmd = C[g[y]].cmd /\ B[y].for = C[g[y]].for BY <2>1, <2>2 DEF Comes
    <2>4. g[y] \in 1 .. Len(C) BY <2>2, <2>3
    <2> QED BY <2>1, <2>2, <2>3, <2>4 DEF Prompts, Typed
  <1>2. ASSUME KeepsPrompts(C, B, g), NEW z \in Prompts(C) PROVE \E y \in Prompts(B) : g[y] = z /\ Typed(B[y]) = Typed(C[z])
    <2>1. PICK y \in 1 .. Len(B) : g[y] = z BY <1>2 DEF KeepsPrompts
    <2>2. g[y] # 0 /\ C[z].cmd = "prompt" BY <2>1, <1>2 DEF Prompts
    <2>3. B[y].cmd = C[z].cmd BY <2>1, <2>2 DEF Comes
    <2>4. y \in Prompts(B) BY <2>2, <2>3 DEF Prompts
    <2> QED BY <1>1, <2>1, <2>4
  <1> QED BY <1>1, <1>2

\* ... leave in step what is, ...
LEMMA InStepComes ==
  ASSUME NEW C, NEW B, NEW g, NEW t, NEW s, Comes(C, B, g), NewOrders(B, g, t, s), Len(C) \in Nat, KeepsPrompts(C, B, g),
         NEW X, NEW z, NEW F, NEW p, InStep(X, z, F, C, p)
  PROVE  InStep(X, z, F, B, p)
  <1>1. Prompts(C) = {} => Prompts(B) = {} BY PromptsCome
  <1>2. ASSUME Prompts(C) # {} PROVE Prompts(B) # {} /\ \E y \in Prompts(B) : X = Append(p.said, Typed(B[y]))
    <2>1. PICK v \in Prompts(C) : X = Append(p.said, Typed(C[v])) BY <1>2 DEF InStep
    <2>2. PICK y \in Prompts(B) : Typed(B[y]) = Typed(C[v]) BY PromptsCome
    <2> QED BY <2>1, <2>2
  <1> QED BY <1>1, <1>2 DEF InStep

\* ... keep the order of a bootstrap and its answers, ...
LEMMA InOrderComes ==
  ASSUME NEW F \in Seq(Line), NEW C \in Seq(Order), NEW B \in Seq(Order), NEW g, NEW t, t # None => TabRight(t), NEW s,
         Comes(C, B, g), NewOrders(B, g, t, s), s = t \/ Reboots(t, s), InOrder(F, C, t), Gens(F, C, t)
  PROVE  InOrder(F, B, s)
  <1>1. \A y \in 1 .. Len(B) : g[y] # 0 => g[y] \in 1 .. Len(C) /\ B[y].cmd = C[g[y]].cmd /\ B[y].for = C[g[y]].for
    <2>1. \A y \in 1 .. Len(B) : g[y] \in 0 .. Len(C) BY DEF Comes
    <2>2. Len(C) \in Nat OBVIOUS
    <2> QED BY <2>1, <2>2 DEF Comes
  <1>2. \A y \in 1 .. Len(B) : g[y] = 0 /\ B[y].cmd \in {"state", "messages"} => t # None /\ t.gen \in Nat /\ t.gen < B[y].for /\ B[y].for \in Nat
    <2> TAKE y \in 1 .. Len(B)
    <2> HAVE g[y] = 0 /\ B[y].cmd \in {"state", "messages"}
    <2>1. t # None /\ t.gen < B[y].for BY DEF NewOrders
    <2>2. t.gen \in Nat BY <2>1 DEF TabRight, TabRec
    <2>3. B[y] \in Order OBVIOUS
    <2> QED BY <2>1, <2>2, <2>3, OrderIs
  <1>3. \A y \in 1 .. Len(B) : g[y] # 0 /\ B[y].cmd \in {"state", "messages"} => t # None /\ t.gen \in Nat /\ B[y].for <= t.gen /\ B[y].for \in Nat
    <2> TAKE y \in 1 .. Len(B)
    <2> HAVE g[y] # 0 /\ B[y].cmd \in {"state", "messages"}
    <2>1. t # None /\ B[y].for <= t.gen BY <1>1 DEF Gens
    <2>2. t.gen \in Nat BY <2>1 DEF TabRight, TabRec
    <2>3. B[y] \in Order OBVIOUS
    <2> QED BY <2>1, <2>2, <2>3, OrderIs
  <1>4. ASSUME NEW x \in 1 .. Len(F), NEW y \in 1 .. Len(B), Snapshot(F[x]), B[y].cmd = "state" PROVE F[x].to.for # B[y].for
    <2>1. CASE g[y] # 0 BY <1>1, <1>4, <2>1, ZenonT(60) DEF InOrder
    <2>2. CASE g[y] = 0
      <3>1. F[x].to.for <= t.gen BY <1>4 DEF Gens
      <3>2. F[x].to.for \in Nat
        <4>1. F[x] \in Line OBVIOUS
        <4> QED BY <1>4, <4>1, LineIs DEF Snapshot
      <3> QED BY <1>2, <1>4, <2>2, <3>1, <3>2
    <2> QED BY <2>1, <2>2
  <1>5. ASSUME NEW x \in 1 .. Len(B), NEW y \in 1 .. Len(B), B[x].cmd = "messages", B[y].cmd = "state", B[x].for = B[y].for
        PROVE  y < x
    <2>1. CASE g[x] # 0 /\ g[y] # 0
      <3>0. /\ g[x] \in 1 .. Len(C) /\ C[g[x]].cmd = "messages"
            /\ g[y] \in 1 .. Len(C) /\ C[g[y]].cmd = "state" /\ C[g[x]].for = C[g[y]].for
        BY <1>1, <1>5, <2>1
      <3>4. \A v, w \in 1 .. Len(C) : C[v].cmd = "messages" /\ C[w].cmd = "state" /\ C[v].for = C[w].for => w < v
        BY DEF InOrder
      <3>1. g[y] < g[x] /\ g[x] \in Int /\ g[y] \in Int BY <3>0, <3>4
      <3>2. x < y => g[x] < g[y] BY <2>1 DEF Comes
      <3>3. x # y BY <1>5
      <3> QED BY <3>1, <3>2, <3>3
    <2>2. CASE g[x] = 0 /\ g[y] = 0 BY <1>5, <2>2 DEF NewOrders
    <2>3. CASE g[x] = 0 /\ g[y] # 0 BY <1>2, <1>3, <1>5, <2>3
    <2>4. CASE g[x] # 0 /\ g[y] = 0 BY <1>2, <1>3, <1>5, <2>4
    <2> QED BY <2>1, <2>2, <2>3, <2>4
  <1>6. ASSUME s # None, NEW b \in s.boots, b.messages # None
        PROVE  /\ \A x \in 1 .. Len(F) : StateOf(F[x]) => F[x].to.for # b.gen
               /\ \A y \in 1 .. Len(B) : B[y].cmd = "state" => B[y].for # b.gen
    <2>1. t # None /\ b \in t.boots BY <1>6 DEF Reboots
    <2>2. /\ \A x \in 1 .. Len(F) : StateOf(F[x]) => F[x].to.for # b.gen
          /\ \A y \in 1 .. Len(C) : C[y].cmd = "state" => C[y].for # b.gen
      BY <1>6, <2>1 DEF InOrder
    <2>3. b.gen \in 1 .. t.gen /\ t.gen \in Nat BY <2>1 DEF TabRight, TabRec
    <2>4. b.gen \in Nat /\ b.gen <= t.gen BY <2>3
    <2>5. \A y \in 1 .. Len(B) : B[y].cmd = "state" => B[y].for # b.gen
      <3> TAKE y \in 1 .. Len(B)
      <3> HAVE B[y].cmd = "state"
      <3>1. CASE g[y] # 0 BY <1>1, <2>2, <3>1
      <3>2. CASE g[y] = 0 BY <1>2, <2>3, <2>4, <3>2
      <3> QED BY <3>1, <3>2
    <2> QED BY <2>2, <2>5
  <1>7. \A x, y \in 1 .. Len(F) : Snapshot(F[x]) /\ StateOf(F[y]) /\ F[x].to.for = F[y].to.for => y < x BY DEF InOrder
  <1> QED BY <1>4, <1>5, <1>6, <1>7 DEF InOrder

\* ... its numbers, ...
LEMMA GensCome ==
  ASSUME NEW F \in Seq(Line), NEW C \in Seq(Order), NEW B \in Seq(Order), NEW g, NEW t, t # None => TabRight(t),
         NEW s, s # None => TabRight(s),
         Comes(C, B, g), NewOrders(B, g, t, s), s = t \/ Reboots(t, s), Gens(F, C, t)
  PROVE  Gens(F, B, s)
  <1>1. \A y \in 1 .. Len(B) : g[y] # 0 => g[y] \in 1 .. Len(C) /\ B[y].cmd = C[g[y]].cmd /\ B[y].for = C[g[y]].for
    <2>1. \A y \in 1 .. Len(B) : g[y] \in 0 .. Len(C) BY DEF Comes
    <2>2. Len(C) \in Nat OBVIOUS
    <2> QED BY <2>1, <2>2 DEF Comes
  <1>2. t # None => s # None /\ s.booted = t.booted /\ s.gen \in Nat /\ t.gen \in Nat /\ t.gen <= s.gen
    <2> SUFFICES ASSUME t # None PROVE s # None /\ s.booted = t.booted /\ s.gen \in Nat /\ t.gen \in Nat /\ t.gen <= s.gen OBVIOUS
    <2>1. t.gen \in Nat BY DEF TabRight, TabRec
    <2>2. s # None /\ s.booted = t.booted BY DEF Reboots
    <2>3. s.gen \in Nat BY <2>2 DEF TabRight, TabRec
    <2> QED BY <2>1, <2>2, <2>3 DEF Reboots
  <1>3. ASSUME NEW n \in Nat, t # None, n <= t.gen PROVE s # None /\ n <= s.gen BY <1>2, <1>3
  <1>4. \A x \in 1 .. Len(F) : F[x] \in Line OBVIOUS
  <1>5. \A x \in 1 .. Len(F) : Snapshot(F[x]) \/ StateOf(F[x]) => F[x].to.for \in Nat BY <1>4, LineIs DEF Snapshot, StateOf
  <1>6. \A x \in 1 .. Len(F) : Snapshot(F[x]) \/ StateOf(F[x]) => s # None /\ F[x].to.for <= s.gen BY <1>3, <1>5 DEF Gens
  <1>7. \A x \in 1 .. Len(F) : Renews(F[x]) => s # None /\ s.booted BY <1>2 DEF Gens
  <1>8. ASSUME NEW y \in 1 .. Len(B)
        PROVE  /\ B[y].cmd \in {"state", "messages"} => s # None /\ B[y].for <= s.gen
               /\ B[y].cmd = "new" => s # None /\ s.booted
               /\ B[y].cmd = "prompt" => s # None
    <2>1. CASE g[y] = 0 BY <2>1 DEF NewOrders
    <2>2. CASE g[y] # 0
      <3>1. g[y] \in 1 .. Len(C) /\ B[y].cmd = C[g[y]].cmd /\ B[y].for = C[g[y]].for BY <1>1, <2>2
      <3>2. B[y] \in Order OBVIOUS
      <3>3. B[y].cmd \in {"state", "messages"} => t # None /\ B[y].for <= t.gen /\ B[y].for \in Nat BY <3>1, <3>2, OrderIs DEF Gens
      <3>4. B[y].cmd = "new" => s # None /\ s.booted BY <1>2, <3>1 DEF Gens
      <3>5. B[y].cmd = "prompt" => s # None BY <1>2, <3>1 DEF Gens
      <3> QED BY <1>3, <3>3, <3>4, <3>5
    <2> QED BY <2>1, <2>2
  <1>9. s # None => \A b, c \in s.boots : b.gen = c.gen => b = c BY DEF Gens, Reboots
  <1> QED BY <1>6, <1>7, <1>8, <1>9 DEF Gens

\* ... all of that, ...
LEMMA OrderedComes ==
  ASSUME NEW F \in Seq(Line), NEW C \in Seq(Order), NEW B \in Seq(Order), NEW g, NEW t, t # None => TabRight(t),
         NEW s, s # None => TabRight(s),
         Comes(C, B, g), NewOrders(B, g, t, s), s = t \/ Reboots(t, s), NEW p, NEW k, Ordered(F, C, t, p, k)
  PROVE  Ordered(F, B, s, p, k)
  <1>1. InOrder(F, B, s) /\ Gens(F, B, s) BY InOrderComes, GensCome DEF Ordered
  <1>2. Len(C) \in Nat OBVIOUS
  <1>3. \A y \in Prompts(B) : g[y] # 0 /\ g[y] \in Prompts(C) /\ Typed(B[y]) = Typed(C[g[y]]) BY <1>2, PromptsCome
  <1>4. OnePrompt(F, B, p)
    <2> SUFFICES ASSUME NEW y \in Prompts(B)
                 PROVE  /\ ~p.busy /\ \A x \in 1 .. Len(F) : ~Talks(F[x])
                        /\ \A z \in Prompts(B) : z = y
                        /\ \A i \in 1 .. Len(p.said) : p.said[i] # Typed(B[y])
      BY DEF OnePrompt
    <2>1. OnePrompt(F, C, p) BY DEF Ordered
    <2>2. g[y] \in Prompts(C) /\ Typed(B[y]) = Typed(C[g[y]]) BY <1>3
    <2>3. ASSUME NEW z \in Prompts(B) PROVE z = y
      <3>1. g[z] = g[y] /\ g[z] # 0 BY <1>3, <2>1 DEF OnePrompt
      <3>2. z \in 1 .. Len(B) /\ y \in 1 .. Len(B) BY DEF Prompts
      <3>3. g[y] \in 0 .. Len(C) BY <3>2 DEF Comes
      <3>4. ~(z < y) /\ ~(y < z) BY <3>1, <3>2, <3>3 DEF Comes
      <3> QED BY <3>2, <3>4
    <2> QED BY <2>1, <2>2, <2>3 DEF OnePrompt
  <1>5. Numbers(F, B, s, p, k)
    <2>1. Numbers(F, C, t, p, k) BY DEF Ordered
    <2>2. s # None => Older(s.shown, k) /\ Once(s.shown) BY <2>1 DEF Numbers, Reboots
    <2>3. ASSUME NEW y \in 1 .. Len(B), B[y].cmd = "prompt" PROVE B[y].for > k
      <3>1. y \in Prompts(B) BY <2>3 DEF Prompts
      <3>2. g[y] # 0 /\ g[y] \in 1 .. Len(C) /\ C[g[y]].cmd = "prompt" BY <1>3, <3>1 DEF Prompts
      <3>3. B[y].for = C[g[y]].for BY <3>2 DEF Comes
      <3> QED BY <2>1, <3>2, <3>3 DEF Numbers
    <2> QED BY <2>1, <2>2, <2>3 DEF Numbers
  <1> QED BY <1>1, <1>4, <1>5 DEF Ordered

\* ... and what prompts confirm.
LEMMA ConfirmsComes ==
  ASSUME NEW C, NEW B, NEW g, NEW t, NEW s, Comes(C, B, g), NewOrders(B, g, t, s), Len(C) \in Nat, KeepsPrompts(C, B, g),
         s = t \/ Reboots(t, s), NEW F, NEW p, Confirms(F, C, t, p)
  PROVE  Confirms(F, B, s, p)
  <1>1. s.optimistic = t.optimistic BY DEF Reboots
  <1>2. \A z \in Prompts(C) : \E y \in Prompts(B) : Typed(B[y]) = Typed(C[z]) BY PromptsCome
  <1> QED BY <1>1, <1>2 DEF Confirms

\* Commands that move so leave all straight, if no prompt is lost.
LEMMA StraightComes ==
  ASSUME NEW F \in Seq(Line), NEW C \in Seq(Order), NEW B \in Seq(Order), NEW g, NEW t, t # None => TabRight(t),
         Comes(C, B, g), NewOrders(B, g, t, t), KeepsPrompts(C, B, g), NEW p, NEW k,
         NEW linked, NEW linking, linking => linked \/ (t # None => ~Asking(t)),
         Straight(F, C, t, p, k, linked)
  PROVE  Straight(F, B, t, p, k, linking)
  <1>1. Ordered(F, B, t, p, k) BY OrderedComes DEF Straight
  <1>0. Len(C) \in Nat OBVIOUS
  <1>2. ASSUME t # None
        PROVE  Confirms(F, B, t, p) /\ StillTyped(B, t) /\ Shows(F, B, t, p) /\ (linking => WillShow(F, B, t, p))
    <2>1. Confirms(F, C, t, p) /\ StillTyped(C, t) /\ Shows(F, C, t, p) /\ (linked => WillShow(F, C, t, p)) BY <1>2 DEF Straight
    <2>2. Confirms(F, B, t, p) BY <1>0, <2>1, ConfirmsComes
    <2>3. StillTyped(B, t)
      <3> SUFFICES ASSUME NEW y \in Prompts(B), Typed(B[y]) \notin t.optimistic
                   PROVE  /\ t.booted
                          /\ Asking(t) => \A x \in 1 .. Len(B) : x < y /\ B[x].cmd = "messages" => B[x].for # t.gen
        BY DEF StillTyped
      <3>1. g[y] # 0 /\ g[y] \in Prompts(C) /\ Typed(B[y]) = Typed(C[g[y]]) BY <1>0, PromptsCome
      <3>2. t.booted /\ (Asking(t) => \A x \in 1 .. Len(C) : x < g[y] /\ C[x].cmd = "messages" => C[x].for # t.gen)
        BY <2>1, <3>1 DEF StillTyped
      <3>3. ASSUME Asking(t), NEW x \in 1 .. Len(B), x < y, B[x].cmd = "messages" PROVE B[x].for # t.gen
        <4>1. CASE g[x] = 0
          <5>1. t.gen < B[x].for BY <3>3, <4>1 DEF NewOrders
          <5>2. t.gen \in Nat BY <1>2 DEF TabRight, TabRec
          <5> QED BY <5>1, <5>2
        <4>2. CASE g[x] # 0
          <5>1. y \in 1 .. Len(B) BY DEF Prompts
          <5>2. g[x] < g[y] /\ B[x].cmd = C[g[x]].cmd /\ B[x].for = C[g[x]].for /\ g[x] \in 0 .. Len(C)
            BY <3>1, <3>3, <4>2, <5>1 DEF Comes
          <5>3. g[x] \in 1 .. Len(C) BY <1>0, <4>2, <5>2
          <5> QED BY <3>2, <3>3, <5>2, <5>3
        <4> QED BY <4>1, <4>2
      <3> QED BY <3>2, <3>3
    <2>4. Shows(F, B, t, p) BY <1>0, <2>1, InStepComes DEF Shows
    <2>5. linking => WillShow(F, B, t, p)
      <3>1. linked => WillShow(F, B, t, p) BY <1>0, <2>1, InStepComes DEF WillShow
      <3>2. ~Asking(t) => WillShow(F, B, t, p) BY DEF WillShow
      <3> QED BY <1>2, <3>1, <3>2
    <2> QED BY <2>2, <2>3, <2>4, <2>5
  <1> QED BY <1>1, <1>2 DEF Straight

\* So does a tab that bootstraps again, if what it shows was said or is typed, ...
LEMMA StraightReboots ==
  ASSUME NEW F \in Seq(Line), NEW C \in Seq(Order), NEW B \in Seq(Order), NEW g, NEW t, t # None => TabRight(t),
         NEW s, s # None => TabRight(s),
         Comes(C, B, g), NewOrders(B, g, t, s), KeepsPrompts(C, B, g), Reboots(t, s), NEW p, NEW k, NEW linking,
         Ordered(F, C, t, p, k), Confirms(F, C, t, p),
         \A y \in Prompts(C) : t.booted \/ Typed(C[y]) \in t.optimistic,
         t.booted => \A x, y \in 1 .. Len(B) : g[x] = 0 /\ B[y].cmd = "prompt" => y < x
  PROVE  Straight(F, B, s, p, k, linking)
  <1>0. Len(C) \in Nat OBVIOUS
  <1>1. Ordered(F, B, s, p, k) BY OrderedComes
  <1>2. Confirms(F, B, s, p) BY <1>0, ConfirmsComes
  <1>3. s.booted = t.booted /\ s.optimistic = t.optimistic /\ Asking(s) /\ t # None /\ s # None /\ t.gen < s.gen BY DEF Reboots
  <1>4. t.gen \in Nat /\ s.gen \in Nat BY <1>3 DEF TabRight, TabRec
  <1>5. StillTyped(B, s)
    <2> SUFFICES ASSUME NEW y \in Prompts(B), Typed(B[y]) \notin s.optimistic
                 PROVE  /\ s.booted
                        /\ \A x \in 1 .. Len(B) : x < y /\ B[x].cmd = "messages" => B[x].for # s.gen
      BY DEF StillTyped
    <2>1. g[y] # 0 /\ g[y] \in Prompts(C) /\ Typed(B[y]) = Typed(C[g[y]]) BY <1>0, PromptsCome
    <2>2. t.booted BY <1>3, <2>1
    <2>3. y \in 1 .. Len(B) /\ B[y].cmd = "prompt" BY DEF Prompts
    <2>4. ASSUME NEW x \in 1 .. Len(B), x < y, B[x].cmd = "messages" PROVE B[x].for # s.gen
      <3>1. g[x] # 0 BY <2>2, <2>3, <2>4
      <3>2. B[x].cmd = C[g[x]].cmd /\ B[x].for = C[g[x]].for /\ g[x] \in 0 .. Len(C) BY <3>1 DEF Comes
      <3>3. g[x] \in 1 .. Len(C) BY <1>0, <3>1, <3>2
      <3>4. B[x].for <= t.gen BY <2>4, <3>2, <3>3 DEF Ordered, Gens
      <3>5. B[x] \in Order OBVIOUS
      <3>6. B[x].for \in Nat BY <2>4, <3>5, OrderIs
      <3> QED BY <1>3, <1>4, <3>4, <3>6
    <2> QED BY <1>3, <2>2, <2>4
  <1>6. Shows(F, B, s, p) BY <1>3 DEF Shows
  <1>7. WillShow(F, B, s, p)
    <2> SUFFICES ASSUME NEW x \in 1 .. Len(F), Snapshot(F[x]), F[x].to.for = s.gen PROVE FALSE BY DEF WillShow
    <2>1. F[x].to.for <= t.gen BY DEF Ordered, Gens
    <2> QED BY <1>3, <1>4, <2>1
  <1> QED BY <1>1, <1>2, <1>5, <1>6, <1>7 DEF Straight

--------------------------------------------------------------------------
(* What pi says and answers                                                *)

\* A sequence with one more at its end, ...
LEMMA Longer ==
  ASSUME NEW T, NEW F \in Seq(T), NEW l \in T, NEW G, G = Append(F, l)
  PROVE  /\ G \in Seq(T) /\ Len(F) \in Nat /\ Len(G) = Len(F) + 1 /\ G[Len(F) + 1] = l
         /\ Len(F) + 1 \in 1 .. Len(G)
         /\ \A x \in 1 .. Len(F) : x \in 1 .. Len(G) /\ G[x] = F[x]
         /\ \A x \in 1 .. Len(G) : x \in 1 .. Len(F) \/ x = Len(F) + 1
  OBVIOUS

\* ... and one without its first.
LEMMA Shorter ==
  ASSUME NEW T, NEW C \in Seq(T), C # <<>>, NEW B, B = Tail(C)
  PROVE  B \in Seq(T) /\ Len(C) \in Nat /\ Len(C) >= 1 /\ Len(B) = Len(C) - 1 /\ \A y \in 1 .. Len(B) : B[y] = C[y + 1] /\ y + 1 \in 1 .. Len(C)
  OBVIOUS

\* A command that is read is no prompt, or is one.
LEMMA TailComes ==
  ASSUME NEW C \in Seq(Order), C # <<>>, NEW B, B = Tail(C)
  PROVE  \E g : /\ Comes(C, B, g) /\ \A t, s : NewOrders(B, g, t, s)
                /\ C[1].cmd # "prompt" => KeepsPrompts(C, B, g)
  <1> DEFINE g == [y \in 1 .. Len(B) |-> y + 1]
  <1>1. Len(C) \in Nat /\ Len(C) >= 1 /\ Len(B) = Len(C) - 1 /\ \A y \in 1 .. Len(B) : B[y] = C[y + 1] /\ y + 1 \in 1 .. Len(C) BY Shorter
  <1>2. \A y \in 1 .. Len(B) : g[y] = y + 1 /\ y \in Int /\ y + 1 # 0 BY <1>1
  <1>3. g \in [1 .. Len(B) -> 0 .. Len(C)] BY <1>1
  <1> HIDE DEF g
  <1>4. Comes(C, B, g) BY <1>1, <1>2, <1>3 DEF Comes
  <1>5. \A t, s : NewOrders(B, g, t, s) BY <1>2 DEF NewOrders
  <1>6. ASSUME C[1].cmd # "prompt" PROVE KeepsPrompts(C, B, g)
    <2> SUFFICES ASSUME NEW z \in Prompts(C) PROVE \E y \in 1 .. Len(B) : g[y] = z BY DEF KeepsPrompts
    <2>1. z \in 1 .. Len(C) /\ z # 1 BY <1>6 DEF Prompts
    <2>2. z - 1 \in 1 .. Len(B) BY <1>1, <2>1
    <2>3. g[z - 1] = z BY <1>2, <2>1, <2>2
    <2> QED BY <2>2, <2>3
  <1> QED BY <1>4, <1>5, <1>6

\* A pi that rests ended its turn.
LEMMA Rested == ASSUME NEW p, PiRight(p) PROVE ~p.busy => p.turn = "none" /\ End(p) = Len(p.said)
  BY DEF PiRight, End

LEMMA EndIs == ASSUME NEW p, PiRight(p) PROVE p.said \in Seq(Msg) /\ Len(p.said) \in Nat /\ End(p) \in Nat /\ End(p) <= Len(p.said)
  <1>1. p.said \in Seq(Msg) BY DEF PiRight, PiRec
  <1>2. Len(p.said) \in Nat BY <1>1
  <1>3. p.turn = "tooled" => Len(p.said) >= 2 BY DEF PiRight
  <1> QED BY <1>1, <1>2, <1>3 DEF End

\* Once pi is at work no prompt is on its way, ...
LEMMA BusyMeans == ASSUME NEW F, NEW C, NEW t, NEW p, NEW k, Ordered(F, C, t, p, k), p.busy PROVE Prompts(C) = {}
  BY DEF Ordered, OnePrompt

\* ... and what it goes on to say keeps what was told so far.
LEMMA TellsOn ==
  ASSUME NEW l, NEW a \in Seq(Msg), NEW b \in Seq(Msg), Leads(a, b), Tells(l, a), Len(l.results) \in Nat
  PROVE  Tells(l, b)
  <1>1. Len(a) \in Nat /\ Len(b) \in Nat /\ Len(a) <= Len(b) BY DEF Leads
  <1>2. l.m.n \in 1 .. Len(a) /\ a[l.m.n] = l.m /\ Ends(l) <= Len(a) BY DEF Tells
  <1>3. Ends(l) = l.m.n + Len(l.results) BY DEF Ends
  <1>4. l.m.n \in 1 .. Len(b) /\ b[l.m.n] = l.m /\ Ends(l) <= Len(b) BY <1>1, <1>2, <1>3 DEF Leads
  <1>5. ASSUME NEW i \in 1 .. Len(l.results) PROVE l.results[i] = b[l.m.n + i]
    <2>1. l.m.n + i \in 1 .. Len(a) BY <1>1, <1>2, <1>3
    <2> QED BY <2>1 DEF Tells, Leads
  <1> QED BY <1>4, <1>5 DEF Tells

\* What a tab shows stays in step with what is said, if what was on its way still is, and what
\* is said since is.
LEMMA InStepOn ==
  ASSUME NEW F \in Seq(Line), NEW G, NEW C, NEW p, NEW q, Len(p.said) \in Nat, Len(q.said) \in Nat,
         Leads(p.said, q.said), Prompts(C) = {} \/ q.said = p.said,
         \A n \in Nat, z \in 0 .. Len(F) : n <= Len(p.said) /\ Cover(n, z, F, p) => Cover(n, z, G, q),
         NEW X \in Seq(Msg), NEW z \in 0 .. Len(F), InStep(X, z, F, C, p)
  PROVE  InStep(X, z, G, C, q)
  <1>1. CASE Prompts(C) # {} BY <1>1 DEF InStep
  <1>2. CASE Prompts(C) = {}
    <2>1. Leads(X, p.said) /\ Cover(Len(X), z, F, p) BY <1>2 DEF InStep
    <2>2. Len(X) \in Nat OBVIOUS
    <2>3. Len(X) <= Len(p.said) BY <2>1 DEF Leads
    <2>4. Leads(X, q.said)
      <3>1. \A i \in 1 .. Len(X) : i \in 1 .. Len(p.said) BY <2>2, <2>3
      <3> QED BY <2>1, <2>2, <2>3, <3>1 DEF Leads
    <2>5. Cover(Len(X), z, G, q) BY <2>1, <2>2, <2>3
    <2> QED BY <1>2, <2>4, <2>5 DEF InStep
  <1> QED BY <1>1, <1>2

\* More that is said: what is in step with it stays so when the lines that tell it come.
LEMMA ShowsOn ==
  ASSUME NEW F \in Seq(Line), NEW G, NEW C, NEW p, NEW q, Len(p.said) \in Nat, Len(q.said) \in Nat,
         Leads(p.said, q.said), Prompts(C) = {} \/ q.said = p.said,
         \A n \in Nat, z \in 0 .. Len(F) : n <= Len(p.said) /\ Cover(n, z, F, p) => Cover(n, z, G, q),
         Renewed(F) => Renewed(G), NEW t, TabRight(t)
  PROVE  /\ Confirms(F, C, t, p) => Confirms(G, C, t, q)
         /\ Shows(F, C, t, p) => Shows(G, C, t, q)
         /\ (\A x \in 1 .. Len(G) : Snapshot(G[x]) => x \in 1 .. Len(F) /\ G[x] = F[x]) /\ WillShow(F, C, t, p) => WillShow(G, C, t, q)
  <1>0. Len(F) \in Nat OBVIOUS
  <1>1. \A X \in Seq(Msg), z \in 0 .. Len(F) : InStep(X, z, F, C, p) => InStep(X, z, G, C, q) BY InStepOn
  <1>2. ASSUME Confirms(F, C, t, p) PROVE Confirms(G, C, t, q)
    <2>1. \A i \in 1 .. Len(p.said) : i \in 1 .. Len(q.said) /\ p.said[i] = q.said[i] BY DEF Leads
    <2>2. \A u : (\E i \in 1 .. Len(p.said) : p.said[i] = u) => \E i \in 1 .. Len(q.said) : q.said[i] = u BY <2>1
    <2> QED BY <1>2, <2>2 DEF Confirms
  <1>3. ASSUME Shows(F, C, t, p) PROVE Shows(G, C, t, q)
    <2>1. t.shown \in Seq(Msg) BY DEF TabRight, TabRec
    <2>2. 0 \in 0 .. Len(F) BY <1>0
    <2> QED BY <1>1, <1>3, <2>1, <2>2 DEF Shows
  <1>4. ASSUME \A x \in 1 .. Len(G) : Snapshot(G[x]) => x \in 1 .. Len(F) /\ G[x] = F[x], WillShow(F, C, t, p)
        PROVE  WillShow(G, C, t, q)
    <2> SUFFICES ASSUME Asking(t), ~Renewed(G), NEW x \in 1 .. Len(G), Snapshot(G[x]), G[x].to.for = t.gen
                 PROVE  \E X \in Seq(Msg) : IsBase(X, G[x].data, t.optimistic) /\ InStep(X, x, G, C, q)
      BY DEF WillShow
    <2>1. x \in 1 .. Len(F) /\ G[x] = F[x] BY <1>4
    <2>2. PICK X \in Seq(Msg) : IsBase(X, F[x].data, t.optimistic) /\ InStep(X, x, F, C, p) BY <1>4, <2>1 DEF WillShow
    <2>3. x \in 0 .. Len(F) BY <1>0, <2>1
    <2> QED BY <1>1, <2>1, <2>2, <2>3
  <1> QED BY <1>2, <1>3, <1>4

\* A line that tells what was said since goes behind the others.
LEMMA CoverTold ==
  ASSUME NEW F \in Seq(Line), NEW l \in Line, NEW G, G = Append(F, l), NEW p, PiRight(p), NEW q, PiRight(q),
         Talks(l), Begins(l) = End(p), Ends(l) = End(q), End(p) <= End(q),
         NEW n \in Nat, NEW z \in 0 .. Len(F), Cover(n, z, F, p)
  PROVE  Cover(n, z, G, q)
  <1>1. Len(F) \in Nat /\ Len(G) = Len(F) + 1 /\ G[Len(F) + 1] = l /\ Len(F) + 1 \in 1 .. Len(G)
        /\ (\A x \in 1 .. Len(F) : x \in 1 .. Len(G) /\ G[x] = F[x]) /\ \A x \in 1 .. Len(G) : x \in 1 .. Len(F) \/ x = Len(F) + 1
    BY Longer
  <1>2. End(p) \in Nat /\ End(q) \in Nat BY EndIs
  <1>3. n <= End(p) /\ n <= End(q) BY <1>2 DEF Cover
  <1>4. \A y \in 1 .. Len(G) : z < y /\ Talks(G[y]) => n <= Begins(G[y]) BY <1>1, <1>3 DEF Cover
  <1>5. ASSUME NEW j \in n + 1 .. End(q)
        PROVE  \E x \in 1 .. Len(G) : z < x /\ Talks(G[x]) /\ Begins(G[x]) < j /\ j <= Ends(G[x])
    <2>1. CASE j <= End(p)
      <3>1. j \in n + 1 .. End(p) BY <1>2, <2>1
      <3>2. PICK x \in 1 .. Len(F) : z < x /\ Talks(F[x]) /\ Begins(F[x]) < j /\ j <= Ends(F[x]) BY <3>1 DEF Cover
      <3> QED BY <1>1, <3>2
    <2>2. CASE ~(j <= End(p))
      <3>1. z < Len(F) + 1 /\ End(p) < j /\ j <= End(q) BY <1>1, <1>2, <2>2
      <3> QED BY <1>1, <3>1
    <2> QED BY <2>1, <2>2
  <1> QED BY <1>3, <1>4, <1>5 DEF Cover

\* One that does not tell anything may, too.
LEMMA CoverBehind ==
  ASSUME NEW F \in Seq(Line), NEW l \in Line, NEW G, G = Append(F, l), NEW p, ~Talks(l),
         NEW n, NEW z \in 0 .. Len(F), Cover(n, z, F, p)
  PROVE  Cover(n, z, G, p)
  <1>1. Len(F) \in Nat /\ Len(G) = Len(F) + 1 /\ G[Len(F) + 1] = l /\ Len(F) + 1 \in 1 .. Len(G)
        /\ (\A x \in 1 .. Len(F) : x \in 1 .. Len(G) /\ G[x] = F[x]) /\ \A x \in 1 .. Len(G) : x \in 1 .. Len(F) \/ x = Len(F) + 1
    BY Longer
  <1>2. \A y \in 1 .. Len(G) : z < y /\ Talks(G[y]) => n <= Begins(G[y]) BY <1>1 DEF Cover
  <1>3. \A j \in n + 1 .. End(p) : \E x \in 1 .. Len(G) : z < x /\ Talks(G[x]) /\ Begins(G[x]) < j /\ j <= Ends(G[x])
    BY <1>1 DEF Cover
  <1> QED BY <1>2, <1>3 DEF Cover

\* Pi at work says more, and the line that tells it goes behind the others.
LEMMA StraightSays ==
  ASSUME NEW F \in Seq(Line), NEW l \in Line, NEW G, G = Append(F, l), NEW C \in Seq(Order), NEW t, t # None => TabRight(t),
         NEW p, PiRight(p), NEW q, PiRight(q), NEW k, NEW linked, Straight(F, C, t, p, k, linked),
         p.busy, SaidRight(q), Older(q.said, k), Leads(p.said, q.said),
         Talks(l), ByPi(l), Tells(l, q.said), Begins(l) = End(p), Ends(l) = End(q), End(p) <= End(q)
  PROVE  Straight(G, C, t, q, k, linked)
  <1>1. G \in Seq(Line) /\ Len(F) \in Nat /\ Len(G) = Len(F) + 1 /\ G[Len(F) + 1] = l /\ Len(F) + 1 \in 1 .. Len(G)
        /\ (\A x \in 1 .. Len(F) : x \in 1 .. Len(G) /\ G[x] = F[x]) /\ \A x \in 1 .. Len(G) : x \in 1 .. Len(F) \/ x = Len(F) + 1
    BY Longer
  <1>2. l.line # "answer" BY DEF Talks
  <1>3. Ordered(F, C, t, p, k) /\ Prompts(C) = {} BY BusyMeans DEF Straight
  <1>4. \A x \in 1 .. Len(G) : G[x].line = "answer" => x \in 1 .. Len(F) /\ G[x] = F[x] BY <1>1, <1>2
  <1>5. InOrder(G, C, t)
    <2>1. InOrder(F, C, t) BY <1>3 DEF Ordered
    <2> QED BY <1>4, <2>1 DEF InOrder, Snapshot, StateOf
  <1>6. Gens(G, C, t)
    <2>1. Gens(F, C, t) BY <1>3 DEF Ordered
    <2> QED BY <1>4, <2>1 DEF Gens, Snapshot, StateOf, Renews
  <1>7. Numbers(G, C, t, q, k)
    <2>1. Numbers(F, C, t, p, k) BY <1>3 DEF Ordered
    <2>2. \A x \in 1 .. Len(G) : Talks(G[x]) => ByPi(G[x]) BY <1>1, <2>1 DEF Numbers
    <2>3. \A x \in 1 .. Len(G) : Snapshot(G[x]) => x \in 1 .. Len(F) /\ G[x] = F[x] BY <1>4 DEF Snapshot
    <2>4. \A x \in 1 .. Len(G) : Snapshot(G[x]) => Older(G[x].data, k) /\ Once(G[x].data) BY <2>1, <2>3 DEF Numbers
    <2> QED BY <2>1, <2>2, <2>4 DEF Numbers
  <1>8. OnePrompt(G, C, q) BY <1>3 DEF OnePrompt
  <1>9. \A x \in 1 .. Len(F) : Fresh(x, G) => Fresh(x, F) BY <1>1 DEF Fresh
  <1>10. p.said \in Seq(Msg) /\ q.said \in Seq(Msg) /\ Len(p.said) \in Nat /\ Len(q.said) \in Nat /\ End(p) \in Nat /\ End(q) \in Nat BY EndIs
  <1>11. TalkTells(G, q)
    <2>1. TalkTells(F, p) BY <1>3 DEF Ordered
    <2>2. ASSUME NEW x \in 1 .. Len(F), Talks(F[x]), Fresh(x, G)
          PROVE  Tells(F[x], q.said) /\ Ends(F[x]) <= End(p) /\ Ends(F[x]) <= End(q)
      <3>1. Tells(F[x], p.said) /\ Ends(F[x]) <= End(p) BY <1>9, <2>1, <2>2 DEF TalkTells
      <3>2. F[x] \in Line OBVIOUS
      <3>3. F[x].results \in Seq(Msg) BY <2>2, <3>2, LineIs DEF Talks
      <3>4. Len(F[x].results) \in Nat BY <3>3
      <3>5. Ends(F[x]) \in Int
        <4>1. F[x].m.n \in 1 .. Len(p.said) BY <3>1 DEF Tells
        <4> QED BY <3>4, <4>1 DEF Ends
      <3> QED BY <1>10, <3>1, <3>4, <3>5, TellsOn
    <2>3. \A x \in 1 .. Len(G) : Talks(G[x]) /\ Fresh(x, G) => Tells(G[x], q.said) /\ Ends(G[x]) <= End(q)
      <3>1. Ends(l) <= End(q) BY <1>10
      <3> QED BY <1>1, <2>2, <3>1
    <2>4. ASSUME NEW x \in 1 .. Len(G), NEW y \in 1 .. Len(G), x < y, Talks(G[x]), Talks(G[y]), Fresh(x, G)
          PROVE  Ends(G[x]) <= Begins(G[y])
      <3>1. x \in 1 .. Len(F) /\ G[x] = F[x] BY <1>1, <2>4
      <3>2. CASE y \in 1 .. Len(F)
        <4>1. G[y] = F[y] BY <1>1, <3>2
        <4> QED BY <1>9, <2>1, <2>4, <3>1, <3>2, <4>1 DEF TalkTells
      <3>3. CASE y = Len(F) + 1 BY <1>1, <2>2, <2>4, <3>1, <3>3
      <3> QED BY <1>1, <3>2, <3>3
    <2> QED BY <2>3, <2>4 DEF TalkTells
  <1>12. Ordered(G, C, t, q, k) BY <1>5, <1>6, <1>7, <1>8, <1>11 DEF Ordered
  <1>13. ASSUME t # None
         PROVE  Confirms(G, C, t, q) /\ StillTyped(C, t) /\ Shows(G, C, t, q) /\ (linked => WillShow(G, C, t, q))
    <2>1. Confirms(F, C, t, p) /\ StillTyped(C, t) /\ Shows(F, C, t, p) /\ (linked => WillShow(F, C, t, p)) BY <1>13 DEF Straight
    <2>2. TabRight(t) BY <1>13
    <2>3. Renewed(F) => Renewed(G) BY <1>1 DEF Renewed
    <2>4. \A n \in Nat, z \in 0 .. Len(F) : n <= Len(p.said) /\ Cover(n, z, F, p) => Cover(n, z, G, q) BY CoverTold
    <2>5. \A x \in 1 .. Len(G) : Snapshot(G[x]) => x \in 1 .. Len(F) /\ G[x] = F[x] BY <1>4 DEF Snapshot
    <2>6. /\ Confirms(F, C, t, p) => Confirms(G, C, t, q)
          /\ Shows(F, C, t, p) => Shows(G, C, t, q)
          /\ WillShow(F, C, t, p) => WillShow(G, C, t, q)
      BY <1>3, <1>10, <2>2, <2>3, <2>4, <2>5, ShowsOn
    <2> QED BY <2>1, <2>6
  <1> QED BY <1>12, <1>13 DEF Straight

\* Pi uses a tool, or its turn or process changes: nothing is told, and no more is to be told.
LEMMA StraightTurns ==
  ASSUME NEW F \in Seq(Line), NEW C \in Seq(Order), NEW t, t # None => TabRight(t),
         NEW p, PiRight(p), NEW q, PiRight(q), NEW k, NEW linked, Straight(F, C, t, p, k, linked),
         p.busy \/ (~q.busy /\ q.said = p.said), SaidRight(q), Older(q.said, k), Leads(p.said, q.said), End(q) = End(p)
  PROVE  Straight(F, C, t, q, k, linked)
  <1>1. Ordered(F, C, t, p, k) /\ (p.busy => Prompts(C) = {}) BY BusyMeans DEF Straight
  <1>2. OnePrompt(F, C, q) BY <1>1 DEF OnePrompt, Ordered
  <1>3. Numbers(F, C, t, q, k)
    <2>1. Numbers(F, C, t, p, k) BY <1>1 DEF Ordered
    <2> QED BY <2>1 DEF Numbers
  <1>4. p.said \in Seq(Msg) /\ q.said \in Seq(Msg) /\ Len(p.said) \in Nat /\ Len(q.said) \in Nat BY EndIs
  <1>5. TalkTells(F, q)
    <2>1. TalkTells(F, p) BY <1>1 DEF Ordered
    <2>2. ASSUME NEW x \in 1 .. Len(F), Talks(F[x]), Fresh(x, F) PROVE Tells(F[x], q.said) /\ Ends(F[x]) <= End(q)
      <3>1. Tells(F[x], p.said) /\ Ends(F[x]) <= End(p) BY <2>1, <2>2 DEF TalkTells
      <3>2. F[x] \in Line OBVIOUS
      <3>3. F[x].results \in Seq(Msg) BY <2>2, <3>2, LineIs DEF Talks
      <3> QED BY <1>4, <3>1, <3>3, TellsOn
    <2> QED BY <2>1, <2>2 DEF TalkTells
  <1>6. Ordered(F, C, t, q, k) BY <1>1, <1>2, <1>3, <1>5 DEF Ordered
  <1>7. ASSUME t # None
        PROVE  Confirms(F, C, t, q) /\ StillTyped(C, t) /\ Shows(F, C, t, q) /\ (linked => WillShow(F, C, t, q))
    <2>1. Confirms(F, C, t, p) /\ StillTyped(C, t) /\ Shows(F, C, t, p) /\ (linked => WillShow(F, C, t, p)) BY <1>7 DEF Straight
    <2>2. TabRight(t) BY <1>7
    <2>4. \A n \in Nat, z \in 0 .. Len(F) : n <= Len(p.said) /\ Cover(n, z, F, p) => Cover(n, z, F, q) BY DEF Cover
    <2>6. /\ Confirms(F, C, t, p) => Confirms(F, C, t, q)
          /\ Shows(F, C, t, p) => Shows(F, C, t, q)
          /\ WillShow(F, C, t, p) => WillShow(F, C, t, q)
      BY <1>1, <1>4, <2>2, <2>4, ShowsOn
    <2> QED BY <2>1, <2>6
  <1> QED BY <1>6, <1>7 DEF Straight

\* The answers of the bootstrap whose command is next go behind the others.
LEMMA InOrderAnswers ==
  ASSUME NEW F \in Seq(Line), NEW l \in Line, NEW G, G = Append(F, l), NEW C \in Seq(Order), C # <<>>, NEW t,
         l.line = "answer", l.to.cmd \in {"state", "messages"}, C[1].cmd = l.to.cmd, C[1].for = l.to.for,
         InOrder(F, C, t), Gens(F, C, t)
  PROVE  InOrder(G, C, t) /\ Gens(G, C, t)
  <1>1. Len(F) \in Nat /\ Len(G) = Len(F) + 1 /\ G[Len(F) + 1] = l /\ Len(F) + 1 \in 1 .. Len(G)
        /\ (\A x \in 1 .. Len(F) : x \in 1 .. Len(G) /\ G[x] = F[x]) /\ \A x \in 1 .. Len(G) : x \in 1 .. Len(F) \/ x = Len(F) + 1
    BY Longer
  <1>2. 1 \in 1 .. Len(C) /\ \A y \in 1 .. Len(C) : ~(y < 1) OBVIOUS
  <1>3. /\ \A x, y \in 1 .. Len(F) : Snapshot(F[x]) /\ StateOf(F[y]) /\ F[x].to.for = F[y].to.for => y < x
        /\ \A x \in 1 .. Len(F), y \in 1 .. Len(C) : Snapshot(F[x]) /\ C[y].cmd = "state" => F[x].to.for # C[y].for
        /\ \A x, y \in 1 .. Len(C) : C[x].cmd = "messages" /\ C[y].cmd = "state" /\ C[x].for = C[y].for => y < x
    BY DEF InOrder
  <1>4. StateOf(l) => C[1].cmd = "state" BY DEF StateOf
  <1>5. Snapshot(l) => C[1].cmd = "messages" BY DEF Snapshot
  <1>6. ASSUME NEW x \in 1 .. Len(G), NEW y \in 1 .. Len(G), Snapshot(G[x]), StateOf(G[y]), G[x].to.for = G[y].to.for
        PROVE  y < x
    <2>1. CASE x \in 1 .. Len(F)
      <3>1. y \in 1 .. Len(F)
        <4>1. CASE y = Len(F) + 1
          <5>1. StateOf(l) /\ Snapshot(F[x]) /\ F[x].to.for = l.to.for BY <1>1, <1>6, <2>1, <4>1
          <5> QED BY <1>2, <1>3, <1>4, <2>1, <5>1
        <4> QED BY <1>1, <4>1
      <3> QED BY <1>1, <1>3, <1>6, <2>1, <3>1
    <2>2. CASE x = Len(F) + 1
      <3>1. y # x BY <1>6 DEF Snapshot, StateOf
      <3> QED BY <1>1, <2>2, <3>1
    <2> QED BY <1>1, <2>1, <2>2
  <1>7. ASSUME NEW x \in 1 .. Len(G), NEW y \in 1 .. Len(C), Snapshot(G[x]), C[y].cmd = "state" PROVE G[x].to.for # C[y].for
    <2>1. CASE x \in 1 .. Len(F) BY <1>1, <1>3, <1>7, <2>1
    <2>2. CASE x = Len(F) + 1
      <3>1. Snapshot(l) /\ G[x] = l BY <1>1, <1>7, <2>2
      <3>2. C[1].cmd = "messages" BY <1>5, <3>1
      <3> QED BY <1>2, <1>3, <1>7, <3>1, <3>2
    <2> QED BY <1>1, <2>1, <2>2
  <1>8. ASSUME t # None, NEW b \in t.boots, b.messages # None
        PROVE  /\ \A x \in 1 .. Len(G) : StateOf(G[x]) => G[x].to.for # b.gen
               /\ \A y \in 1 .. Len(C) : C[y].cmd = "state" => C[y].for # b.gen
    <2>1. /\ \A x \in 1 .. Len(F) : StateOf(F[x]) => F[x].to.for # b.gen
          /\ \A y \in 1 .. Len(C) : C[y].cmd = "state" => C[y].for # b.gen
      BY <1>8 DEF InOrder
    <2>2. StateOf(l) => l.to.for # b.gen BY <1>2, <1>4, <2>1
    <2> QED BY <1>1, <2>1, <2>2
  <1>9. InOrder(G, C, t) BY <1>3, <1>6, <1>7, <1>8 DEF InOrder
  <1>10. t # None /\ l.to.for <= t.gen BY <1>2 DEF Gens
  <1>11. ~Renews(l) BY DEF Renews
  <1>12. \A x \in 1 .. Len(G) : Snapshot(G[x]) \/ StateOf(G[x]) => t # None /\ G[x].to.for <= t.gen BY <1>1, <1>10 DEF Gens
  <1>13. \A x \in 1 .. Len(G) : Renews(G[x]) => t # None /\ t.booted BY <1>1, <1>11 DEF Gens
  <1>14. Gens(G, C, t) BY <1>12, <1>13 DEF Gens
  <1> QED BY <1>9, <1>14

\* Lines that tell nothing, or tell that the session is new, disturb no order of the others.
LEMMA TalkBehind ==
  ASSUME NEW F \in Seq(Line), NEW l \in Line, NEW G, G = Append(F, l), NEW p, ~Talks(l)
  PROVE  /\ TalkTells(F, p) => TalkTells(G, p)
         /\ \A C : OnePrompt(F, C, p) => OnePrompt(G, C, p)
         /\ Renews(l) => \A q : TalkTells(G, q)
  <1>1. Len(F) \in Nat /\ Len(G) = Len(F) + 1 /\ G[Len(F) + 1] = l /\ Len(F) + 1 \in 1 .. Len(G)
        /\ (\A x \in 1 .. Len(F) : x \in 1 .. Len(G) /\ G[x] = F[x]) /\ \A x \in 1 .. Len(G) : x \in 1 .. Len(F) \/ x = Len(F) + 1
    BY Longer
  <1>2. \A x \in 1 .. Len(G) : Talks(G[x]) => x \in 1 .. Len(F) /\ G[x] = F[x] BY <1>1
  <1>3. \A x \in 1 .. Len(F) : Fresh(x, G) => Fresh(x, F) BY <1>1 DEF Fresh
  <1>4. ASSUME TalkTells(F, p) PROVE TalkTells(G, p)
    <2>1. /\ \A x \in 1 .. Len(F) : Talks(F[x]) /\ Fresh(x, F) => Tells(F[x], p.said) /\ Ends(F[x]) <= End(p)
          /\ \A x, y \in 1 .. Len(F) : x < y /\ Talks(F[x]) /\ Talks(F[y]) /\ Fresh(x, F) => Ends(F[x]) <= Begins(F[y])
      BY <1>4 DEF TalkTells
    <2>2. \A x \in 1 .. Len(G) : Talks(G[x]) /\ Fresh(x, G) => Tells(G[x], p.said) /\ Ends(G[x]) <= End(p) BY <1>2, <1>3, <2>1
    <2>3. \A x, y \in 1 .. Len(G) : x < y /\ Talks(G[x]) /\ Talks(G[y]) /\ Fresh(x, G) => Ends(G[x]) <= Begins(G[y])
      BY <1>2, <1>3, <2>1
    <2> QED BY <2>2, <2>3 DEF TalkTells
  <1>5. ASSUME NEW C, OnePrompt(F, C, p) PROVE OnePrompt(G, C, p) BY <1>2, <1>5 DEF OnePrompt
  <1>6. ASSUME Renews(l), NEW q PROVE TalkTells(G, q)
    <2>1. ASSUME NEW x \in 1 .. Len(F) PROVE ~Fresh(x, G)
      <3>1. x < Len(F) + 1 BY <1>1
      <3> QED BY <1>1, <1>6, <3>1 DEF Fresh
    <2>2. \A x \in 1 .. Len(G) : Talks(G[x]) => ~Fresh(x, G) BY <1>2, <2>1
    <2> QED BY <2>2 DEF TalkTells
  <1> QED BY <1>4, <1>5, <1>6

\* A command of a bootstrap is answered.
LEMMA StraightAnswers ==
  ASSUME NEW F \in Seq(Line), NEW l \in Line, NEW G, G = Append(F, l), NEW C \in Seq(Order), C # <<>>, NEW t, t # None => TabRight(t),
         NEW p, PiRight(p), NEW k, NEW linked, Straight(F, C, t, p, k, linked),
         l.line = "answer", l.to.cmd \in {"state", "messages"}, C[1].cmd = l.to.cmd, C[1].for = l.to.for,
         l.to.cmd = "messages" => l.data = p.said /\ p.turn # "tooled"
  PROVE  Straight(G, C, t, p, k, linked)
  <1>1. Len(F) \in Nat /\ Len(G) = Len(F) + 1 /\ G[Len(F) + 1] = l /\ Len(F) + 1 \in 1 .. Len(G)
        /\ (\A x \in 1 .. Len(F) : x \in 1 .. Len(G) /\ G[x] = F[x]) /\ \A x \in 1 .. Len(G) : x \in 1 .. Len(F) \/ x = Len(F) + 1
    BY Longer
  <1>2. ~Talks(l) /\ ~Renews(l) BY DEF Talks, Renews
  <1>3. Ordered(F, C, t, p, k) BY DEF Straight
  <1>4. InOrder(G, C, t) /\ Gens(G, C, t) BY <1>3, InOrderAnswers DEF Ordered
  <1>5. OnePrompt(G, C, p) /\ TalkTells(G, p) BY <1>2, <1>3, TalkBehind DEF Ordered
  <1>6. Numbers(G, C, t, p, k)
    <2>1. Numbers(F, C, t, p, k) BY <1>3 DEF Ordered
    <2>2. \A x \in 1 .. Len(G) : Talks(G[x]) => ByPi(G[x]) BY <1>1, <1>2, <2>1 DEF Numbers
    <2>3. Snapshot(l) => Older(l.data, k) /\ Once(l.data) BY <1>3, <2>1 DEF Snapshot, Ordered, SaidRight, Numbers
    <2>4. \A x \in 1 .. Len(G) : Snapshot(G[x]) => Older(G[x].data, k) /\ Once(G[x].data) BY <1>1, <2>1, <2>3 DEF Numbers
    <2> QED BY <2>1, <2>2, <2>4 DEF Numbers
  <1>7. Ordered(G, C, t, p, k) BY <1>3, <1>4, <1>5, <1>6 DEF Ordered
  <1>8. p.said \in Seq(Msg) /\ Len(p.said) \in Nat BY EndIs
  <1>9. ASSUME t # None
        PROVE  Confirms(G, C, t, p) /\ StillTyped(C, t) /\ Shows(G, C, t, p) /\ (linked => WillShow(G, C, t, p))
    <2>1. Confirms(F, C, t, p) /\ StillTyped(C, t) /\ Shows(F, C, t, p) /\ (linked => WillShow(F, C, t, p)) BY <1>9 DEF Straight
    <2>2. TabRight(t) BY <1>9
    <2>3. (Renewed(F) => Renewed(G)) /\ (Renewed(G) => Renewed(F)) BY <1>1, <1>2 DEF Renewed
    <2>4. \A n \in Nat, z \in 0 .. Len(F) : n <= Len(p.said) /\ Cover(n, z, F, p) => Cover(n, z, G, p) BY <1>2, CoverBehind
    <2>5. Leads(p.said, p.said) BY <1>8 DEF Leads
    <2>6. Confirms(G, C, t, p) /\ Shows(G, C, t, p) BY <1>8, <2>1, <2>2, <2>3, <2>4, <2>5, ShowsOn
    <2>7. ASSUME linked, Asking(t), ~Renewed(G), NEW x \in 1 .. Len(G), Snapshot(G[x]), G[x].to.for = t.gen
          PROVE  \E X \in Seq(Msg) : IsBase(X, G[x].data, t.optimistic) /\ InStep(X, x, G, C, p)
      <3>1. CASE x \in 1 .. Len(F)
        <4>1. G[x] = F[x] BY <1>1, <3>1
        <4>2. PICK X \in Seq(Msg) : IsBase(X, F[x].data, t.optimistic) /\ InStep(X, x, F, C, p)
          BY <2>1, <2>3, <2>7, <3>1, <4>1 DEF WillShow
        <4>3. x \in 0 .. Len(F) BY <1>1, <3>1
        <4>4. InStep(X, x, G, C, p) BY <1>8, <2>4, <2>5, <4>2, <4>3, InStepOn
        <4> QED BY <4>1, <4>2, <4>4
      <3>2. CASE x = Len(F) + 1
        <4>1. G[x] = l /\ C[1].cmd = "messages" /\ C[1].for = t.gen /\ l.data = p.said /\ p.turn # "tooled"
          BY <1>1, <2>7, <3>2 DEF Snapshot
        <4>2. \A u \in t.optimistic : (\E i \in 1 .. Len(p.said) : p.said[i] = u) \/ \E y \in Prompts(C) : Typed(C[y]) = u
          BY <2>3, <2>6, <2>7 DEF Confirms
        <4>3. CASE Prompts(C) = {}
          <5>1. IsBase(p.said, p.said, t.optimistic) BY <4>2, <4>3 DEF IsBase
          <5>2. Cover(Len(p.said), x, G, p)
            <6>1. End(p) = Len(p.said) BY <4>1 DEF End
            <6>2. \A y \in 1 .. Len(G) : ~(x < y) BY <1>1, <3>2
            <6>3. \A j \in Len(p.said) + 1 .. End(p) : FALSE BY <1>8, <6>1
            <6> QED BY <1>8, <6>1, <6>2, <6>3 DEF Cover
          <5>3. InStep(p.said, x, G, C, p) BY <2>5, <4>3, <5>2 DEF InStep
          <5> QED BY <1>8, <4>1, <5>1, <5>3
        <4>4. CASE Prompts(C) # {}
          <5>1. PICK y \in Prompts(C) : TRUE BY <4>4
          <5>2. y \in 1 .. Len(C) /\ C[y].cmd = "prompt" BY DEF Prompts
          <5>3. 1 \in 1 .. Len(C) /\ 1 < y
            <6>1. y # 1 BY <4>1, <5>2
            <6> QED BY <5>2, <6>1
          <5>4. Typed(C[y]) \in t.optimistic BY <2>1, <2>7, <4>1, <5>3 DEF StillTyped
          <5>5. (\A z \in Prompts(C) : z = y) /\ \A i \in 1 .. Len(p.said) : p.said[i] # Typed(C[y])
            BY <1>7 DEF Ordered, OnePrompt
          <5>6. IsBase(Append(p.said, Typed(C[y])), p.said, t.optimistic) BY <4>2, <5>4, <5>5 DEF IsBase
          <5>7. InStep(Append(p.said, Typed(C[y])), x, G, C, p) BY <4>4 DEF InStep
          <5>8. Typed(C[y]) \in Msg BY <2>2, <5>4 DEF TabRight, TabRec, Typing
          <5>9. Append(p.said, Typed(C[y])) \in Seq(Msg) BY <1>8, <5>8
          <5> QED BY <4>1, <5>6, <5>7, <5>9
        <4> QED BY <4>3, <4>4
      <3> QED BY <1>1, <3>1, <3>2
    <2>8. linked => WillShow(G, C, t, p) BY <2>7 DEF WillShow
    <2> QED BY <2>1, <2>6, <2>8
  <1> QED BY <1>7, <1>9 DEF Straight

\* A new session begins with nothing said, and nothing is known of what shows until the tab hears of it.
LEMMA StraightRenews ==
  ASSUME NEW F \in Seq(Line), NEW l \in Line, NEW G, G = Append(F, l), NEW C \in Seq(Order), C # <<>>, NEW t,
         NEW p, PiRight(p), ~p.busy, NEW q, q.said = <<>>, q.turn = p.turn, ~q.busy,
         NEW k, NEW linked, Straight(F, C, t, p, k, linked), Renews(l), C[1].cmd = "new"
  PROVE  Straight(G, C, t, q, k, linked)
  <1>1. Len(F) \in Nat /\ Len(G) = Len(F) + 1 /\ G[Len(F) + 1] = l /\ Len(F) + 1 \in 1 .. Len(G)
        /\ (\A x \in 1 .. Len(F) : x \in 1 .. Len(G) /\ G[x] = F[x]) /\ \A x \in 1 .. Len(G) : x \in 1 .. Len(F) \/ x = Len(F) + 1
    BY Longer
  <1>2. ~Talks(l) /\ ~Snapshot(l) /\ ~StateOf(l) BY DEF Talks, Renews, Snapshot, StateOf
  <1>3. Ordered(F, C, t, p, k) BY DEF Straight
  <1>4. \A x \in 1 .. Len(G) : Snapshot(G[x]) \/ StateOf(G[x]) \/ Talks(G[x]) => x \in 1 .. Len(F) /\ G[x] = F[x] BY <1>1, <1>2
  <1>5. Len(q.said) = 0 /\ \A i \in 1 .. Len(q.said) : FALSE OBVIOUS
  <1>6. SaidRight(q)
    <2>1. q.turn = "none" BY Rested
    <2> QED BY <1>5, <2>1 DEF SaidRight, Once
  <1>7. InOrder(G, C, t)
    <2>1. InOrder(F, C, t) BY <1>3 DEF Ordered
    <2> QED BY <1>4, <2>1 DEF InOrder
  <1>8. Gens(G, C, t)
    <2>1. Gens(F, C, t) BY <1>3 DEF Ordered
    <2>2. 1 \in 1 .. Len(C) OBVIOUS
    <2>3. t # None /\ t.booted BY <2>1, <2>2 DEF Gens
    <2> QED BY <1>4, <2>1, <2>3 DEF Gens
  <1>9. Numbers(G, C, t, q, k)
    <2>1. Numbers(F, C, t, p, k) BY <1>3 DEF Ordered
    <2>2. \A x \in 1 .. Len(G) : Talks(G[x]) => ByPi(G[x]) BY <1>4, <2>1 DEF Numbers
    <2>3. \A x \in 1 .. Len(G) : Snapshot(G[x]) => Older(G[x].data, k) /\ Once(G[x].data) BY <1>4, <2>1 DEF Numbers
    <2>4. Older(q.said, k) BY <1>5 DEF Older
    <2> QED BY <2>1, <2>2, <2>3, <2>4 DEF Numbers
  <1>10. OnePrompt(G, C, q)
    <2>1. OnePrompt(G, C, p) BY <1>2, <1>3, TalkBehind DEF Ordered
    <2> QED BY <1>5, <2>1 DEF OnePrompt
  <1>11. TalkTells(G, q) BY <1>2, TalkBehind
  <1>12. Renewed(G) BY <1>1 DEF Renewed
  <1> QED BY <1>6, <1>7, <1>8, <1>9, <1>10, <1>11, <1>12 DEF Straight, Ordered, Confirms, Shows, WillShow

\* Pi reads the prompt that was typed: what the tab shows is what is said.
LEMMA StraightPrompted ==
  ASSUME NEW F \in Seq(Line), NEW C \in Seq(Order), C # <<>>, NEW B, B = Tail(C), NEW t, t # None => TabRight(t),
         NEW p, PiRight(p), ~p.busy, NEW q, q.said = Append(p.said, Typed(C[1])), q.turn = p.turn, q.busy,
         NEW k, NEW linked, Straight(F, C, t, p, k, linked), C[1].cmd = "prompt"
  PROVE  Straight(F, B, t, q, k, linked)
  <1>1. Ordered(F, C, t, p, k) BY DEF Straight
  <1>2. PICK g : Comes(C, B, g) /\ NewOrders(B, g, t, t) BY TailComes
  <1>3. B \in Seq(Order) /\ Len(C) \in Nat /\ Len(C) >= 1 /\ Len(B) = Len(C) - 1 /\ \A y \in 1 .. Len(B) : B[y] = C[y + 1] /\ y + 1 \in 1 .. Len(C)
    BY Shorter
  <1>4. Ordered(F, B, t, p, k) BY <1>1, <1>2, <1>3, OrderedComes
  <1>5. 1 \in Prompts(C) BY <1>3 DEF Prompts
  <1>6. /\ \A x \in 1 .. Len(F) : ~Talks(F[x])
        /\ \A z \in Prompts(C) : z = 1
        /\ \A i \in 1 .. Len(p.said) : p.said[i] # Typed(C[1])
    BY <1>1, <1>5 DEF Ordered, OnePrompt
  <1>7. Prompts(B) = {}
    <2>1. \A y \in Prompts(B) : y + 1 \in Prompts(C) /\ y \in 1 .. Len(B) BY <1>3 DEF Prompts
    <2>2. \A y \in 1 .. Len(B) : y + 1 # 1 BY <1>3
    <2> QED BY <1>6, <2>1, <2>2
  <1> DEFINE u == Typed(C[1])
  <1>8. p.said \in Seq(Msg) /\ Len(p.said) \in Nat BY EndIs
  <1>9. u \in Msg /\ u.who = "user" /\ u.n > k
    <2>1. 1 \in 1 .. Len(C) /\ C[1] \in Order BY <1>3
    <2>2. C[1].for \in Nat /\ C[1].for > k BY <1>1, <2>1, OrderIs DEF Ordered, Numbers
    <2> QED BY <2>2 DEF Typed, Message, Msg
  <1>10. p.turn = "none" BY Rested
  <1> HIDE DEF u
  <1>11. q.said = Append(p.said, u) BY DEF u
  <1>12. q.said \in Seq(Msg) /\ Len(q.said) = Len(p.said) + 1 /\ q.said[Len(p.said) + 1] = u /\ Len(p.said) + 1 \in 1 .. Len(q.said)
         /\ (\A i \in 1 .. Len(p.said) : i \in 1 .. Len(q.said) /\ q.said[i] = p.said[i])
         /\ \A i \in 1 .. Len(q.said) : i \in 1 .. Len(p.said) \/ i = Len(p.said) + 1
    BY <1>8, <1>9, <1>11, Longer
  <1>13. SaidRight(q)
    <2>1. SaidRight(p) BY <1>1 DEF Ordered
    <2>2. \A i \in 1 .. Len(q.said) : q.said[i].who # "user" => q.said[i].n = i BY <1>9, <1>12, <2>1 DEF SaidRight
    <2>3. Once(q.said)
      <3>1. Once(p.said) BY <2>1 DEF SaidRight
      <3>2. \A i \in 1 .. Len(p.said) : p.said[i] # u BY <1>6 DEF u
      <3> QED BY <1>12, <3>1, <3>2 DEF Once
    <2> QED BY <1>10, <2>2, <2>3 DEF SaidRight
  <1>14. Numbers(F, B, t, q, k)
    <2>1. Numbers(F, B, t, p, k) BY <1>4 DEF Ordered
    <2>2. Older(q.said, k) BY <1>9, <1>12, <2>1 DEF Older, Numbers
    <2> QED BY <2>1, <2>2 DEF Numbers
  <1>15. OnePrompt(F, B, q) /\ TalkTells(F, q) BY <1>6, <1>7 DEF OnePrompt, TalkTells
  <1>16. Ordered(F, B, t, q, k) BY <1>4, <1>13, <1>14, <1>15 DEF Ordered
  <1>17. \A X, z : InStep(X, z, F, C, p) => X = q.said BY <1>5, <1>6 DEF InStep
  <1>18. \A z : InStep(q.said, z, F, B, q)
    <2>1. End(q) = Len(q.said) BY <1>10 DEF End
    <2>2. \A j \in Len(q.said) + 1 .. End(q) : FALSE BY <1>8, <1>12, <2>1
    <2>3. Len(q.said) <= End(q) BY <1>8, <1>12, <2>1
    <2>4. \A z : Cover(Len(q.said), z, F, q) BY <1>6, <2>2, <2>3 DEF Cover
    <2>5. Leads(q.said, q.said) BY <1>8, <1>12 DEF Leads
    <2> QED BY <1>7, <2>4, <2>5 DEF InStep
  <1>19. ASSUME t # None
         PROVE  Confirms(F, B, t, q) /\ StillTyped(B, t) /\ Shows(F, B, t, q) /\ (linked => WillShow(F, B, t, q))
    <2>1. Confirms(F, C, t, p) /\ Shows(F, C, t, p) /\ (linked => WillShow(F, C, t, p)) BY <1>19 DEF Straight
    <2>2. Confirms(F, B, t, q)
      <3>1. \A y \in Prompts(C) : Typed(C[y]) = u BY <1>6 DEF u
      <3>2. \A v : (\E i \in 1 .. Len(p.said) : p.said[i] = v) \/ v = u => \E i \in 1 .. Len(q.said) : q.said[i] = v BY <1>12
      <3> QED BY <2>1, <3>1, <3>2 DEF Confirms
    <2>3. StillTyped(B, t) BY <1>7 DEF StillTyped
    <2>4. Shows(F, B, t, q) BY <1>17, <1>18, <2>1 DEF Shows
    <2>5. linked => WillShow(F, B, t, q) BY <1>17, <1>18, <2>1 DEF WillShow
    <2> QED BY <2>2, <2>3, <2>4, <2>5
  <1> QED BY <1>16, <1>19 DEF Straight

--------------------------------------------------------------------------
(* What the tab types and hears                                            *)

\* Prompts of a command more.
LEMMA PromptsMore ==
  ASSUME NEW C \in Seq(Order), NEW c \in Order, NEW B, B = Append(C, c), c.cmd = "prompt", Prompts(C) = {}
  PROVE  Prompts(B) = {Len(C) + 1} /\ B[Len(C) + 1] = c
  <1>1. Len(B) = Len(C) + 1 /\ B[Len(C) + 1] = c /\ Len(C) + 1 \in 1 .. Len(B)
        /\ (\A x \in 1 .. Len(C) : x \in 1 .. Len(B) /\ B[x] = C[x]) /\ \A x \in 1 .. Len(B) : x \in 1 .. Len(C) \/ x = Len(C) + 1
    BY Longer
  <1>2. \A y \in 1 .. Len(C) : C[y].cmd # "prompt" BY DEF Prompts
  <1> QED BY <1>1, <1>2 DEF Prompts

\* What shows of a quiet conversation without prompts on their way is all that was said.
LEMMA InStepQuiet ==
  ASSUME NEW F, \A x \in 1 .. Len(F) : ~Talks(F[x]), NEW C, Prompts(C) = {}, NEW p, PiRight(p), ~p.busy,
         NEW X \in Seq(Msg), NEW z, InStep(X, z, F, C, p)
  PROVE  X = p.said
  <1>1. Leads(X, p.said) /\ Cover(Len(X), z, F, p) BY DEF InStep
  <1>2. End(p) = Len(p.said) BY Rested
  <1>3. p.said \in Seq(Msg) /\ Len(p.said) \in Nat BY EndIs
  <1>4. Len(X) \in Nat OBVIOUS
  <1>5. ~(Len(X) < Len(p.said))
    <2>1. Len(X) < Len(p.said) => Len(X) + 1 \in Len(X) + 1 .. End(p) BY <1>2, <1>3, <1>4
    <2> QED BY <1>1, <2>1 DEF Cover
  <1>6. Len(X) = Len(p.said) BY <1>1, <1>3, <1>4, <1>5 DEF Leads
  <1> QED BY <1>1, <1>3, <1>6 DEF Leads

\* A prompt that is typed to a pi that rests and is heard of in full goes at the end of what
\* shows, and of what is shown once the snapshot comes.
LEMMA StraightTyped ==
  ASSUME NEW F \in Seq(Line), NEW C \in Seq(Order), NEW c \in Order, NEW B, B = Append(C, c), NEW t, t # None, TabRight(t),
         NEW p, PiRight(p), NEW k \in Nat, k > 0, NEW linked, Straight(F, C, t, p, k, linked),
         ~p.busy, \A x \in 1 .. Len(F) : ~Talks(F[x]), Prompts(C) = {},
         c.cmd = "prompt", c.for = k, NEW s, s # None, s.shown = Append(t.shown, Typed(c)), s.optimistic = t.optimistic \cup {Typed(c)},
         s.gen = t.gen, s.booted = t.booted, s.boots = t.boots
  PROVE  Straight(F, B, s, p, k - 1, linked)
  <1> DEFINE u == Typed(c)
  <1>1. u \in Msg /\ u.who = "user" /\ u.n = k BY DEF Typed, Message, Msg
  <1>2. s.shown = Append(t.shown, u) /\ s.optimistic = t.optimistic \cup {u} OBVIOUS
  <1>3. t.shown \in Seq(Msg) /\ t.optimistic \subseteq Typing BY DEF TabRight, TabRec
  <1>u. u = Typed(c) OBVIOUS
  <1> HIDE DEF u
  <1>4. B \in Seq(Order) /\ Len(C) \in Nat /\ Len(B) = Len(C) + 1 /\ B[Len(C) + 1] = c
        /\ (\A x \in 1 .. Len(C) : x \in 1 .. Len(B) /\ B[x] = C[x]) /\ \A x \in 1 .. Len(B) : x \in 1 .. Len(C) \/ x = Len(C) + 1
    BY Longer
  <1>5. Prompts(B) = {Len(C) + 1} /\ \A y \in Prompts(B) : Typed(B[y]) = u
    <2>1. Prompts(B) = {Len(C) + 1} /\ B[Len(C) + 1] = c BY PromptsMore
    <2> QED BY <1>u, <2>1
  <1>6. Ordered(F, C, t, p, k) BY DEF Straight
  <1>7. p.said \in Seq(Msg) /\ Len(p.said) \in Nat BY EndIs
  <1>8. ASSUME NEW v \in Seq(Msg), Older(v, k) PROVE Older(v, k - 1) /\ \A i \in 1 .. Len(v) : v[i] # u
    <2>1. \A i \in 1 .. Len(v) : v[i] \in Msg OBVIOUS
    <2>2. \A i \in 1 .. Len(v) : v[i].n \in Nat BY <2>1 DEF Msg
    <2>3. Older(v, k - 1)
      <3>1. \A n \in Nat : n > k => n > k - 1 OBVIOUS
      <3> QED BY <1>8, <2>2, <3>1 DEF Older
    <2>4. ASSUME NEW i \in 1 .. Len(v) PROVE v[i] # u
      <3>1. v[i].who = "user" => v[i].n > k BY <1>8 DEF Older
      <3> QED BY <1>1, <3>1
    <2> QED BY <2>3, <2>4
  <1>9. Numbers(F, C, t, p, k) BY <1>6 DEF Ordered
  <1>10. \A x \in 1 .. Len(C) : C[x].cmd # "prompt" BY DEF Prompts
  <1>11. InOrder(F, B, s)
    <2>1. InOrder(F, C, t) BY <1>6 DEF Ordered
    <2>2. \A x \in 1 .. Len(B) : B[x].cmd # "prompt" => x \in 1 .. Len(C) /\ B[x] = C[x] BY <1>4
    <2>3. \A x \in 1 .. Len(F), y \in 1 .. Len(B) : Snapshot(F[x]) /\ B[y].cmd = "state" => F[x].to.for # B[y].for BY <2>1, <2>2 DEF InOrder
    <2>4. \A x, y \in 1 .. Len(B) : B[x].cmd = "messages" /\ B[y].cmd = "state" /\ B[x].for = B[y].for => y < x
      <3> TAKE x, y \in 1 .. Len(B)
      <3> HAVE B[x].cmd = "messages" /\ B[y].cmd = "state" /\ B[x].for = B[y].for
      <3>1. x \in 1 .. Len(C) /\ B[x] = C[x] /\ y \in 1 .. Len(C) /\ B[y] = C[y] BY <2>2
      <3> QED BY <2>1, <3>1 DEF InOrder
    <2>5. \A b \in s.boots : b.messages # None => \A y \in 1 .. Len(B) : B[y].cmd = "state" => B[y].for # b.gen
      BY <2>1, <2>2 DEF InOrder
    <2>6. /\ \A x, y \in 1 .. Len(F) : Snapshot(F[x]) /\ StateOf(F[y]) /\ F[x].to.for = F[y].to.for => y < x
          /\ \A b \in s.boots : b.messages # None => \A x \in 1 .. Len(F) : StateOf(F[x]) => F[x].to.for # b.gen
      BY <2>1 DEF InOrder
    <2> QED BY <2>3, <2>4, <2>5, <2>6 DEF InOrder
  <1>12. Gens(F, B, s)
    <2>1. Gens(F, C, t) BY <1>6 DEF Ordered
    <2>2. \A x \in 1 .. Len(B) : B[x].cmd # "prompt" => x \in 1 .. Len(C) /\ B[x] = C[x] BY <1>4
    <2>3. /\ \A y \in 1 .. Len(B) : B[y].cmd \in {"state", "messages"} => s # None /\ B[y].for <= s.gen
          /\ \A y \in 1 .. Len(B) : B[y].cmd = "new" => s # None /\ s.booted
      BY <2>1, <2>2 DEF Gens
    <2> QED BY <2>1, <2>3 DEF Gens
  <1>13. s.shown \in Seq(Msg) /\ Len(t.shown) \in Nat /\ Len(s.shown) = Len(t.shown) + 1 /\ s.shown[Len(t.shown) + 1] = u
         /\ (\A x \in 1 .. Len(t.shown) : x \in 1 .. Len(s.shown) /\ s.shown[x] = t.shown[x])
         /\ \A x \in 1 .. Len(s.shown) : x \in 1 .. Len(t.shown) \/ x = Len(t.shown) + 1
    BY <1>1, <1>2, <1>3, Longer
  <1>14. Numbers(F, B, s, p, k - 1)
    <2>1. Older(t.shown, k) /\ Once(t.shown) /\ Older(p.said, k) BY <1>9 DEF Numbers
    <2>2. Older(t.shown, k - 1) /\ (\A i \in 1 .. Len(t.shown) : t.shown[i] # u) /\ Older(p.said, k - 1) BY <1>3, <1>7, <1>8, <2>1
    <2>3. Older(s.shown, k - 1)
      <3>1. k > k - 1 OBVIOUS
      <3> QED BY <1>1, <1>13, <2>2, <3>1 DEF Older
    <2>4. Once(s.shown) BY <1>13, <2>1, <2>2 DEF Once
    <2>5. ASSUME NEW x \in 1 .. Len(F), Snapshot(F[x]) PROVE Older(F[x].data, k - 1) /\ Once(F[x].data)
      <3>1. F[x] \in Line OBVIOUS
      <3>2. F[x].data \in Seq(Msg) BY <2>5, <3>1, LineIs DEF Snapshot
      <3> QED BY <1>8, <1>9, <2>5, <3>2 DEF Numbers
    <2>6. \A y \in 1 .. Len(B) : B[y].cmd = "prompt" => B[y].for > k - 1
      <3>1. c.for > k - 1 OBVIOUS
      <3> QED BY <1>4, <1>10, <3>1
    <2>7. \A x \in 1 .. Len(F) : Talks(F[x]) => ByPi(F[x]) BY <1>9 DEF Numbers
    <2> QED BY <2>2, <2>3, <2>4, <2>5, <2>6, <2>7 DEF Numbers
  <1>15. \A i \in 1 .. Len(p.said) : p.said[i] # u BY <1>7, <1>8, <1>9 DEF Numbers
  <1>16. OnePrompt(F, B, p) BY <1>5, <1>15 DEF OnePrompt
  <1>17. Ordered(F, B, s, p, k - 1) BY <1>6, <1>11, <1>12, <1>14, <1>16 DEF Ordered
  <1>18. Asking(s) <=> Asking(t) BY DEF Asking
  <1>19. Confirms(F, C, t, p) /\ Shows(F, C, t, p) /\ (linked => WillShow(F, C, t, p)) BY DEF Straight
  <1>20. Confirms(F, B, s, p)
    <2>1. \A v : v = u => \E y \in Prompts(B) : Typed(B[y]) = v BY <1>5
    <2>2. Prompts(C) = {} OBVIOUS
    <2> QED BY <1>2, <1>19, <2>1, <2>2 DEF Confirms
  <1>21. StillTyped(B, s) BY <1>2, <1>5 DEF StillTyped
  <1>22. \A z : InStep(Append(p.said, u), z, F, B, p) BY <1>5 DEF InStep
  <1>23. Shows(F, B, s, p)
    <2> SUFFICES ASSUME s.booted, ~Asking(s), ~Renewed(F) PROVE InStep(s.shown, 0, F, B, p) BY DEF Shows
    <2>1. InStep(t.shown, 0, F, C, p) BY <1>18, <1>19 DEF Shows
    <2>2. t.shown = p.said BY <1>3, <2>1, InStepQuiet
    <2> QED BY <1>2, <1>22, <2>2
  <1>24. ASSUME linked PROVE WillShow(F, B, s, p)
    <2> SUFFICES ASSUME Asking(s), ~Renewed(F), NEW x \in 1 .. Len(F), Snapshot(F[x]), F[x].to.for = s.gen
                 PROVE  \E X \in Seq(Msg) : IsBase(X, F[x].data, s.optimistic) /\ InStep(X, x, F, B, p)
      BY DEF WillShow
    <2> DEFINE D == F[x].data
    <2>1. PICK X \in Seq(Msg) : IsBase(X, D, t.optimistic) /\ InStep(X, x, F, C, p) BY <1>18, <1>19, <1>24 DEF WillShow
    <2>2. X = p.said BY <2>1, InStepQuiet
    <2>3. F[x] \in Line OBVIOUS
    <2>4. D \in Seq(Msg) BY <2>3, LineIs DEF Snapshot
    <2>5. Older(D, k) BY <1>9 DEF Numbers
    <2> HIDE DEF D
    <2>6. \A i \in 1 .. Len(D) : D[i] # u BY <1>8, <2>4, <2>5
    <2>7. D = p.said /\ \A v \in t.optimistic : \E i \in 1 .. Len(D) : D[i] = v
      <3>1. CASE (\A v \in t.optimistic : \E i \in 1 .. Len(D) : D[i] = v) /\ X = D BY <2>2, <3>1
      <3>2. CASE \E v \in t.optimistic : X = Append(D, v)
        <4>1. PICK v \in t.optimistic : X = Append(D, v) BY <3>2
        <4>2. v \in Msg /\ v.who = "user" BY <1>3 DEF Typing
        <4>3. Len(X) = Len(D) + 1 /\ X[Len(D) + 1] = v /\ Len(D) \in Nat BY <2>4, <4>1, <4>2
        <4>4. Len(p.said) >= 1 /\ p.said[Len(p.said)] = v BY <2>2, <4>3
        <4>5. SaidRight(p) BY <1>6 DEF Ordered
        <4>6. Len(p.said) >= 1 => p.said[Len(p.said)].who # "user" BY <4>5 DEF SaidRight
        <4> QED BY <4>2, <4>4, <4>6
      <3> QED BY <2>1, <3>1, <3>2 DEF IsBase
    <2>8. IsBase(Append(D, u), D, s.optimistic)
      <3>1. u \in s.optimistic /\ \A v \in s.optimistic : v = u \/ \E i \in 1 .. Len(D) : D[i] = v BY <1>2, <2>7
      <3> QED BY <2>6, <3>1 DEF IsBase
    <2>9. Append(D, u) \in Seq(Msg) BY <1>1, <2>4
    <2>10. InStep(Append(D, u), x, F, B, p) BY <1>22, <2>7
    <2> QED BY <2>8, <2>9, <2>10 DEF D
  <1> QED BY <1>17, <1>20, <1>21, <1>23, <1>24 DEF Straight

\* A tab whose bootstraps change, and that shows what it did.
LEMMA StraightSame ==
  ASSUME NEW F, NEW C, NEW t, t # None, NEW s, s # None, NEW p, NEW k, NEW linked, Straight(F, C, t, p, k, linked),
         InOrder(F, C, s), Gens(F, C, s),
         s.shown = t.shown, s.optimistic = t.optimistic, s.gen = t.gen, s.booted = t.booted,
         Asking(s) => Asking(t), Asking(t) /\ t.booted => Asking(s)
  PROVE  Straight(F, C, s, p, k, linked)
  <1>1. Ordered(F, C, t, p, k) /\ Confirms(F, C, t, p) /\ StillTyped(C, t) /\ Shows(F, C, t, p) /\ (linked => WillShow(F, C, t, p))
    BY DEF Straight
  <1>2. Ordered(F, C, s, p, k)
    <2>1. Numbers(F, C, t, p, k) BY <1>1 DEF Ordered
    <2>2. Numbers(F, C, s, p, k) BY <2>1 DEF Numbers
    <2> QED BY <1>1, <2>2 DEF Ordered
  <1>3. Confirms(F, C, s, p) BY <1>1 DEF Confirms
  <1>4. StillTyped(C, s) BY <1>1 DEF StillTyped
  <1>5. Shows(F, C, s, p) BY <1>1 DEF Shows
  <1>6. linked => WillShow(F, C, s, p) BY <1>1 DEF WillShow
  <1> QED BY <1>2, <1>3, <1>4, <1>5, <1>6 DEF Straight

--------------------------------------------------------------------------
(* What the tab hears                                                      *)

\* The lines of G are those of F without the first.
HeadGoes(F, G, h) ==
    /\ Carries(F, G, h) /\ KeepsRenewals(F, G, h)
    /\ \A z \in 1 .. Len(F) : KeepsTalk(F, G, h, z)
    /\ ~Talks(F[1]) => KeepsTalk(F, G, h, 0)
    /\ \A x \in 1 .. Len(G) : h[x] = x + 1

\* The line that is heard is the first of those on their way.
LEMMA TailCarries ==
  ASSUME NEW F \in Seq(Line), F # <<>>, NEW G, G = Tail(F)
  PROVE  \E h : HeadGoes(F, G, h)
  <1> DEFINE h == [x \in 1 .. Len(G) |-> x + 1]
  <1>1. Len(F) \in Nat /\ Len(F) >= 1 /\ Len(G) = Len(F) - 1 /\ \A x \in 1 .. Len(G) : G[x] = F[x + 1] /\ x + 1 \in 1 .. Len(F) BY Shorter
  <1>2. \A x \in 1 .. Len(G) : h[x] = x + 1 /\ x \in Int /\ x + 1 # 0 BY <1>1
  <1>3. h \in [1 .. Len(G) -> 0 .. Len(F)] BY <1>1
  <1>4. \A z \in 1 .. Len(F) : z # 1 => z - 1 \in 1 .. Len(G) /\ z - 1 + 1 = z BY <1>1
  <1> HIDE DEF h
  <1>5. \A z \in 1 .. Len(F) : z # 1 => \E y \in 1 .. Len(G) : h[y] = z
    <2> TAKE z \in 1 .. Len(F)
    <2> HAVE z # 1
    <2>1. z - 1 \in 1 .. Len(G) /\ h[z - 1] = z - 1 + 1 BY <1>2, <1>4
    <2> QED BY <1>4, <2>1
  <1>6. Carries(F, G, h) BY <1>1, <1>2, <1>3 DEF Carries
  <1>7. KeepsRenewals(F, G, h)
    <2> SUFFICES ASSUME NEW x \in 1 .. Len(G), NEW z \in 1 .. Len(F), h[x] < z PROVE \E y \in 1 .. Len(G) : h[y] = z
      BY DEF KeepsRenewals
    <2>1. z # 1 BY <1>2
    <2> QED BY <1>5, <2>1
  <1>8. ASSUME NEW z \in 1 .. Len(F) PROVE KeepsTalk(F, G, h, z)
    <2> SUFFICES ASSUME NEW v \in 1 .. Len(F), z < v PROVE \E y \in 1 .. Len(G) : h[y] = v
      BY DEF KeepsTalk
    <2>1. v # 1 OBVIOUS
    <2> QED BY <1>5, <2>1
  <1>9. ASSUME ~Talks(F[1]) PROVE KeepsTalk(F, G, h, 0)
    <2> SUFFICES ASSUME NEW v \in 1 .. Len(F), Talks(F[v]) PROVE \E y \in 1 .. Len(G) : h[y] = v
      BY DEF KeepsTalk
    <2>1. v # 1 BY <1>9
    <2> QED BY <1>5, <2>1
  <1> QED BY <1>2, <1>6, <1>7, <1>8, <1>9 DEF HeadGoes

\* A line of which the tab takes no note, ...
LEMMA StraightHeard ==
  ASSUME NEW F \in Seq(Line), F # <<>>, NEW G, G = Tail(F), NEW C, NEW t, NEW p, NEW k, NEW linked,
         t # None => ~Talks(F[1]) /\ ~Renews(F[1]), Straight(F, C, t, p, k, linked)
  PROVE  Straight(G, C, t, p, k, linked)
  <1>1. PICK h : HeadGoes(F, G, h) BY TailCarries
  <1>a. Carries(F, G, h) /\ KeepsRenewals(F, G, h) BY <1>1 DEF HeadGoes
  <1>b. /\ \A z \in 1 .. Len(F) : KeepsTalk(F, G, h, z)
        /\ ~Talks(F[1]) => KeepsTalk(F, G, h, 0)
        /\ \A x \in 1 .. Len(G) : h[x] = x + 1
    BY <1>1 DEF HeadGoes
  <1>2. G \in Seq(Line) /\ Len(F) \in Nat /\ Len(G) = Len(F) - 1 /\ \A x \in 1 .. Len(G) : G[x] = F[x + 1] BY Shorter
  <1>3. t # None /\ Renewed(F) => Renewed(G)
    <2> SUFFICES ASSUME t # None, Renewed(F) PROVE Renewed(G) OBVIOUS
    <2>1. PICK x \in 1 .. Len(F) : Renews(F[x]) BY DEF Renewed
    <2>2. x # 1 BY <2>1
    <2>3. x - 1 \in 1 .. Len(G) /\ x - 1 + 1 = x BY <1>2, <2>2
    <2>4. G[x - 1] = F[x] BY <1>2, <2>3
    <2> QED BY <2>1, <2>3, <2>4 DEF Renewed
  <1>4. t # None /\ (t.booted \/ linked) => KeepsTalk(F, G, h, 0) BY <1>b
  <1> QED BY <1>a, <1>2, <1>3, <1>4, StraightCarried

\* ... and what stays in order of those behind any line.
LEMMA OrderedTail ==
  ASSUME NEW F \in Seq(Line), F # <<>>, NEW G, G = Tail(F), NEW C, NEW t, NEW p, NEW k, Ordered(F, C, t, p, k)
  PROVE  Ordered(G, C, t, p, k)
  <1>1. PICK h : HeadGoes(F, G, h) BY TailCarries
  <1>2. G \in Seq(Line) BY Shorter
  <1> QED BY <1>1, <1>2, InOrderCarried, PartsCarried, TalkCarried DEF Ordered, HeadGoes

\* What a later snapshot will show does not hang on the first line.
LEMMA TailShows ==
  ASSUME NEW F \in Seq(Line), F # <<>>, NEW G, G = Tail(F), NEW C, NEW t, NEW p, ~Renews(F[1])
  PROVE  /\ Renewed(F) <=> Renewed(G)
         /\ WillShow(F, C, t, p) => WillShow(G, C, t, p)
         /\ \A X : InStep(X, 1, F, C, p) => InStep(X, 0, G, C, p)
  <1>1. PICK h : HeadGoes(F, G, h) BY TailCarries
  <1>a. Carries(F, G, h) /\ KeepsRenewals(F, G, h) BY <1>1 DEF HeadGoes
  <1>b. /\ \A z \in 1 .. Len(F) : KeepsTalk(F, G, h, z)
        /\ ~Talks(F[1]) => KeepsTalk(F, G, h, 0)
        /\ \A x \in 1 .. Len(G) : h[x] = x + 1
    BY <1>1 DEF HeadGoes
  <1>2. G \in Seq(Line) /\ Len(F) \in Nat /\ Len(F) >= 1 /\ Len(G) = Len(F) - 1
        /\ \A x \in 1 .. Len(G) : G[x] = F[x + 1] /\ x + 1 \in 1 .. Len(F)
    BY Shorter
  <1>3. Renewed(F) => Renewed(G)
    <2> SUFFICES ASSUME Renewed(F) PROVE Renewed(G) OBVIOUS
    <2>1. PICK x \in 1 .. Len(F) : Renews(F[x]) BY DEF Renewed
    <2>2. x # 1 BY <2>1
    <2>3. x - 1 \in 1 .. Len(G) /\ x - 1 + 1 = x BY <1>2, <2>2
    <2>4. G[x - 1] = F[x] BY <1>2, <2>3
    <2> QED BY <2>1, <2>3, <2>4 DEF Renewed
  <1>4. Renewed(G) => Renewed(F) BY <1>2 DEF Renewed
  <1>5. \A x \in 1 .. Len(G) : Snapshot(G[x]) => KeepsTalk(F, G, h, h[x]) BY <1>b, <1>2
  <1>6. WillShow(F, C, t, p) => WillShow(G, C, t, p) BY <1>a, <1>2, <1>3, <1>5, WillShowCarried
  <1>7. ASSUME NEW X, InStep(X, 1, F, C, p) PROVE InStep(X, 0, G, C, p)
    <2>1. 1 \in 0 .. Len(F) /\ 0 \in 0 .. Len(G) /\ 1 \in 1 .. Len(F) BY <1>2
    <2>2. KeepsTalk(F, G, h, 1) BY <1>b, <2>1
    <2>3. \A y \in 1 .. Len(G) : Talks(G[y]) => (0 < y <=> 1 < h[y]) BY <1>b
    <2> QED BY <1>a, <1>2, <1>7, <2>1, <2>2, <2>3, InStepCarried
  <1> QED BY <1>3, <1>4, <1>6, <1>7

\* One of the two answers of a bootstrap, ...
LEMMA StraightGot ==
  ASSUME NEW F \in Seq(Line), F # <<>>, NEW G, G = Tail(F), NEW C, NEW t, t # None, NEW s, s # None, NEW p, NEW k, NEW linked,
         Straight(F, C, t, p, k, linked), NEW b \in t.boots, NEW got, got.gen = b.gen, b.gen = F[1].to.for,
         (StateOf(F[1]) /\ got.messages = b.messages) \/ Snapshot(F[1]),
         s.shown = t.shown, s.optimistic = t.optimistic, s.gen = t.gen, s.booted = t.booted, s.boots = (t.boots \ {b}) \cup {got}
  PROVE  Straight(G, C, s, p, k, linked)
  <1>0. 1 \in 1 .. Len(F) /\ \A x \in 1 .. Len(F) : ~(x < 1) OBVIOUS
  <1>1. InOrder(F, C, t) /\ Gens(F, C, t) BY DEF Straight, Ordered
  <1>2. ~Talks(F[1]) /\ ~Renews(F[1]) BY DEF Talks, Renews, StateOf, Snapshot
  <1>3. ASSUME NEW c \in s.boots, c.messages # None
        PROVE  /\ \A x \in 1 .. Len(F) : StateOf(F[x]) => F[x].to.for # c.gen
               /\ \A y \in 1 .. Len(C) : C[y].cmd = "state" => C[y].for # c.gen
    <2>1. CASE \E d \in t.boots : d.messages # None /\ d.gen = c.gen BY <1>1, <2>1 DEF InOrder
    <2>2. CASE c = got /\ Snapshot(F[1]) BY <1>0, <1>1, <2>2 DEF InOrder
    <2> QED BY <1>3, <2>1, <2>2
  <1>4. InOrder(F, C, s) BY <1>1, <1>3 DEF InOrder
  <1>5. \A c, d \in s.boots : c.gen = d.gen => c = d BY <1>1 DEF Gens
  <1>6. Gens(F, C, s) BY <1>1, <1>5 DEF Gens
  <1>7. Asking(s) <=> Asking(t)
    <2>1. \A c \in s.boots : \E d \in t.boots : d.gen = c.gen OBVIOUS
    <2>2. \A d \in t.boots : \E c \in s.boots : c.gen = d.gen OBVIOUS
    <2> QED BY <2>1, <2>2 DEF Asking
  <1>8. Straight(F, C, s, p, k, linked) BY <1>4, <1>6, <1>7, StraightSame
  <1> QED BY <1>2, <1>8, StraightHeard

\* ... and what is left of bootstraps once one is over that is not the latest, or is given up.
LEMMA StraightLess ==
  ASSUME NEW F, NEW C, NEW t, t # None, NEW s, s # None, NEW p, NEW k, NEW linked,
         Straight(F, C, t, p, k, linked), s.boots \subseteq t.boots,
         ~t.booted \/ (Asking(t) => Asking(s)),
         s.shown = t.shown, s.optimistic = t.optimistic, s.gen = t.gen, s.booted = t.booted
  PROVE  Straight(F, C, s, p, k, linked)
  <1>1. InOrder(F, C, t) /\ Gens(F, C, t) BY DEF Straight, Ordered
  <1>2. InOrder(F, C, s) BY <1>1 DEF InOrder
  <1>3. Gens(F, C, s) BY <1>1 DEF Gens
  <1>4. Asking(s) => Asking(t) BY DEF Asking
  <1> QED BY <1>2, <1>3, <1>4, StraightSame

\* The prompts that stay behind a snapshot are there once.
LEMMA OncePending ==
  ASSUME NEW t, TabRight(t), Once(t.shown), NEW D \in Seq(Msg)
  PROVE  Once(Pending(t, D))
  <1>1. t.shown \in Seq(Msg) BY DEF TabRight, TabRec
  <1> DEFINE xs == {x \in DOMAIN t.shown : t.shown[x] \in t.optimistic \ Range(D)}
  <1>2. xs \in SUBSET (1 .. Len(t.shown)) /\ Pending(t, D) = Picked(t.shown, xs) BY <1>1, LenProperties DEF Pending
  <1> HIDE DEF xs
  <1>3. ASSUME NEW v \in Seq(Msg), NEW ys \in SUBSET (1 .. Len(v)), Once(v) PROVE Once(Picked(v, ys))
    <2> DEFINE P == Picked(v, ys)
    <2>1. PICK h : PicksBy(v, ys, P, h) BY PickedIs
    <2>2. h \in [1 .. Len(P) -> ys] /\ (\A j \in 1 .. Len(P) : P[j] = v[h[j]]) /\ \A j, i \in 1 .. Len(P) : j < i => h[j] < h[i]
      BY <2>1 DEF PicksBy
    <2> HIDE DEF P
    <2>3. \A j \in 1 .. Len(P) : h[j] \in 1 .. Len(v) BY <2>2
    <2>4. ASSUME NEW i \in 1 .. Len(P), NEW j \in 1 .. Len(P), P[i].who = "user", P[i] = P[j] PROVE i = j
      <3>1. h[i] = h[j] BY <1>3, <2>2, <2>3, <2>4 DEF Once
      <3>2. h[i] \in Int /\ h[j] \in Int /\ i \in Int /\ j \in Int BY <2>3
      <3>3. ~(i < j) /\ ~(j < i) BY <2>2, <3>1, <3>2
      <3> QED BY <3>2, <3>3
    <2> QED BY <2>4 DEF Once, P
  <1> QED BY <1>1, <1>2, <1>3

\* What a tab shows with its snapshot is as long as its prompts are there once.
LEMMA BaseIs ==
  ASSUME NEW t, TabRight(t), Once(t.shown), NEW D \in Seq(Msg), NEW X, IsBase(X, D, t.optimistic)
  PROVE  D \o Pending(t, D) = X
  <1>1. t.shown \in Seq(Msg) /\ t.optimistic \subseteq Range(t.shown) /\ t.optimistic \subseteq Typing BY DEF TabRight, TabRec
  <1> DEFINE P == Pending(t, D)
  <1>2. P \in Seq(Msg) /\ Range(P) = t.optimistic \ Range(D) BY <1>1, PendingIs
  <1>3. Range(P) = {P[i] : i \in 1 .. Len(P)} /\ Range(D) = {D[i] : i \in 1 .. Len(D)} BY <1>2, RangeEquality
  <1>4. Once(P) BY OncePending
  <1> HIDE DEF P
  <1>5. Len(P) \in Nat BY <1>2
  <1>6. CASE (\A u \in t.optimistic : \E i \in 1 .. Len(D) : D[i] = u) /\ X = D
    <2>1. Range(P) = {} BY <1>2, <1>3, <1>6
    <2>2. Len(P) >= 1 => P[1] \in Range(P) BY <1>3, <1>5
    <2>3. P = <<>> BY <1>2, <1>5, <2>1, <2>2
    <2> QED BY <1>6, <2>3 DEF P
  <1>7. CASE \E u \in t.optimistic : /\ X = Append(D, u) /\ \A i \in 1 .. Len(D) : D[i] # u
                                     /\ \A v \in t.optimistic : v = u \/ \E i \in 1 .. Len(D) : D[i] = v
    <2>1. PICK u \in t.optimistic : /\ X = Append(D, u) /\ \A i \in 1 .. Len(D) : D[i] # u
                                    /\ \A v \in t.optimistic : v = u \/ \E i \in 1 .. Len(D) : D[i] = v
      BY <1>7
    <2>2. Range(P) = {u} BY <1>2, <1>3, <2>1
    <2>3. \A i \in 1 .. Len(P) : P[i] = u BY <1>3, <2>2
    <2>4. u.who = "user" /\ u \in Msg BY <1>1 DEF Typing
    <2>5. Len(P) >= 1
      <3>1. \E i \in 1 .. Len(P) : P[i] = u BY <1>3, <2>2
      <3> QED BY <1>5, <3>1
    <2>6. ~(Len(P) >= 2)
      <3>1. Len(P) >= 2 => P[1] = u /\ P[2] = u /\ 1 \in 1 .. Len(P) /\ 2 \in 1 .. Len(P) BY <1>5, <2>3
      <3>2. Len(P) >= 2 => 1 = 2 BY <1>4, <2>4, <3>1 DEF Once
      <3> QED BY <3>2
    <2>a. Len(P) = 1
      <3>1. \A n \in Nat : n >= 1 /\ ~(n >= 2) => n = 1 OBVIOUS
      <3> QED BY <1>5, <2>5, <2>6, <3>1
    <2>b. 1 \in 1 .. Len(P) BY <2>a
    <2>7. Len(P) = 1 /\ P[1] = u BY <2>3, <2>a, <2>b
    <2>8. P = <<u>> BY <1>2, <2>7
    <2>9. D \o <<u>> = Append(D, u) BY <2>4
    <2> QED BY <2>1, <2>8, <2>9 DEF P
  <1> QED BY <1>6, <1>7 DEF IsBase

\* The latest bootstrap is over: the tab shows what the snapshot has, and the prompts that it has not.
LEMMA StraightShown ==
  ASSUME NEW F \in Seq(Line), F # <<>>, NEW G, G = Tail(F), NEW C, NEW t, t # None, TabRight(t), NEW s, s # None, NEW p, NEW k,
         NEW linking, Straight(F, C, t, p, k, TRUE), Snapshot(F[1]), F[1].to.for = t.gen, Asking(t),
         s.shown = F[1].data \o Pending(t, F[1].data), s.optimistic = Range(Pending(t, F[1].data)),
         s.boots = {b \in t.boots : b.gen # t.gen}, s.gen = t.gen, s.booted
  PROVE  Straight(G, C, s, p, k, linking)
  <1> DEFINE D == F[1].data  P == Pending(t, D)
  <1>0. 1 \in 1 .. Len(F) /\ F[1] \in Line OBVIOUS
  <1>1. D \in Seq(Msg) BY <1>0, LineIs DEF Snapshot
  <1>2. t.shown \in Seq(Msg) /\ t.optimistic \subseteq Range(t.shown) /\ t.optimistic \subseteq Typing BY DEF TabRight, TabRec
  <1>3. P \in Seq(Msg) /\ Range(P) = t.optimistic \ Range(D) BY <1>1, <1>2, PendingIs
  <1>4. Range(P) = {P[i] : i \in 1 .. Len(P)} /\ Range(D) = {D[i] : i \in 1 .. Len(D)} /\ Range(t.shown) = {t.shown[i] : i \in 1 .. Len(t.shown)}
    <2>1. \A q \in Seq(Msg) : Range(q) = {q[i] : i \in 1 .. Len(q)} BY RangeEquality
    <2> HIDE DEF P, D
    <2> QED BY <1>1, <1>2, <1>3, <2>1
  <1>5. s.shown = D \o P /\ s.optimistic = Range(P) OBVIOUS
  <1>6. Ordered(F, C, t, p, k) BY DEF Straight
  <1>7. Older(D, k) /\ Once(D) BY <1>0, <1>6 DEF Ordered, Numbers
  <1>8. Older(t.shown, k) /\ Once(t.shown) BY <1>6 DEF Ordered, Numbers
  <1>9. Once(P) BY <1>1, <1>8, OncePending
  <1>10. Ordered(G, C, t, p, k) BY <1>6, OrderedTail
  <1>11. ~Asking(s) BY DEF Asking
  <1>12. ~Renews(F[1]) BY DEF Renews, Snapshot
  <1>13. (Renewed(F) <=> Renewed(G)) /\ \A X : InStep(X, 1, F, C, p) => InStep(X, 0, G, C, p) BY <1>12, TailShows
  <1>14. ASSUME ~Renewed(F) PROVE InStep(D \o P, 0, G, C, p)
    <2>1. WillShow(F, C, t, p) BY DEF Straight
    <2>2. PICK X \in Seq(Msg) : IsBase(X, D, t.optimistic) /\ InStep(X, 1, F, C, p) BY <1>0, <1>14, <2>1 DEF WillShow
    <2>3. D \o P = X BY <1>1, <1>8, <2>2, BaseIs
    <2> QED BY <1>13, <2>2, <2>3
  <1> HIDE DEF P, D
  <1>15. Older(D \o P, k) /\ Once(D \o P)
    <2> DEFINE W == D \o P
    <2>1. /\ Len(D) \in Nat /\ Len(P) \in Nat /\ Len(W) = Len(D) + Len(P)
          /\ \A i \in 1 .. Len(D) : W[i] = D[i]
          /\ \A i \in 1 .. Len(W) : i \in 1 .. Len(D) \/ (i - Len(D) \in 1 .. Len(P) /\ W[i] = P[i - Len(D)])
      BY <1>1, <1>3
    <2>a. \A i \in 1 .. Len(P) : P[i] \in Range(P) BY <1>4
    <2>2. \A i \in 1 .. Len(P) : P[i] \in t.optimistic /\ P[i] \notin Range(D) /\ P[i] \in Range(t.shown) BY <1>2, <1>3, <2>a
    <2>3. \A i \in 1 .. Len(P) : P[i].who = "user" => P[i].n > k
      <3> TAKE i \in 1 .. Len(P)
      <3>1. PICK j \in 1 .. Len(t.shown) : P[i] = t.shown[j] BY <1>4, <2>2
      <3> QED BY <1>8, <3>1 DEF Older
    <2> HIDE DEF W
    <2>4. Older(W, k) BY <1>7, <2>1, <2>3 DEF Older
    <2>5. ASSUME NEW i \in 1 .. Len(W), NEW j \in 1 .. Len(W), W[i].who = "user", W[i] = W[j] PROVE i = j
      <3>1. CASE i \in 1 .. Len(D) /\ j \in 1 .. Len(D) BY <1>7, <2>1, <2>5, <3>1 DEF Once
      <3>2. CASE i \notin 1 .. Len(D) /\ j \notin 1 .. Len(D)
        <4>1. i - Len(D) \in 1 .. Len(P) /\ W[i] = P[i - Len(D)] /\ j - Len(D) \in 1 .. Len(P) /\ W[j] = P[j - Len(D)]
          BY <2>1, <3>2
        <4>2. i - Len(D) = j - Len(D) BY <1>9, <2>5, <4>1 DEF Once
        <4>3. \A a, b, c \in Int : a - c = b - c => a = b OBVIOUS
        <4>4. i \in Int /\ j \in Int /\ Len(D) \in Int BY <2>1
        <4> QED BY <4>2, <4>3, <4>4
      <3>3. CASE i \in 1 .. Len(D) /\ j \notin 1 .. Len(D)
        <4>1. j - Len(D) \in 1 .. Len(P) /\ W[j] = P[j - Len(D)] /\ W[i] = D[i] BY <2>1, <3>3
        <4> QED BY <1>4, <2>2, <2>5, <3>3, <4>1
      <3>4. CASE i \notin 1 .. Len(D) /\ j \in 1 .. Len(D)
        <4>1. i - Len(D) \in 1 .. Len(P) /\ W[i] = P[i - Len(D)] /\ W[j] = D[j] BY <2>1, <3>4
        <4> QED BY <1>4, <2>2, <2>5, <3>4, <4>1
      <3> QED BY <3>1, <3>2, <3>3, <3>4
    <2> QED BY <2>4, <2>5 DEF Once, W
  <1>16. Ordered(G, C, s, p, k)
    <2>0. InOrder(G, C, t) /\ Gens(G, C, t) BY <1>10 DEF Ordered
    <2>1. InOrder(G, C, s) BY <2>0 DEF InOrder
    <2>2. Gens(G, C, s) BY <2>0 DEF Gens
    <2>3. Numbers(G, C, t, p, k) BY <1>10 DEF Ordered
    <2>4. Numbers(G, C, s, p, k) BY <1>5, <1>15, <2>3 DEF Numbers
    <2> QED BY <1>10, <2>1, <2>2, <2>4 DEF Ordered
  <1>17. Confirms(G, C, s, p)
    <2>1. Confirms(F, C, t, p) BY DEF Straight
    <2>2. s.optimistic \subseteq t.optimistic BY <1>3, <1>5
    <2> QED BY <1>13, <2>1, <2>2 DEF Confirms
  <1>18. StillTyped(C, s) BY <1>11 DEF StillTyped
  <1>19. Shows(G, C, s, p) BY <1>5, <1>13, <1>14 DEF Shows
  <1>20. WillShow(G, C, s, p) BY <1>11 DEF WillShow
  <1> QED BY <1>16, <1>17, <1>18, <1>19, <1>20 DEF Straight

\* The tab hears that its session is new, and bootstraps again.
LEMMA OrderedRefreshed ==
  ASSUME NEW F \in Seq(Line), F # <<>>, NEW G, G = Tail(F), NEW C, NEW t, t # None,
         NEW r, r # None, r.shown = <<>>, r.optimistic = {}, r.gen = t.gen, r.booted = t.booted, r.boots = t.boots,
         NEW p, NEW k, NEW linked, Straight(F, C, t, p, k, linked), Renews(F[1])
  PROVE  Ordered(G, C, r, p, k) /\ Confirms(G, C, r, p) /\ r.booted
  <1>0. 1 \in 1 .. Len(F) /\ G \in Seq(Line) BY Shorter
  <1>1. Ordered(F, C, t, p, k) BY DEF Straight
  <1>2. Ordered(G, C, t, p, k) BY <1>1, OrderedTail
  <1>3. t.booted BY <1>0, <1>1 DEF Ordered, Gens
  <1>4. Ordered(G, C, r, p, k)
    <2>1. InOrder(G, C, r) /\ Gens(G, C, r) BY <1>2 DEF Ordered, InOrder, Gens
    <2>2. Numbers(G, C, t, p, k) BY <1>2 DEF Ordered
    <2>3. Older(r.shown, k) /\ Once(r.shown)
      <3>1. Len(r.shown) = 0 OBVIOUS
      <3>2. \A i \in 1 .. Len(r.shown) : FALSE BY <3>1
      <3> QED BY <3>2 DEF Older, Once
    <2>4. Numbers(G, C, r, p, k) BY <2>2, <2>3 DEF Numbers
    <2> QED BY <1>2, <2>1, <2>4 DEF Ordered
  <1>5. Confirms(G, C, r, p) BY DEF Confirms
  <1>6. r.booted BY <1>3
  <1> QED BY <1>4, <1>5, <1>6

\* What is told adds to what shows what pi and its tools said, and takes away at most what pi did.
LEMMA ToldSays ==
  ASSUME NEW t, TabRight(t), NEW l \in Line, Talks(l), ByPi(l), NEW W, W = Told(t, l).shown
  PROVE  /\ W \in Seq(Msg)
         /\ \A i \in 1 .. Len(W) : W[i].who = "user" => i \in 1 .. Len(t.shown) /\ W[i] = t.shown[i]
         /\ Len(t.shown) = Begins(l) /\ (l.line = "turn" => Len(t.shown) >= 1 /\ t.shown[Len(t.shown)].who = "pi") =>
               LET n == l.m.n IN
               /\ Len(W) = Ends(l)
               /\ \A i \in 1 .. Len(W) : \/ i < n /\ i \in 1 .. Len(t.shown) /\ W[i] = t.shown[i]
                                         \/ i = n /\ W[i] = l.m
                                         \/ i > n /\ i - n \in 1 .. Len(l.results) /\ W[i] = l.results[i - n]
  <1>1. t \in TabRec /\ t.shown \in Seq(Msg) BY DEF TabRight, TabRec
  <1>2. l.line \in {"message", "turn"} /\ l.m \in Msg /\ l.results \in Seq(Msg) /\ (l.line = "message" => l.results = <<>>) BY LineIs DEF Talks
  <1>3. l.m.n \in Nat BY <1>2 DEF Msg
  <1> DEFINE s == t.shown  m == l.m  rs == l.results
  <1>4. CASE l.line = "message"
    <2>1. Told(t, l) = [t EXCEPT !.shown = Append(s, m)] BY <1>4 DEF Told
    <2>2. W = Append(s, m) BY <1>1, <2>1 DEF TabRec
    <2>3. rs = <<>> /\ Len(rs) = 0 BY <1>2, <1>4
    <2>4. Begins(l) = m.n - 1 /\ Ends(l) = m.n BY <1>3, <1>4, <2>3 DEF Begins, Ends
    <2>5. m.who = "pi" BY DEF ByPi
    <2> HIDE DEF s, m
    <2>6. W \in Seq(Msg) /\ Len(s) \in Nat /\ Len(W) = Len(s) + 1 /\ W[Len(s) + 1] = m
          /\ (\A x \in 1 .. Len(s) : x \in 1 .. Len(W) /\ W[x] = s[x]) /\ \A x \in 1 .. Len(W) : x \in 1 .. Len(s) \/ x = Len(s) + 1
      <3>1. s \in Seq(Msg) /\ m \in Msg BY <1>1, <1>2 DEF s, m
      <3> QED BY <2>2, <3>1, Longer
    <2>7. \A i \in 1 .. Len(W) : W[i].who = "user" => i \in 1 .. Len(s) /\ W[i] = s[i] BY <2>5, <2>6
    <2>8. ASSUME Len(s) = Begins(l)
          PROVE  /\ Len(W) = Ends(l)
                 /\ \A i \in 1 .. Len(W) : \/ i < m.n /\ i \in 1 .. Len(s) /\ W[i] = s[i]
                                           \/ i = m.n /\ W[i] = m
      <3>1. m.n \in Nat BY <1>3 DEF m
      <3>2. Len(s) + 1 = m.n BY <2>4, <2>6, <2>8, <3>1
      <3> QED BY <2>4, <2>6, <3>2
    <2> QED BY <2>6, <2>7, <2>8 DEF s, m
  <1>5. CASE l.line = "turn"
    <2> DEFINE v == ReplaceOrAppend(s, m)
    <2>1. Told(t, l) = [t EXCEPT !.shown = v \o rs] BY <1>5 DEF Told
    <2>2. W = v \o rs BY <1>1, <2>1 DEF TabRec
    <2>3. v \in Seq(Msg) BY <1>1, <1>2, ReplacedIs
    <2>4. Begins(l) = m.n /\ Ends(l) = m.n + Len(rs) BY <1>5 DEF Begins, Ends
    <2>5. m.who = "pi" /\ \A i \in 1 .. Len(rs) : rs[i].who = "tool" BY DEF ByPi
    <2>6. s \in Seq(Msg) /\ m \in Msg /\ rs \in Seq(Msg) /\ m.n \in Nat BY <1>1, <1>2, <1>3
    <2>7. /\ \A i \in 1 .. Len(v) : \/ i \in 1 .. Len(s) /\ v[i] = s[i]
                                    \/ v[i] = m
          /\ Len(s) >= 1 /\ s[Len(s)].who = "pi" =>
                /\ Len(v) = Len(s) /\ v[Len(s)] = m
                /\ \A i \in 1 .. Len(v) : i < Len(s) => i \in 1 .. Len(s) /\ v[i] = s[i]
      <3> HIDE DEF s, m
      <3>1. CASE s # <<>> /\ Last(s).who = "pi"
        <4>1. v = Append(Front(s), m) BY <3>1 DEF ReplaceOrAppend
        <4>2. Front(s) \in Seq(Msg) /\ Len(Front(s)) = Len(s) - 1 /\ \A i \in 1 .. Len(s) - 1 : Front(s)[i] = s[i] BY <2>6, <3>1, FrontIs
        <4>3. Len(v) = Len(Front(s)) + 1 /\ v[Len(Front(s)) + 1] = m
              /\ (\A x \in 1 .. Len(Front(s)) : v[x] = Front(s)[x]) /\ \A x \in 1 .. Len(v) : x \in 1 .. Len(Front(s)) \/ x = Len(Front(s)) + 1
          BY <2>6, <4>1, <4>2, Longer
        <4>4. Len(s) \in Nat /\ Len(s) >= 1 BY <2>6, <3>1
        <4> HIDE DEF v
        <4>5. Len(v) = Len(s) /\ v[Len(s)] = m BY <4>2, <4>3, <4>4
        <4>6. \A i \in 1 .. Len(v) : (i \in 1 .. Len(s) - 1 /\ v[i] = s[i]) \/ i = Len(s) BY <4>2, <4>3, <4>4
        <4>7. \A i \in 1 .. Len(s) - 1 : i \in 1 .. Len(s) BY <4>4
        <4>8. \A i \in 1 .. Len(v) : i < Len(s) => i \in 1 .. Len(s) /\ v[i] = s[i] BY <4>4, <4>6, <4>7
        <4>9. \A i \in 1 .. Len(v) : (i \in 1 .. Len(s) /\ v[i] = s[i]) \/ v[i] = m BY <4>5, <4>6, <4>7
        <4> QED BY <4>5, <4>8, <4>9
      <3>2. CASE ~(s # <<>> /\ Last(s).who = "pi")
        <4>1. v = Append(s, m) BY <3>2 DEF ReplaceOrAppend
        <4>2. Len(v) = Len(s) + 1 /\ v[Len(s) + 1] = m
              /\ (\A x \in 1 .. Len(s) : v[x] = s[x]) /\ \A x \in 1 .. Len(v) : x \in 1 .. Len(s) \/ x = Len(s) + 1
          BY <2>6, <4>1, Longer
        <4>3. ~(Len(s) >= 1 /\ s[Len(s)].who = "pi")
          <5>1. s # <<>> => Last(s) = s[Len(s)] BY <2>6, FrontIs
          <5>2. Len(s) >= 1 => s # <<>> BY <2>6
          <5> QED BY <3>2, <5>1, <5>2
        <4> QED BY <4>2, <4>3
      <3> QED BY <3>1, <3>2
    <2> HIDE DEF s, m, rs, v
    <2>8. /\ W \in Seq(Msg) /\ Len(v) \in Nat /\ Len(rs) \in Nat /\ Len(W) = Len(v) + Len(rs)
          /\ \A i \in 1 .. Len(v) : W[i] = v[i]
          /\ \A i \in 1 .. Len(W) : i \in 1 .. Len(v) \/ (i - Len(v) \in 1 .. Len(rs) /\ W[i] = rs[i - Len(v)])
      BY <2>2, <2>3, <2>6
    <2>9. \A i \in 1 .. Len(W) : W[i].who = "user" => i \in 1 .. Len(s) /\ W[i] = s[i]
      <3> TAKE i \in 1 .. Len(W)
      <3> HAVE W[i].who = "user"
      <3>1. i \in 1 .. Len(v) BY <2>5, <2>8
      <3> QED BY <2>5, <2>7, <2>8, <3>1
    <2>10. ASSUME Len(s) = Begins(l), Len(s) >= 1 /\ s[Len(s)].who = "pi"
           PROVE  /\ Len(W) = Ends(l)
                  /\ \A i \in 1 .. Len(W) : \/ i < m.n /\ i \in 1 .. Len(s) /\ W[i] = s[i]
                                            \/ i = m.n /\ W[i] = m
                                            \/ i > m.n /\ i - m.n \in 1 .. Len(rs) /\ W[i] = rs[i - m.n]
      <3>1. Len(v) = m.n /\ Len(s) = m.n /\ v[m.n] = m /\ \A i \in 1 .. Len(v) : i < m.n => i \in 1 .. Len(s) /\ v[i] = s[i]
        BY <2>4, <2>7, <2>10
      <3>2. Len(W) = Ends(l) BY <2>4, <2>8, <3>1
      <3>3. ASSUME NEW i \in 1 .. Len(W)
            PROVE  \/ i < m.n /\ i \in 1 .. Len(s) /\ W[i] = s[i]
                   \/ i = m.n /\ W[i] = m
                   \/ i > m.n /\ i - m.n \in 1 .. Len(rs) /\ W[i] = rs[i - m.n]
        <4>1. CASE i \in 1 .. Len(v)
          <5>1. i < m.n \/ i = m.n BY <2>6, <3>1, <4>1
          <5> QED BY <2>8, <3>1, <4>1, <5>1
        <4>2. CASE i \notin 1 .. Len(v)
          <5>1. i - m.n \in 1 .. Len(rs) /\ W[i] = rs[i - m.n] BY <2>8, <3>1, <4>2
          <5>2. i > m.n BY <2>6, <2>8, <5>1
          <5> QED BY <5>1, <5>2
        <4> QED BY <4>1, <4>2
      <3> QED BY <3>2, <3>3
    <2> QED BY <1>5, <2>8, <2>9, <2>10 DEF s, m, rs
  <1> QED BY <1>2, <1>4, <1>5

\* A chat that is in step hears the next message of pi, or the end of a turn: it stays in step.
LEMMA InStepTold ==
  ASSUME NEW F \in Seq(Line), F # <<>>, NEW G, G = Tail(F), NEW C, NEW t, TabRight(t), NEW p, PiRight(p), TalkTells(F, p),
         Talks(F[1]), ByPi(F[1]), ~Renewed(F), Prompts(C) = {}, InStep(t.shown, 0, F, C, p)
  PROVE  InStep(Told(t, F[1]).shown, 0, G, C, p)
  <1> DEFINE l == F[1]  W == Told(t, l).shown
  <1>1. G \in Seq(Line) /\ Len(F) \in Nat /\ Len(F) >= 1 /\ Len(G) = Len(F) - 1
        /\ \A x \in 1 .. Len(G) : G[x] = F[x + 1] /\ x + 1 \in 1 .. Len(F)
    BY Shorter
  <1>2. 1 \in 1 .. Len(F) /\ l \in Line BY <1>1
  <1>3. t.shown \in Seq(Msg) /\ p.said \in Seq(Msg) /\ Len(p.said) \in Nat /\ End(p) \in Nat BY EndIs DEF TabRight, TabRec
  <1>4. l.line \in {"message", "turn"} /\ l.m \in Msg /\ l.results \in Seq(Msg) /\ (l.line = "message" => l.results = <<>>)
    BY <1>2, LineIs DEF Talks
  <1>5. l.m.n \in Nat /\ Len(l.results) \in Nat /\ (l.line = "message" => Len(l.results) = 0) BY <1>4 DEF Msg
  <1>6. Fresh(1, F) BY DEF Fresh, Renewed
  <1>7. Tells(l, p.said) /\ Ends(l) <= End(p) BY <1>2, <1>6 DEF TalkTells
  <1>8. \A x \in 1 .. Len(F) : 1 < x /\ Talks(F[x]) => Ends(l) <= Begins(F[x]) BY <1>2, <1>6 DEF TalkTells
  <1>9. Leads(t.shown, p.said) /\ Cover(Len(t.shown), 0, F, p) BY DEF InStep
  <1> DEFINE n == Len(t.shown)
  <1>10. n \in Nat BY <1>3
  <1>11. l.m.n >= 1 /\ Begins(l) \in Nat /\ Ends(l) \in Nat /\ Begins(l) <= Ends(l)
         /\ (l.line = "message" => Begins(l) = l.m.n - 1) /\ (l.line = "turn" => Begins(l) = l.m.n) /\ Ends(l) = l.m.n + Len(l.results)
    <2>1. l.m.n >= 1 BY <1>7 DEF Tells
    <2> QED BY <1>4, <1>5, <2>1 DEF Begins, Ends
  <1> HIDE DEF n, W, l
  <1>12. n = Begins(l)
    <2>1. n <= Begins(l) BY <1>2, <1>9 DEF Cover, n, l
    <2>2. ASSUME n < Begins(l) PROVE FALSE
      <3>1. n + 1 \in n + 1 .. End(p) BY <1>3, <1>7, <1>10, <1>11, <2>2
      <3>2. PICK x \in 1 .. Len(F) : Talks(F[x]) /\ Begins(F[x]) < n + 1 /\ n + 1 <= Ends(F[x]) BY <1>9, <3>1 DEF Cover, n
      <3>3. CASE x = 1 BY <1>10, <1>11, <2>2, <3>2, <3>3 DEF l
      <3>4. CASE 1 < x
        <4>1. Ends(l) <= Begins(F[x]) BY <1>8, <3>2, <3>4
        <4>2. F[x] \in Line OBVIOUS
        <4>3. F[x].m \in Msg BY <3>2, <4>2, LineIs DEF Talks
        <4>4. F[x].m.n \in Nat BY <4>3 DEF Msg
        <4>5. Begins(F[x]) \in Int BY <4>4 DEF Begins
        <4> QED BY <1>10, <1>11, <2>2, <3>2, <4>1, <4>5
      <3> QED BY <3>3, <3>4
    <2> QED BY <1>10, <1>11, <2>1, <2>2
  <1>13. l.line = "turn" => n >= 1 /\ t.shown[n].who = "pi"
    <2> SUFFICES ASSUME l.line = "turn" PROVE n >= 1 /\ t.shown[n].who = "pi" OBVIOUS
    <2>1. n = l.m.n /\ n >= 1 BY <1>11, <1>12
    <2>2. t.shown[n] = p.said[n] BY <1>9, <1>10, <2>1 DEF Leads, n
    <2>3. p.said[n] = l.m BY <1>7, <2>1 DEF Tells
    <2>4. l.m.who = "pi" BY DEF ByPi, l
    <2> QED BY <2>1, <2>2, <2>3, <2>4
  <1>14. W \in Seq(Msg) /\ Len(W) = Ends(l)
         /\ \A i \in 1 .. Len(W) : \/ i < l.m.n /\ i \in 1 .. n /\ W[i] = t.shown[i]
                                   \/ i = l.m.n /\ W[i] = l.m
                                   \/ i > l.m.n /\ i - l.m.n \in 1 .. Len(l.results) /\ W[i] = l.results[i - l.m.n]
    <2>1. Talks(l) /\ ByPi(l) BY DEF l
    <2>2. W = Told(t, l).shown BY DEF W
    <2> QED BY <1>2, <1>12, <1>13, <2>1, <2>2, ToldSays DEF n
  <1>15. Leads(W, p.said)
    <2>1. Len(W) <= Len(p.said) BY <1>7, <1>14 DEF Tells
    <2>2. ASSUME NEW i \in 1 .. Len(W) PROVE W[i] = p.said[i]
      <3>1. CASE i \in 1 .. n /\ W[i] = t.shown[i] BY <1>9, <3>1 DEF Leads, n
      <3>2. CASE i = l.m.n /\ W[i] = l.m BY <1>7, <3>2 DEF Tells
      <3>3. CASE i - l.m.n \in 1 .. Len(l.results) /\ W[i] = l.results[i - l.m.n]
        <4>1. l.results[i - l.m.n] = p.said[l.m.n + (i - l.m.n)] BY <1>7, <3>3 DEF Tells
        <4>2. l.m.n + (i - l.m.n) = i BY <1>5
        <4> QED BY <3>3, <4>1, <4>2
      <3> QED BY <1>14, <3>1, <3>2, <3>3
    <2> QED BY <2>1, <2>2 DEF Leads
  <1>16. Cover(Ends(l), 0, G, p)
    <2>1. \A y \in 1 .. Len(G) : Talks(G[y]) => Ends(l) <= Begins(G[y])
      <3> TAKE y \in 1 .. Len(G)
      <3>1. G[y] = F[y + 1] /\ y + 1 \in 1 .. Len(F) /\ 1 < y + 1 BY <1>1
      <3> QED BY <1>8, <3>1
    <2>2. ASSUME NEW j \in Ends(l) + 1 .. End(p)
          PROVE  \E x \in 1 .. Len(G) : 0 < x /\ Talks(G[x]) /\ Begins(G[x]) < j /\ j <= Ends(G[x])
      <3>1. j \in n + 1 .. End(p) /\ ~(j <= Ends(l)) BY <1>3, <1>10, <1>11, <1>12
      <3>2. PICK x \in 1 .. Len(F) : Talks(F[x]) /\ Begins(F[x]) < j /\ j <= Ends(F[x]) BY <1>9, <3>1 DEF Cover, n
      <3>3. x # 1 BY <3>1, <3>2 DEF l
      <3>4. x - 1 \in 1 .. Len(G) /\ x - 1 + 1 = x BY <1>1, <3>3
      <3>5. G[x - 1] = F[x] /\ 0 < x - 1 BY <1>1, <3>4
      <3> QED BY <3>2, <3>4, <3>5
    <2> QED BY <1>7, <2>1, <2>2 DEF Cover
  <1> QED BY <1>14, <1>15, <1>16 DEF InStep, W, l

\* So all is straight, whether it was in step or asks for a snapshot.
LEMMA StraightTold ==
  ASSUME NEW F \in Seq(Line), F # <<>>, NEW G, G = Tail(F), NEW C, NEW t, t # None, TabRight(t),
         NEW p, PiRight(p), NEW k, NEW linked, Straight(F, C, t, p, k, linked), Talks(F[1]), NEW s, s # None, s = Told(t, F[1])
  PROVE  Straight(G, C, s, p, k, linked)
  <1>0. 1 \in 1 .. Len(F) /\ F[1] \in Line OBVIOUS
  <1>1. F[1].line \in {"start", "settled", "message", "turn"} BY DEF Talks
  <1>2. TabRight(s) /\ s.gen = t.gen /\ s.boots = t.boots /\ s.booted = t.booted /\ s.optimistic = t.optimistic BY <1>0, <1>1, ToldRight
  <1>3. Ordered(F, C, t, p, k) BY DEF Straight
  <1>4. Ordered(G, C, t, p, k) BY <1>3, OrderedTail
  <1>5. ByPi(F[1]) BY <1>0, <1>3 DEF Ordered, Numbers
  <1>6. Prompts(C) = {} BY <1>0, <1>3 DEF Ordered, OnePrompt
  <1>7. ~Renews(F[1]) BY DEF Renews, Talks
  <1>8. (Renewed(F) <=> Renewed(G)) /\ (WillShow(F, C, t, p) => WillShow(G, C, t, p)) BY <1>7, TailShows
  <1>9. Asking(s) <=> Asking(t) BY <1>2 DEF Asking
  <1>10. Ordered(G, C, s, p, k)
    <2>1. InOrder(G, C, s)
      <3>1. InOrder(G, C, t) BY <1>4 DEF Ordered
      <3> QED BY <1>2, <3>1 DEF InOrder
    <2>2. Gens(G, C, s)
      <3>1. Gens(G, C, t) BY <1>4 DEF Ordered
      <3> QED BY <1>2, <3>1 DEF Gens
    <2>3. Numbers(G, C, t, p, k) BY <1>4 DEF Ordered
    <2>4. \A i \in 1 .. Len(s.shown) : s.shown[i].who = "user" => i \in 1 .. Len(t.shown) /\ s.shown[i] = t.shown[i]
      BY <1>0, <1>5, ToldSays
    <2>5. Older(t.shown, k) /\ Once(t.shown) BY <2>3 DEF Numbers
    <2>6. Older(s.shown, k) BY <2>4, <2>5 DEF Older
    <2>7. Once(s.shown)
      <3> SUFFICES ASSUME NEW i \in 1 .. Len(s.shown), NEW j \in 1 .. Len(s.shown), s.shown[i].who = "user", s.shown[i] = s.shown[j]
                   PROVE  i = j
        BY DEF Once
      <3>1. i \in 1 .. Len(t.shown) /\ s.shown[i] = t.shown[i] /\ j \in 1 .. Len(t.shown) /\ s.shown[j] = t.shown[j] BY <2>4
      <3> QED BY <2>5, <3>1 DEF Once
    <2>8. Numbers(G, C, s, p, k) BY <2>3, <2>6, <2>7 DEF Numbers
    <2> QED BY <1>4, <2>1, <2>2, <2>8 DEF Ordered
  <1>11. Confirms(F, C, t, p) /\ StillTyped(C, t) /\ Shows(F, C, t, p) /\ (linked => WillShow(F, C, t, p)) BY DEF Straight
  <1>12. Confirms(G, C, s, p) BY <1>2, <1>8, <1>11 DEF Confirms
  <1>13. StillTyped(C, s) BY <1>6 DEF StillTyped
  <1>14. Shows(G, C, s, p)
    <2> SUFFICES ASSUME s.booted, ~Asking(s), ~Renewed(G) PROVE InStep(s.shown, 0, G, C, p) BY DEF Shows
    <2>1. InStep(t.shown, 0, F, C, p) /\ ~Renewed(F) BY <1>2, <1>8, <1>9, <1>11 DEF Shows
    <2>2. TalkTells(F, p) BY <1>3 DEF Ordered
    <2> QED BY <1>5, <1>6, <2>1, <2>2, InStepTold
  <1>15. linked => WillShow(G, C, s, p)
    <2>1. linked => WillShow(G, C, t, p) BY <1>8, <1>11
    <2> QED BY <1>2, <1>9, <2>1 DEF WillShow
  <1> QED BY <1>10, <1>12, <1>13, <1>14, <1>15 DEF Straight

--------------------------------------------------------------------------
(* What is put between the others, or taken out                            *)

\* Two sequences, one behind the other.
LEMMA Joined ==
  ASSUME NEW T, NEW U \in Seq(T), NEW V \in Seq(T), NEW W, W = U \o V
  PROVE  /\ W \in Seq(T) /\ Len(U) \in Nat /\ Len(V) \in Nat /\ Len(W) = Len(U) + Len(V)
         /\ \A i \in 1 .. Len(U) : i \in 1 .. Len(W) /\ W[i] = U[i]
         /\ \A i \in 1 .. Len(V) : Len(U) + i \in 1 .. Len(W) /\ W[Len(U) + i] = V[i]
         /\ \A i \in 1 .. Len(W) : i \in 1 .. Len(U) \/ (i > Len(U) /\ i - Len(U) \in 1 .. Len(V) /\ W[i] = V[i - Len(U)])
  OBVIOUS

\* Where the elements of P \o Q come from that are in P \o M \o Q, and the other way round
\* (0: in M).
Skips(m, q, x) == IF x <= m THEN x ELSE x + q
Skipped(m, q, x) == IF x <= m THEN x ELSE IF x <= m + q THEN 0 ELSE x - q

Gap(B, C, M, m, q) ==
    /\ \A x \in 1 .. Len(C) : Skips(m, q, x) \in 1 .. Len(B) /\ B[Skips(m, q, x)] = C[x] /\ Skipped(m, q, Skips(m, q, x)) = x
    /\ \A x \in 1 .. Len(B) : Skipped(m, q, x) = 0 => x > m /\ x <= m + q /\ x - m \in 1 .. q /\ B[x] = M[x - m]
    /\ \A x \in 1 .. Len(B) : Skipped(m, q, x) # 0 => Skipped(m, q, x) \in 1 .. Len(C) /\ B[x] = C[Skipped(m, q, x)] /\ Skips(m, q, Skipped(m, q, x)) = x

\* ... and what is where, with M and without it.
LEMMA Between ==
  ASSUME NEW T, NEW P \in Seq(T), NEW M \in Seq(T), NEW Q \in Seq(T), NEW B, B = (P \o M) \o Q, NEW C, C = P \o Q
  PROVE  /\ B \in Seq(T) /\ C \in Seq(T) /\ Len(P) \in Nat /\ Len(M) \in Nat
         /\ Gap(B, C, M, Len(P), Len(M))
  <1> DEFINE m == Len(P)  q == Len(M)  r == Len(Q)  A == P \o M
  <1>1. A \in Seq(T) /\ m \in Nat /\ q \in Nat /\ r \in Nat /\ Len(A) = m + q
        /\ (\A i \in 1 .. m : A[i] = P[i]) /\ \A i \in 1 .. q : A[m + i] = M[i]
    <2>1. A = P \o M OBVIOUS
    <2> HIDE DEF A
    <2>2. /\ A \in Seq(T) /\ Len(P) \in Nat /\ Len(M) \in Nat /\ Len(A) = Len(P) + Len(M)
          /\ \A i \in 1 .. Len(P) : i \in 1 .. Len(A) /\ A[i] = P[i]
          /\ \A i \in 1 .. Len(M) : Len(P) + i \in 1 .. Len(A) /\ A[Len(P) + i] = M[i]
      BY <2>1, Joined
    <2>3. r \in Nat OBVIOUS
    <2> QED BY <2>2, <2>3
  <1>2. B \in Seq(T) /\ Len(B) = m + q + r /\ (\A i \in 1 .. m + q : B[i] = A[i]) /\ \A i \in 1 .. r : B[m + q + i] = Q[i]
    <2>1. B = A \o Q OBVIOUS
    <2> HIDE DEF A
    <2>0. A \in Seq(T) BY <1>1
    <2> HIDE <1>1 DEF m, q, r
    <2>2. /\ B \in Seq(T) /\ Len(B) = Len(A) + Len(Q)
          /\ (\A i \in 1 .. Len(A) : i \in 1 .. Len(B) /\ B[i] = A[i])
          /\ \A i \in 1 .. Len(Q) : Len(A) + i \in 1 .. Len(B) /\ B[Len(A) + i] = Q[i]
      BY <2>0, <2>1, Joined
    <2> QED BY <1>1, <2>2 DEF r
  <1>3. C \in Seq(T) /\ Len(C) = m + r /\ (\A i \in 1 .. m : C[i] = P[i]) /\ \A i \in 1 .. r : C[m + i] = Q[i]
    BY Joined
  <1> HIDE DEF m, q, r, A
  <1>4. ASSUME NEW i \in 1 .. m PROVE i \in 1 .. m + q /\ B[i] = P[i]
    <2>1. i \in 1 .. m + q BY <1>1
    <2> QED BY <1>1, <1>2, <2>1
  <1>5. ASSUME NEW i \in 1 .. q PROVE m + i \in 1 .. m + q /\ B[m + i] = M[i]
    <2>1. m + i \in 1 .. m + q BY <1>1
    <2> QED BY <1>1, <1>2, <2>1
  <1>6. ASSUME NEW x \in 1 .. Len(C)
        PROVE  Skips(m, q, x) \in 1 .. Len(B) /\ B[Skips(m, q, x)] = C[x] /\ Skipped(m, q, Skips(m, q, x)) = x
    <2>1. CASE x <= m
      <3>1. x \in 1 .. m /\ Skips(m, q, x) = x /\ Skipped(m, q, x) = x BY <1>1, <1>3, <2>1 DEF Skips, Skipped
      <3>2. x \in 1 .. Len(B) BY <1>1, <1>2, <3>1
      <3> QED BY <1>3, <1>4, <3>1, <3>2
    <2>2. CASE ~(x <= m)
      <3>1. x - m \in 1 .. r /\ m + (x - m) = x /\ m + q + (x - m) = x + q BY <1>1, <1>3, <2>2
      <3>2. Skips(m, q, x) = x + q /\ Skipped(m, q, x + q) = x BY <1>1, <1>3, <2>2 DEF Skips, Skipped
      <3>3. x + q \in 1 .. Len(B) BY <1>1, <1>2, <1>3
      <3>4. C[x] = Q[x - m] /\ B[x + q] = Q[x - m] BY <1>2, <1>3, <3>1
      <3> QED BY <3>2, <3>3, <3>4
    <2> QED BY <2>1, <2>2
  <1>7. ASSUME NEW x \in 1 .. Len(B), Skipped(m, q, x) = 0 PROVE x > m /\ x <= m + q /\ x - m \in 1 .. q /\ B[x] = M[x - m]
    <2>1. x > m /\ x <= m + q BY <1>1, <1>2, <1>7 DEF Skipped
    <2>2. x - m \in 1 .. q /\ m + (x - m) = x BY <1>1, <1>2, <2>1
    <2> QED BY <1>5, <2>1, <2>2
  <1>8. ASSUME NEW x \in 1 .. Len(B), Skipped(m, q, x) # 0
        PROVE  Skipped(m, q, x) \in 1 .. Len(C) /\ B[x] = C[Skipped(m, q, x)] /\ Skips(m, q, Skipped(m, q, x)) = x
    <2>1. CASE x <= m
      <3>1. x \in 1 .. m /\ Skipped(m, q, x) = x /\ Skips(m, q, x) = x BY <1>1, <1>2, <2>1 DEF Skips, Skipped
      <3>2. x \in 1 .. Len(C) BY <1>1, <1>3, <3>1
      <3> QED BY <1>3, <1>4, <3>1, <3>2
    <2>2. CASE ~(x <= m)
      <3>0. x > m + q /\ Skipped(m, q, x) = x - q BY <1>1, <1>2, <1>8, <2>2 DEF Skipped
      <3>1. x - m - q \in 1 .. r /\ m + q + (x - m - q) = x /\ m + (x - m - q) = x - q BY <1>1, <1>2, <3>0
      <3>2. x - q \in 1 .. Len(C) /\ Skips(m, q, x - q) = x BY <1>1, <1>2, <1>3, <3>0 DEF Skips
      <3>3. B[x] = Q[x - m - q] /\ C[x - q] = Q[x - m - q] BY <1>2, <1>3, <3>1
      <3> QED BY <3>0, <3>2, <3>3
    <2> QED BY <2>1, <2>2
  <1>9. Gap(B, C, M, m, q) BY <1>6, <1>7, <1>8 DEF Gap
  <1> QED BY <1>1, <1>2, <1>3, <1>9 DEF m, q

\* They keep their order.
LEMMA InTurn ==
  ASSUME NEW m \in Nat, NEW q \in Nat, NEW x \in Nat, NEW y \in Nat, x < y
  PROVE  Skips(m, q, x) < Skips(m, q, y) /\ (Skipped(m, q, x) # 0 /\ Skipped(m, q, y) # 0 => Skipped(m, q, x) < Skipped(m, q, y))
  BY DEF Skips, Skipped

\* Commands put between the others, ...
PutIn(P, M, C, B, g) ==
    /\ Comes(C, B, g) /\ KeepsPrompts(C, B, g)
    /\ \A y \in 1 .. Len(B) : g[y] = 0 => y > Len(P) /\ y <= Len(P) + Len(M) /\ y - Len(P) \in 1 .. Len(M) /\ B[y] = M[y - Len(P)]
    /\ Len(B) = Len(P) + Len(M) => \A x, y \in 1 .. Len(B) : g[x] = 0 /\ g[y] # 0 => y < x
\* ... come as they were.
LEMMA PutComes ==
  ASSUME NEW P \in Seq(Order), NEW M \in Seq(Order), NEW Q \in Seq(Order), NEW B, B = (P \o M) \o Q, NEW C, C = P \o Q
  PROVE  /\ B \in Seq(Order) /\ C \in Seq(Order)
         /\ \E g : PutIn(P, M, C, B, g)
  <1> DEFINE m == Len(P)  q == Len(M)
             g == [y \in 1 .. Len(B) |-> Skipped(m, q, y)]
  <1>0. B \in Seq(Order) /\ C \in Seq(Order) /\ m \in Nat /\ q \in Nat /\ Gap(B, C, M, m, q) BY Between
  <1>1. /\ B \in Seq(Order) /\ C \in Seq(Order) /\ m \in Nat /\ q \in Nat /\ Len(C) \in Nat /\ Len(B) \in Nat
        /\ \A x \in 1 .. Len(C) : Skips(m, q, x) \in 1 .. Len(B) /\ B[Skips(m, q, x)] = C[x] /\ Skipped(m, q, Skips(m, q, x)) = x
        /\ \A x \in 1 .. Len(B) : Skipped(m, q, x) = 0 => x > m /\ x <= m + q /\ x - m \in 1 .. q /\ B[x] = M[x - m]
        /\ \A x \in 1 .. Len(B) : Skipped(m, q, x) # 0 => Skipped(m, q, x) \in 1 .. Len(C) /\ B[x] = C[Skipped(m, q, x)] /\ Skips(m, q, Skipped(m, q, x)) = x
    <2> HIDE DEF m, q
    <2>1. Len(C) \in Nat /\ Len(B) \in Nat BY <1>0
    <2> QED BY <1>0, <2>1 DEF Gap
  <1> HIDE DEF m, q
  <1>2. \A y \in 1 .. Len(B) : g[y] = Skipped(m, q, y) /\ y \in Nat OBVIOUS
  <1>3. \A y \in 1 .. Len(B) : Skipped(m, q, y) \in 0 .. Len(C)
    <2> TAKE y \in 1 .. Len(B)
    <2>1. Len(C) \in Nat BY <1>1
    <2>2. Skipped(m, q, y) # 0 => Skipped(m, q, y) \in 1 .. Len(C) BY <1>1
    <2> QED BY <2>1, <2>2
  <1>4. g \in [1 .. Len(B) -> 0 .. Len(C)] BY <1>3
  <1> HIDE DEF g
  <1>5. ASSUME NEW x \in 1 .. Len(B), NEW y \in 1 .. Len(B), x < y, g[x] # 0, g[y] # 0 PROVE g[x] < g[y]
    <2>1. g[x] = Skipped(m, q, x) /\ g[y] = Skipped(m, q, y) /\ x \in Nat /\ y \in Nat BY <1>2
    <2> QED BY <1>1, <1>5, <2>1, InTurn
  <1>6. \A y \in 1 .. Len(B) : g[y] # 0 => B[y] = C[g[y]] BY <1>1, <1>2
  <1>7. Comes(C, B, g) BY <1>4, <1>5, <1>6 DEF Comes
  <1>8. KeepsPrompts(C, B, g)
    <2> SUFFICES ASSUME NEW z \in Prompts(C) PROVE \E y \in 1 .. Len(B) : g[y] = z BY DEF KeepsPrompts
    <2>1. z \in 1 .. Len(C) BY DEF Prompts
    <2>2. Skips(m, q, z) \in 1 .. Len(B) /\ Skipped(m, q, Skips(m, q, z)) = z BY <1>1, <2>1
    <2> QED BY <1>2, <2>2
  <1>9. \A y \in 1 .. Len(B) : g[y] = 0 => y > m /\ y <= m + q /\ y - m \in 1 .. q /\ B[y] = M[y - m] BY <1>1, <1>2
  <1>10. ASSUME Len(B) = m + q, NEW x \in 1 .. Len(B), NEW y \in 1 .. Len(B), g[x] = 0, g[y] # 0 PROVE y < x
    <2>1. x > m BY <1>9, <1>10
    <2>2. Skipped(m, q, y) # 0 /\ y <= m + q BY <1>1, <1>2, <1>10
    <2>3. y <= m BY <1>1, <2>2 DEF Skipped
    <2> QED BY <1>1, <2>1, <2>3
  <1>11. PutIn(P, M, C, B, g) BY <1>7, <1>8, <1>9, <1>10 DEF PutIn, m, q
  <1> QED BY <1>1, <1>11

\* ... and taken out from them.
TakenOut(C, B, g) == Comes(C, B, g) /\ KeepsPrompts(C, B, g) /\ \A t, s : NewOrders(B, g, t, s)
\* ... leave the others as they were, if no prompt is among them.
LEMMA CutComes ==
  ASSUME NEW P \in Seq(Order), NEW M \in Seq(Order), NEW Q \in Seq(Order), NEW C, C = (P \o M) \o Q, NEW B, B = P \o Q,
         \A x \in 1 .. Len(M) : M[x].cmd # "prompt"
  PROVE  /\ B \in Seq(Order) /\ C \in Seq(Order)
         /\ \E g : TakenOut(C, B, g)
  <1> DEFINE m == Len(P)  q == Len(M)
             g == [y \in 1 .. Len(B) |-> Skips(m, q, y)]
  <1>0. C \in Seq(Order) /\ B \in Seq(Order) /\ m \in Nat /\ q \in Nat /\ Gap(C, B, M, m, q) BY Between
  <1>1. /\ C \in Seq(Order) /\ B \in Seq(Order) /\ m \in Nat /\ q \in Nat /\ Len(B) \in Nat /\ Len(C) \in Nat
        /\ \A x \in 1 .. Len(B) : Skips(m, q, x) \in 1 .. Len(C) /\ C[Skips(m, q, x)] = B[x] /\ Skipped(m, q, Skips(m, q, x)) = x
        /\ \A x \in 1 .. Len(C) : Skipped(m, q, x) = 0 => x > m /\ x <= m + q /\ x - m \in 1 .. q /\ C[x] = M[x - m]
        /\ \A x \in 1 .. Len(C) : Skipped(m, q, x) # 0 => Skipped(m, q, x) \in 1 .. Len(B) /\ C[x] = B[Skipped(m, q, x)] /\ Skips(m, q, Skipped(m, q, x)) = x
    <2> HIDE DEF m, q
    <2>1. Len(B) \in Nat /\ Len(C) \in Nat BY <1>0
    <2> QED BY <1>0, <2>1 DEF Gap
  <1> HIDE DEF m, q
  <1>2. \A y \in 1 .. Len(B) : g[y] = Skips(m, q, y) /\ y \in Nat OBVIOUS
  <1>3. \A y \in 1 .. Len(B) : g[y] # 0 /\ g[y] \in 0 .. Len(C) /\ B[y] = C[g[y]]
    <2> TAKE y \in 1 .. Len(B)
    <2>1. Skips(m, q, y) \in 1 .. Len(C) /\ C[Skips(m, q, y)] = B[y] BY <1>1
    <2>2. Len(C) \in Nat BY <1>1
    <2> QED BY <1>2, <2>1, <2>2
  <1>4. g \in [1 .. Len(B) -> 0 .. Len(C)] BY <1>3
  <1> HIDE DEF g
  <1>5. \A x, y \in 1 .. Len(B) : x < y => g[x] < g[y] BY <1>1, <1>2, InTurn
  <1>7. Comes(C, B, g) BY <1>3, <1>4, <1>5 DEF Comes
  <1>8. KeepsPrompts(C, B, g)
    <2> SUFFICES ASSUME NEW z \in Prompts(C) PROVE \E y \in 1 .. Len(B) : g[y] = z BY DEF KeepsPrompts
    <2>1. z \in 1 .. Len(C) /\ C[z].cmd = "prompt" BY DEF Prompts
    <2>2. Skipped(m, q, z) # 0 BY <1>1, <2>1, ZenonT(60) DEF q
    <2>3. Skipped(m, q, z) \in 1 .. Len(B) /\ Skips(m, q, Skipped(m, q, z)) = z BY <1>1, <2>1, <2>2
    <2> QED BY <1>2, <2>3
  <1>9. \A t, s : NewOrders(B, g, t, s) BY <1>3 DEF NewOrders
  <1>10. TakenOut(C, B, g) BY <1>7, <1>8, <1>9 DEF TakenOut
  <1> QED BY <1>1, <1>10

\* Lines that tell nothing put between the others, ...
CarriesAll(F, G, h) == Carries(F, G, h) /\ KeepsRenewals(F, G, h) /\ KeepsTalk(F, G, h, 0) /\ (Renewed(F) => Renewed(G))
\* ... leave all talk as it was.
LEMMA PutCarries ==
  ASSUME NEW P \in Seq(Line), NEW M \in Seq(Line), NEW Q \in Seq(Line), NEW G, G = (P \o M) \o Q, NEW F, F = P \o Q,
         \A x \in 1 .. Len(M) : M[x].line \in {"running", "start", "settled"}
  PROVE  /\ F \in Seq(Line) /\ G \in Seq(Line)
         /\ \E h : CarriesAll(F, G, h)
  <1> DEFINE m == Len(P)  q == Len(M)
             h == [y \in 1 .. Len(G) |-> Skipped(m, q, y)]
  <1>0. G \in Seq(Line) /\ F \in Seq(Line) /\ m \in Nat /\ q \in Nat /\ Gap(G, F, M, m, q) BY Between
  <1>1. /\ G \in Seq(Line) /\ F \in Seq(Line) /\ m \in Nat /\ q \in Nat /\ Len(F) \in Nat /\ Len(G) \in Nat
        /\ \A x \in 1 .. Len(F) : Skips(m, q, x) \in 1 .. Len(G) /\ G[Skips(m, q, x)] = F[x] /\ Skipped(m, q, Skips(m, q, x)) = x
        /\ \A x \in 1 .. Len(G) : Skipped(m, q, x) = 0 => x > m /\ x <= m + q /\ x - m \in 1 .. q /\ G[x] = M[x - m]
        /\ \A x \in 1 .. Len(G) : Skipped(m, q, x) # 0 => Skipped(m, q, x) \in 1 .. Len(F) /\ G[x] = F[Skipped(m, q, x)] /\ Skips(m, q, Skipped(m, q, x)) = x
    <2> HIDE DEF m, q
    <2>1. Len(F) \in Nat /\ Len(G) \in Nat BY <1>0
    <2> QED BY <1>0, <2>1 DEF Gap
  <1> HIDE DEF m, q
  <1>2. \A y \in 1 .. Len(G) : h[y] = Skipped(m, q, y) /\ y \in Nat OBVIOUS
  <1>3. \A y \in 1 .. Len(G) : Skipped(m, q, y) \in 0 .. Len(F)
    <2> TAKE y \in 1 .. Len(G)
    <2>1. Len(F) \in Nat BY <1>1
    <2>2. Skipped(m, q, y) # 0 => Skipped(m, q, y) \in 1 .. Len(F) BY <1>1
    <2> QED BY <2>1, <2>2
  <1>4. h \in [1 .. Len(G) -> 0 .. Len(F)] BY <1>3
  <1> HIDE DEF h
  <1>5. ASSUME NEW x \in 1 .. Len(G), NEW y \in 1 .. Len(G), x < y, h[x] # 0, h[y] # 0 PROVE h[x] < h[y]
    <2>1. h[x] = Skipped(m, q, x) /\ h[y] = Skipped(m, q, y) /\ x \in Nat /\ y \in Nat BY <1>2
    <2> QED BY <1>1, <1>5, <2>1, InTurn
  <1>6. ASSUME NEW x \in 1 .. Len(G) PROVE IF h[x] = 0 THEN G[x].line \in {"running", "start", "settled"} ELSE G[x] = F[h[x]]
    <2>1. h[x] = Skipped(m, q, x) BY <1>2
    <2>2. CASE h[x] = 0
      <3>1. x - m \in 1 .. q /\ G[x] = M[x - m] BY <1>1, <2>1, <2>2
      <3>2. x - m \in 1 .. Len(M) BY <3>1 DEF q
      <3>3. M[x - m].line \in {"running", "start", "settled"} BY <3>2
      <3> QED BY <2>2, <3>1, <3>3
    <2>3. CASE h[x] # 0 BY <1>1, <2>1, <2>3
    <2> QED BY <2>2, <2>3
  <1>7. Carries(F, G, h) BY <1>4, <1>5, <1>6 DEF Carries
  <1>8. ASSUME NEW z \in 1 .. Len(F) PROVE \E y \in 1 .. Len(G) : h[y] = z /\ G[y] = F[z]
    <2>2. Skips(m, q, z) \in 1 .. Len(G) /\ Skipped(m, q, Skips(m, q, z)) = z /\ G[Skips(m, q, z)] = F[z] BY <1>1
    <2> QED BY <1>2, <2>2
  <1>9. KeepsRenewals(F, G, h) BY <1>8 DEF KeepsRenewals
  <1>10. KeepsTalk(F, G, h, 0) BY <1>8 DEF KeepsTalk
  <1>11. Renewed(F) => Renewed(G) BY <1>8 DEF Renewed
  <1>12. CarriesAll(F, G, h) BY <1>7, <1>9, <1>10, <1>11 DEF CarriesAll
  <1> QED BY <1>1, <1>12

--------------------------------------------------------------------------
(* A tab that opens and bootstraps                                         *)

\* A chat that opens shows nothing and has nothing to hear.
LEMMA StraightOpens ==
  ASSUME NEW F, NEW C, NEW p, NEW k, NEW linked, Straight(F, C, None, p, k, linked), NewTab # None
  PROVE  Straight(F, C, NewTab, p, k, linked)
  <1>1. Ordered(F, C, None, p, k) BY DEF Straight
  <1>2. NewTab.boots = {} /\ NewTab.optimistic = {} /\ ~NewTab.booted /\ NewTab.shown = <<>> BY DEF NewTab
  <1>3. Prompts(C) = {} BY <1>1 DEF Ordered, Gens, Prompts
  <1>4. InOrder(F, C, NewTab) BY <1>1, <1>2 DEF Ordered, InOrder
  <1>5. Gens(F, C, NewTab) BY <1>1, <1>2 DEF Ordered, Gens
  <1>6. Older(NewTab.shown, k) /\ Once(NewTab.shown)
    <2>1. \A i \in 1 .. Len(NewTab.shown) : FALSE BY <1>2
    <2> QED BY <2>1 DEF Older, Once
  <1>7. Numbers(F, C, NewTab, p, k) BY <1>1, <1>6 DEF Ordered, Numbers
  <1>8. Ordered(F, C, NewTab, p, k) BY <1>1, <1>4, <1>5, <1>7 DEF Ordered
  <1>9. Confirms(F, C, NewTab, p) /\ StillTyped(C, NewTab) BY <1>2, <1>3 DEF Confirms, StillTyped
  <1>10. Shows(F, C, NewTab, p) /\ WillShow(F, C, NewTab, p) BY <1>2 DEF Shows, WillShow, Asking
  <1> QED BY <1>8, <1>9, <1>10 DEF Straight

\* A tab that bootstraps is the tab it was, with one bootstrap more.
LEMMA BootsAgain ==
  ASSUME NEW t, t # None, TabRight(t), \A b, c \in t.boots : b.gen = c.gen => b = c, NEW s, s = Booting(t)
  PROVE  s # None /\ TabRight(s) /\ s.gen = t.gen + 1 /\ Reboots(t, s)
  <1>1. TabRight(Booting(t)) /\ Booting(t).gen = t.gen + 1 BY BootingKeeps
  <1>2. s # None BY <1>1, ChatAssumption DEF TabRight
  <1> DEFINE n == [gen |-> t.gen + 1, state |-> None, messages |-> None]
  <1>3. t \in TabRec /\ t.gen \in Nat BY DEF TabRight, TabRec
  <1>4. s.boots = t.boots \cup {n} /\ s.shown = t.shown /\ s.optimistic = t.optimistic /\ s.booted = t.booted BY <1>3 DEF Booting, TabRec
  <1>5. n.gen = t.gen + 1 /\ n.messages = None OBVIOUS
  <1> HIDE DEF n
  <1>6. t.gen < s.gen BY <1>1, <1>3
  <1>7. Asking(s) BY <1>1, <1>4, <1>5 DEF Asking
  <1>8. \A b \in s.boots : b \in t.boots \/ (b.messages = None /\ t.gen < b.gen) BY <1>1, <1>4, <1>5, <1>6
  <1>9. \A b, c \in s.boots : b.gen = c.gen => b = c
    <2>1. \A b \in t.boots : b.gen # n.gen
      <3> TAKE b \in t.boots
      <3>1. b.gen \in 1 .. t.gen BY DEF TabRight
      <3> QED BY <1>3, <1>5, <3>1
    <2> QED BY <1>4, <2>1
  <1> QED BY <1>1, <1>2, <1>4, <1>6, <1>7, <1>8, <1>9 DEF Reboots

\* What it asks may come before what it asked before and after that.
LEMMA AsksPut ==
  ASSUME NEW P \in Seq(Order), NEW Q \in Seq(Order), NEW t, t # None, NEW s, s # None, t.gen \in Nat, s.gen \in Nat, t.gen < s.gen,
         NEW B, B = (P \o Asks(s)) \o Q, NEW C, C = P \o Q, NEW g, PutIn(P, Asks(s), C, B, g)
  PROVE  NewOrders(B, g, t, s)
  <1>1. /\ Len(Asks(s)) = 2 /\ Asks(s)[1].cmd = "state" /\ Asks(s)[2].cmd = "messages"
        /\ Asks(s)[1].for = s.gen /\ Asks(s)[2].for = s.gen
    BY DEF Asks, Command
  <1> DEFINE m == Len(P)
  <1>2. m \in Nat OBVIOUS
  <1>3. ASSUME NEW y \in 1 .. Len(B), g[y] = 0
        PROVE  /\ (y = m + 1 /\ B[y].cmd = "state") \/ (y = m + 2 /\ B[y].cmd = "messages")
               /\ B[y].for = s.gen
    <2>1. y - m \in 1 .. Len(Asks(s)) /\ B[y] = Asks(s)[y - m] BY <1>3 DEF PutIn
    <2> HIDE DEF m
    <2>2. y \in Int OBVIOUS
    <2>3. y - m = 1 \/ y - m = 2 BY <1>1, <1>2, <2>1, <2>2
    <2>4. CASE y - m = 1
      <3>1. y = m + 1 BY <1>2, <2>2, <2>4
      <3> QED BY <1>1, <2>1, <2>4, <3>1
    <2>5. CASE y - m = 2
      <3>1. y = m + 2 BY <1>2, <2>2, <2>5
      <3> QED BY <1>1, <2>1, <2>5, <3>1
    <2> QED BY <2>3, <2>4, <2>5
  <1> HIDE DEF m
  <1>4. ASSUME NEW y \in 1 .. Len(B), g[y] = 0 PROVE B[y].cmd \in {"state", "messages"} /\ t.gen < B[y].for /\ B[y].for <= s.gen
    <2>1. s.gen <= s.gen OBVIOUS
    <2> QED BY <1>3, <1>4, <2>1
  <1>5. ASSUME NEW x \in 1 .. Len(B), NEW y \in 1 .. Len(B), g[x] = 0, g[y] = 0, B[x].cmd = "messages", B[y].cmd = "state" PROVE y < x
    <2>1. x = m + 2 BY <1>3, <1>5
    <2>2. y = m + 1 BY <1>3, <1>5
    <2> QED BY <1>2, <2>1, <2>2
  <1> QED BY <1>4, <1>5 DEF NewOrders

\* A tab that bootstraps, behind all it asked if it has bootstrapped before.
LEMMA StraightAsks ==
  ASSUME NEW F \in Seq(Line), NEW P \in Seq(Order), NEW Q \in Seq(Order), NEW t, t # None, TabRight(t),
         NEW s, s = Booting(t), NEW C, C = P \o Q, NEW B, B = (P \o Asks(s)) \o Q, t.booted => Q = <<>>,
         NEW p, NEW k, NEW linking, Ordered(F, C, t, p, k), Confirms(F, C, t, p),
         \A y \in Prompts(C) : t.booted \/ Typed(C[y]) \in t.optimistic
  PROVE  s # None /\ TabRight(s) /\ Straight(F, B, s, p, k, linking)
  <1>2. \A b, c \in t.boots : b.gen = c.gen => b = c BY DEF Ordered, Gens
  <1>3. s # None /\ TabRight(s) /\ s.gen = t.gen + 1 /\ Reboots(t, s) BY <1>2, BootsAgain
  <1>4. t.gen \in Nat /\ s.gen \in Nat /\ t.gen < s.gen BY <1>3 DEF TabRight, TabRec, Reboots
  <1>5. Asks(s) \in Seq(Order) BY <1>4, AsksAre
  <1>6. B \in Seq(Order) /\ C \in Seq(Order) /\ \E g : PutIn(P, Asks(s), C, B, g) BY <1>5, PutComes
  <1>7. PICK g : PutIn(P, Asks(s), C, B, g) BY <1>6
  <1>8. Comes(C, B, g) /\ KeepsPrompts(C, B, g) BY <1>7 DEF PutIn
  <1>9. NewOrders(B, g, t, s) BY <1>3, <1>4, <1>7, AsksPut
  <1>10. ASSUME t.booted, NEW x \in 1 .. Len(B), NEW y \in 1 .. Len(B), g[x] = 0, B[y].cmd = "prompt" PROVE y < x
    <2>1. g[y] # 0 BY <1>9, <1>10 DEF NewOrders
    <2>2. B = P \o Asks(s) BY <1>5, <1>10
    <2>3. Len(B) = Len(P) + Len(Asks(s)) BY <1>5, <2>2
    <2> QED BY <1>7, <1>10, <2>1, <2>3 DEF PutIn
  <1>11. t.booted => \A x, y \in 1 .. Len(B) : g[x] = 0 /\ B[y].cmd = "prompt" => y < x BY <1>10
  <1> QED BY <1>3, <1>6, <1>8, <1>9, <1>11, StraightReboots, ZenonT(60)

\* A chat that has never bootstrapped bootstraps.
LEMMA StraightBoots ==
  ASSUME NEW F \in Seq(Line), NEW P \in Seq(Order), NEW Q \in Seq(Order), NEW t, t # None, TabRight(t), ~t.booted,
         NEW s, s = Booting(t), NEW C, C = P \o Q, NEW B, B = (P \o Asks(s)) \o Q,
         NEW p, NEW k, NEW linked, NEW linking, Straight(F, C, t, p, k, linked)
  PROVE  s # None /\ TabRight(s) /\ Straight(F, B, s, p, k, linking)
  <1>1. Ordered(F, C, t, p, k) /\ Confirms(F, C, t, p) /\ StillTyped(C, t) BY DEF Straight
  <1>2. \A y \in Prompts(C) : t.booted \/ Typed(C[y]) \in t.optimistic BY <1>1 DEF StillTyped
  <1> QED BY <1>1, <1>2, StraightAsks

\* A chat that has a new session is emptied, ...
Emptied(t) == [t EXCEPT !.shown = <<>>, !.optimistic = {}, !.streaming = FALSE]
\* ... is still a tab, ...
LEMMA EmptiedIs ==
  ASSUME NEW t \in TabRec
  PROVE  LET r == Emptied(t) IN
         r \in TabRec /\ r.shown = <<>> /\ r.optimistic = {} /\ r.gen = t.gen /\ r.booted = t.booted /\ r.boots = t.boots
  <1>1. <<>> \in Seq(Msg) OBVIOUS
  <1> QED BY <1>1 DEF TabRec, Emptied

\* ... and bootstraps.
LEMMA StraightRefreshes ==
  ASSUME NEW F \in Seq(Line), F # <<>>, NEW C \in Seq(Order), NEW t, t # None, TabRight(t),
         NEW p, NEW k, NEW linked, NEW linking, Straight(F, C, t, p, k, linked), Renews(F[1])
  PROVE  LET s == Booting(Emptied(t)) IN s # None /\ TabRight(s) /\ Straight(Tail(F), C \o Asks(s), s, p, k, linking)
  <1> DEFINE G == Tail(F)  r == Emptied(t)  s == Booting(r)  B == C \o Asks(s)
  <1>1. t \in TabRec /\ t.boots \subseteq Boot /\ t.gen \in Nat BY DEF TabRight, TabRec
  <1>2. r \in TabRec /\ r.shown = <<>> /\ r.optimistic = {} /\ r.gen = t.gen /\ r.booted = t.booted /\ r.boots = t.boots
    BY <1>1, EmptiedIs
  <1>3. TabRight(r) /\ r # None BY <1>2, ChatAssumption DEF TabRight
  <1>4. Ordered(G, C, r, p, k) /\ Confirms(G, C, r, p) /\ r.booted BY <1>2, <1>3, OrderedRefreshed
  <1>5. G \in Seq(Line) BY Shorter
  <1>6. r.gen + 1 \in Nat /\ s.gen = r.gen + 1 BY <1>1, <1>2, <1>3, BootingKeeps
  <1>7. Asks(s) \in Seq(Order) BY <1>6, AsksAre
  <1>8. <<>> \in Seq(Order) /\ B = (C \o Asks(s)) \o <<>> /\ C = C \o <<>> BY <1>7
  <1>9. \A y \in Prompts(C) : r.booted \/ Typed(C[y]) \in r.optimistic BY <1>4
  <1> QED BY <1>3, <1>4, <1>5, <1>8, <1>9, StraightAsks

--------------------------------------------------------------------------
(* The steps of the tab                                                    *)

\* A chat from which nothing was taken that adapters cannot mend is straight, and one that has
\* bootstrapped waits for nothing while it has no connection.
ChatInStep ==
    /\ conn = None /\ tab # None /\ tab.booted /\ ~excused => tab.boots = {}
    /\ ~excused => Straight(Flow, Orders, tab, pi, left.prompt, conn # None)

\* What is counted has a place.
Counted == "prompt" \in DOMAIN left

\* A prompt that is spent is one less, and nothing else spends one.
LEMMA Spending ==
  ASSUME Counted, NEW q, Spend(q)
  PROVE  /\ q # "prompt" => left'.prompt = left.prompt
         /\ q = "prompt" => left.prompt > 0 /\ left'.prompt = left.prompt - 1
  BY DEF Counted, Spend

\* What is on its way is lines and commands.
LEMMA WaysAre ==
  ASSUME ChatTypes
  PROVE  /\ stdin \in Seq(Order) /\ up \in Seq(Order) /\ unsent \in Seq(Order) /\ Orders \in Seq(Order)
         /\ stdout \in Seq(Line) /\ down \in Seq(Line) /\ Flow \in Seq(Line)
  <1>1. up \in Seq(Order) /\ unsent \in Seq(Order) /\ stdout \in Seq(Line) /\ down \in Seq(Line) /\ stdin \in Seq(TakenOrder)
    BY DEF ChatTypes
  <1>2. stdin \in Seq(Order)
    <2>1. TakenOrder \subseteq Order BY DEF TakenOrder
    <2> QED BY <1>1, <2>1, SeqMonotonic
  <1> QED BY <1>1, <1>2 DEF Orders, Flow

\* Commands behind commands behind commands.
LEMMA Regrouped ==
  ASSUME NEW a \in Seq(Order), NEW b \in Seq(Order), NEW c \in Seq(Order)
  PROVE  (a \o b) \o c = a \o (b \o c)
  BY ConcatAssociative

\* What the tab sends comes after all it sent.
LEMMA SentLast ==
  ASSUME ChatTypes, NEW cmds \in Seq(Order), Send(cmds), stdin' = stdin
  PROVE  Orders' = Orders \o cmds
  <1>1. stdin \in Seq(Order) /\ up \in Seq(Order) /\ unsent \in Seq(Order) BY WaysAre
  <1> DEFINE U == stdin \o up
  <1>2. U \in Seq(Order) /\ Orders = U \o unsent BY <1>1 DEF Orders
  <1>3. CASE conn # None
    <2>1. up' = up \o cmds /\ unsent' = unsent /\ unsent = <<>> BY <1>3 DEF Send, ChatTypes
    <2>2. Orders' = (stdin \o (up \o cmds)) \o <<>> BY <2>1 DEF Orders
    <2>3. stdin \o (up \o cmds) = U \o cmds BY <1>1, ConcatAssociative, SMTT(60)
    <2>4. U \o cmds \in Seq(Order) BY <1>2
    <2>5. (U \o cmds) \o <<>> = U \o cmds BY <2>4, ConcatEmptySeq
    <2>6. Orders = U BY <1>2, <2>1, ConcatEmptySeq
    <2> QED BY <2>2, <2>3, <2>5, <2>6
  <1>4. CASE conn = None
    <2>1. up' = up /\ unsent' = unsent \o cmds BY <1>4 DEF Send
    <2>2. Orders' = U \o (unsent \o cmds) BY <2>1 DEF Orders
    <2> HIDE DEF U
    <2>3. U \o (unsent \o cmds) = (U \o unsent) \o cmds BY <1>1, <1>2, Regrouped
    <2> QED BY <1>2, <2>2, <2>3
  <1> QED BY <1>3, <1>4

\* A tab that bootstraps for the first time, once it has sent what it asks.
LEMMA StraightFirst ==
  ASSUME NEW F \in Seq(Line), NEW C \in Seq(Order), NEW t, t # None, TabRight(t), ~t.booted, NEW s, s = Booting(t),
         NEW p, NEW k, NEW linked, NEW linking, Straight(F, C, t, p, k, linked)
  PROVE  /\ s # None /\ TabRight(s) /\ ~s.booted /\ Asks(s) \in Seq(Order) /\ C \o Asks(s) \in Seq(Order)
         /\ Straight(F, C \o Asks(s), s, p, k, linking)
  <1>1. TabRight(s) /\ s.gen = t.gen + 1 /\ t.gen \in Nat BY BootingKeeps DEF TabRight, TabRec
  <1>2. Asks(s) \in Seq(Order)
    <2>1. s.gen \in Nat BY <1>1
    <2> QED BY <2>1, AsksAre
  <1>3. <<>> \in Seq(Order) /\ C \o <<>> = C /\ C \o Asks(s) \in Seq(Order) /\ (C \o Asks(s)) \o <<>> = C \o Asks(s)
    BY <1>2, ConcatEmptySeq
  <1>4. s # None /\ Straight(F, C \o Asks(s), s, p, k, linking)
    <2> DEFINE B == C \o Asks(s)
    <2>1. B = (C \o Asks(s)) \o <<>> /\ C = C \o <<>> /\ <<>> \in Seq(Order) BY <1>3
    <2> HIDE DEF B
    <2>3. Ordered(F, C, t, p, k) /\ Confirms(F, C, t, p) /\ \A y \in Prompts(C) : t.booted \/ Typed(C[y]) \in t.optimistic
      BY DEF Straight, StillTyped
    <2>2. s # None /\ Straight(F, B, s, p, k, linking) BY <2>1, <2>3, StraightAsks
    <2> QED BY <2>2 DEF B
  <1>5. s.booted = t.booted
    <2>1. t \in TabRec BY DEF TabRight
    <2> QED BY <2>1 DEF Booting, TabRec
  <1> QED BY <1>1, <1>2, <1>3, <1>4, <1>5

\* The chat is opened.
LEMMA OpenInStep ==
  ASSUME ChatTypes, Counted, ChatInStep, OpenChat
  PROVE  ChatInStep'
  <1> DEFINE b1 == Booting(NewTab)  b2 == Booting(b1)  k == left.prompt
  <1>1. /\ tab = None /\ UNCHANGED <<pi, stdin, stdout, conn, down, excused>> /\ left'.prompt = k
        /\ tab' = IF conn # None THEN b2 ELSE b1
        /\ Send(IF conn # None THEN Asks(b1) \o Asks(b2) ELSE Asks(b1))
    BY Spending DEF OpenChat
  <1>2. Flow \in Seq(Line) /\ Orders \in Seq(Order) BY WaysAre
  <1>3. Flow' = Flow BY <1>1 DEF Flow
  <1>4. TabRight(NewTab) /\ NewTab # None /\ ~NewTab.booted
    <2>1. ~NewTab.booted BY DEF NewTab
    <2>2. NewTab \in TabRec BY NewTabRight DEF TabRight
    <2> QED BY <2>1, <2>2, NewTabRight, ChatAssumption
  <1> HIDE DEF k
  <1>5. TabRight(b1) /\ TabRight(b2) /\ ~b1.booted /\ ~b2.booted /\ Asks(b1) \in Seq(Order) /\ Asks(b2) \in Seq(Order)
    <2>1. TabRight(b1) /\ TabRight(b2) BY <1>4, BootingKeeps
    <2>2. b1 \in TabRec /\ b2 \in TabRec /\ b1.gen \in Nat /\ b2.gen \in Nat BY <2>1 DEF TabRight, TabRec
    <2>3. ~b1.booted /\ ~b2.booted BY <1>4, NewTabRight, <2>1 DEF Booting, TabRight, TabRec
    <2> QED BY <2>1, <2>2, <2>3, AsksAre
  <1>6. ~tab'.booted BY <1>1, <1>5
  <1>7. ASSUME ~excused PROVE Straight(Flow, Orders', tab', pi, k, conn # None)
    <2>1. Straight(Flow, Orders, NewTab, pi, k, conn # None) BY <1>1, <1>4, <1>7, StraightOpens DEF ChatInStep, k
    <2>2. /\ b1 # None /\ Orders \o Asks(b1) \in Seq(Order)
          /\ Straight(Flow, Orders \o Asks(b1), b1, pi, k, conn # None)
      BY <1>2, <1>4, <2>1, StraightFirst
    <2> HIDE DEF b1
    <2>3. Straight(Flow, (Orders \o Asks(b1)) \o Asks(b2), b2, pi, k, conn # None)
      BY <1>2, <1>5, <2>2, StraightFirst
    <2>4. CASE conn # None
      <3>1. Orders' = Orders \o (Asks(b1) \o Asks(b2))
        <4>1. Asks(b1) \o Asks(b2) \in Seq(Order) BY <1>5
        <4> QED BY <1>1, <2>4, <4>1, SentLast
      <3>2. Orders' = (Orders \o Asks(b1)) \o Asks(b2) BY <1>2, <1>5, <3>1, Regrouped
      <3> QED BY <1>1, <2>3, <2>4, <3>2
    <2>5. CASE conn = None
      <3>1. Orders' = Orders \o Asks(b1) BY <1>1, <1>5, <2>5, SentLast
      <3> QED BY <1>1, <2>2, <2>5, <3>1
    <2> QED BY <2>4, <2>5
  <1> QED BY <1>1, <1>3, <1>6, <1>7 DEF ChatInStep, k

\* A prompt is typed.
LEMMA PromptInStep ==
  ASSUME ChatTypes, Quotas, Counted, ChatInStep, Prompt
  PROVE  ChatInStep'
  <1> DEFINE k == left.prompt  u == Message("user", k)  c == Command("prompt", k, tab.streaming)
  <1>1. /\ tab # None /\ k > 0 /\ left'.prompt = k - 1 /\ UNCHANGED <<pi, stdin, stdout, conn, down>>
        /\ tab' = [tab EXCEPT !.shown = Append(@, u), !.optimistic = @ \cup {u}]
        /\ Send(<<c>>)
    BY Spending DEF Prompt
  <1>2. ~excused' => /\ ~excused /\ ~pi.busy /\ ~Saying(down) /\ ~Saying(stdout)
                     /\ \A d \in Range(up) \cup Range(stdin) \cup Range(unsent) : d.cmd # "prompt"
    BY DEF Prompt
  <1>3. TabRight(tab) /\ k \in Nat BY <1>1 DEF ChatTypes, Quotas
  <1>4. c \in Order /\ c.cmd = "prompt" /\ c.for = k /\ Typed(c) = u
    <2>1. tab.streaming \in BOOLEAN BY <1>3 DEF TabRight, TabRec
    <2> QED BY <1>3, <2>1 DEF Command, Order, Typed
  <1>5. u \in Typing /\ u \in Msg BY <1>3 DEF Message, Msg, Typing
  <1> HIDE DEF k, u, c
  <1>6. /\ tab' # None /\ tab'.shown = Append(tab.shown, u) /\ tab'.optimistic = tab.optimistic \cup {u}
        /\ tab'.boots = tab.boots /\ tab'.gen = tab.gen /\ tab'.booted = tab.booted
    <2>1. tab \in TabRec /\ tab.shown \in Seq(Msg) /\ tab.optimistic \in SUBSET Typing BY <1>3 DEF TabRight, TabRec
    <2>2. Append(tab.shown, u) \in Seq(Msg) /\ tab.optimistic \cup {u} \in SUBSET Typing BY <1>5, <2>1
    <2>3. tab' \in TabRec /\ tab'.shown = Append(tab.shown, u) /\ tab'.optimistic = tab.optimistic \cup {u}
          /\ tab'.boots = tab.boots /\ tab'.gen = tab.gen /\ tab'.booted = tab.booted
      BY <1>1, <2>1, <2>2 DEF TabRec
    <2> QED BY <2>3, ChatAssumption
  <1>7. stdin \in Seq(Order) /\ up \in Seq(Order) /\ unsent \in Seq(Order) /\ Orders \in Seq(Order)
        /\ stdout \in Seq(Line) /\ down \in Seq(Line) /\ Flow \in Seq(Line)
    BY WaysAre
  <1>8. Orders' = Append(Orders, c) /\ Orders' \in Seq(Order)
    <2>1. <<c>> \in Seq(Order) /\ Orders \o <<c>> = Append(Orders, c) BY <1>4, <1>7
    <2>2. Orders' = Orders \o <<c>> BY <1>1, <2>1, SentLast
    <2>3. Append(Orders, c) \in Seq(Order) BY <1>4, <1>7
    <2> QED BY <2>1, <2>2, <2>3
  <1>9. Flow' = Flow /\ pi' = pi BY <1>1 DEF Flow
  <1>10. ASSUME ~excused' PROVE Straight(Flow, Orders', tab', pi, k - 1, conn # None)
    <2>1. ~pi.busy /\ Straight(Flow, Orders, tab, pi, k, conn # None) BY <1>2, <1>10 DEF ChatInStep, k
    <2>2. \A x \in 1 .. Len(Flow) : ~Talks(Flow[x])
      <3>1. /\ \A x \in 1 .. Len(down) : ~Talks(down[x])
            /\ \A x \in 1 .. Len(stdout) : ~Talks(stdout[x])
        <4>1. DOMAIN down = 1 .. Len(down) /\ DOMAIN stdout = 1 .. Len(stdout) BY <1>7
        <4> QED BY <1>2, <1>10, <4>1 DEF Saying, Talks
      <3> TAKE x \in 1 .. Len(Flow)
      <3>2. \/ x \in 1 .. Len(down) /\ Flow[x] = down[x]
            \/ x - Len(down) \in 1 .. Len(stdout) /\ Flow[x] = stdout[x - Len(down)]
        BY <1>7, Joined DEF Flow
      <3> QED BY <3>1, <3>2
    <2>3. Prompts(Orders) = {}
      <3>1. /\ \A x \in 1 .. Len(stdin) : stdin[x].cmd # "prompt"
            /\ \A x \in 1 .. Len(up) : up[x].cmd # "prompt"
            /\ \A x \in 1 .. Len(unsent) : unsent[x].cmd # "prompt"
        <4>1. \A q \in Seq(Order) : Range(q) = {q[x] : x \in 1 .. Len(q)} BY RangeEquality
        <4> QED BY <1>2, <1>7, <1>10, <4>1
      <3>2. \A x \in 1 .. Len(stdin \o up) : (stdin \o up)[x].cmd # "prompt"
        <4> TAKE x \in 1 .. Len(stdin \o up)
        <4>1. \/ x \in 1 .. Len(stdin) /\ (stdin \o up)[x] = stdin[x]
              \/ x - Len(stdin) \in 1 .. Len(up) /\ (stdin \o up)[x] = up[x - Len(stdin)]
          BY <1>7, Joined
        <4> QED BY <3>1, <4>1
      <3> SUFFICES ASSUME NEW x \in 1 .. Len(Orders) PROVE Orders[x].cmd # "prompt" BY DEF Prompts
      <3> DEFINE U == stdin \o up
      <3>3. U \in Seq(Order) /\ Orders = U \o unsent BY <1>7 DEF Orders
      <3> HIDE DEF U
      <3>4. \/ x \in 1 .. Len(U) /\ Orders[x] = U[x]
            \/ x - Len(U) \in 1 .. Len(unsent) /\ Orders[x] = unsent[x - Len(U)]
        BY <1>7, <3>3, Joined
      <3> QED BY <3>1, <3>2, <3>4 DEF U
    <2>4. PiRight(pi) BY DEF ChatTypes
    <2> QED BY <1>1, <1>3, <1>4, <1>6, <1>7, <1>8, <2>1, <2>2, <2>3, <2>4, StraightTyped, ZenonT(60)
  <1> QED BY <1>1, <1>2, <1>6, <1>9, <1>10 DEF ChatInStep, k

\* A new session is asked for.
LEMMA NewInStep ==
  ASSUME ChatTypes, Counted, ChatInStep, NewSession
  PROVE  ChatInStep'
  <1> DEFINE c == Command("new", None, FALSE)
  <1>1. /\ tab # None /\ tab.booted /\ left'.prompt = left.prompt /\ Send(<<c>>)
        /\ UNCHANGED <<pi, stdin, stdout, conn, down, tab, excused>>
    BY Spending DEF NewSession
  <1>2. c \in Order /\ c.cmd = "new" BY DEF Command, Order
  <1> HIDE DEF c
  <1>3. Flow \in Seq(Line) /\ Orders \in Seq(Order) BY WaysAre
  <1>4. TabRight(tab) BY <1>1 DEF ChatTypes
  <1> DEFINE M == <<c>>
  <1>5. M \in Seq(Order) /\ Len(M) = 1 /\ M[1] = c BY <1>2
  <1>6. Orders' = Orders \o M BY <1>1, <1>5, SentLast
  <1> HIDE DEF M
  <1>7. <<>> \in Seq(Order) /\ Orders \o M \in Seq(Order) /\ Orders' = (Orders \o M) \o <<>> /\ Orders = Orders \o <<>>
    BY <1>3, <1>5, <1>6, ConcatEmptySeq
  <1>8. Orders' \in Seq(Order) /\ \E g : PutIn(Orders, M, Orders, Orders', g)
    <2> DEFINE O == Orders  B == Orders'
    <2>1. B = (O \o M) \o <<>> /\ O = O \o <<>> /\ O \in Seq(Order) BY <1>3, <1>7
    <2> HIDE DEF O, B
    <2>2. B \in Seq(Order) /\ \E g : PutIn(O, M, O, B, g) BY <1>5, <1>7, <2>1, PutComes
    <2> QED BY <2>2 DEF O, B
  <1>9. PICK g : PutIn(Orders, M, Orders, Orders', g) BY <1>8
  <1> DEFINE B == Orders'
  <1>10. Comes(Orders, B, g) /\ KeepsPrompts(Orders, B, g) BY <1>9 DEF PutIn
  <1>11. ASSUME NEW y \in 1 .. Len(B), g[y] = 0 PROVE B[y].cmd = "new"
    <2>1. y - Len(Orders) \in 1 .. Len(M) /\ B[y] = M[y - Len(Orders)] BY <1>9, <1>11 DEF PutIn
    <2>2. y - Len(Orders) = 1 BY <1>5, <2>1
    <2> QED BY <1>2, <1>5, <2>1, <2>2
  <1>12. NewOrders(B, g, tab, tab) BY <1>1, <1>11 DEF NewOrders
  <1>13. B \in Seq(Order) BY <1>8
  <1>14. ASSUME ~excused PROVE Straight(Flow, B, tab, pi, left.prompt, conn # None)
    <2> DEFINE F == Flow  C == Orders  k == left.prompt  w == (conn # None)
    <2>1. Straight(F, C, tab, pi, k, w) BY <1>14 DEF ChatInStep
    <2>2. F \in Seq(Line) /\ C \in Seq(Order) /\ Comes(C, B, g) /\ KeepsPrompts(C, B, g) BY <1>3, <1>10
    <2> HIDE DEF F, C, k, w, B
    <2>3. Straight(F, B, tab, pi, k, w) BY <1>4, <1>12, <1>13, <2>1, <2>2, StraightComes
    <2> QED BY <2>3 DEF F, k, w
  <1>15. Flow' = Flow BY <1>1 DEF Flow
  <1> QED BY <1>1, <1>14, <1>15 DEF ChatInStep

\* What of a bootstrap is given up is not shown.
LEMMA TimeoutInStep ==
  ASSUME ChatTypes, Counted, ChatInStep, NEW b, BootTimesOut(b)
  PROVE  ChatInStep'
  <1>1. /\ tab # None /\ tab' = [tab EXCEPT !.boots = @ \ {b}] /\ excused' = (excused \/ tab.booted)
        /\ left'.prompt = left.prompt /\ UNCHANGED <<pi, stdin, stdout, conn, up, down, unsent>>
    BY Spending DEF BootTimesOut
  <1>2. tab \in TabRec /\ tab.boots \in SUBSET Boot BY <1>1 DEF ChatTypes, TabRight, TabRec
  <1>3. tab.boots \ {b} \in SUBSET Boot BY <1>2
  <1>4. /\ tab' \in TabRec /\ tab'.boots = tab.boots \ {b} /\ tab'.shown = tab.shown /\ tab'.optimistic = tab.optimistic
        /\ tab'.gen = tab.gen /\ tab'.booted = tab.booted
    BY <1>1, <1>2, <1>3 DEF TabRec
  <1>5. tab' # None /\ tab'.boots \subseteq tab.boots BY <1>4, ChatAssumption
  <1>6. Flow' = Flow /\ Orders' = Orders BY <1>1 DEF Flow, Orders
  <1>7. ASSUME ~excused' PROVE Straight(Flow, Orders, tab', pi, left.prompt, conn # None)
    <2> DEFINE F == Flow  C == Orders  k == left.prompt  w == (conn # None)  s == tab'
    <2>1. ~tab.booted /\ Straight(F, C, tab, pi, k, w) BY <1>1, <1>7 DEF ChatInStep
    <2>2. s # None /\ s.boots \subseteq tab.boots /\ s.shown = tab.shown /\ s.optimistic = tab.optimistic /\ s.gen = tab.gen /\ s.booted = tab.booted
      BY <1>4, <1>5
    <2> HIDE DEF F, C, k, w, s
    <2>3. Straight(F, C, s, pi, k, w) BY <1>1, <2>1, <2>2, StraightLess
    <2> QED BY <2>3 DEF F, C, k, w, s
  <1> QED BY <1>1, <1>4, <1>6, <1>7 DEF ChatInStep

\* The first of two sequences, one behind the other, and the rest.
LEMMA HeadOf ==
  ASSUME NEW T, NEW d \in Seq(T), NEW e \in Seq(T), d # <<>>, NEW F, F = d \o e
  PROVE  F \in Seq(T) /\ F # <<>> /\ F[1] = Head(d) /\ Head(d) \in T /\ Tail(F) = Tail(d) \o e
  <1>1. F \in Seq(T) /\ Len(d) \in Nat /\ Len(e) \in Nat /\ Len(F) = Len(d) + Len(e) /\ Len(d) >= 1 OBVIOUS
  <1>2. F # <<>> /\ F[1] = Head(d) /\ Head(d) \in T OBVIOUS
  <1>3. Tail(d) \in Seq(T) /\ Len(Tail(d)) = Len(d) - 1 /\ \A i \in 1 .. Len(Tail(d)) : Tail(d)[i] = d[i + 1] OBVIOUS
  <1> DEFINE A == Tail(F)  B == Tail(d) \o e
  <1>4. A \in Seq(T) /\ Len(A) = Len(F) - 1 /\ \A i \in 1 .. Len(A) : A[i] = F[i + 1] BY <1>1, <1>2
  <1>5. B \in Seq(T) /\ Len(B) = Len(d) - 1 + Len(e) BY <1>1, <1>3
  <1>6. ASSUME NEW i \in 1 .. Len(A) PROVE A[i] = B[i]
    <2>1. i \in Nat /\ i >= 1 /\ i + 1 \in 1 .. Len(F) /\ A[i] = F[i + 1] BY <1>1, <1>4
    <2>2. CASE i <= Len(d) - 1
      <3>1. F[i + 1] = d[i + 1] BY <1>1, <2>1, <2>2
      <3>2. B[i] = Tail(d)[i] BY <1>1, <1>3, <1>5, <2>1, <2>2
      <3> QED BY <1>3, <2>1, <2>2, <3>1, <3>2
    <2>3. CASE ~(i <= Len(d) - 1)
      <3>1. F[i + 1] = e[i + 1 - Len(d)] BY <1>1, <2>1, <2>3
      <3>2. B[i] = e[i - (Len(d) - 1)] BY <1>1, <1>3, <1>4, <1>5, <2>1, <2>3
      <3>3. i + 1 - Len(d) = i - (Len(d) - 1) BY <1>1, <2>1
      <3> QED BY <2>1, <3>1, <3>2, <3>3
    <2> QED BY <2>2, <2>3
  <1>7. A = B
    <2>1. Len(A) = Len(B) BY <1>1, <1>4, <1>5
    <2> HIDE DEF A, B
    <2> QED BY <1>4, <1>5, <1>6, <2>1, SeqEqual
  <1> QED BY <1>1, <1>2, <1>7

\* An answer that comes for a bootstrap.
LEMMA StraightAnswered ==
  ASSUME NEW F \in Seq(Line), F # <<>>, NEW G, G = Tail(F), NEW C, NEW t, t # None, TabRight(t), NEW p, NEW k,
         Straight(F, C, t, p, k, TRUE), F[1].line = "answer", F[1].to.cmd # "new", \E x \in t.boots : x.gen = F[1].to.for,
         NEW s, s = Answered(t, F[1].to, F[1].data)
  PROVE  s # None /\ Straight(G, C, s, p, k, TRUE)
  <1> DEFINE l == F[1]
             b == CHOOSE x \in t.boots : x.gen = l.to.for
             got == IF l.to.cmd = "state" THEN [b EXCEPT !.state = l.data] ELSE [b EXCEPT !.messages = l.data]
  <1>1. l \in Line /\ 1 \in 1 .. Len(F) OBVIOUS
  <1>2. b \in t.boots /\ b.gen = l.to.for OBVIOUS
  <1>3. t \in TabRec /\ t.boots \subseteq Boot /\ t.shown \in Seq(Msg) /\ t.optimistic \subseteq Range(t.shown) /\ t.optimistic \subseteq Typing
        /\ t.streaming \in BOOLEAN
    BY DEF TabRight, TabRec
  <1>4. s # None
    <2>1. TabRight(s) BY <1>1, AnsweredRight
    <2> QED BY <2>1, ChatAssumption DEF TabRight
  <1>5. s = IF got.state # None /\ got.messages # None THEN Booted(t, got) ELSE [t EXCEPT !.boots = (@ \ {b}) \cup {got}]
    BY DEF Answered
  <1>6. b \in Boot BY <1>2, <1>3
  <1> HIDE DEF b
  <1>7. /\ (l.to.cmd = "state" /\ l.data \in BOOLEAN) \/ (l.to.cmd = "messages" /\ l.data \in Seq(Msg))
    <2>1. l.to.cmd \in {"state", "messages", "new"} BY <1>1, LineIs
    <2>2. l.to.cmd = "state" => l.data \in BOOLEAN BY <1>1, LineIs
    <2>3. l.to.cmd = "messages" => l.data \in Seq(Msg) BY <1>1, LineIs
    <2> QED BY <2>1, <2>2, <2>3
  <1>8. /\ got \in Boot /\ got.gen = b.gen
        /\ (StateOf(l) /\ got.messages = b.messages) \/ (Snapshot(l) /\ got.messages = l.data /\ l.data \in Seq(Msg))
    <2>1. CASE l.to.cmd = "state" /\ l.data \in BOOLEAN
      <3>1. got \in Boot /\ got.gen = b.gen /\ got.messages = b.messages BY <1>6, <2>1 DEF Boot
      <3> QED BY <2>1, <3>1 DEF StateOf
    <2>2. CASE l.to.cmd = "messages" /\ l.data \in Seq(Msg)
      <3>1. got \in Boot /\ got.gen = b.gen /\ got.messages = l.data BY <1>6, <2>2 DEF Boot
      <3> QED BY <2>2, <3>1 DEF Snapshot
    <2> QED BY <1>7, <2>1, <2>2
  <1>9. ~Talks(l) /\ ~Renews(l) BY <1>7 DEF Talks, Renews
  <1>10. Straight(G, C, t, p, k, TRUE) BY <1>9, StraightHeard
  <1> HIDE DEF got
  <1>11. CASE got.state # None /\ got.messages # None /\ ~Current(t, got)
    <2> DEFINE bs == {x \in t.boots : x.gen # got.gen}
    <2>1. s = [t EXCEPT !.boots = bs] BY <1>5, <1>11 DEF Booted
    <2>2. bs \subseteq t.boots /\ bs \in SUBSET Boot BY <1>3
    <2>3. Asking(t) => \E x \in bs : x.gen = t.gen BY <1>11 DEF Asking, Current
    <2> HIDE DEF bs
    <2>4. s.boots = bs /\ s.shown = t.shown /\ s.optimistic = t.optimistic /\ s.gen = t.gen /\ s.booted = t.booted
      BY <1>3, <2>1, <2>2 DEF TabRec
    <2>5. s.boots \subseteq t.boots /\ (Asking(t) => Asking(s)) BY <2>2, <2>3, <2>4 DEF Asking
    <2> QED BY <1>4, <1>10, <2>4, <2>5, StraightLess
  <1>12. CASE got.state # None /\ got.messages # None /\ Current(t, got)
    <2>1. got.gen = t.gen /\ Asking(t) BY <1>2, <1>8, <1>12 DEF Current, Asking
    <2>2. ~StateOf(l) \/ got.messages # b.messages
      <3>1. InOrder(F, C, t) BY DEF Straight, Ordered
      <3> QED BY <1>1, <1>2, <1>12, <3>1 DEF InOrder
    <2>3. Snapshot(l) /\ got.messages = l.data /\ l.data \in Seq(Msg) BY <1>8, <2>2
    <2> DEFINE D == l.data  still == Pending(t, D)  over == [t EXCEPT !.boots = {x \in @ : x.gen # got.gen}]
               st == got.state \/ (still # <<>> /\ over.streaming)
               bs == {x \in t.boots : x.gen # t.gen}
    <2>4. still \in Seq(Msg) /\ Range(still) \subseteq Typing
      <3>1. still \in Seq(Msg) /\ Range(still) = t.optimistic \ Range(D) BY <1>3, PendingIs
      <3> QED BY <1>3, <3>1
    <2>5. s = [over EXCEPT !.shown = got.messages \o still, !.optimistic = Range(still), !.booted = TRUE, !.streaming = st]
      BY <1>5, <1>12, <2>3 DEF Booted
    <2>6. over = [t EXCEPT !.boots = bs] /\ bs \in SUBSET Boot BY <1>3, <2>1
    <2>7. D \o still \in Seq(Msg) BY <2>3, <2>4
    <2>8. st \in BOOLEAN OBVIOUS
    <2>9. s = [over EXCEPT !.shown = D \o still, !.optimistic = Range(still), !.booted = TRUE, !.streaming = st] BY <2>3, <2>5
    <2> HIDE DEF D, still, st, bs, over
    <2>10. over \in TabRec /\ over.boots = bs /\ over.gen = t.gen BY <1>3, <2>6 DEF TabRec
    <2>11. s.shown = D \o still /\ s.optimistic = Range(still) /\ s.boots = bs /\ s.gen = t.gen /\ s.booted
      BY <2>4, <2>7, <2>8, <2>9, <2>10 DEF TabRec
    <2>12. /\ s.shown = F[1].data \o Pending(t, F[1].data) /\ s.optimistic = Range(Pending(t, F[1].data))
           /\ s.boots = {x \in t.boots : x.gen # t.gen} /\ s.gen = t.gen /\ s.booted
      BY <2>11 DEF D, still, bs
    <2>13. Snapshot(F[1]) /\ F[1].to.for = t.gen BY <1>2, <1>8, <2>1, <2>3
    <2> QED BY <1>4, <2>1, <2>12, <2>13, StraightShown
  <1>13. CASE ~(got.state # None /\ got.messages # None)
    <2> DEFINE bs == (t.boots \ {b}) \cup {got}
    <2>1. s = [t EXCEPT !.boots = bs] BY <1>5, <1>13
    <2>2. bs \in SUBSET Boot BY <1>3, <1>8
    <2> HIDE DEF bs
    <2>3. s.boots = bs /\ s.shown = t.shown /\ s.optimistic = t.optimistic /\ s.gen = t.gen /\ s.booted = t.booted
      BY <1>3, <2>1, <2>2 DEF TabRec
    <2>4. s.boots = (t.boots \ {b}) \cup {got} BY <2>3 DEF bs
    <2>5. b \in t.boots /\ got.gen = b.gen /\ b.gen = F[1].to.for BY <1>2, <1>8
    <2>6. (StateOf(F[1]) /\ got.messages = b.messages) \/ Snapshot(F[1]) BY <1>8
    <2> QED BY <1>4, <2>3, <2>4, <2>5, <2>6, StraightGot
  <1> QED BY <1>11, <1>12, <1>13

\* What is told leaves a tab.
LEMMA ToldTab ==
  ASSUME NEW t, TabRight(t), NEW l \in Line, l.line \in {"start", "settled", "message", "turn"}
  PROVE  /\ Told(t, l) # None
         /\ l.line \in {"start", "settled"} =>
               /\ Told(t, l).shown = t.shown /\ Told(t, l).optimistic = t.optimistic /\ Told(t, l).gen = t.gen
               /\ Told(t, l).booted = t.booted /\ Told(t, l).boots = t.boots
  <1>1. TabRight(Told(t, l)) BY ToldRight
  <1>2. Told(t, l) # None BY <1>1, ChatAssumption DEF TabRight
  <1>3. t \in TabRec BY DEF TabRight
  <1>4. CASE l.line = "start"
    <2>1. Told(t, l) = [t EXCEPT !.streaming = TRUE] BY <1>4 DEF Told
    <2> QED BY <1>2, <1>3, <2>1 DEF TabRec
  <1>5. CASE l.line = "settled"
    <2>1. Told(t, l) = [t EXCEPT !.streaming = FALSE] BY <1>5 DEF Told
    <2> QED BY <1>2, <1>3, <2>1 DEF TabRec
  <1>6. CASE l.line \in {"message", "turn"} BY <1>2, <1>6
  <1> QED BY <1>4, <1>5, <1>6

\* What comes is shown.
LEMMA ReceivesInStep ==
  ASSUME ChatTypes, ChatInStep, Receives
  PROVE  ChatInStep'
  <1> DEFINE l == Head(down)  F == Flow  G == Tail(F)  C == Orders  k == left.prompt  w == (conn # None)
  <1>1. down # <<>> /\ down' = Tail(down) /\ UNCHANGED <<left, pi, stdin, stdout, conn, excused>> BY DEF Receives
  <1>2. conn # None BY <1>1 DEF ChatTypes
  <1>3. F \in Seq(Line) /\ C \in Seq(Order) /\ down \in Seq(Line) /\ stdout \in Seq(Line) BY WaysAre
  <1>4. F # <<>> /\ F[1] = l /\ l \in Line /\ Flow' = G
    <2>1. Flow = down \o stdout /\ Flow' = Tail(down) \o stdout BY <1>1 DEF Flow
    <2>2. Flow # <<>> /\ Flow[1] = Head(down) /\ Head(down) \in Line /\ Tail(Flow) = Tail(down) \o stdout
      BY <1>1, <1>3, <2>1, HeadOf
    <2> QED BY <2>1, <2>2
  <1>5. ASSUME ~excused PROVE Straight(F, C, tab, pi, k, w) BY <1>5 DEF ChatInStep
  <1> HIDE DEF F
  <1>6. PiRight(pi) /\ (tab # None => TabRight(tab)) BY DEF ChatTypes
  <1>7. SUFFICES ASSUME ~excused PROVE Straight(G, Orders', tab', pi, k, w) BY <1>1, <1>2, <1>4 DEF ChatInStep
  <1>8. Straight(F, C, tab, pi, k, w) BY <1>5, <1>7
  <1>9. l.line \in {"start", "settled", "running", "message", "turn", "answer"} BY <1>4, LineIs
  <1>10. UNCHANGED <<up, unsent>> => Orders' = C BY <1>1 DEF Orders
  <1>11. G \in Seq(Line) BY <1>3, <1>4, Shorter
  <1>12. CASE tab = None
    <2>1. UNCHANGED <<tab, up, unsent>> BY <1>12 DEF Receives
    <2> HIDE DEF C, k, w, G
    <2>2. Straight(G, C, tab, pi, k, w)
      <3>1. G = Tail(F) BY DEF G
      <3> HIDE DEF l
      <3> QED BY <1>3, <1>4, <1>8, <1>12, <3>1, StraightHeard
    <2> QED BY <1>10, <2>1, <2>2
  <1>13. CASE tab # None
    <2> DEFINE refreshed == Booting([tab EXCEPT !.shown = <<>>, !.optimistic = {}, !.streaming = FALSE])
    <2>1. \/ l.line = "running" /\ ~tab.booted /\ tab' = Booting(tab) /\ Send(Asks(tab'))
          \/ l.line = "answer" /\ l.to.cmd = "new" /\ tab' = refreshed /\ Send(Asks(refreshed))
          \/ /\ l.line = "answer" /\ l.to.cmd # "new" /\ \E b \in tab.boots : b.gen = l.to.for
             /\ tab' = Answered(tab, l.to, l.data) /\ UNCHANGED <<up, unsent>>
          \/ l.line \in {"start", "settled", "message", "turn"} /\ tab' = Told(tab, l) /\ UNCHANGED <<up, unsent>>
          \/ /\ l.line = "running" \/ (l.line = "answer" /\ l.to.cmd # "new")
             /\ UNCHANGED <<tab, up, unsent>>
      <3> HIDE DEF refreshed
      <3>1. CASE l.line = "running" BY <1>13, <3>1 DEF Receives
      <3>2. CASE l.line = "answer" /\ l.to.cmd = "new"
        <4>1. l.line # "running" /\ l.line \notin {"start", "settled", "message", "turn"} BY <3>2
        <4>3. ~\E b \in tab.boots : b.gen = l.to.for BY <1>4, <1>6, <1>13, <3>2, NotNew
        <4>2. tab' = refreshed /\ Send(Asks(refreshed)) BY <1>13, <3>2, <4>1, <4>3, Zenon DEF Receives, refreshed
        <4> QED BY <3>2, <4>2
      <3>3. CASE l.line = "answer" /\ l.to.cmd # "new" BY <1>13, <3>3 DEF Receives
      <3>4. CASE l.line \in {"start", "settled", "message", "turn"} BY <1>13, <3>4 DEF Receives
      <3> QED BY <1>9, <3>1, <3>2, <3>3, <3>4
    <2>2. TabRight(tab) BY <1>6, <1>13
    <2>3. G = Tail(F) OBVIOUS
    <2>4. w = TRUE BY <1>2
    <2> DEFINE S == tab'
    <2> HIDE DEF l, G, C, k, w
    <2>5. CASE l.line = "running" /\ ~tab.booted /\ tab' = Booting(tab) /\ Send(Asks(tab'))
      <3>1. ~Talks(F[1]) /\ ~Renews(F[1]) BY <1>4, <2>5 DEF Talks, Renews
      <3>2. Straight(G, C, tab, pi, k, w) BY <1>3, <1>4, <1>8, <2>3, <3>1, StraightHeard
      <3> HIDE DEF S
      <3>3. S = Booting(tab) /\ ~tab.booted BY <2>5 DEF S
      <3>4. Asks(S) \in Seq(Order) /\ Straight(G, C \o Asks(S), S, pi, k, w)
        BY <1>3, <1>11, <1>13, <2>2, <3>2, <3>3, StraightFirst
      <3>5. Orders' = C \o Asks(S)
        <4>1. Send(Asks(S)) /\ stdin' = stdin BY <1>1, <2>5 DEF S
        <4> QED BY <3>4, <4>1, SentLast DEF C
      <3> QED BY <3>4, <3>5 DEF S
    <2>6. CASE l.line = "answer" /\ l.to.cmd = "new" /\ tab' = refreshed /\ Send(Asks(refreshed))
      <3>1. Renews(F[1]) BY <1>4, <2>6 DEF Renews
      <3> DEFINE r == Emptied(tab)
      <3>2. refreshed = Booting(r) BY DEF Emptied
      <3> HIDE DEF S, r, refreshed
      <3>3. S = Booting(r) /\ r = Emptied(tab) BY <2>6, <3>2 DEF S, r
      <3> DEFINE B == C \o Asks(S)
      <3>4. /\ Booting(r) # None /\ TabRight(Booting(r))
            /\ Straight(Tail(F), C \o Asks(Booting(r)), Booting(r), pi, k, w)
        BY <1>3, <1>4, <1>8, <1>13, <2>2, <3>1, StraightRefreshes DEF r
      <3>5. S # None /\ TabRight(S) /\ Straight(G, B, S, pi, k, w) BY <2>3, <3>3, <3>4
      <3>6. Orders' = B
        <4>1. Send(Asks(S)) /\ stdin' = stdin BY <1>1, <2>6 DEF S
        <4>2. S.gen \in Nat BY <3>5 DEF TabRight, TabRec
        <4>3. Asks(S) \in Seq(Order) BY <4>2, AsksAre
        <4> QED BY <4>1, <4>3, SentLast DEF C
      <3> QED BY <3>5, <3>6 DEF S
    <2>7. CASE /\ l.line = "answer" /\ l.to.cmd # "new" /\ \E b \in tab.boots : b.gen = l.to.for
               /\ tab' = Answered(tab, l.to, l.data) /\ UNCHANGED <<up, unsent>>
      <3>1. /\ F[1].line = "answer" /\ F[1].to.cmd # "new" /\ \E b \in tab.boots : b.gen = F[1].to.for
            /\ S = Answered(tab, F[1].to, F[1].data)
        BY <1>4, <2>7
      <3>2. Straight(F, C, tab, pi, k, TRUE) BY <1>8, <2>4
      <3> HIDE DEF S
      <3>3. Straight(G, C, S, pi, k, TRUE) BY <1>3, <1>4, <1>13, <2>2, <2>3, <3>1, <3>2, StraightAnswered
      <3>4. Orders' = C BY <1>10, <2>7
      <3> QED BY <2>4, <3>3, <3>4 DEF S
    <2>8. CASE l.line \in {"start", "settled", "message", "turn"} /\ tab' = Told(tab, l) /\ UNCHANGED <<up, unsent>>
      <3>1. Orders' = C BY <1>10, <2>8
      <3>2. S = Told(tab, l) /\ S # None BY <1>4, <2>2, <2>8, ToldTab
      <3>3. CASE Talks(l)
        <4>1. Talks(F[1]) /\ S = Told(tab, F[1]) BY <1>4, <3>2, <3>3
        <4> HIDE DEF S
        <4>2. Straight(G, C, S, pi, k, w) BY <1>3, <1>4, <1>6, <1>8, <1>13, <2>2, <2>3, <3>2, <4>1, StraightTold
        <4> QED BY <3>1, <4>2 DEF S
      <3>4. CASE ~Talks(l)
        <4>1. l.line \in {"start", "settled"} BY <2>8, <3>4 DEF Talks
        <4>2. /\ S.shown = tab.shown /\ S.optimistic = tab.optimistic /\ S.gen = tab.gen
              /\ S.booted = tab.booted /\ S.boots = tab.boots
          BY <1>4, <2>2, <3>2, <4>1, ToldTab
        <4> HIDE DEF S
        <4>3. ~Talks(F[1]) /\ ~Renews(F[1]) BY <1>4, <4>1 DEF Talks, Renews
        <4>4. Straight(G, C, tab, pi, k, w) BY <1>3, <1>4, <1>8, <2>3, <4>3, StraightHeard
        <4>5. S.boots \subseteq tab.boots /\ (Asking(tab) => Asking(S)) BY <4>2 DEF Asking
        <4>6. Straight(G, C, S, pi, k, w) BY <1>13, <3>2, <4>2, <4>4, <4>5, StraightLess
        <4> QED BY <3>1, <4>6 DEF S
      <3> QED BY <3>3, <3>4
    <2>9. CASE /\ l.line = "running" \/ (l.line = "answer" /\ l.to.cmd # "new")
               /\ UNCHANGED <<tab, up, unsent>>
      <3>1. ~Talks(F[1]) /\ ~Renews(F[1]) BY <1>4, <2>9 DEF Talks, Renews
      <3>2. Straight(G, C, tab, pi, k, w) BY <1>3, <1>4, <1>8, <2>3, <3>1, StraightHeard
      <3> QED BY <1>10, <2>9, <3>2
    <2> HIDE DEF refreshed
    <2> QED BY <2>1, <2>5, <2>6, <2>7, <2>8, <2>9
  <1> QED BY <1>12, <1>13

--------------------------------------------------------------------------
(* The steps of pi                                                         *)

\* A line that pi prints comes last.
LEMMA PrintedLast ==
  ASSUME ChatTypes, NEW l \in Line, stdout' = Append(stdout, l), down' = down
  PROVE  Flow' = Append(Flow, l) /\ Flow \in Seq(Line)
  <1>1. down \in Seq(Line) /\ stdout \in Seq(Line) /\ Flow \in Seq(Line) BY WaysAre
  <1>2. Flow' = down \o Append(stdout, l) /\ Flow = down \o stdout BY DEF Flow
  <1>3. down \o Append(stdout, l) = Append(down \o stdout, l) BY <1>1
  <1> QED BY <1>1, <1>2, <1>3

\* A line that tells nothing, put at the end.
LEMMA StraightNoted ==
  ASSUME NEW F \in Seq(Line), NEW l \in Line, l.line \in {"running", "start", "settled"}, NEW e \in Seq(Line), NEW d \in Seq(Line),
         F = d \o e, NEW G, G = Append(d, l) \o e, NEW C, NEW t, NEW p, NEW k, NEW linked, Straight(F, C, t, p, k, linked)
  PROVE  G \in Seq(Line) /\ Straight(G, C, t, p, k, linked)
  <1> DEFINE M == <<l>>
  <1>1. M \in Seq(Line) /\ Len(M) = 1 /\ M[1] = l /\ d \o M = Append(d, l) OBVIOUS
  <1> HIDE DEF M
  <1>2. G = (d \o M) \o e BY <1>1
  <1>3. \A x \in 1 .. Len(M) : M[x].line \in {"running", "start", "settled"} BY <1>1
  <1>4. G \in Seq(Line) /\ \E h : CarriesAll(F, G, h) BY <1>1, <1>2, <1>3, PutCarries
  <1>5. PICK h : CarriesAll(F, G, h) BY <1>4
  <1>6. Carries(F, G, h) /\ KeepsRenewals(F, G, h) /\ KeepsTalk(F, G, h, 0) /\ (Renewed(F) => Renewed(G)) BY <1>5 DEF CarriesAll
  <1>7. Straight(G, C, t, p, k, linked) BY <1>4, <1>6, StraightCarried, ZenonT(60)
  <1> QED BY <1>4, <1>7

\* The answers of pi and its tools are numbered by their places.
InPlace(s) == \A i \in 1 .. Len(s) : s[i].who # "user" => s[i].n = i
\* W is what was said in a, and m.
Grown(a, m, W) ==
    /\ W \in Seq(Msg) /\ Len(W) = Len(a) + 1 /\ W[Len(a) + 1] = m /\ Leads(a, W) /\ Once(W) /\ InPlace(W)
    /\ (\A i \in 1 .. Len(a) : W[i] = a[i])
    /\ \A k : Older(a, k) => Older(W, k)
\* A message of pi or a tool behind what is said keeps it right.
LEMMA SaidMore ==
  ASSUME NEW a \in Seq(Msg), NEW m \in Msg, m.who # "user", m.n = Len(a) + 1, NEW W, W = Append(a, m), InPlace(a), Once(a)
  PROVE  Grown(a, m, W)
  <1>1. /\ W \in Seq(Msg) /\ Len(a) \in Nat /\ Len(W) = Len(a) + 1 /\ W[Len(a) + 1] = m
        /\ \A x \in 1 .. Len(a) : x \in 1 .. Len(W) /\ W[x] = a[x]
        /\ \A x \in 1 .. Len(W) : x \in 1 .. Len(a) \/ x = Len(a) + 1
    BY Longer
  <1>2. Leads(a, W) BY <1>1 DEF Leads
  <1>3. \A x \in 1 .. Len(W) : W[x].who = "user" => x \in 1 .. Len(a) /\ W[x] = a[x] BY <1>1
  <1>4. Once(a) => Once(W)
    <2> SUFFICES ASSUME Once(a), NEW i \in 1 .. Len(W), NEW j \in 1 .. Len(W), W[i].who = "user", W[i] = W[j] PROVE i = j
      BY DEF Once
    <2>1. i \in 1 .. Len(a) /\ W[i] = a[i] /\ j \in 1 .. Len(a) /\ W[j] = a[j] BY <1>3
    <2> QED BY <2>1 DEF Once
  <1>5. \A k : Older(a, k) => Older(W, k) BY <1>3 DEF Older
  <1>6. InPlace(W)
    <2> SUFFICES ASSUME NEW i \in 1 .. Len(W), W[i].who # "user" PROVE W[i].n = i BY DEF InPlace
    <2>1. CASE i \in 1 .. Len(a) BY <1>1, <2>1 DEF InPlace
    <2>2. CASE i = Len(a) + 1 BY <1>1, <2>2
    <2> QED BY <1>1, <2>1, <2>2
  <1> QED BY <1>1, <1>2, <1>4, <1>5, <1>6 DEF Grown

\* What a right pi said is in place, and each prompt once.
LEMMA RightIsInPlace == ASSUME NEW p, SaidRight(p) PROVE InPlace(p.said) /\ Once(p.said)
  BY DEF SaidRight, InPlace

\* Pi says a message.
LEMMA SpeaksInStep ==
  ASSUME ChatTypes, ChatInStep, PiSpeaks
  PROVE  ChatInStep'
  <1> DEFINE m == Message("pi", Number)  l == Event("message", m, <<>>)
             F == Flow  C == Orders  k == left.prompt  w == (conn # None)  q == pi'
  <1>1. /\ pi.busy /\ pi.turn = "none" /\ pi' = [pi EXCEPT !.turn = "spoken", !.said = Append(@, m), !.results = <<>>]
        /\ stdout' = Append(stdout, l) /\ UNCHANGED <<left, stdin, excused, conn, up, down, unsent, tab>>
    BY DEF PiSpeaks, PiRest, Prints
  <1>2. PiRight(pi) /\ pi \in PiRec /\ pi.said \in Seq(Msg) BY DEF ChatTypes, PiRight, PiRec
  <1>3. m \in Msg /\ m.who = "pi" /\ m.n = Len(pi.said) + 1 /\ l \in Line /\ l.line = "message" /\ l.m = m /\ l.results = <<>>
    <2>1. m \in Msg /\ m.who = "pi" /\ m.n = Len(pi.said) + 1 BY <1>2 DEF Message, Msg, Number
    <2> QED BY <2>1, LinesAre DEF Event
  <1>4. PiRight(q)
    <2>1. ChatTypes' BY PiSpeaksTypes
    <2> QED BY <2>1 DEF ChatTypes
  <1> HIDE DEF m, l
  <1>5. Append(pi.said, m) \in Seq(Msg) BY <1>2, <1>3
  <1>6. q.turn = "spoken" /\ q.said = Append(pi.said, m) /\ q.busy BY <1>1, <1>2, <1>5 DEF PiRec
  <1>7. Flow' = Append(F, l) /\ F \in Seq(Line) /\ C \in Seq(Order) /\ Orders' = C
    BY <1>1, <1>3, PrintedLast, WaysAre DEF Orders
  <1>8. ASSUME ~excused PROVE Straight(Append(F, l), C, tab, q, k, w)
    <2>1. Straight(F, C, tab, pi, k, w) BY <1>8 DEF ChatInStep
    <2> HIDE DEF F, C, k, w, q
    <2>2. SaidRight(pi) /\ Older(pi.said, k) BY <2>1 DEF Straight, Ordered, Numbers
    <2> DEFINE W == q.said
    <2>3. /\ W \in Seq(Msg) /\ Len(W) = Len(pi.said) + 1 /\ W[Len(W)] = m /\ Leads(pi.said, W) /\ Once(W) /\ Older(W, k)
          /\ \A i \in 1 .. Len(W) : W[i].who # "user" => W[i].n = i
      <3>1. InPlace(pi.said) /\ Once(pi.said) BY <2>2, RightIsInPlace
      <3>2. Grown(pi.said, m, W) BY <1>2, <1>3, <1>6, <3>1, SaidMore
      <3> HIDE DEF W
      <3> QED BY <2>2, <3>2 DEF Grown, InPlace
    <2>4. SaidRight(q) BY <1>3, <1>6, <2>3 DEF SaidRight
    <2>5. End(pi) = Len(pi.said) /\ End(q) = Len(q.said) BY <1>1, <1>6 DEF End
    <2>6. Len(pi.said) \in Nat /\ Len(l.results) = 0 BY <1>2, <1>3
    <2>7. Begins(l) = Len(pi.said) /\ Ends(l) = Len(pi.said) + 1 BY <1>3, <2>6 DEF Begins, Ends
    <2>8. Tells(l, q.said) /\ Talks(l) /\ ByPi(l) BY <1>3, <2>3, <2>6, <2>7 DEF Tells, Talks, ByPi
    <2>9. Begins(l) = End(pi) /\ Ends(l) = End(q) /\ End(pi) <= End(q) BY <2>3, <2>5, <2>6, <2>7
    <2>10. tab # None => TabRight(tab) BY DEF ChatTypes
    <2>11. Older(q.said, k) /\ Leads(pi.said, q.said) BY <2>3
    <2> QED BY <1>1, <1>2, <1>3, <1>4, <1>7, <2>1, <2>4, <2>8, <2>9, <2>10, <2>11, StraightSays
  <1> QED BY <1>1, <1>7, <1>8 DEF ChatInStep

\* Pi uses a tool.
LEMMA UsesInStep ==
  ASSUME ChatTypes, ChatInStep, PiUsesTool, Counted
  PROVE  ChatInStep'
  <1> DEFINE m == Message("tool", Number)
             F == Flow  C == Orders  k == left.prompt  w == (conn # None)  q == pi'
  <1>1. /\ pi.turn = "spoken" /\ pi' = [pi EXCEPT !.turn = "tooled", !.said = Append(@, m), !.results = <<m>>]
        /\ left'.prompt = left.prompt /\ UNCHANGED <<stdin, stdout, excused, conn, up, down, unsent, tab>>
    BY Spending DEF PiUsesTool, PiRest
  <1>2. PiRight(pi) /\ pi \in PiRec /\ pi.said \in Seq(Msg) /\ pi.busy /\ Len(pi.said) >= 1 BY <1>1 DEF ChatTypes, PiRight, PiRec
  <1>3. m \in Msg /\ m.who = "tool" /\ m.n = Len(pi.said) + 1 BY <1>2 DEF Message, Msg, Number
  <1>4. PiRight(q)
    <2>1. ChatTypes' BY PiUsesTypes
    <2> QED BY <2>1 DEF ChatTypes
  <1> HIDE DEF m
  <1>5. Append(pi.said, m) \in Seq(Msg) /\ <<m>> \in Seq(Msg) BY <1>2, <1>3
  <1>6. q.turn = "tooled" /\ q.said = Append(pi.said, m) /\ q.busy /\ q.results = <<m>> BY <1>1, <1>2, <1>5 DEF PiRec
  <1>7. Flow' = F /\ F \in Seq(Line) /\ C \in Seq(Order) /\ Orders' = C BY <1>1, WaysAre DEF Orders, Flow
  <1>8. ASSUME ~excused PROVE Straight(F, C, tab, q, k, w)
    <2>1. Straight(F, C, tab, pi, k, w) BY <1>8 DEF ChatInStep
    <2> HIDE DEF F, C, k, w, q
    <2>2. SaidRight(pi) /\ Older(pi.said, k) BY <2>1 DEF Straight, Ordered, Numbers
    <2> DEFINE W == q.said
    <2>3. /\ W \in Seq(Msg) /\ Len(W) = Len(pi.said) + 1 /\ W[Len(W)] = m /\ Leads(pi.said, W) /\ Once(W) /\ Older(W, k)
          /\ (\A i \in 1 .. Len(pi.said) : W[i] = pi.said[i])
          /\ \A i \in 1 .. Len(W) : W[i].who # "user" => W[i].n = i
      <3>1. InPlace(pi.said) /\ Once(pi.said) BY <2>2, RightIsInPlace
      <3>2. Grown(pi.said, m, W) BY <1>2, <1>3, <1>6, <3>1, SaidMore
      <3> HIDE DEF W
      <3> QED BY <2>2, <3>2 DEF Grown, InPlace
    <2>4. Len(pi.said) \in Nat BY <1>2
    <2>5. W[Len(W) - 1].who = "pi"
      <3>1. Len(W) - 1 = Len(pi.said) /\ Len(pi.said) \in 1 .. Len(pi.said) BY <1>2, <2>3, <2>4
      <3> QED BY <1>1, <2>2, <2>3, <3>1 DEF SaidRight
    <2>6. SaidRight(q) BY <1>3, <1>6, <2>3, <2>5 DEF SaidRight
    <2>7. End(q) = End(pi) BY <1>1, <1>6, <2>3, <2>4 DEF End
    <2>8. tab # None => TabRight(tab) BY DEF ChatTypes
    <2>9. Older(q.said, k) /\ Leads(pi.said, q.said) BY <2>3
    <2> QED BY <1>2, <1>4, <1>7, <2>1, <2>6, <2>7, <2>8, <2>9, StraightTurns
  <1> QED BY <1>1, <1>7, <1>8 DEF ChatInStep

\* Pi's turn is over.
LEMMA EndsInStep ==
  ASSUME ChatTypes, ChatInStep, PiEndsTurn
  PROVE  ChatInStep'
  <1> DEFINE n == Len(pi.said) - Len(pi.results)
             m == pi.said[n]  l == Event("turn", m, pi.results)
             F == Flow  C == Orders  k == left.prompt  w == (conn # None)  q == pi'
  <1>1. /\ pi.turn \in {"spoken", "tooled"} /\ pi' = [pi EXCEPT !.turn = IF @ = "tooled" THEN "none" ELSE "over"]
        /\ stdout' = Append(stdout, l) /\ UNCHANGED <<left, stdin, excused, conn, up, down, unsent, tab>>
    BY DEF PiEndsTurn, PiRest, Prints
  <1>2. PiRight(pi) /\ pi \in PiRec /\ pi.said \in Seq(Msg) /\ pi.results \in Seq(Msg) /\ pi.busy
    BY <1>1 DEF ChatTypes, PiRight, PiRec
  <1>3. /\ pi.turn = "spoken" => pi.results = <<>> /\ Len(pi.results) = 0 /\ Len(pi.said) >= 1
        /\ pi.turn = "tooled" => Len(pi.results) = 1 /\ Len(pi.said) >= 2
    BY <1>2 DEF PiRight
  <1> DEFINE e == Len(pi.results)  z == Len(pi.said)
  <1>10. z \in Nat /\ (pi.turn = "spoken" => e = 0 /\ z >= 1) /\ (pi.turn = "tooled" => e = 1 /\ z >= 2) BY <1>2, <1>3
  <1>11. n = z - e OBVIOUS
  <1> HIDE DEF e, z, n
  <1>12. n \in 1 .. z /\ n + e = z /\ (pi.turn = "spoken" => n = z) /\ (pi.turn = "tooled" => n = z - 1) BY <1>1, <1>10, <1>11
  <1>4. /\ Len(pi.said) \in Nat /\ n \in 1 .. Len(pi.said) /\ n + Len(pi.results) = Len(pi.said)
        /\ (pi.turn = "spoken" => n = Len(pi.said)) /\ (pi.turn = "tooled" => n = Len(pi.said) - 1)
    BY <1>10, <1>12 DEF e, z
  <1>5. m \in Msg BY <1>2, <1>4
  <1>6. PiRight(q)
    <2>1. ChatTypes' BY PiEndsTypes
    <2> QED BY <2>1 DEF ChatTypes
  <1> HIDE DEF m
  <1>7. l \in Line /\ l.line = "turn" /\ l.m = m /\ l.results = pi.results BY <1>2, <1>5, LinesAre DEF Event
  <1> HIDE DEF l
  <1>8. q.said = pi.said /\ q.busy /\ (pi.turn = "tooled" => q.turn = "none") /\ (pi.turn = "spoken" => q.turn = "over")
    BY <1>1, <1>2 DEF PiRec
  <1>9. Flow' = Append(F, l) /\ F \in Seq(Line) /\ C \in Seq(Order) /\ Orders' = C
    BY <1>1, <1>7, PrintedLast, WaysAre DEF Orders
  <1>13. ASSUME ~excused PROVE Straight(Append(F, l), C, tab, q, k, w)
    <2>1. Straight(F, C, tab, pi, k, w) BY <1>13 DEF ChatInStep
    <2> HIDE DEF F, C, k, w, q
    <2>2. SaidRight(pi) /\ Older(pi.said, k) BY <2>1 DEF Straight, Ordered, Numbers
    <2>3. m = pi.said[n] BY DEF m
    <2>4. m.who = "pi" /\ m.n = n /\ \A i \in 1 .. Len(pi.results) : pi.results[i].who = "tool" /\ pi.results[i] = pi.said[n + i]
      <3>1. CASE pi.turn = "spoken"
        <4>1. n = Len(pi.said) BY <1>4, <3>1
        <4>2. m.who = "pi" BY <2>2, <2>3, <3>1, <4>1 DEF SaidRight
        <4>3. m.n = n BY <1>4, <2>2, <2>3, <4>2 DEF SaidRight
        <4> QED BY <1>3, <3>1, <4>2, <4>3
      <3>2. CASE pi.turn = "tooled"
        <4>1. n = Len(pi.said) - 1 /\ n + 1 = Len(pi.said) BY <1>4, <3>2
        <4>2. m.who = "pi" /\ pi.said[Len(pi.said)].who = "tool" /\ pi.results = <<pi.said[Len(pi.said)]>>
          BY <2>2, <2>3, <3>2, <4>1 DEF SaidRight
        <4>3. m.n = n BY <1>4, <2>2, <2>3, <4>2 DEF SaidRight
        <4>5. Len(pi.results) = 1 BY <1>3, <3>2
        <4>4. \A i \in 1 .. Len(pi.results) : i = 1 BY <4>5
        <4> QED BY <4>1, <4>2, <4>3, <4>4
      <3> QED BY <1>1, <3>1, <3>2
    <2>5. pi.said[Len(pi.said)].who # "user"
      <3>1. CASE pi.turn = "spoken" BY <2>2, <3>1 DEF SaidRight
      <3>2. CASE pi.turn = "tooled" BY <2>2, <3>2 DEF SaidRight
      <3> QED BY <1>1, <3>1, <3>2
    <2>6. SaidRight(q)
      <3>1. q.turn \in {"none", "over"} /\ Len(q.said) >= 1 BY <1>1, <1>4, <1>8
      <3> QED BY <1>8, <2>2, <2>5, <3>1 DEF SaidRight
    <2>7. Begins(l) = n /\ Ends(l) = Len(pi.said) BY <1>4, <1>7, <2>4 DEF Begins, Ends
    <2>8. End(pi) = n /\ End(q) = Len(pi.said)
      <3>1. q.turn # "tooled" BY <1>1, <1>8
      <3>2. pi.turn = "spoken" => n = Len(pi.said) BY <1>4
      <3>3. pi.turn = "tooled" => n = Len(pi.said) - 1 BY <1>4
      <3> QED BY <1>1, <1>8, <3>1, <3>2, <3>3 DEF End
    <2>9. Tells(l, q.said)
      <3>1. Len(pi.said) <= Len(pi.said) BY <1>4
      <3> QED BY <1>4, <1>7, <1>8, <2>3, <2>4, <2>7, <3>1 DEF Tells
    <2>10. Talks(l) /\ ByPi(l) BY <1>7, <2>4 DEF Talks, ByPi
    <2>11. Begins(l) = End(pi) /\ Ends(l) = End(q) /\ End(pi) <= End(q) BY <1>4, <2>7, <2>8
    <2>12. tab # None => TabRight(tab) BY DEF ChatTypes
    <2>13. Older(q.said, k) /\ Leads(pi.said, q.said)
      <3>1. Len(pi.said) <= Len(pi.said) BY <1>4
      <3> QED BY <1>8, <2>2, <3>1 DEF Leads
    <2> QED BY <1>2, <1>6, <1>7, <1>9, <2>1, <2>6, <2>9, <2>10, <2>11, <2>12, <2>13, StraightSays
  <1> QED BY <1>1, <1>9, <1>13 DEF ChatInStep

\* Pi rests.
LEMMA SettlesInStep ==
  ASSUME ChatTypes, ChatInStep, PiSettles
  PROVE  ChatInStep'
  <1> DEFINE l == Event("settled", None, <<>>)
             F == Flow  C == Orders  k == left.prompt  w == (conn # None)  q == pi'
  <1>1. /\ pi.turn = "over" /\ pi' = [pi EXCEPT !.turn = "none", !.busy = FALSE]
        /\ stdout' = Append(stdout, l) /\ UNCHANGED <<left, stdin, excused, conn, up, down, unsent, tab>>
    BY DEF PiSettles, PiRest, Prints
  <1>2. PiRight(pi) /\ pi \in PiRec /\ pi.said \in Seq(Msg) /\ pi.busy BY <1>1 DEF ChatTypes, PiRight, PiRec
  <1>3. l \in Line /\ l.line = "settled" BY LinesAre DEF Event
  <1>4. PiRight(q)
    <2>1. ChatTypes' BY PiSettlesTypes
    <2> QED BY <2>1 DEF ChatTypes
  <1> HIDE DEF l
  <1>5. q.turn = "none" /\ q.said = pi.said /\ ~q.busy BY <1>1, <1>2 DEF PiRec
  <1>6. F \in Seq(Line) /\ C \in Seq(Order) /\ Orders' = C /\ Flow' = Append(F, l)
    BY <1>1, <1>3, PrintedLast, WaysAre DEF Orders
  <1>7. ASSUME ~excused PROVE Straight(Append(F, l), C, tab, q, k, w)
    <2>1. Straight(F, C, tab, pi, k, w) BY <1>7 DEF ChatInStep
    <2> HIDE DEF F, C, k, w, q
    <2>2. SaidRight(pi) /\ Older(pi.said, k) BY <2>1 DEF Straight, Ordered, Numbers
    <2>3. SaidRight(q) BY <1>1, <1>5, <2>2 DEF SaidRight
    <2>4. Len(pi.said) \in Nat BY <1>2
    <2>5. Older(q.said, k) /\ Leads(pi.said, q.said) /\ End(q) = End(pi) BY <1>1, <1>5, <2>2, <2>4 DEF Leads, End
    <2>6. tab # None => TabRight(tab) BY DEF ChatTypes
    <2>7. Straight(F, C, tab, q, k, w) BY <1>2, <1>4, <1>6, <2>1, <2>3, <2>5, <2>6, StraightTurns
    <2> DEFINE G == Append(F, l)  e == <<>>
    <2>8. e \in Seq(Line) /\ F = F \o e /\ G = G \o e
      <3>1. G \in Seq(Line) BY <1>3, <1>6
      <3> QED BY <1>6, <3>1, ConcatEmptySeq
    <2>9. G = Append(F, l) \o e BY <2>8
    <2>10. l.line \in {"running", "start", "settled"} BY <1>3
    <2> HIDE DEF G, e
    <2>11. Straight(G, C, tab, q, k, w) BY <1>3, <1>6, <2>7, <2>8, <2>9, <2>10, StraightNoted
    <2> QED BY <2>11 DEF G
  <1> QED BY <1>1, <1>6, <1>7 DEF ChatInStep

\* A line that tells nothing comes last.
LEMMA StraightNotedLast ==
  ASSUME NEW F \in Seq(Line), NEW l \in Line, l.line \in {"running", "start", "settled"}, NEW G, G = Append(F, l),
         NEW C, NEW t, NEW p, NEW k, NEW linked, Straight(F, C, t, p, k, linked)
  PROVE  G \in Seq(Line) /\ Straight(G, C, t, p, k, linked)
  <1> DEFINE e == <<>>
  <1>1. G \in Seq(Line) OBVIOUS
  <1>2. e \in Seq(Line) /\ F = F \o e /\ G = G \o e BY <1>1, ConcatEmptySeq
  <1>3. G = Append(F, l) \o e BY <1>2
  <1> HIDE DEF e
  <1> QED BY <1>1, <1>2, <1>3, StraightNoted

\* A command that is read and is no prompt.
LEMMA StraightRead ==
  ASSUME NEW F \in Seq(Line), NEW C \in Seq(Order), C # <<>>, NEW B, B = Tail(C), NEW t, t # None => TabRight(t),
         C[1].cmd # "prompt", NEW p, NEW k, NEW linked, Straight(F, C, t, p, k, linked)
  PROVE  Straight(F, B, t, p, k, linked)
  <1>1. B \in Seq(Order) BY Shorter
  <1>2. \E g : Comes(C, B, g) /\ NewOrders(B, g, t, t) /\ KeepsPrompts(C, B, g) BY TailComes
  <1>3. PICK g : Comes(C, B, g) /\ NewOrders(B, g, t, t) /\ KeepsPrompts(C, B, g) BY <1>2
  <1> QED BY <1>1, <1>3, StraightComes

\* Commands without a prompt that are lost.
LEMMA StraightCut ==
  ASSUME NEW P \in Seq(Order), NEW M \in Seq(Order), NEW Q \in Seq(Order), NEW C, C = (P \o M) \o Q, NEW B, B = P \o Q,
         \A x \in 1 .. Len(M) : M[x].cmd # "prompt",
         NEW F \in Seq(Line), NEW t, t # None => TabRight(t), NEW p, NEW k, NEW linked, Straight(F, C, t, p, k, linked)
  PROVE  Straight(F, B, t, p, k, linked)
  <1>1. B \in Seq(Order) /\ C \in Seq(Order) /\ \E g : TakenOut(C, B, g) BY CutComes
  <1>2. PICK g : TakenOut(C, B, g) BY <1>1
  <1>3. Comes(C, B, g) /\ KeepsPrompts(C, B, g) /\ NewOrders(B, g, t, t) BY <1>2 DEF TakenOut
  <1> QED BY <1>1, <1>3, StraightComes

\* The first command of those in the middle is behind those before them.
LEMMA FirstOut ==
  ASSUME NEW a \in Seq(Order), NEW b \in Seq(Order), b # <<>>, NEW e \in Seq(Order)
  PROVE  /\ Head(b) \in Order /\ <<Head(b)>> \in Seq(Order) /\ Tail(b) \in Seq(Order) /\ Tail(b) \o e \in Seq(Order)
         /\ (a \o b) \o e = (a \o <<Head(b)>>) \o (Tail(b) \o e)
  <1> DEFINE M == <<Head(b)>>  T == Tail(b)
  <1>1. Head(b) \in Order /\ M \in Seq(Order) /\ T \in Seq(Order) /\ T \o e \in Seq(Order) OBVIOUS
  <1>2. b = M \o T
    <2> DEFINE V == M \o T
    <2>1. Len(b) \in Nat /\ Len(b) >= 1 /\ Len(M) = 1 /\ M[1] = b[1] OBVIOUS
    <2>2. Len(T) = Len(b) - 1 /\ \A i \in 1 .. Len(T) : T[i] = b[i + 1] OBVIOUS
    <2>3. V \in Seq(Order) BY <1>1
    <2> HIDE DEF M, T
    <2>4. /\ Len(V) = Len(M) + Len(T)
          /\ \A i \in 1 .. Len(V) : \/ i \in 1 .. Len(M) /\ V[i] = M[i]
                                    \/ i > Len(M) /\ i - Len(M) \in 1 .. Len(T) /\ V[i] = T[i - Len(M)]
      <3>1. \A i \in 1 .. Len(M) : V[i] = M[i] BY <1>1, Joined
      <3> QED BY <1>1, <3>1, Joined
    <2>5. Len(V) = Len(b) BY <2>1, <2>2, <2>4
    <2>6. ASSUME NEW i \in 1 .. Len(V) PROVE V[i] = b[i]
      <3>1. CASE i \in 1 .. Len(M) /\ V[i] = M[i] BY <2>1, <3>1
      <3>2. CASE i > Len(M) /\ i - Len(M) \in 1 .. Len(T) /\ V[i] = T[i - Len(M)]
        <4>1. T[i - Len(M)] = b[(i - Len(M)) + 1] BY <2>2, <3>2
        <4>2. (i - Len(M)) + 1 = i BY <2>1
        <4> QED BY <3>2, <4>1, <4>2
      <3> QED BY <2>4, <3>1, <3>2
    <2> HIDE DEF V
    <2>7. V = b BY <2>3, <2>5, <2>6, SeqEqual
    <2> QED BY <2>7 DEF V
  <1> HIDE DEF M, T
  <1>3. a \o M \in Seq(Order) BY <1>1
  <1>4. a \o b = (a \o M) \o T BY <1>1, <1>2, Regrouped, ZenonT(60)
  <1>5. ((a \o M) \o T) \o e = (a \o M) \o (T \o e) BY <1>1, <1>3, Regrouped, ZenonT(60)
  <1>6. (a \o b) \o e = (a \o M) \o (T \o e) BY <1>4, <1>5
  <1> QED BY <1>1, <1>6 DEF M, T

\* The sandbox's state is reported.
LEMMA ReportsInStep ==
  ASSUME ChatTypes, Counted, ChatInStep, PiReports
  PROVE  ChatInStep'
  <1> DEFINE l == Event("running", None, <<>>)  F == Flow  C == Orders  k == left.prompt  w == (conn # None)  G == Flow'
  <1>1. /\ down' = (IF conn = None THEN down ELSE Append(down, l)) /\ left'.prompt = left.prompt
        /\ UNCHANGED <<pi, stdin, stdout, conn, up, unsent, tab, excused>>
    BY Spending DEF PiReports
  <1>2. l \in Line /\ l.line = "running" BY LinesAre DEF Event
  <1> HIDE DEF l
  <1>3. Orders' = C BY <1>1 DEF Orders
  <1>4. down \in Seq(Line) /\ stdout \in Seq(Line) /\ F = down \o stdout /\ F \in Seq(Line) BY WaysAre DEF Flow
  <1>5. ASSUME ~excused PROVE Straight(G, C, tab, pi, k, w)
    <2>1. Straight(F, C, tab, pi, k, w) BY <1>5 DEF ChatInStep
    <2>2. CASE conn = None
      <3>1. G = F BY <1>1, <2>2 DEF Flow
      <3> QED BY <2>1, <3>1
    <2>3. CASE conn # None
      <3>1. G = Append(down, l) \o stdout BY <1>1, <2>3 DEF Flow
      <3> HIDE DEF F, C, k, w, G
      <3> QED BY <1>2, <1>4, <2>1, <3>1, StraightNoted
    <2> QED BY <2>2, <2>3
  <1> QED BY <1>1, <1>3, <1>5 DEF ChatInStep

\* What pi reads is the first of all that is on its way to it.
LEMMA ReadFirst ==
  ASSUME ChatTypes, stdin # <<>>, stdin' = Tail(stdin), UNCHANGED <<up, unsent>>
  PROVE  Orders # <<>> /\ Orders[1] = Head(stdin) /\ Orders' = Tail(Orders) /\ Head(stdin) \in TakenOrder
  <1>1. stdin \in Seq(Order) /\ up \in Seq(Order) /\ unsent \in Seq(Order) BY WaysAre
  <1> DEFINE e == up \o unsent  T == Tail(stdin)
  <1>2. e \in Seq(Order) /\ T \in Seq(Order) BY <1>1
  <1>3. Orders = stdin \o e BY <1>1, Regrouped DEF Orders
  <1>4. Orders' = T \o e BY <1>1, <1>2, Regrouped DEF Orders
  <1>5. Head(stdin) \in TakenOrder
    <2>1. stdin \in Seq(TakenOrder) BY DEF ChatTypes
    <2> QED BY <2>1
  <1> HIDE DEF e
  <1>6. Orders # <<>> /\ Orders[1] = Head(stdin) /\ Tail(Orders) = T \o e BY <1>1, <1>2, <1>3, HeadOf
  <1> QED BY <1>4, <1>5, <1>6

\* Pi reads a command.
LEMMA ReadsInStep ==
  ASSUME ChatTypes, ChatInStep, PiReads
  PROVE  ChatInStep'
  <1> DEFINE F == Flow  C == Orders  k == left.prompt  w == (conn # None)  q == pi'  G == Flow'  B == Orders'
             c == Head(stdin)
  <1>1. /\ stdin # <<>> /\ stdin' = Tail(stdin) /\ UNCHANGED <<left, conn, up, down, unsent, tab>>
        /\ ~excused' => /\ ~excused /\ ~(c.cmd \in {"prompt", "new"} /\ pi.busy)
                        /\ c.cmd = "messages" => pi.turn # "tooled"
    BY DEF PiReads, PiRest
  <1>2. C # <<>> /\ C[1] = c /\ B = Tail(C) /\ c \in TakenOrder BY <1>1, ReadFirst
  <1>3. PiRight(pi) /\ pi \in PiRec /\ pi.said \in Seq(Msg) /\ pi.busy \in BOOLEAN BY DEF ChatTypes, PiRight, PiRec
  <1>4. \/ c.cmd \in {"prompt", "new"} /\ pi.busy /\ UNCHANGED <<pi, stdout>>
        \/ c.cmd = "state" /\ stdout' = Append(stdout, Answer(c, pi.busy)) /\ UNCHANGED pi
        \/ c.cmd = "messages" /\ stdout' = Append(stdout, Answer(c, pi.said)) /\ UNCHANGED pi
        \/ c.cmd = "new" /\ ~pi.busy /\ stdout' = Append(stdout, Answer(c, None)) /\ pi' = [pi EXCEPT !.said = <<>>]
        \/ /\ c.cmd = "prompt" /\ ~pi.busy /\ pi' = [pi EXCEPT !.busy = TRUE, !.said = Append(@, Message("user", c.for))]
           /\ stdout' = Append(stdout, Event("start", None, <<>>))
    BY ReadsMove
  <1>5. F \in Seq(Line) /\ C \in Seq(Order) BY WaysAre
  <1>6. tab # None => TabRight(tab) BY DEF ChatTypes
  <1>7. ASSUME ~excused' PROVE Straight(G, B, tab, q, k, w)
    <2>1. Straight(F, C, tab, pi, k, w) BY <1>1, <1>7 DEF ChatInStep
    <2>2. \A l \in Line : stdout' = Append(stdout, l) => G = Append(F, l) BY <1>1, PrintedLast
    <2> HIDE DEF F, C, k, w, G, B, c
    <2>3. CASE c.cmd = "state" /\ stdout' = Append(stdout, Answer(c, pi.busy)) /\ UNCHANGED pi
      <3> DEFINE l == Answer(c, pi.busy)
      <3>1. l \in Line /\ l.line = "answer" /\ l.to = c BY <1>2, <1>3, <2>3, AnswersAre DEF Answer
      <3>2. G = Append(F, l) /\ stdout' = Append(stdout, l) BY <2>2, <2>3, <3>1
      <3> HIDE DEF l
      <3>3. Straight(G, C, tab, pi, k, w) BY <1>2, <1>3, <1>5, <1>6, <2>1, <2>3, <3>1, <3>2, StraightAnswers
      <3>4. G \in Seq(Line) BY <1>5, <3>1, <3>2
      <3>5. C[1].cmd # "prompt" BY <1>2, <2>3
      <3>6. Straight(G, B, tab, pi, k, w) BY <1>2, <1>5, <1>6, <3>3, <3>4, <3>5, StraightRead
      <3> QED BY <2>3, <3>6
    <2>4. CASE c.cmd = "messages" /\ stdout' = Append(stdout, Answer(c, pi.said)) /\ UNCHANGED pi
      <3> DEFINE l == Answer(c, pi.said)
      <3>1. l \in Line /\ l.line = "answer" /\ l.to = c /\ l.data = pi.said BY <1>2, <1>3, <2>4, AnswersAre DEF Answer
      <3>2. G = Append(F, l) BY <2>2, <2>4, <3>1
      <3>7. pi.turn # "tooled" BY <1>1, <1>7, <2>4 DEF c
      <3> HIDE DEF l
      <3>3. Straight(G, C, tab, pi, k, w) BY <1>2, <1>3, <1>5, <1>6, <2>1, <2>4, <3>1, <3>2, <3>7, StraightAnswers
      <3>4. G \in Seq(Line) BY <1>5, <3>1, <3>2
      <3>5. C[1].cmd # "prompt" BY <1>2, <2>4
      <3>6. Straight(G, B, tab, pi, k, w) BY <1>2, <1>5, <1>6, <3>3, <3>4, <3>5, StraightRead
      <3> QED BY <2>4, <3>6
    <2>5. CASE c.cmd = "new" /\ ~pi.busy /\ stdout' = Append(stdout, Answer(c, None)) /\ pi' = [pi EXCEPT !.said = <<>>]
      <3> DEFINE l == Answer(c, None)
      <3>1. l \in Line /\ l.line = "answer" /\ l.to = c BY <1>2, <2>5, AnswersAre DEF Answer
      <3>2. G = Append(F, l) BY <2>2, <2>5, <3>1
      <3> HIDE DEF l
      <3>7. q.said = <<>> /\ q.turn = pi.turn /\ ~q.busy BY <1>3, <2>5 DEF PiRec
      <3>8. Renews(l) BY <2>5, <3>1 DEF Renews
      <3> HIDE DEF q
      <3>9. C[1].cmd = "new" BY <1>2, <2>5
      <3>3. Straight(G, C, tab, q, k, w) BY <1>2, <1>3, <1>5, <2>1, <2>5, <3>1, <3>2, <3>7, <3>8, <3>9, StraightRenews
      <3>4. G \in Seq(Line) BY <1>5, <3>1, <3>2
      <3>5. C[1].cmd # "prompt" BY <3>9
      <3>6. Straight(G, B, tab, q, k, w) BY <1>2, <1>5, <1>6, <3>3, <3>4, <3>5, StraightRead
      <3> QED BY <3>6
    <2>6. CASE /\ c.cmd = "prompt" /\ ~pi.busy /\ pi' = [pi EXCEPT !.busy = TRUE, !.said = Append(@, Message("user", c.for))]
               /\ stdout' = Append(stdout, Event("start", None, <<>>))
      <3> DEFINE l == Event("start", None, <<>>)
      <3>1. l \in Line /\ l.line = "start" BY LinesAre DEF Event
      <3>2. G = Append(F, l) BY <2>2, <2>6, <3>1
      <3> HIDE DEF l
      <3>3. q.said = Append(pi.said, Typed(C[1])) /\ q.turn = pi.turn /\ q.busy
        <4>1. Typed(C[1]) = Message("user", c.for) BY <1>2 DEF Typed
        <4> QED BY <1>3, <2>6, <4>1 DEF PiRec
      <3> HIDE DEF q
      <3>4. Straight(F, B, tab, q, k, w) BY <1>2, <1>3, <1>5, <1>6, <2>1, <2>6, <3>3, StraightPrompted
      <3>5. l.line \in {"running", "start", "settled"} BY <3>1
      <3> QED BY <1>5, <3>1, <3>2, <3>4, <3>5, StraightNotedLast
    <2>7. ~(c.cmd \in {"prompt", "new"} /\ pi.busy) BY <1>1, <1>7 DEF c
    <2> QED BY <1>4, <2>3, <2>4, <2>5, <2>6, <2>7
  <1> QED BY <1>1, <1>7 DEF ChatInStep

\* The agent's process changes.
LEMMA BecomesInStep ==
  ASSUME ChatTypes, ChatInStep, NEW i \in Instances \cup {None}, PiBecomes(i)
  PROVE  ChatInStep'
  <1> DEFINE F == Flow  C == Orders  k == left.prompt  w == (conn # None)  q == pi'  B == Orders'
  <1>1. /\ pi' = [pi EXCEPT !.inst = i, !.busy = FALSE, !.turn = "none", !.results = <<>>] /\ stdin' = <<>>
        /\ ~excused' => ~excused /\ ~pi.busy /\ \A c \in Range(stdin) : c.cmd \notin {"prompt", "new"}
        /\ UNCHANGED <<left, stdout, conn, up, down, unsent, tab>>
    BY DEF PiBecomes
  <1>2. PiRight(pi) /\ pi \in PiRec /\ pi.said \in Seq(Msg) BY DEF ChatTypes, PiRight, PiRec
  <1>3. PiRight(q)
    <2>1. ChatTypes' BY BecomesTypes
    <2> QED BY <2>1 DEF ChatTypes
  <1>4. q.said = pi.said /\ q.turn = "none" /\ ~q.busy BY <1>1, <1>2 DEF PiRec
  <1>5. F \in Seq(Line) /\ C \in Seq(Order) /\ stdin \in Seq(Order) /\ up \in Seq(Order) /\ unsent \in Seq(Order) BY WaysAre
  <1>6. tab # None => TabRight(tab) BY DEF ChatTypes
  <1> DEFINE o == <<>>  e == up \o unsent
  <1>7. o \in Seq(Order) /\ e \in Seq(Order) /\ C = (o \o stdin) \o e /\ B = o \o e
    <2>1. o \in Seq(Order) /\ e \in Seq(Order) BY <1>5
    <2>2. o \o stdin = stdin BY <1>5, ConcatEmptySeq
    <2>3. C = stdin \o e BY <1>5, Regrouped DEF Orders
    <2>4. B = (o \o up) \o unsent BY <1>1 DEF Orders
    <2>5. (o \o up) \o unsent = o \o e BY <1>5, <2>1, Regrouped
    <2> QED BY <2>1, <2>2, <2>3, <2>4, <2>5
  <1>8. Flow' = F BY <1>1 DEF Flow
  <1>9. ASSUME ~excused' PROVE Straight(F, B, tab, q, k, w)
    <2>1. Straight(F, C, tab, pi, k, w) /\ ~pi.busy BY <1>1, <1>9 DEF ChatInStep
    <2>2. \A x \in 1 .. Len(stdin) : stdin[x].cmd # "prompt"
      <3>1. \A s \in Seq(Order) : Range(s) = {s[x] : x \in 1 .. Len(s)} BY RangeEquality
      <3> QED BY <1>1, <1>5, <1>9, <3>1
    <2> HIDE DEF F, C, k, w, q, B, o, e
    <2>3. SaidRight(pi) /\ Older(pi.said, k) BY <2>1 DEF Straight, Ordered, Numbers
    <2>4. SaidRight(q) BY <1>4, <2>1, <2>3 DEF SaidRight
    <2>5. End(q) = End(pi)
      <3>1. End(pi) = Len(pi.said) BY <1>2, <2>1, Rested
      <3> QED BY <1>4, <3>1 DEF End
    <2>6. Older(q.said, k) /\ Leads(pi.said, q.said)
      <3>1. Len(pi.said) <= Len(pi.said) BY <1>2
      <3> QED BY <1>4, <2>3, <3>1 DEF Leads
    <2>7. Straight(F, C, tab, q, k, w) BY <1>2, <1>3, <1>4, <1>5, <1>6, <2>1, <2>4, <2>5, <2>6, StraightTurns
    <2> QED BY <1>5, <1>6, <1>7, <2>2, <2>7, StraightCut
  <1> QED BY <1>1, <1>8, <1>9 DEF ChatInStep

--------------------------------------------------------------------------
(* The steps of the socket and the server                                  *)

\* Commands that say the same as those in front of R.
LEMMA SameOrders ==
  ASSUME NEW U \in Seq(Order), NEW V \in Seq(Order), Len(U) = Len(V), NEW R \in Seq(Order),
         \A i \in 1 .. Len(U) : U[i].cmd = V[i].cmd /\ U[i].for = V[i].for, NEW C, C = U \o R, NEW B, B = V \o R
  PROVE  /\ B \in Seq(Order) /\ C \in Seq(Order)
         /\ \E g : TakenOut(C, B, g)
  <1> DEFINE g == [y \in 1 .. Len(B) |-> y]
  <1>1. /\ C \in Seq(Order) /\ B \in Seq(Order) /\ Len(U) \in Nat /\ Len(R) \in Nat
        /\ Len(B) = Len(U) + Len(R) /\ Len(C) = Len(U) + Len(R)
    <2>1. C \in Seq(Order) /\ Len(U) \in Nat /\ Len(R) \in Nat /\ Len(C) = Len(U) + Len(R)
      <3>1. U \o R \in Seq(Order) /\ Len(U \o R) = Len(U) + Len(R) BY ConcatProperties, Zenon
      <3> QED BY <3>1
    <2>2. B \in Seq(Order) /\ Len(B) = Len(V) + Len(R) BY Joined
    <2> QED BY <2>1, <2>2
  <1>2. \A y \in 1 .. Len(B) : B[y].cmd = C[y].cmd /\ B[y].for = C[y].for
    <2> TAKE y \in 1 .. Len(B)
    <2>1. CASE y \in 1 .. Len(U)
      <3>1. C[y] = U[y] /\ B[y] = V[y] BY <1>1, <2>1, Joined
      <3> QED BY <2>1, <3>1
    <2>2. CASE y \notin 1 .. Len(U)
      <3>1. y \in 1 .. Len(C) /\ y \notin 1 .. Len(V) BY <1>1, <2>2
      <3>2. C[y] = R[y - Len(U)] BY <2>2, <3>1, Joined
      <3>3. B[y] = R[y - Len(V)] BY <3>1, Joined
      <3> QED BY <3>2, <3>3
    <2> QED BY <2>1, <2>2
  <1>3. g \in [1 .. Len(B) -> 0 .. Len(C)] /\ \A y \in 1 .. Len(B) : g[y] = y /\ g[y] # 0 BY <1>1
  <1> HIDE DEF g
  <1>4. Comes(C, B, g)
    <2>1. \A y \in 1 .. Len(B) : B[y].cmd = C[g[y]].cmd /\ B[y].for = C[g[y]].for
      <3> TAKE y \in 1 .. Len(B)
      <3>1. g[y] = y BY <1>3
      <3> QED BY <1>2, <3>1
    <2>2. \A x, y \in 1 .. Len(B) : x < y => g[x] < g[y] BY <1>3
    <2> QED BY <1>3, <2>1, <2>2 DEF Comes
  <1>5. KeepsPrompts(C, B, g) BY <1>1, <1>3 DEF KeepsPrompts, Prompts
  <1>6. \A t, s : NewOrders(B, g, t, s) BY <1>3 DEF NewOrders
  <1>7. TakenOut(C, B, g) BY <1>4, <1>5, <1>6 DEF TakenOut
  <1> QED BY <1>1, <1>7

\* A command that is passed on keeps its place.
LEMMA PassedOn ==
  ASSUME NEW a \in Seq(Order), NEW R \in Seq(Order), NEW c \in Order, NEW d \in Order, d.cmd = c.cmd, d.for = c.for,
         NEW C, C = (a \o <<c>>) \o R, NEW B, B = Append(a, d) \o R
  PROVE  /\ B \in Seq(Order) /\ C \in Seq(Order)
         /\ \E g : TakenOut(C, B, g)
  <1> DEFINE U == Append(a, c)  V == Append(a, d)
  <1>1. a \o <<c>> = U OBVIOUS
  <1>2. U \in Seq(Order) /\ V \in Seq(Order) /\ Len(U) = Len(V) OBVIOUS
  <1>3. \A i \in 1 .. Len(U) : U[i].cmd = V[i].cmd /\ U[i].for = V[i].for
    <2> TAKE i \in 1 .. Len(U)
    <2>1. CASE i \in 1 .. Len(a) BY <2>1
    <2>2. CASE i = Len(a) + 1
      <3>1. U[i] = c /\ V[i] = d BY <2>2
      <3> QED BY <3>1
    <2>3. Len(U) = Len(a) + 1 /\ Len(a) \in Nat OBVIOUS
    <2> QED BY <2>1, <2>2, <2>3
  <1>4. C = U \o R /\ B = V \o R BY <1>1
  <1> HIDE DEF U, V
  <1> QED BY <1>2, <1>3, <1>4, SameOrders

\* The server takes a command.
LEMMA ServerInStep ==
  ASSUME ChatTypes, ChatInStep, NEW running, ServerReceives(running)
  PROVE  ChatInStep'
  <1> DEFINE F == Flow  C == Orders  k == left.prompt  w == (conn # None)  B == Orders'
             c == Head(up)  M == <<c>>  R == Tail(up) \o unsent  d == [c EXCEPT !.conn = conn]
  <1>1. /\ up # <<>> /\ up' = Tail(up) /\ UNCHANGED <<left, pi, stdout, conn, down, unsent, tab>>
        /\ (~excused' => ~excused)
        /\ stdin' = Append(stdin, d) \/ (stdin' = stdin /\ (~excused' => c.cmd # "prompt"))
    BY DEF ServerReceives
  <1>2. F \in Seq(Line) /\ C \in Seq(Order) /\ stdin \in Seq(Order) /\ up \in Seq(Order) /\ unsent \in Seq(Order) BY WaysAre
  <1>3. c \in Order /\ M \in Seq(Order) /\ R \in Seq(Order) /\ C = (stdin \o M) \o R /\ Tail(up) \in Seq(Order)
    <2> HIDE DEF c
    <2>1. Head(up) \in Order /\ <<Head(up)>> \in Seq(Order) /\ Tail(up) \in Seq(Order) /\ Tail(up) \o unsent \in Seq(Order)
          /\ (stdin \o up) \o unsent = (stdin \o <<Head(up)>>) \o (Tail(up) \o unsent)
      <3>1. up # <<>> BY <1>1
      <3>2. stdin \in Seq(Order) /\ up \in Seq(Order) /\ unsent \in Seq(Order) BY <1>2
      <3> QED BY <3>1, <3>2, FirstOut
    <2>2. Orders = (stdin \o up) \o unsent BY DEF Orders
    <2> QED BY <2>1, <2>2 DEF c
  <1>4. tab # None => TabRight(tab) BY DEF ChatTypes
  <1>5. Flow' = F BY <1>1 DEF Flow
  <1>6. d \in Order /\ d.cmd = c.cmd /\ d.for = c.for
    <2>1. conn \in Nat \cup {None} BY DEF ChatTypes
    <2> HIDE DEF c
    <2> QED BY <1>3, <2>1 DEF Order
  <1> HIDE DEF d, c
  <1>7. ASSUME ~excused' PROVE Straight(F, B, tab, pi, k, w)
    <2>1. Straight(F, C, tab, pi, k, w) BY <1>1, <1>7 DEF ChatInStep
    <2>2. CASE stdin' = Append(stdin, d)
      <3>1. d \in Order /\ d.cmd = c.cmd /\ d.for = c.for BY <1>6
      <3>2. B = Append(stdin, d) \o R
        <4> DEFINE A == Append(stdin, d)  T == Tail(up)
        <4>1. A \in Seq(Order) /\ T \in Seq(Order) BY <1>2, <1>3, <3>1
        <4>2. B = (A \o T) \o unsent BY <1>1, <2>2 DEF Orders
        <4> HIDE DEF A, T, B
        <4>3. (A \o T) \o unsent = A \o (T \o unsent)
          <5>1. unsent \in Seq(Order) BY <1>2
          <5> QED BY <4>1, <5>1, Regrouped
        <4> QED BY <4>2, <4>3 DEF A, T
      <3> HIDE DEF F, C, k, w, B, R
      <3>3. C = (stdin \o <<c>>) \o R BY <1>3
      <3> HIDE DEF M
      <3>4. B \in Seq(Order) /\ \E g : TakenOut(C, B, g) BY <1>2, <1>3, <3>1, <3>2, <3>3, PassedOn
      <3>5. PICK g : TakenOut(C, B, g) BY <3>4
      <3>6. Comes(C, B, g) /\ KeepsPrompts(C, B, g) /\ NewOrders(B, g, tab, tab) BY <3>5 DEF TakenOut
      <3> QED BY <1>2, <1>4, <2>1, <3>4, <3>6, StraightComes
    <2>3. CASE stdin' = stdin /\ (~excused' => c.cmd # "prompt")
      <3>1. c.cmd # "prompt" BY <1>7, <2>3
      <3>2. \A x \in 1 .. Len(M) : M[x].cmd # "prompt" BY <3>1
      <3>3. B = stdin \o R
        <4> DEFINE T == Tail(up)
        <4>1. T \in Seq(Order) BY <1>3
        <4>2. B = (stdin \o T) \o unsent BY <1>1, <2>3 DEF Orders
        <4> HIDE DEF T, B
        <4>3. (stdin \o T) \o unsent = stdin \o (T \o unsent) BY <1>2, <4>1, Regrouped
        <4> QED BY <4>2, <4>3 DEF T
      <3> HIDE DEF F, C, k, w, B, R, M
      <3> QED BY <1>2, <1>3, <1>4, <2>1, <3>2, <3>3, StraightCut
    <2> QED BY <1>1, <2>2, <2>3
  <1> QED BY <1>1, <1>5, <1>7 DEF ChatInStep

\* What came over a connection that is gone is lost: no talk and no new session that the tab has to hear.
LEMMA StraightLost ==
  ASSUME NEW d \in Seq(Line), NEW e \in Seq(Line), NEW F, F = d \o e, NEW C, NEW t, NEW p, NEW k, NEW linked,
         t # None /\ t.booted => ~Lost(d), Straight(F, C, t, p, k, linked)
  PROVE  Straight(e, C, t, p, k, FALSE)
  <1> DEFINE m == Len(d)  h == [x \in 1 .. Len(e) |-> x + m]
  <1>1. F \in Seq(Line) /\ m \in Nat /\ Len(e) \in Nat /\ Len(F) = m + Len(e)
        /\ (\A x \in 1 .. m : F[x] = d[x]) /\ (\A x \in 1 .. Len(e) : m + x \in 1 .. Len(F) /\ F[m + x] = e[x])
        /\ \A x \in 1 .. Len(F) : x \in 1 .. m \/ (x > m /\ x - m \in 1 .. Len(e) /\ F[x] = e[x - m])
    BY Joined
  <1> HIDE DEF m
  <1>2. h \in [1 .. Len(e) -> 0 .. Len(F)] /\ \A x \in 1 .. Len(e) : h[x] = x + m /\ h[x] # 0 /\ h[x] \in 1 .. Len(F) /\ e[x] = F[h[x]]
    <2>1. \A x \in 1 .. Len(e) : x + m = m + x /\ x + m \in 0 .. Len(F) /\ x + m # 0 BY <1>1
    <2> QED BY <1>1, <2>1
  <1> HIDE DEF h
  <1>3. Carries(F, e, h)
    <2>1. \A x, y \in 1 .. Len(e) : x < y => h[x] < h[y]
      <3> TAKE x, y \in 1 .. Len(e)
      <3>1. h[x] = x + m /\ h[y] = y + m BY <1>2
      <3> QED BY <1>1, <3>1
    <2> QED BY <1>2, <2>1 DEF Carries
  <1>4. ASSUME NEW z \in 1 .. Len(F), z > m PROVE z - m \in 1 .. Len(e) /\ h[z - m] = z /\ e[z - m] = F[z]
    <2>1. z - m \in 1 .. Len(e) /\ F[z] = e[z - m] BY <1>1, <1>4
    <2>2. h[z - m] = (z - m) + m BY <1>2, <2>1
    <2> QED BY <1>1, <2>1, <2>2
  <1>5. KeepsRenewals(F, e, h)
    <2> SUFFICES ASSUME NEW x \in 1 .. Len(e), NEW z \in 1 .. Len(F), h[x] < z PROVE \E y \in 1 .. Len(e) : h[y] = z
      BY DEF KeepsRenewals
    <2>1. z > m
      <3>1. h[x] = x + m BY <1>2
      <3> QED BY <1>1, <3>1
    <2> QED BY <1>4, <2>1
  <1>6. ASSUME t # None, t.booted, NEW x \in 1 .. Len(F), Talks(F[x]) \/ Renews(F[x]) PROVE x > m
    <2> SUFFICES ASSUME x \in 1 .. m PROVE FALSE BY <1>1
    <2>1. F[x] = d[x] BY <1>1
    <2>2. d[x].line \in {"start", "settled", "running"}
      <3>1. DOMAIN d = 1 .. m BY DEF m
      <3> QED BY <1>6, <3>1 DEF Lost
    <2> QED BY <1>6, <2>1, <2>2 DEF Talks, Renews
  <1>7. t # None /\ t.booted => KeepsTalk(F, e, h, 0)
    <2> SUFFICES ASSUME t # None, t.booted, NEW v \in 1 .. Len(F), Talks(F[v]) PROVE \E y \in 1 .. Len(e) : h[y] = v
      BY DEF KeepsTalk
    <2> QED BY <1>4, <1>6
  <1>8. t # None /\ Renewed(F) => Renewed(e)
    <2> SUFFICES ASSUME t # None, NEW x \in 1 .. Len(F), Renews(F[x]) PROVE \E y \in 1 .. Len(e) : Renews(e[y])
      BY DEF Renewed
    <2>1. Gens(F, C, t) BY DEF Straight, Ordered
    <2>2. t.booted BY <2>1 DEF Gens
    <2> QED BY <1>4, <1>6, <2>2
  <1> DEFINE linking == FALSE
  <1>9. (linking => linked) /\ (t # None /\ (t.booted \/ linking) => KeepsTalk(F, e, h, 0)) BY <1>7
  <1>10. Straight(e, C, t, p, k, linking)
    <2> HIDE DEF linking
    <2> QED BY <1>1, <1>3, <1>5, <1>8, <1>9, StraightCarried
  <1> QED BY <1>10

\* The socket drops.
LEMMA DropsInStep ==
  ASSUME ChatTypes, Counted, ChatInStep, SocketDrops
  PROVE  ChatInStep'
  <1> DEFINE F == Flow  C == Orders  k == left.prompt  w == (conn # None)  B == Orders'
  <1>1. /\ conn' = None /\ up' = <<>> /\ down' = <<>> /\ left'.prompt = left.prompt
        /\ UNCHANGED <<pi, stdin, stdout, unsent, tab>>
        /\ ~excused' => /\ ~excused
                        /\ tab # None /\ tab.booted => ~Lost(down) /\ tab.boots = {}
                        /\ \A c \in Range(up) : c.cmd \notin {"prompt", "new"}
    BY Spending DEF SocketDrops
  <1>2. F \in Seq(Line) /\ C \in Seq(Order) /\ stdin \in Seq(Order) /\ up \in Seq(Order) /\ unsent \in Seq(Order)
        /\ down \in Seq(Line) /\ stdout \in Seq(Line)
    BY WaysAre
  <1>3. tab # None => TabRight(tab) BY DEF ChatTypes
  <1>4. Flow' = stdout
    <2>1. Flow' = <<>> \o stdout BY <1>1 DEF Flow
    <2> QED BY <1>2, <2>1, ConcatEmptySeq
  <1>5. B = stdin \o unsent
    <2>1. B = (stdin \o <<>>) \o unsent BY <1>1 DEF Orders
    <2>2. stdin \o <<>> = stdin BY <1>2, ConcatEmptySeq
    <2> QED BY <2>1, <2>2
  <1>6. F = down \o stdout /\ C = (stdin \o up) \o unsent BY DEF Flow, Orders
  <1>7. ASSUME ~excused' PROVE Straight(stdout, B, tab, pi, k, FALSE)
    <2>1. Straight(F, C, tab, pi, k, w) BY <1>1, <1>7 DEF ChatInStep
    <2>2. \A x \in 1 .. Len(up) : up[x].cmd # "prompt"
      <3>1. \A s \in Seq(Order) : Range(s) = {s[x] : x \in 1 .. Len(s)} BY RangeEquality
      <3> QED BY <1>1, <1>2, <1>7, <3>1
    <2>3. tab # None /\ tab.booted => ~Lost(down) BY <1>1, <1>7
    <2> HIDE DEF F, C, k, w, B
    <2>4. Straight(stdout, C, tab, pi, k, FALSE) BY <1>2, <1>6, <2>1, <2>3, StraightLost
    <2> DEFINE linking == FALSE
    <2>5. Straight(stdout, C, tab, pi, k, linking) BY <2>4
    <2> HIDE DEF linking
    <2>6. Straight(stdout, B, tab, pi, k, linking) BY <1>2, <1>3, <1>5, <1>6, <2>2, <2>5, StraightCut
    <2> QED BY <2>6 DEF linking
  <1>8. Straight(stdout, B, tab, pi, k, FALSE) => Straight(stdout, B, tab, pi, k, conn' # None) BY <1>1
  <1> QED BY <1>1, <1>4, <1>7, <1>8 DEF ChatInStep

\* A socket opens: a chat that has bootstrapped waits for no snapshot then, and one that has not
\* asks for one.
LEMMA OpensInStep ==
  ASSUME ChatTypes, Quotas, ChatInStep, NEW running, SocketOpens(running)
  PROVE  ChatInStep'
  <1> DEFINE F == Flow  C == Orders  k == left.prompt  w == (conn # None)  B == Orders'  G == Flow'  s == tab'
             l == Event("running", None, <<>>)
  <1>1. /\ conn = None /\ conn' = left.drop + 1 /\ down' = (IF running THEN <<l>> ELSE <<>>) /\ unsent' = <<>>
        /\ (tab # None /\ ~tab.booted /\ tab' = Booting(tab) /\ up' = Asks(tab') \o unsent)
           \/ (~(tab # None /\ ~tab.booted) /\ up' = unsent /\ tab' = tab)
        /\ UNCHANGED <<left, pi, stdin, stdout, excused>>
    BY DEF SocketOpens
  <1>2. conn' # None /\ up = <<>> /\ down = <<>>
    <2>1. conn' \in Nat BY <1>1 DEF Quotas
    <2> QED BY <1>1, <2>1, ChatAssumption DEF ChatTypes
  <1>3. F \in Seq(Line) /\ C \in Seq(Order) /\ stdin \in Seq(Order) /\ up \in Seq(Order) /\ unsent \in Seq(Order)
        /\ down \in Seq(Line) /\ stdout \in Seq(Line)
    BY WaysAre
  <1>4. F = stdout /\ C = stdin \o unsent
    <2>1. F = <<>> \o stdout /\ C = (stdin \o <<>>) \o unsent BY <1>2 DEF Flow, Orders
    <2>2. stdin \o <<>> = stdin BY <1>3, ConcatEmptySeq
    <2> QED BY <1>3, <2>1, <2>2, ConcatEmptySeq
  <1>5. l \in Line /\ l.line = "running" BY LinesAre DEF Event
  <1> HIDE DEF l
  <1>6. tab # None => TabRight(tab) BY DEF ChatTypes
  <1>7. ASSUME NEW CC \in Seq(Order), NEW t, NEW linked, Straight(F, CC, t, pi, k, linked) PROVE Straight(G, CC, t, pi, k, linked)
    <2>1. CASE ~running
      <3>1. G = <<>> \o stdout BY <1>1, <2>1 DEF Flow
      <3>2. G = F BY <1>3, <1>4, <3>1, ConcatEmptySeq
      <3> QED BY <1>7, <3>2
    <2>2. CASE running
      <3> DEFINE o == <<>>
      <3>1. o \in Seq(Line) /\ F = o \o stdout BY <1>3, <1>4, ConcatEmptySeq
      <3>2. G = Append(o, l) \o stdout
        <4>1. down' = <<l>> BY <1>1, <2>2
        <4>2. <<l>> = Append(o, l) OBVIOUS
        <4> QED BY <1>1, <4>1, <4>2 DEF Flow
      <3>3. l.line \in {"running", "start", "settled"} BY <1>5
      <3> HIDE DEF F, k, G, o
      <3> QED BY <1>3, <1>5, <1>7, <3>1, <3>2, <3>3, StraightNoted
    <2> QED BY <2>1, <2>2
  <1>8. ASSUME ~excused PROVE Straight(F, B, s, pi, k, TRUE) /\ B \in Seq(Order)
    <2>1. Straight(F, C, tab, pi, k, w) BY <1>8 DEF ChatInStep
    <2>2. CASE tab # None /\ ~tab.booted /\ tab' = Booting(tab) /\ up' = Asks(tab') \o unsent
      <3>1. TabRight(s) /\ s.gen = tab.gen + 1 BY <1>6, <2>2, BootingKeeps
      <3>2. Asks(s) \in Seq(Order)
        <4>1. s.gen \in Nat BY <3>1 DEF TabRight, TabRec
        <4> QED BY <4>1, AsksAre
      <3>3. B = (stdin \o Asks(s)) \o unsent /\ B \in Seq(Order)
        <4> DEFINE A == Asks(s)  V == A \o unsent
        <4>1. A \in Seq(Order) /\ V \in Seq(Order) /\ stdin \o V \in Seq(Order) BY <1>3, <3>2
        <4>2. B = (stdin \o V) \o <<>>
          <5>1. stdin' = stdin /\ unsent' = <<>> BY <1>1
          <5>2. up' = V BY <2>2
          <5>3. B = (stdin' \o up') \o unsent' BY DEF Orders
          <5> HIDE DEF B, V
          <5> QED BY <5>1, <5>2, <5>3
        <4> HIDE DEF A, B
        <4>3. B = stdin \o V BY <4>1, <4>2, ConcatEmptySeq
        <4>4. (stdin \o A) \o unsent = stdin \o V
          <5>1. stdin \in Seq(Order) /\ unsent \in Seq(Order) BY <1>3
          <5>2. A \in Seq(Order) BY <4>1
          <5> HIDE DEF A, F, C, k, w, G, s, V
          <5>3. (stdin \o A) \o unsent = stdin \o (A \o unsent) BY <5>1, <5>2, Regrouped
          <5> QED BY <5>3 DEF V
        <4>5. B = (stdin \o A) \o unsent /\ B \in Seq(Order) BY <4>1, <4>3, <4>4
        <4> QED BY <4>5 DEF A
      <3> DEFINE linking == TRUE
      <3>4. s = Booting(tab) BY <2>2
      <3> HIDE DEF F, C, k, w, B, s, linking
      <3>5. Ordered(F, C, tab, pi, k) /\ Confirms(F, C, tab, pi) /\ StillTyped(C, tab) BY <2>1, <2>2 DEF Straight
      <3>6. \A y \in Prompts(C) : tab.booted \/ Typed(C[y]) \in tab.optimistic BY <3>5 DEF StillTyped
      <3>7. Straight(F, B, s, pi, k, linking) BY <1>3, <1>4, <1>6, <2>2, <3>3, <3>4, <3>5, <3>6, StraightAsks
      <3> QED BY <3>3, <3>7 DEF linking
    <2>3. CASE ~(tab # None /\ ~tab.booted) /\ up' = unsent /\ tab' = tab
      <3>1. B = C /\ B \in Seq(Order)
        <4>1. B = (stdin \o unsent) \o <<>> BY <1>1, <2>3 DEF Orders
        <4>2. stdin \o unsent \in Seq(Order) BY <1>3
        <4>3. B = stdin \o unsent BY <4>1, <4>2, ConcatEmptySeq
        <4> QED BY <1>4, <4>2, <4>3
      <3>2. tab # None => tab.boots = {} BY <1>1, <1>8, <2>3 DEF ChatInStep
      <3>3. tab # None => ~Asking(tab) BY <3>2 DEF Asking
      <3> HIDE DEF F, C, k, w, B
      <3>4. tab # None => WillShow(F, C, tab, pi) BY <3>3 DEF WillShow
      <3>5. Straight(F, C, tab, pi, k, TRUE) BY <2>1, <3>4 DEF Straight
      <3> QED BY <2>3, <3>1, <3>5
    <2> QED BY <1>1, <2>2, <2>3
  <1>9. ASSUME ~excused PROVE Straight(G, B, s, pi, k, conn' # None)
    <2> DEFINE linking == TRUE
    <2>1. Straight(F, B, s, pi, k, linking) /\ B \in Seq(Order) BY <1>8, <1>9
    <2> HIDE DEF F, C, k, w, B, s, G, linking
    <2>2. Straight(G, B, s, pi, k, linking) BY <1>7, <2>1
    <2>3. (conn' # None) = linking BY <1>2 DEF linking
    <2> QED BY <2>2, <2>3
  <1> QED BY <1>1, <1>2, <1>9 DEF ChatInStep

--------------------------------------------------------------------------
(* A read of pi's output                                                   *)

\* The lines of M are those of s at the positions m; answers come behind what was printed after them.
MovesBy(s, M, m) ==
    /\ m \in [1 .. Len(M) -> 1 .. Len(s)]
    /\ \A k \in 1 .. Len(M) : M[k] = s[m[k]]
    /\ \A j, k \in 1 .. Len(M) : j < k =>
          m[j] < m[k] \/ (m[k] < m[j] /\ s[m[j]].line # "answer" /\ s[m[k]].line = "answer")
\* Those it has.
Has(m, M, x) == \E k \in 1 .. Len(M) : m[k] = x
HasAll(s, M, m) == MovesBy(s, M, m) /\ \A x \in 1 .. Len(s) : Has(m, M, x)

\* What happened goes before what is answered.
LEMMA SortedIs ==
  ASSUME NEW s \in Seq(Line), NEW M, M = Events(s) \o Answers(s)
  PROVE  M \in Seq(Line) /\ \E m : HasAll(s, M, m)
  <1> DEFINE E == Events(s)  A == Answers(s)
             xe == {x \in DOMAIN s : s[x].line # "answer"}  xa == {x \in DOMAIN s : s[x].line = "answer"}
  <1>1. xe \in SUBSET (1 .. Len(s)) /\ xa \in SUBSET (1 .. Len(s)) OBVIOUS
  <1>2. E = Picked(s, xe) /\ A = Picked(s, xa) BY DEF Events, Answers
  <1>3. \A x \in xe : x \in 1 .. Len(s) /\ s[x].line # "answer" OBVIOUS
  <1>4. \A x \in xa : x \in 1 .. Len(s) /\ s[x].line = "answer" OBVIOUS
  <1>5. \A x \in 1 .. Len(s) : x \in xe \/ x \in xa OBVIOUS
  <1> HIDE DEF E, A, xe, xa
  <1>6. E \in Seq(Line) /\ \E h : PicksBy(s, xe, E, h) BY <1>1, <1>2, PickedIs
  <1>7. A \in Seq(Line) /\ \E h : PicksBy(s, xa, A, h) BY <1>1, <1>2, PickedIs
  <1>8. PICK he : PicksBy(s, xe, E, he) BY <1>6
  <1>9. PICK ha : PicksBy(s, xa, A, ha) BY <1>7
  <1>10. M = E \o A BY DEF E, A
  <1>11. /\ M \in Seq(Line) /\ Len(E) \in Nat /\ Len(A) \in Nat /\ Len(M) = Len(E) + Len(A)
         /\ \A i \in 1 .. Len(E) : i \in 1 .. Len(M) /\ M[i] = E[i]
         /\ \A i \in 1 .. Len(A) : Len(E) + i \in 1 .. Len(M) /\ M[Len(E) + i] = A[i]
         /\ \A i \in 1 .. Len(M) : i \in 1 .. Len(E) \/ (i > Len(E) /\ i - Len(E) \in 1 .. Len(A) /\ M[i] = A[i - Len(E)])
    BY <1>6, <1>7, <1>10, Joined
  <1> DEFINE e == Len(E)  m == [k \in 1 .. Len(M) |-> IF k <= e THEN he[k] ELSE ha[k - e]]
  <1>12. \A i \in 1 .. e : he[i] \in xe /\ E[i] = s[he[i]] BY <1>8 DEF PicksBy
  <1>13. \A i \in 1 .. Len(A) : ha[i] \in xa /\ A[i] = s[ha[i]] BY <1>9 DEF PicksBy
  <1> HIDE DEF e
  <1>14. ASSUME NEW k \in 1 .. Len(M)
         PROVE  \/ k \in 1 .. e /\ m[k] = he[k] /\ m[k] \in xe /\ M[k] = s[m[k]]
                \/ k > e /\ k - e \in 1 .. Len(A) /\ m[k] = ha[k - e] /\ m[k] \in xa /\ M[k] = s[m[k]]
    <2>1. CASE k \in 1 .. e
      <3>1. m[k] = he[k] /\ M[k] = E[k] BY <1>11, <2>1 DEF e
      <3> QED BY <1>12, <2>1, <3>1
    <2>2. CASE k > e /\ k - e \in 1 .. Len(A) /\ M[k] = A[k - e]
      <3>1. m[k] = ha[k - e] BY <1>11, <2>2 DEF e
      <3> QED BY <1>13, <2>2, <3>1
    <2> QED BY <1>11, <2>1, <2>2 DEF e
  <1>15. \A k \in 1 .. Len(M) : m[k] \in 1 .. Len(s) BY <1>3, <1>4, <1>14
  <1>16. m \in [1 .. Len(M) -> 1 .. Len(s)] BY <1>15
  <1> HIDE DEF m
  <1>17. ASSUME NEW j \in 1 .. Len(M), NEW k \in 1 .. Len(M), j < k
         PROVE  m[j] < m[k] \/ (m[k] < m[j] /\ s[m[j]].line # "answer" /\ s[m[k]].line = "answer")
    <2>1. e \in Nat /\ j \in Nat /\ k \in Nat BY <1>11 DEF e
    <2>2. CASE j \in 1 .. e /\ k \in 1 .. e
      <3>1. m[j] = he[j] /\ m[k] = he[k] BY <1>14, <2>1, <2>2
      <3> QED BY <1>8, <1>17, <2>2, <3>1 DEF PicksBy, e
    <2>3. CASE j \in 1 .. e /\ k > e
      <3>1. m[j] \in xe /\ m[k] \in xa BY <1>14, <2>1, <2>3
      <3>2. m[j] \in 1 .. Len(s) /\ m[k] \in 1 .. Len(s) /\ s[m[j]].line # "answer" /\ s[m[k]].line = "answer" BY <1>3, <1>4, <3>1
      <3>3. m[j] # m[k] BY <3>2
      <3> QED BY <3>2, <3>3
    <2>4. CASE j > e /\ k > e
      <3>1. m[j] = ha[j - e] /\ m[k] = ha[k - e] /\ j - e \in 1 .. Len(A) /\ k - e \in 1 .. Len(A) BY <1>14, <2>1, <2>4
      <3>2. j - e < k - e BY <1>17, <2>1
      <3> QED BY <1>9, <3>1, <3>2 DEF PicksBy
    <2> QED BY <1>17, <2>1, <2>2, <2>3, <2>4
  <1>18. ASSUME NEW x \in 1 .. Len(s) PROVE Has(m, M, x)
    <2>1. CASE x \in xe
      <3>1. PICK i \in 1 .. Len(E) : he[i] = x BY <1>8, <2>1 DEF PicksBy
      <3>2. i \in 1 .. Len(M) /\ m[i] = he[i] BY <1>11, <1>14, <3>1 DEF e
      <3> QED BY <3>1, <3>2 DEF Has
    <2>2. CASE x \in xa
      <3>1. PICK i \in 1 .. Len(A) : ha[i] = x BY <1>9, <2>2 DEF PicksBy
      <3> DEFINE k == e + i
      <3>2. k \in 1 .. Len(M) /\ k > e /\ k - e = i BY <1>11, <3>1 DEF e
      <3> HIDE DEF k
      <3>3. e \in Nat BY <1>11 DEF e
      <3>4. m[k] = ha[k - e] BY <1>14, <3>2, <3>3
      <3> QED BY <3>1, <3>2, <3>4 DEF Has
    <2> QED BY <1>5, <2>1, <2>2
  <1>19. MovesBy(s, M, m) BY <1>14, <1>16, <1>17 DEF MovesBy
  <1> QED BY <1>11, <1>18, <1>19 DEF HasAll

\* Of those, some reach the tab.
Reaches(l) == conn # None /\ (l.line = "answer" => l.to.conn = conn)
Reached(s, R, m) == MovesBy(s, R, m) /\ \A x \in 1 .. Len(s) : Reaches(s[x]) => Has(m, R, x)
\* What reaches the tab is so reached.
LEMMA ReachingIs ==
  ASSUME NEW s \in Seq(Line), NEW M \in Seq(Line), NEW m, HasAll(s, M, m), NEW R, R = Reaching(M)
  PROVE  R \in Seq(Line) /\ \E r : Reached(s, R, r)
  <1> DEFINE xs == {x \in DOMAIN M : conn # None /\ (M[x].line = "answer" => M[x].to.conn = conn)}
  <1>1. xs \in SUBSET (1 .. Len(M)) /\ R = Picked(M, xs) BY DEF Reaching
  <1>2. \A x \in 1 .. Len(M) : Reaches(M[x]) => x \in xs BY DEF Reaches
  <1> HIDE DEF xs
  <1>3. R \in Seq(Line) /\ \E h : PicksBy(M, xs, R, h) BY <1>1, PickedIs
  <1>4. PICK h : PicksBy(M, xs, R, h) BY <1>3
  <1> DEFINE r == [k \in 1 .. Len(R) |-> m[h[k]]]
  <1>5. \A k \in 1 .. Len(R) : h[k] \in 1 .. Len(M) /\ R[k] = M[h[k]] BY <1>1, <1>4 DEF PicksBy
  <1>6. MovesBy(s, M, m) BY DEF HasAll
  <1>7. \A k \in 1 .. Len(R) : r[k] = m[h[k]] /\ r[k] \in 1 .. Len(s) /\ R[k] = s[r[k]] BY <1>5, <1>6 DEF MovesBy
  <1>8. r \in [1 .. Len(R) -> 1 .. Len(s)] BY <1>7
  <1> HIDE DEF r
  <1>9. ASSUME NEW j \in 1 .. Len(R), NEW k \in 1 .. Len(R), j < k
        PROVE  r[j] < r[k] \/ (r[k] < r[j] /\ s[r[j]].line # "answer" /\ s[r[k]].line = "answer")
    <2>1. h[j] < h[k] /\ h[j] \in 1 .. Len(M) /\ h[k] \in 1 .. Len(M) BY <1>4, <1>5, <1>9 DEF PicksBy
    <2>2. m[h[j]] < m[h[k]] \/ (m[h[k]] < m[h[j]] /\ s[m[h[j]]].line # "answer" /\ s[m[h[k]]].line = "answer")
      BY <1>6, <2>1 DEF MovesBy
    <2> QED BY <1>7, <2>2
  <1>10. ASSUME NEW x \in 1 .. Len(s), Reaches(s[x]) PROVE Has(r, R, x)
    <2>1. PICK i \in 1 .. Len(M) : m[i] = x BY DEF HasAll, Has
    <2>2. M[i] = s[x] BY <1>6, <2>1 DEF MovesBy
    <2>3. i \in xs BY <1>2, <1>10, <2>2
    <2>4. PICK k \in 1 .. Len(R) : h[k] = i BY <1>4, <2>3 DEF PicksBy
    <2> QED BY <1>7, <2>1, <2>4 DEF Has
  <1>11. MovesBy(s, R, r) BY <1>7, <1>8, <1>9 DEF MovesBy
  <1> QED BY <1>3, <1>10, <1>11 DEF Reached

\* Three sequences one behind the other: d, then s, then e.
InThree(F, a, b, n, d, s, e) ==
    /\ Len(F) = a + b + n
    /\ \A i \in 1 .. a : F[i] = d[i]
    /\ \A i \in 1 .. b : F[a + i] = s[i]
    /\ \A i \in 1 .. n : F[a + b + i] = e[i]
\* They are in its three parts.
LEMMA ThreeAre ==
  ASSUME NEW d \in Seq(Line), NEW s \in Seq(Line), NEW e \in Seq(Line), NEW U, U = d \o s, NEW F, F = U \o e
  PROVE  F \in Seq(Line) /\ InThree(F, Len(d), Len(s), Len(e), d, s, e)
  <1> DEFINE a == Len(d)  b == Len(s)  n == Len(e)
  <1>1. /\ U \in Seq(Line) /\ a \in Nat /\ b \in Nat /\ Len(U) = a + b
        /\ (\A i \in 1 .. a : U[i] = d[i]) /\ (\A i \in 1 .. b : U[a + i] = s[i])
    BY Joined
  <1>3. /\ F \in Seq(Line) /\ n \in Nat /\ Len(F) = Len(U) + n
        /\ (\A i \in 1 .. Len(U) : F[i] = U[i]) /\ (\A i \in 1 .. n : F[Len(U) + i] = e[i])
    BY <1>1, Joined
  <1> HIDE DEF a, b, n
  <1>4. \A i \in 1 .. a : F[i] = d[i]
    <2>1. \A i \in 1 .. a : i \in 1 .. Len(U) BY <1>1
    <2> QED BY <1>1, <1>3, <2>1
  <1>5. \A i \in 1 .. b : F[a + i] = s[i]
    <2>1. \A i \in 1 .. b : a + i \in 1 .. Len(U) BY <1>1
    <2> QED BY <1>1, <1>3, <2>1
  <1>6. InThree(F, a, b, n, d, s, e) BY <1>1, <1>3, <1>4, <1>5 DEF InThree
  <1> QED BY <1>3, <1>6 DEF a, b, n

\* No snapshot is overtaken by what pi said after it.
SnapshotsFirst(s, b) == \A x, y \in 1 .. b : x < y => ~(Snapshot(s[x]) /\ Talks(s[y]))
\* The positions of what is moved from r, in the middle of what is not.
Shifted(a, c, b, n, r, h, x) ==
    \/ x \in 1 .. a /\ h[x] = x
    \/ \E i \in 1 .. c : x = a + i /\ h[x] = a + r[i]
    \/ \E i \in 1 .. n : x = a + c + i /\ h[x] = a + b + i
\* Such positions there are.
LEMMA Shifting ==
  ASSUME NEW a \in Nat, NEW b \in Nat, NEW c \in Nat, NEW n \in Nat, NEW r
  PROVE  \E h : h = [x \in 1 .. a + c + n |-> h[x]] /\ \A x \in 1 .. a + c + n : Shifted(a, c, b, n, r, h, x)
  <1> DEFINE h == [x \in 1 .. a + c + n |-> IF x <= a THEN x ELSE IF x <= a + c THEN a + r[x - a] ELSE a + b + (x - (a + c))]
  <1>1. ASSUME NEW x \in 1 .. a + c + n PROVE Shifted(a, c, b, n, r, h, x)
    <2>1. x \in Nat /\ x >= 1 /\ x <= a + c + n OBVIOUS
    <2>2. CASE x <= a
      <3>1. x \in 1 .. a /\ h[x] = x BY <2>1, <2>2
      <3> QED BY <3>1 DEF Shifted
    <2>3. CASE x > a /\ x <= a + c
      <3> DEFINE i == x - a
      <3>1. i \in 1 .. c /\ x = a + i /\ h[x] = a + r[i] BY <2>1, <2>3
      <3> HIDE DEF i, h
      <3> QED BY <3>1 DEF Shifted
    <2>4. CASE x > a + c
      <3> DEFINE i == x - (a + c)
      <3>1. i \in 1 .. n /\ x = a + c + i /\ h[x] = a + b + i BY <2>1, <2>4
      <3> HIDE DEF i, h
      <3> QED BY <3>1 DEF Shifted
    <2> QED BY <2>1, <2>2, <2>3, <2>4
  <1>2. h = [x \in 1 .. a + c + n |-> h[x]] OBVIOUS
  <1> HIDE DEF h
  <1> QED BY <1>1, <1>2

\* What is read moves on between what came before and what is yet to be read.
ReadThrough(a, b, s, F, G, R, r, h) ==
    /\ Carries(F, G, h)
    /\ \A z \in 1 .. Len(F) :
          \/ \E y \in 1 .. Len(G) : h[y] = z
          \/ \E i \in 1 .. b : z = a + i /\ F[z] = s[i] /\ ~Has(r, R, i)
\* A read is such a move.
LEMMA ReadOn ==
  ASSUME NEW a \in Nat, NEW b \in Nat, NEW c \in Nat, NEW n \in Nat, NEW d, NEW s, NEW e, NEW R, NEW r,
         Len(s) = b, Len(R) = c, MovesBy(s, R, r), SnapshotsFirst(s, b),
         NEW F, InThree(F, a, b, n, d, s, e), NEW G, InThree(G, a, c, n, d, R, e)
  PROVE  \E h : ReadThrough(a, b, s, F, G, R, r, h)
  <1>1. Len(F) = a + b + n /\ Len(G) = a + c + n BY DEF InThree
  <1>2. PICK h : h = [x \in 1 .. Len(G) |-> h[x]] /\ \A x \in 1 .. Len(G) : Shifted(a, c, b, n, r, h, x) BY <1>1, Shifting
  <1>3. \A k \in 1 .. c : r[k] \in 1 .. b /\ R[k] = s[r[k]] BY DEF MovesBy
  <1>4. ASSUME NEW i \in 1 .. a PROVE i \in 1 .. Len(F) /\ i \in 1 .. Len(G) /\ G[i] = F[i]
    <2>1. G[i] = d[i] /\ F[i] = d[i] BY DEF InThree
    <2> QED BY <1>1, <2>1
  <1>5. ASSUME NEW i \in 1 .. b PROVE a + i \in 1 .. Len(F) /\ F[a + i] = s[i] BY <1>1 DEF InThree
  <1>6. ASSUME NEW i \in 1 .. c PROVE a + i \in 1 .. Len(G) /\ G[a + i] = R[i] BY <1>1 DEF InThree
  <1>7. ASSUME NEW i \in 1 .. n PROVE a + b + i \in 1 .. Len(F) /\ a + c + i \in 1 .. Len(G) /\ G[a + c + i] = F[a + b + i]
    <2>1. G[a + c + i] = e[i] /\ F[a + b + i] = e[i] BY DEF InThree
    <2> QED BY <1>1, <2>1
  <1>9. ASSUME NEW x \in 1 .. Len(G) PROVE h[x] \in 1 .. Len(F) /\ G[x] = F[h[x]]
    <2>1. CASE x \in 1 .. a /\ h[x] = x BY <1>4, <2>1
    <2>2. CASE \E i \in 1 .. c : x = a + i /\ h[x] = a + r[i]
      <3>1. PICK i \in 1 .. c : x = a + i /\ h[x] = a + r[i] BY <2>2
      <3>2. r[i] \in 1 .. b /\ R[i] = s[r[i]] BY <1>3
      <3>3. G[x] = R[i] BY <1>6, <3>1
      <3>4. h[x] \in 1 .. Len(F) /\ F[h[x]] = s[r[i]] BY <1>5, <3>1, <3>2
      <3> QED BY <3>2, <3>3, <3>4
    <2>3. CASE \E i \in 1 .. n : x = a + c + i /\ h[x] = a + b + i BY <1>7, <2>3
    <2> QED BY <1>2, <2>1, <2>2, <2>3 DEF Shifted
  <1>10. ASSUME NEW x \in 1 .. Len(G), NEW y \in 1 .. Len(G), x < y
         PROVE  \/ h[x] < h[y]
                \/ /\ h[y] < h[x] /\ F[h[x]].line # "answer" /\ F[h[y]].line = "answer"
                   /\ ~(Snapshot(F[h[y]]) /\ Talks(F[h[x]]))
    <2> DEFINE P1(u) == u \in 1 .. a /\ h[u] = u
               P2(u) == \E i \in 1 .. c : u = a + i /\ h[u] = a + r[i]
               P3(u) == \E i \in 1 .. n : u = a + c + i /\ h[u] = a + b + i
    <2>1. (P1(x) \/ P2(x) \/ P3(x)) /\ (P1(y) \/ P2(y) \/ P3(y)) BY <1>2 DEF Shifted
    <2>2. CASE P1(x) /\ P1(y) BY <1>10, <2>2
    <2>3. CASE P1(x) /\ P2(y)
      <3>1. PICK j \in 1 .. c : y = a + j /\ h[y] = a + r[j] BY <2>3
      <3>2. r[j] \in 1 .. b BY <1>3
      <3> QED BY <2>3, <3>1, <3>2
    <2>4. CASE P1(x) /\ P3(y) BY <2>4
    <2>5. CASE P2(x) /\ P2(y)
      <3>1. PICK i \in 1 .. c : x = a + i /\ h[x] = a + r[i] BY <2>5
      <3>2. PICK j \in 1 .. c : y = a + j /\ h[y] = a + r[j] BY <2>5
      <3>3. r[i] \in 1 .. b /\ r[j] \in 1 .. b BY <1>3
      <3>4. i < j BY <1>10, <3>1, <3>2
      <3>5. r[i] < r[j] \/ (r[j] < r[i] /\ s[r[i]].line # "answer" /\ s[r[j]].line = "answer") BY <3>4 DEF MovesBy
      <3>6. CASE r[i] < r[j] BY <3>1, <3>2, <3>3, <3>6
      <3>7. CASE r[j] < r[i] /\ s[r[i]].line # "answer" /\ s[r[j]].line = "answer"
        <4>1. F[h[x]] = s[r[i]] /\ F[h[y]] = s[r[j]] BY <1>5, <3>1, <3>2, <3>3
        <4>2. ~(Snapshot(s[r[j]]) /\ Talks(s[r[i]])) BY <3>3, <3>7 DEF SnapshotsFirst
        <4>3. h[y] < h[x] BY <3>1, <3>2, <3>3, <3>7
        <4> QED BY <3>7, <4>1, <4>2, <4>3
      <3> QED BY <3>5, <3>6, <3>7
    <2>6. CASE P2(x) /\ P3(y)
      <3>1. PICK i \in 1 .. c : x = a + i /\ h[x] = a + r[i] BY <2>6
      <3>2. PICK j \in 1 .. n : y = a + c + j /\ h[y] = a + b + j BY <2>6
      <3>3. r[i] \in 1 .. b BY <1>3
      <3> QED BY <3>1, <3>2, <3>3
    <2>7. CASE P3(x) /\ P3(y) BY <1>10, <2>7
    <2>8. ~(P2(x) /\ P1(y)) /\ ~(P3(x) /\ P1(y)) /\ ~(P3(x) /\ P2(y)) BY <1>10
    <2> HIDE DEF P1, P2, P3
    <2> QED BY <2>1, <2>2, <2>3, <2>4, <2>5, <2>6, <2>7, <2>8
  <1>11. Carries(F, G, h)
    <2>1. \A x \in 1 .. Len(G) : h[x] \in 1 .. Len(F) BY <1>9
    <2>2. \A z \in 1 .. Len(F) : z \in 0 .. Len(F) /\ z # 0 BY <1>1
    <2>3. h \in [1 .. Len(G) -> 0 .. Len(F)]
      <3>1. \A x \in 1 .. Len(G) : h[x] \in 0 .. Len(F) BY <2>1, <2>2
      <3> QED BY <1>2, <3>1
    <2> QED BY <1>9, <1>10, <2>1, <2>2, <2>3 DEF Carries
  <1>12. ASSUME NEW z \in 1 .. Len(F)
         PROVE  \/ \E y \in 1 .. Len(G) : h[y] = z
                \/ \E i \in 1 .. b : z = a + i /\ F[z] = s[i] /\ ~Has(r, R, i)
    <2>1. z \in Nat /\ z >= 1 /\ z <= a + b + n BY <1>1
    <2>2. CASE z <= a
      <3>1. z \in 1 .. a /\ z \in 1 .. Len(G) BY <1>4, <2>1, <2>2
      <3>2. h[z] = z BY <1>2, <3>1 DEF Shifted
      <3> QED BY <3>1, <3>2
    <2>3. CASE z > a /\ z <= a + b
      <3> DEFINE i == z - a
      <3>1. i \in 1 .. b /\ z = a + i BY <2>1, <2>3
      <3> HIDE DEF i
      <3>2. F[z] = s[i] BY <1>5, <3>1
      <3>3. CASE Has(r, R, i)
        <4>1. PICK k \in 1 .. c : r[k] = i BY <3>3 DEF Has
        <4>2. a + k \in 1 .. Len(G) BY <1>6
        <4> DEFINE y == a + k
        <4>3. y \notin 1 .. a /\ (\A j \in 1 .. c : y = a + j => j = k) /\ (\A j \in 1 .. n : y # a + c + j) /\ y \in 1 .. Len(G) BY <4>2
        <4> HIDE DEF y
        <4>4. h[y] = a + r[k] BY <1>2, <4>3 DEF Shifted
        <4> QED BY <3>1, <4>1, <4>3, <4>4
      <3>4. CASE ~Has(r, R, i) BY <3>1, <3>2, <3>4
      <3> QED BY <3>3, <3>4
    <2>4. CASE z > a + b
      <3> DEFINE i == z - (a + b)
      <3>1. i \in 1 .. n /\ z = a + b + i BY <2>1, <2>4
      <3> HIDE DEF i
      <3> DEFINE y == a + c + i
      <3>2. y \notin 1 .. a /\ (\A j \in 1 .. c : y # a + j) /\ (\A j \in 1 .. n : y = a + c + j => j = i) /\ y \in 1 .. Len(G)
        <4>1. i \in Nat /\ i >= 1 /\ y \in Nat BY <3>1
        <4>2. y \in 1 .. Len(G) BY <1>7, <3>1
        <4>3. y \notin 1 .. a BY <4>1
        <4>4. \A j \in 1 .. c : y # a + j BY <4>1
        <4>5. \A j \in 1 .. n : y = a + c + j => j = i BY <4>1
        <4> QED BY <4>2, <4>3, <4>4, <4>5
      <3> HIDE DEF y
      <3>3. h[y] = a + b + i BY <1>2, <3>2 DEF Shifted
      <3> QED BY <3>1, <3>2, <3>3
    <2> QED BY <2>1, <2>2, <2>3, <2>4
  <1>13. ReadThrough(a, b, s, F, G, R, r, h) BY <1>11, <1>12 DEF ReadThrough
  <1> QED BY <1>13

\* A read loses no new session, and no talk that the tab has to hear.
LEMMA StraightReadOn ==
  ASSUME NEW F \in Seq(Line), NEW G \in Seq(Line), NEW a, NEW b, NEW s, NEW R, NEW r, NEW h, ReadThrough(a, b, s, F, G, R, r, h),
         NEW C, NEW t, NEW p, NEW k, NEW linked, Straight(F, C, t, p, k, linked),
         \A i \in 1 .. b : Renews(s[i]) => Has(r, R, i),
         t # None /\ (t.booted \/ linked) => \A i \in 1 .. b : Talks(s[i]) => Has(r, R, i)
  PROVE  Straight(G, C, t, p, k, linked)
  <1>1. Carries(F, G, h) BY DEF ReadThrough
  <1>2. ASSUME NEW z \in 1 .. Len(F), Renews(F[z]) PROVE \E y \in 1 .. Len(G) : h[y] = z BY <1>2 DEF ReadThrough
  <1>3. KeepsRenewals(F, G, h) BY <1>2 DEF KeepsRenewals
  <1>4. t # None /\ (t.booted \/ linked) => KeepsTalk(F, G, h, 0)
    <2> SUFFICES ASSUME t # None /\ (t.booted \/ linked), NEW v \in 1 .. Len(F), Talks(F[v]) PROVE \E y \in 1 .. Len(G) : h[y] = v
      BY DEF KeepsTalk
    <2> QED BY DEF ReadThrough
  <1>5. Renewed(F) => Renewed(G)
    <2> SUFFICES ASSUME NEW z \in 1 .. Len(F), Renews(F[z]) PROVE \E y \in 1 .. Len(G) : Renews(G[y])
      BY DEF Renewed
    <2>1. PICK y \in 1 .. Len(G) : h[y] = z BY <1>2
    <2>2. h[y] # 0 BY <2>1
    <2>3. G[y] = F[z] BY <1>1, <2>1, <2>2 DEF Carries
    <2> QED BY <2>3
  <1> QED BY <1>1, <1>3, <1>4, <1>5, StraightCarried

\* Some of pi's output is read.
LEMMA ChunkInStep ==
  ASSUME ChatTypes, ChatInStep, NEW n \in 1 .. MaxChunk, ReadChunk(n)
  PROVE  ChatInStep'
  <1> DEFINE F == Flow  C == Orders  k == left.prompt  w == (conn # None)  G == Flow'
             s == SubSeq(stdout, 1, n)  e == SubSeq(stdout, n + 1, Len(stdout))  M == Events(s) \o Answers(s)  R == Reaching(M)
  <1>1. /\ n <= Len(stdout) /\ stdout' = e /\ down' = down \o R /\ UNCHANGED <<left, pi, stdin, conn, up, unsent, tab>>
        /\ ~excused' => /\ ~excused /\ ~(tab # None /\ tab.booted /\ conn = None /\ Saying(M))
                        /\ \A x, y \in 1 .. n : ~(x < y /\ s[x].line = "answer" /\ s[x].to.cmd = "messages" /\ s[y].line \in {"message", "turn"})
                        /\ \A x \in 1 .. n : s[x].line = "answer" /\ s[x].to.cmd = "new" => s[x].to.conn = conn
    BY DEF ReadChunk
  <1>2. F \in Seq(Line) /\ down \in Seq(Line) /\ stdout \in Seq(Line) BY WaysAre
  <1>3. Len(stdout) \in Nat /\ n \in 0 .. Len(stdout) /\ n \in Nat
    <2>1. Len(stdout) \in Nat BY <1>2
    <2>2. n \in Nat BY ChatAssumption
    <2> QED BY <1>1, <2>1, <2>2
  <1>4. /\ s \in Seq(Line) /\ Len(s) = n /\ (\A i \in 1 .. n : s[i] = stdout[i])
        /\ e \in Seq(Line) /\ Len(e) = Len(stdout) - n /\ (\A i \in 1 .. Len(stdout) - n : e[i] = stdout[n + i])
    BY <1>2, <1>3, PartsAre
  <1> HIDE DEF s, e
  <1>5. M \in Seq(Line) /\ \E m : HasAll(s, M, m) BY <1>4, SortedIs
  <1> HIDE DEF M
  <1>6. PICK m : HasAll(s, M, m) BY <1>5
  <1>7. R \in Seq(Line) /\ \E r : Reached(s, R, r) BY <1>4, <1>5, <1>6, ReachingIs
  <1> HIDE DEF R
  <1>8. PICK r : Reached(s, R, r) BY <1>7
  <1> DEFINE a == Len(down)  c == Len(R)  u == Len(e)
  <1>9. a \in Nat /\ c \in Nat /\ u \in Nat BY <1>2, <1>4, <1>7
  <1>10. InThree(F, a, n, u, down, s, e)
    <2>1. Len(F) = a + Len(stdout) /\ (\A i \in 1 .. a : F[i] = down[i]) /\ (\A i \in 1 .. Len(stdout) : F[a + i] = stdout[i])
      BY <1>2, Joined DEF Flow
    <2> DEFINE v == Len(stdout)
    <2>2. v \in Nat /\ u = v - n /\ n <= v BY <1>1, <1>3, <1>4
    <2> HIDE DEF F, a, u, v
    <2>3. Len(F) = a + n + u BY <1>3, <1>9, <2>1, <2>2 DEF v
    <2>4. ASSUME NEW i \in 1 .. n PROVE F[a + i] = s[i]
      <3>1. i \in 1 .. v BY <1>3, <2>2
      <3>2. F[a + i] = stdout[i] BY <2>1, <3>1 DEF v
      <3> QED BY <1>4, <3>2
    <2>5. ASSUME NEW i \in 1 .. u PROVE F[a + n + i] = e[i]
      <3>1. n + i \in 1 .. v /\ i \in 1 .. v - n BY <1>3, <2>2
      <3>2. F[a + (n + i)] = stdout[n + i] BY <2>1, <3>1 DEF v
      <3>3. a + (n + i) = a + n + i BY <1>3, <1>9, <2>2
      <3>4. e[i] = stdout[n + i] BY <1>4, <3>1 DEF v
      <3> QED BY <3>2, <3>3, <3>4
    <2> QED BY <2>1, <2>3, <2>4, <2>5 DEF InThree
  <1>11. G \in Seq(Line) /\ InThree(G, a, c, u, down, R, e)
    <2> DEFINE U == down'
    <2>1. U = down \o R /\ G = U \o e BY <1>1 DEF Flow
    <2> HIDE DEF U, G
    <2> QED BY <1>2, <1>4, <1>7, <2>1, ThreeAre
  <1>12. Orders' = C BY <1>1 DEF Orders
  <1>13. ASSUME ~excused' PROVE Straight(G, C, tab, pi, k, w)
    <2>1. Straight(F, C, tab, pi, k, w) BY <1>1, <1>13 DEF ChatInStep
    <2>2. SnapshotsFirst(s, n) BY <1>1, <1>13 DEF SnapshotsFirst, Snapshot, Talks
    <2>3. MovesBy(s, R, r) /\ \A x \in 1 .. n : Reaches(s[x]) => Has(r, R, x) BY <1>4, <1>8 DEF Reached
    <2>4. ASSUME NEW i \in 1 .. n, Renews(s[i]) PROVE Has(r, R, i)
      <3>1. s[i].line = "answer" /\ s[i].to.conn = conn BY <1>1, <1>13, <2>4 DEF Renews
      <3>2. s[i] \in Line BY <1>4
      <3>3. s[i].to.conn \in Nat BY <3>1, <3>2, LineIs
      <3>4. conn # None BY <3>1, <3>3, ChatAssumption
      <3> QED BY <2>3, <3>1, <3>4 DEF Reaches
    <2>5. ASSUME tab # None, tab.booted \/ w, NEW i \in 1 .. n, Talks(s[i]) PROVE Has(r, R, i)
      <3>1. conn # None
        <4> SUFFICES ASSUME conn = None PROVE FALSE OBVIOUS
        <4>1. ~Saying(M) BY <1>1, <1>13, <2>5
        <4>2. PICK x \in 1 .. Len(M) : m[x] = i BY <1>4, <1>6 DEF HasAll, Has
        <4>3. M[x] = s[i] BY <1>6, <4>2 DEF HasAll, MovesBy
        <4>4. DOMAIN M = 1 .. Len(M) BY <1>5
        <4> QED BY <2>5, <4>1, <4>2, <4>3, <4>4 DEF Saying, Talks
      <3> QED BY <2>3, <2>5, <3>1 DEF Reaches, Talks
    <2> HIDE DEF F, C, k, w, G, a, c, u
    <2>6. \E h : ReadThrough(a, n, s, F, G, R, r, h)
      <3>1. Len(R) = c BY DEF c
      <3> QED BY <1>3, <1>4, <1>9, <1>10, <1>11, <2>2, <2>3, <3>1, ReadOn
    <2>7. PICK h : ReadThrough(a, n, s, F, G, R, r, h) BY <2>6
    <2> QED BY <1>2, <1>11, <2>1, <2>4, <2>5, <2>7, StraightReadOn DEF F
  <1> QED BY <1>1, <1>12, <1>13 DEF ChatInStep

\* Every step of a chat keeps it in step.
LEMMA ChatStepInStep ==
  ASSUME ChatTypes, Quotas, Counted, ChatInStep, NEW running, NEW status, ChatStep(running, status)
  PROVE  ChatInStep'
  <1>1. CASE OpenChat BY <1>1, OpenInStep
  <1>2. CASE Prompt BY <1>2, PromptInStep
  <1>3. CASE NewSession BY <1>3, NewInStep
  <1>4. CASE Receives BY <1>4, ReceivesInStep
  <1>5. CASE \E b \in IF tab = None THEN {} ELSE tab.boots : BootTimesOut(b) BY <1>5, TimeoutInStep
  <1>6. CASE SocketDrops BY <1>6, DropsInStep
  <1>7. CASE SocketOpens(status) BY <1>7, OpensInStep
  <1>8. CASE ServerReceives(running) BY <1>8, ServerInStep
  <1>9. CASE \E n \in 1 .. MaxChunk : ReadChunk(n) BY <1>9, ChunkInStep
  <1>10. CASE PiReads BY <1>10, ReadsInStep
  <1>11. CASE PiSpeaks BY <1>11, SpeaksInStep
  <1>12. CASE PiUsesTool BY <1>12, UsesInStep
  <1>13. CASE PiEndsTurn BY <1>13, EndsInStep
  <1>14. CASE PiSettles BY <1>14, SettlesInStep
  <1>15. CASE PiReports BY <1>15, ReportsInStep
  <1> QED BY <1>1, <1>2, <1>3, <1>4, <1>5, <1>6, <1>7, <1>8, <1>9, <1>10, <1>11, <1>12, <1>13, <1>14, <1>15 DEF ChatStep

\* A chat begins in step: nothing is on its way, and nothing was said.
LEMMA ChatBeginsInStep ==
  ASSUME ChatInit
  PROVE  ChatInStep
  <1>1. /\ pi.busy = FALSE /\ pi.turn = "none" /\ pi.said = <<>> /\ pi.results = <<>>
        /\ Flow = <<>> /\ Orders = <<>> /\ tab = None
    BY DEF ChatInit, Flow, Orders
  <1> DEFINE F == Flow  C == Orders  k == left.prompt  w == (conn # None)
  <1>2. Len(F) = 0 /\ Len(C) = 0 /\ Len(pi.said) = 0 BY <1>1
  <1> HIDE DEF F, C, k, w
  <1>3. (\A x \in 1 .. Len(F) : FALSE) /\ (\A x \in 1 .. Len(C) : FALSE) /\ (\A x \in 1 .. Len(pi.said) : FALSE) BY <1>2
  <1>4. SaidRight(pi)
    <2>1. Once(pi.said) BY <1>3 DEF Once
    <2> QED BY <1>1, <1>2, <1>3, <2>1 DEF SaidRight
  <1>5. InOrder(F, C, tab) BY <1>1, <1>3 DEF InOrder
  <1>6. Gens(F, C, tab) BY <1>1, <1>3 DEF Gens
  <1>7. Numbers(F, C, tab, pi, k) BY <1>1, <1>3 DEF Numbers, Older
  <1>8. OnePrompt(F, C, pi) BY <1>3 DEF OnePrompt, Prompts
  <1>9. TalkTells(F, pi) BY <1>3 DEF TalkTells
  <1>10. Straight(F, C, tab, pi, k, w) BY <1>1, <1>4, <1>5, <1>6, <1>7, <1>8, <1>9 DEF Straight, Ordered
  <1> QED BY <1>1, <1>10 DEF ChatInStep, F, C, k, w

\* A chat in step that is quiet shows what was said.
LEMMA InStepMeans ==
  ASSUME ChatTypes, ChatInStep
  PROVE  ShownIsSaid
  <1> SUFFICES ASSUME Quiet, ~excused PROVE tab.shown = pi.said BY DEF ShownIsSaid
  <1> DEFINE F == Flow  C == Orders  k == left.prompt  w == (conn # None)
  <1>1. F = <<>> /\ C = <<>> /\ conn # None /\ tab # None /\ tab.booted /\ tab.boots = {} /\ ~pi.busy BY DEF Quiet, Flow, Orders
  <1>2. Straight(F, C, tab, pi, k, w) BY DEF ChatInStep
  <1>3. Len(F) = 0 /\ Len(C) = 0 BY <1>1
  <1> HIDE DEF F, C, k, w
  <1>4. (\A x \in 1 .. Len(F) : FALSE) /\ (\A x \in 1 .. Len(C) : FALSE) BY <1>3
  <1>5. Prompts(C) = {} BY <1>4 DEF Prompts
  <1>6. ~Asking(tab) /\ ~Renewed(F) BY <1>1, <1>4 DEF Asking, Renewed
  <1>7. Shows(F, C, tab, pi) BY <1>1, <1>2 DEF Straight
  <1>8. InStep(tab.shown, 0, F, C, pi) BY <1>1, <1>6, <1>7 DEF Shows
  <1>9. tab.shown \in Seq(Msg) /\ PiRight(pi) BY <1>1 DEF ChatTypes, TabRight, TabRec
  <1> QED BY <1>1, <1>4, <1>5, <1>8, <1>9, InStepQuiet

\* What else happens leaves it in step.
LEMMA InStepStays ==
  ASSUME ChatInStep, UNCHANGED chatVars
  PROVE  ChatInStep'
  <1>1. Flow' = Flow /\ Orders' = Orders BY DEF chatVars, Flow, Orders
  <1> QED BY <1>1 DEF ChatInStep, chatVars

====
