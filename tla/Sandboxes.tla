---- MODULE Sandboxes ----
(***************************************************************************)
(* The OpenShell runtime (server/src/runtime/openshell-agent.ts,             *)
(* openshell.ts): an agent's pi runs in a sandbox of its own, made when the   *)
(* agent first starts and given back while it is idle, its conversations      *)
(* copied to the host before and into the next sandbox after.                 *)
(*                                                                          *)
(* A conversation is the set of the messages said in it.  Who starts and      *)
(* stops agents is AgentManager's business: a call slot of it is the subject   *)
(* of prepare() here, and of the release or purge after its stop.             *)
(***************************************************************************)
EXTENDS AgentManager

CONSTANTS
    MaxSaid        \* messages said in an agent's conversations (a bound)

VARIABLES
    faults,    \* executions on the gateway that may still fail, and sandboxes that break (a bound)
    sandbox,   \* per agent: whether there is a sandbox, in error, and the conversations in it
    saved,     \* per agent: the conversations in the host's session directory
    prepared,  \* per call: how far prepare() is
    after,     \* per call: what follows its stop, and for which agent
    dead,      \* processes whose sandbox is gone
    said,      \* history: per agent, how many messages were said
    forsaken   \* history: messages the runtime does not keep, by what it says of itself

sandboxVars == <<faults, sandbox, saved, prepared, after, dead, said, forsaken>>

NoSandbox == [there |-> FALSE, broken |-> FALSE, has |-> {}]
NothingAfter == [pc |-> "none", agent |-> Unused.agent]

SandboxesInit ==
    /\ sandbox = [a \in Agents |-> NoSandbox]
    /\ saved = [a \in Agents |-> {}]
    /\ prepared = [c \in Calls |-> "none"]
    /\ after = [c \in Calls |-> NothingAfter]
    /\ dead = {} /\ said = [a \in Agents |-> 0] /\ forsaken = [a \in Agents |-> {}]

Fault == faults > 0 /\ faults' = faults - 1

\* ensureSandbox: the one there is, or a new one; one whose microVM is gone is replaced, and
\* what only it held is lost.
EnsureSandbox(a, c) ==
    LET old == sandbox[a]  reuse == old.there /\ ~old.broken IN
    /\ prepared[c] = "none"
    /\ prepared' = [prepared EXCEPT ![c] = IF reuse THEN "ready" ELSE "seed"]
    /\ sandbox' = [sandbox EXCEPT ![a] = IF reuse THEN @ ELSE [NoSandbox EXCEPT !.there = TRUE]]
    /\ forsaken' = [forsaken EXCEPT ![a] = IF old.broken THEN @ \cup (old.has \ saved[a]) ELSE @]
    /\ UNCHANGED <<faults, saved, after, dead, said>>

\* A new sandbox gets the conversations; when that fails the agent starts without them.
Seed(a, c) ==
    /\ prepared[c] = "seed"
    /\ prepared' = [prepared EXCEPT ![c] = "ready"]
    /\ \/ sandbox' = [sandbox EXCEPT ![a].has = IF sandbox[a].there THEN @ \cup saved[a] ELSE @]
          /\ UNCHANGED faults
       \/ Fault /\ UNCHANGED sandbox
    /\ UNCHANGED <<saved, after, dead, said, forsaken>>

\* prepare() is over: its process is made, or it threw.
PrepareOver(c) ==
    /\ prepared' = [prepared EXCEPT ![c] = "none"]
    /\ UNCHANGED <<faults, sandbox, saved, after, dead, said, forsaken>>

\* The agent's process i says something, in the sandbox's session file.  What is said while a
\* release has copied the conversations and not yet deleted the sandbox is forsaken.
Says(a, i) ==
    LET m == said[a] + 1 IN
    /\ i \notin dead /\ sandbox[a].there /\ ~sandbox[a].broken /\ said[a] < MaxSaid
    /\ said' = [said EXCEPT ![a] = m]
    /\ sandbox' = [sandbox EXCEPT ![a].has = @ \cup {m}]
    /\ forsaken' = [forsaken EXCEPT ![a] =
         IF \E c \in Calls : after[c] = [pc |-> "delete", agent |-> a] THEN @ \cup {m} ELSE @]
    /\ UNCHANGED <<faults, saved, prepared, after, dead>>

\* releaseAgent and deleteAgent go on when their stop is over.
Releases(a, c) ==
    /\ after[c].pc = "none"
    /\ after' = [after EXCEPT ![c] = [pc |-> "copy", agent |-> a]]
    /\ UNCHANGED <<faults, sandbox, saved, prepared, dead, said, forsaken>>
Purges(a, c) ==
    /\ after[c].pc = "none"
    /\ after' = [after EXCEPT ![c] = [pc |-> "purge", agent |-> a]]
    /\ UNCHANGED <<faults, sandbox, saved, prepared, dead, said, forsaken>>

Over(c) == after' = [after EXCEPT ![c] = NothingAfter]

\* (faulty variant: the sandbox is given back although its conversations were not saved)
GivenBackAnyway(c) == after' = [after EXCEPT ![c].pc = "delete"]

\* Without its conversations saved, the sandbox is kept.
Kept(c) == Over(c)

\* releaseSandbox: the conversations are copied; there may be nothing to release, or it fails.
\* A tar that exits with an error is not taken for one: nothing is saved, and it goes on.
ReleaseCopies(c) ==
    LET a == after[c].agent IN
    /\ after[c].pc = "copy"
    /\ \/ /\ sandbox[a].there /\ ~sandbox[a].broken
          /\ after' = [after EXCEPT ![c].pc = "delete"]
          /\ \/ saved' = [saved EXCEPT ![a] = @ \cup sandbox[a].has] /\ UNCHANGED <<faults, forsaken>>
             \/ /\ Fault /\ UNCHANGED saved
                /\ forsaken' = [forsaken EXCEPT ![a] = @ \cup (sandbox[a].has \ saved[a])]
       \/ /\ \/ ~sandbox[a].there /\ Over(c) /\ UNCHANGED faults
             \/ sandbox[a].there /\ Fault /\ Kept(c)
             \/ sandbox[a].broken /\ Kept(c) /\ UNCHANGED faults
          /\ UNCHANGED <<saved, forsaken>>
    /\ UNCHANGED <<sandbox, prepared, dead, said>>

\* deleteSandbox, with procs the processes that run in it: they end with it.  A gateway that
\* does not delete it leaves it.
ReleaseDeletes(c, procs) ==
    LET a == after[c].agent IN
    /\ after[c].pc = "delete" /\ Over(c)
    /\ \/ /\ sandbox' = [sandbox EXCEPT ![a] = NoSandbox]
          /\ dead' = dead \cup procs
          /\ UNCHANGED faults
       \/ Fault /\ UNCHANGED <<sandbox, dead>>
    /\ UNCHANGED <<saved, prepared, said, forsaken>>

\* A deleted agent's sandbox goes, and its directory on the host.
PurgeDeletes(c, procs) ==
    LET a == after[c].agent IN
    /\ after[c].pc = "purge" /\ Over(c)
    /\ \/ sandbox' = [sandbox EXCEPT ![a] = NoSandbox] /\ dead' = dead \cup procs /\ UNCHANGED faults
       \/ Fault /\ UNCHANGED <<sandbox, dead>>
    /\ saved' = [saved EXCEPT ![a] = {}]
    /\ forsaken' = [forsaken EXCEPT ![a] = 1 .. said[a]]
    /\ UNCHANGED <<prepared, said>>

\* External: the host reboots or moves, and the sandbox stays behind in error.
SandboxBreaks(a, procs) ==
    /\ sandbox[a].there /\ ~sandbox[a].broken /\ Fault
    /\ sandbox' = [sandbox EXCEPT ![a].broken = TRUE]
    /\ dead' = dead \cup procs
    /\ UNCHANGED <<saved, prepared, after, said, forsaken>>

--------------------------------------------------------------------------
SandboxesTypeOK ==
    /\ \A a \in Agents : /\ sandbox[a].has \cup saved[a] \subseteq 1 .. said[a]
                         /\ sandbox[a].broken => sandbox[a].there
    /\ \A c \in Calls : /\ prepared[c] \in {"none", "seed", "ready"}
                        /\ after[c] \in [pc : {"none", "copy", "delete", "purge"}, agent : Agents]

\* What was said in an agent's conversations is in its sandbox or on the host, whatever
\* starts, stops, releases and failing copies overlap; short of what is said after a release
\* has copied them, or was to be saved by a tar that failed, what a broken microVM held
\* alone, and what was purged.
KeptSomewhere ==
    \A a \in Agents : (1 .. said[a]) \ forsaken[a] \subseteq sandbox[a].has \cup saved[a]

====
