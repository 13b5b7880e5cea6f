---- MODULE Vm ----
(***************************************************************************)
(* The virtual machine of an agent's tools                                  *)
(* (pi-extensions/gondolin-vm/index.ts): booted for a session or for the      *)
(* first tool that needs it, shared by the tools, closed with the session.    *)
(* What runs in it, and a close that fails, are left out.                     *)
(***************************************************************************)
EXTENDS Naturals, FiniteSets

CONSTANTS
    MaxBoots,  \* boots (a bound)
    Tools,     \* calls of tools; a session's start asks for the machine as they do
    NoVm

Boots == 1 .. MaxBoots

ASSUME VmAssumption == MaxBoots \in Nat /\ NoVm \notin Boots

VARIABLES
    vm,        \* the machine in use
    vmStarting,\* the boot that is waited for
    boot,      \* per boot: what became of it
    tool,      \* per call: what it is at, and with which machine
    astray,    \* history: boots a shutdown cut short, and those such a boot's end came in the way of
    machine    \* calls, shutdowns and failures to come (bounds, by scenario)

vmVars == <<vm, vmStarting, boot, tool, astray, machine>>

Idle == [step |-> "idle"]
MachineUse == [calls : Nat, shutdowns : Nat, failures : Nat]

VmInit ==
    /\ machine \in MachineUse
    /\ vm = NoVm /\ vmStarting = NoVm /\ astray = {}
    /\ boot = [b \in Boots |-> "none"] /\ tool = [c \in Tools |-> Idle]

Spends(what) == machine[what] > 0 /\ machine' = [machine EXCEPT ![what] = @ - 1]

Waits(c, b) == tool' = [tool EXCEPT ![c] = [step |-> "waits", with |-> b]]

BootsFresh(c) == \E b \in Boots :
    /\ boot[b] = "none" /\ \A d \in Boots : d < b => boot[d] # "none"
    /\ boot' = [boot EXCEPT ![b] = "booting"] /\ vmStarting' = b /\ Waits(c, b)

\* (faulty variant: nobody waits for another's boot)
EnsuresAlone(c) ==
    \/ vm # NoVm /\ tool' = [tool EXCEPT ![c] = [step |-> "uses", with |-> vm]] /\ UNCHANGED <<vmStarting, boot>>
    \/ vm = NoVm /\ BootsFresh(c)

\* ensureVm: the machine there is, the boot there is, or a boot of its own.
EnsureVm(c) ==
    \/ vm # NoVm /\ tool' = [tool EXCEPT ![c] = [step |-> "uses", with |-> vm]] /\ UNCHANGED <<vmStarting, boot>>
    \/ vm = NoVm /\ vmStarting # NoVm /\ Waits(c, vmStarting) /\ UNCHANGED <<vmStarting, boot>>
    \/ vm = NoVm /\ vmStarting = NoVm /\ BootsFresh(c)

\* A tool is called, or a session starts.
ToolBegins(c) ==
    /\ tool[c] = Idle /\ Spends("calls") /\ EnsureVm(c)
    /\ UNCHANGED <<vm, astray>>

ToolEnds(c) ==
    /\ tool[c].step = "uses" /\ tool' = [tool EXCEPT ![c] = Idle]
    /\ UNCHANGED <<vm, vmStarting, boot, astray, machine>>

WaitsFor(c, b) == tool[c].step = "waits" /\ tool[c].with = b

\* The machine is up, and is the one in use, also when a shutdown came meanwhile.
BootEnds(b) ==
    /\ boot[b] = "booting" /\ boot' = [boot EXCEPT ![b] = "open"] /\ vm' = b
    /\ tool' = [c \in Tools |-> IF WaitsFor(c, b) THEN [step |-> "uses", with |-> b] ELSE tool[c]]
    /\ astray' = IF b \in astray /\ vm # NoVm THEN astray \cup {vm} ELSE astray
    /\ UNCHANGED <<vmStarting, machine>>

\* It cannot be booted: those who wait fail, and who started it clears the boot that is waited
\* for, whichever that is by now.
BootFails(b) ==
    /\ boot[b] = "booting" /\ Spends("failures") /\ boot' = [boot EXCEPT ![b] = "failed"]
    /\ tool' = [c \in Tools |-> IF WaitsFor(c, b) THEN Idle ELSE tool[c]]
    /\ vmStarting' = NoVm
    /\ astray' = IF vmStarting \in Boots \ {b} THEN astray \cup {vmStarting} ELSE astray
    /\ UNCHANGED vm

\* session_shutdown: a boot at work is not waited for.
ShutDown ==
    /\ Spends("shutdowns") /\ vm' = NoVm /\ vmStarting' = NoVm
    /\ boot' = [b \in Boots |-> IF b = vm THEN "closed" ELSE boot[b]]
    /\ astray' = astray \cup {b \in Boots : boot[b] = "booting"}
    /\ UNCHANGED tool

VmStep ==
    \/ \E c \in Tools : ToolBegins(c) \/ ToolEnds(c)
    \/ \E b \in Boots : BootEnds(b) \/ BootFails(b)
    \/ ShutDown

VmTypeOK ==
    /\ vm \in Boots \cup {NoVm} /\ vmStarting \in Boots \cup {NoVm} /\ astray \subseteq Boots
    /\ boot \in [Boots -> {"none", "booting", "open", "failed", "closed"}]
    /\ \A c \in Tools : tool[c].step # "idle" => tool[c].with \in Boots

\* A machine that is open is the one in use, however calls, starts and failed boots overlap:
\* none is left running that nobody will close.  And a call is given one that is open and
\* keeps it until the session is shut down.  Short of boots that a shutdown cut short, and of
\* those whose promise such a boot cleared by failing or whose machine it displaced.
VmsClosed ==
    /\ \A b \in Boots \ astray : boot[b] = "open" => vm = b
    /\ \A c \in Tools : tool[c].step = "uses" => boot[tool[c].with] \in {"open", "closed"}
    /\ \A b \in Boots : boot[b] = "booting" => vmStarting = b \/ b \in astray

====
