---- MODULE MCWorkspace ----
(***************************************************************************)
(* Workspace for TLC.  Each scope is a scenario: the agents and requests in  *)
(* it, and how often the rest happens.                                        *)
(***************************************************************************)
EXTENDS Workspace, TLC

CONSTANTS a1, a2, m1, m2, k1

CallSymmetry == Permutations(Calls)

Nothing == [agents |-> {a1}, requests |-> 1, overlap |-> FALSE, crash |-> FALSE, sandboxed |-> FALSE, fault |-> 0, dialogs |-> 0,
            configured |-> FALSE, changes |-> 0, profiles |-> FALSE, open |-> 0, prompt |-> 0, new |-> 0, timeout |-> 0, drop |-> 0, tool |-> 0, report |-> 0]

\* Requests to start, stop, restart and delete two agents overlap, and processes crash.
Managing == [Nothing EXCEPT !.agents = Agents, !.requests = 3, !.overlap = TRUE]
Crashing == [Nothing EXCEPT !.requests = 3, !.overlap = TRUE, !.crash = TRUE]
\* Sandboxes are made, released and purged meanwhile; the gateway fails, a microVM is lost.
Releasing == [Nothing EXCEPT !.requests = 3, !.overlap = TRUE, !.sandboxed = TRUE]
Failing == [Nothing EXCEPT !.requests = 3, !.sandboxed = TRUE, !.fault = 1]
\* A chat is opened, before the agent starts or while it talks.
Opening == [Nothing EXCEPT !.open = 1, !.prompt = 1, !.tool = 1]
Reconnecting == [Nothing EXCEPT !.open = 1, !.prompt = 1, !.drop = 1]
Waiting == [Nothing EXCEPT !.open = 1, !.prompt = 1, !.report = 1, !.timeout = 1]
Renewing == [Nothing EXCEPT !.open = 1, !.prompt = 1, !.new = 1, !.tool = 1]
Restarting == [Nothing EXCEPT !.requests = 2, !.open = 1, !.prompt = 1]
\* Dialogs are raised while tabs come and go.
Asking == [Nothing EXCEPT !.crash = TRUE, !.dialogs = 1]

\* Settings, profiles and providers change while the agent is made, changed, switched and started.
Configuring == [Nothing EXCEPT !.configured = TRUE, !.overlap = TRUE, !.changes = 2, !.profiles = TRUE]
Relabeling == [Nothing EXCEPT !.requests = 0, !.configured = TRUE, !.changes = 3]

TwoModels == <<m1, m2>>
TwoProfiles == {[model |-> m2, mcp |-> {}, worker |-> FALSE], [model |-> None, mcp |-> {k1}, worker |-> TRUE]}

Scenarios == {Configuring, Relabeling, Managing, Crashing, Releasing, Failing, Opening, Reconnecting, Waiting, Renewing, Restarting, Asking}

====
