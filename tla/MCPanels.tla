---- MODULE MCPanels ----
(* A page with one of its panels in use. *)
EXTENDS Panels

VARIABLE scenario

NoEdits == [papers |-> {}, edits |-> 0, faults |-> 0, restarts |-> 0]
NoFiles == [uploads |-> 0, moves |-> 0, removals |-> 0, failures |-> 0]
NoTools == [calls |-> 0, shutdowns |-> 0, failures |-> 0]
NoRail == [open |-> FALSE, changes |-> 0, turns |-> 0, breaks |-> 0, picks |-> 0]

CONSTANTS Policy, Pool, North, South, Profile

Scenarios ==
    LET idle == [panel |-> NoEdits, filing |-> NoFiles, machine |-> NoTools, railing |-> NoRail]
        settings(papers, changes, faults, restarts) ==
            [idle EXCEPT !.panel = [papers |-> papers, edits |-> changes, faults |-> faults, restarts |-> restarts]]
        files(uploads, moves, removals, failures) ==
            [idle EXCEPT !.filing = [uploads |-> uploads, moves |-> moves, removals |-> removals, failures |-> failures]]
        shown(changes, turns, breaks, picks) ==
            [idle EXCEPT !.railing = [open |-> TRUE, changes |-> changes, turns |-> turns, breaks |-> breaks, picks |-> picks]]
    IN [Governing |-> settings({Policy}, 2, 1, 0),
        Pooling |-> settings({Pool}, 2, 1, 1),
        Allowing |-> settings({North, South}, 3, 0, 0),
        Profiling |-> settings({Profile}, 3, 0, 0),
        Dropping |-> files(2, 0, 0, 1),
        Tidying |-> files(2, 0, 1, 0),
        Clearing |-> files(1, 1, 2, 1),
        Strolling |-> files(1, 2, 0, 1),
        Booting |-> [idle EXCEPT !.machine = [calls |-> 4, shutdowns |-> 2, failures |-> 2]],
        Staffing |-> shown(2, 0, 1, 0),
        Working |-> shown(1, 1, 1, 0),
        Reading |-> shown(1, 1, 0, 1),
        Dozing |-> shown(0, 2, 1, 1)]

MCInit ==
    /\ \E s \in DOMAIN Scenarios :
        /\ scenario = s
        /\ panel = Scenarios[s].panel /\ filing = Scenarios[s].filing
        /\ machine = Scenarios[s].machine /\ railing = Scenarios[s].railing
        /\ runtime \in IF filing = NoFiles THEN {"local"} ELSE {"local", "openshell"}
    /\ Init
    /\ railing = NoRail => fellow = [a \in Fellows |-> "gone"]
    /\ browse.at = CHOOSE p \in Places : p[2] = "root"
    /\ railing.open => LET a == CHOOSE f \in Fellows : TRUE IN
                       fellow[a] = "running" /\ \A b \in Fellows \ {a} : fellow[b] \in {"gone", "running"}

MCNext == Next /\ UNCHANGED scenario
MCSpec == MCInit /\ [][MCNext]_<<vars, scenario>> /\ Fairness

====
