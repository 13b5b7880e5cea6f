---- MODULE Homes ----
(***************************************************************************)
(* The position tree and what it decides (graph-rag/src/positions.js,       *)
(* placement.js, grading.js decide): who sees an entry homed at a position, *)
(* where a write may land, which moves widen, and where an entry goes when  *)
(* it is written or graded.                                                 *)
(*                                                                          *)
(* A person holds positions and sees what is homed at them or below; the    *)
(* higher a home, the fewer see it.  "Everyone" is a home below them all.   *)
(* Pure operators: no state.                                                *)
(***************************************************************************)
EXTENDS Naturals, FiniteSets

CONSTANTS
    Positions,   \* the positions of the organization
    Root,        \* the one nobody is above
    Parent,      \* the position above each other one
    Everyone,    \* the home everyone sees
    None

Homes == Positions \cup {Everyone}

\* The positions above one: its parent and what is above that, and no other.
ClosedUpwards(ps) == \A p \in ps \ {Root} : Parent[p] \in ps
UpFrom(p) == {q \in Positions : \A ps \in SUBSET Positions : p \in ps /\ ClosedUpwards(ps) => q \in ps}
Above == [p \in Positions |-> IF p = Root THEN {} ELSE UpFrom(Parent[p])]

\* A tree: parsePositionMap refuses cycles, and what does not reach the root.
ASSUME TreeAssumption ==
    /\ IsFiniteSet(Positions) /\ Root \in Positions
    /\ Parent \in [Positions \ {Root} -> Positions]
    /\ \A p \in Positions : p \notin Above[p] /\ (p # Root => Root \in Above[p])
    /\ Everyone \notin Positions /\ None \notin Positions \cup {Everyone}

\* Every position is above everyone.
Ancestors(h) == IF h = Everyone THEN Positions ELSE Above[h]
AtOrAbove(h) == {h} \cup Ancestors(h)
Subtree(p) == {q \in Positions : p \in AtOrAbove(q)}

\* The position above, where there is one.
Up(h) == IF h \in {Root, Everyone} THEN h ELSE Parent[h]

Visible(held) ==
    IF Root \in held THEN Homes
    ELSE {Everyone} \cup UNION {Subtree(p) : p \in held}

Deepest(ps) == CHOOSE p \in ps : \A q \in ps : Cardinality(Above[q]) <= Cardinality(Above[p])

\* A write lands at a held position or above one, never below or beside.
WritableHomes(held) == UNION {AtOrAbove(p) : p \in held}

\* A move up shows an entry to fewer people; any other widens.
Restricts(from, to) == to \in AtOrAbove(from)

\* The lowest home from which all of these are seen; everyone's bound nothing.
CommonAncestor(hs) ==
    LET bound == hs \ {Everyone} IN
    IF bound # {} THEN Deepest({p \in Positions : \A h \in bound : p \in AtOrAbove(h)})
    ELSE IF hs = {} THEN Root ELSE Everyone

--------------------------------------------------------------------------
(* Where an entry lands.  A verdict is Out (the grader was not reached),     *)
(* Unsure, or a home at or above the origin, and perhaps one below to        *)
(* propose.  A placement is [home, ungraded, ask, restricted].               *)

Out == [home |-> None, release |-> None]
Unsure == [home |-> Everyone, release |-> None]

\* (faulty variant: no answer is taken for one)
SureOfNothing(verdict) == verdict # Unsure

\* The grader answered, and is sure enough.
Sure(verdict) == verdict \notin {Out, Unsure}

Verdicts(origin) ==
    {Out, Unsure} \cup
    IF origin \in {Root, Everyone} THEN [home : {Root}, release : {None}]
    ELSE [home : AtOrAbove(origin), release : {None} \cup (Subtree(origin) \ {origin})]

\* What the grader's verdict makes of a new entry, or of one that is at `current`.
Decide(origin, verdict, current) ==
    IF current # None
    THEN LET restricts == /\ Sure(verdict) /\ verdict.home # origin
                          /\ verdict.home \in Ancestors(current) IN
         [home |-> IF restricts THEN verdict.home ELSE current,
          ungraded |-> FALSE, ask |-> None, restricted |-> restricts]
    ELSE IF Sure(verdict)
    THEN [home |-> verdict.home, ungraded |-> FALSE, ask |-> verdict.release, restricted |-> FALSE]
    ELSE [home |-> Up(origin), ungraded |-> verdict = Out,
          ask |-> IF verdict = Out THEN None ELSE origin, restricted |-> FALSE]

\* What its writer read bounds it from below, and then nothing is proposed lower.
ApplyFloor(place, origin, floor) ==
    IF floor = origin THEN place
    ELSE [place EXCEPT !.ask = None,
                       !.home = IF floor \in Ancestors(@) THEN floor ELSE @]

\* An entry for the root or for everyone is graded for its end date only.
Place(origin, verdict, current, floor) ==
    ApplyFloor(IF origin \in {Root, Everyone}
               THEN [home |-> IF current = None THEN origin ELSE current,
                     ungraded |-> FALSE, ask |-> None, restricted |-> FALSE]
               ELSE Decide(origin, verdict, current),
               origin, floor)

\* Would the floor hold a worker's write above where the entry lives?
FloorLifts(at, floor) == floor # at /\ at # Everyone /\ floor \in Ancestors(at)

====
