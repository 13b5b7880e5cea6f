---- MODULE KnowledgeProofs ----
(***************************************************************************)
(* Proofs about the calls on the graph: their types, that a share is made    *)
(* once, that a closed question is hidden, that an entry stays within what its*)
(* sources are seen by, and that it stays where it was placed, for any       *)
(* organization, any number of calls at work and any scenario.               *)
(***************************************************************************)
EXTENDS Knowledge, FiniteSetTheorems, WellFoundedInduction, TLAPS

--------------------------------------------------------------------------
(* The tree of positions                                                   *)

\* A position is at or above itself, and with one its parent.
LEMMA UpFromItself ==
    ASSUME NEW p \in Positions
    PROVE  /\ UpFrom(p) \subseteq Positions /\ p \in UpFrom(p)
           /\ \A q \in UpFrom(p) \ {Root} : Parent[q] \in UpFrom(p)
  <1>1. \A q \in Positions \ {Root} : Parent[q] \in Positions
      BY TreeAssumption
  <1> QED BY <1>1 DEF UpFrom, ClosedUpwards

\* What is closed under parents has all above what it has.
LEMMA ClosedHas ==
    ASSUME NEW p, NEW ps \in SUBSET Positions, p \in ps, ClosedUpwards(ps)
    PROVE  UpFrom(p) \subseteq ps
  BY DEF UpFrom

\* What is at or above a home is a home, itself one of them.
LEMMA AboveIn ==
    ASSUME NEW h \in Homes
    PROVE  Ancestors(h) \subseteq Positions /\ AtOrAbove(h) \subseteq Homes /\ h \in AtOrAbove(h)
  <1>1. CASE h = Everyone
      BY <1>1 DEF Ancestors, AtOrAbove, Homes
  <1>2. CASE h # Everyone
    <2>1. h \in Positions
        BY <1>2 DEF Homes
    <2>2. h # Root => Parent[h] \in Positions
        BY <2>1, TreeAssumption
    <2>3. Above[h] \subseteq Positions
        BY <2>1, <2>2, UpFromItself DEF Above
    <2> QED BY <1>2, <2>1, <2>3 DEF Ancestors, AtOrAbove, Homes
  <1> QED BY <1>1, <1>2

\* The root is at or above every home.
LEMMA RootAbove ==
    ASSUME NEW h \in Homes
    PROVE  Root \in AtOrAbove(h)
  BY TreeAssumption DEF AtOrAbove, Ancestors, Homes

\* A set of numbers that is not empty has a least.
LEMMA LeastOf ==
    ASSUME NEW S \in SUBSET Nat, S # {}
    PROVE  \E n \in S : \A k \in S : n <= k
  <1>1. \E n \in S : \A k \in S : ~(<<k, n>> \in OpToRel(<, Nat))
      BY NatLessThanWellFounded, WFMin
  <1>2. \A k, n \in Nat : (<<k, n>> \in OpToRel(<, Nat)) <=> k < n
      BY Zenon DEF OpToRel
  <1>3. \E n \in S : \A k \in S : ~(k < n)
      BY <1>1, <1>2, Zenon
  <1> QED BY <1>3

\* Of positions there is a deepest.
LEMMA DeepestIn ==
    ASSUME NEW ps \in SUBSET Positions, ps # {}
    PROVE  /\ Deepest(ps) \in ps
           /\ \A q \in ps : Cardinality(Above[q]) <= Cardinality(Above[Deepest(ps)])
  <1> DEFINE N == Cardinality(Positions)
  <1> DEFINE C(p) == Cardinality(Above[p])
  <1>1. \A p \in ps : Above[p] \subseteq Positions
    <2> TAKE p \in ps
    <2>1. p \in Homes /\ p # Everyone
        BY TreeAssumption DEF Homes
    <2> QED BY <2>1, AboveIn DEF Ancestors
  <1>2. N \in Nat /\ \A p \in ps : C(p) \in Nat /\ C(p) <= N
      BY <1>1, TreeAssumption, FS_CardinalityType, FS_Subset
  <1> HIDE DEF N, C
  <1>3. PICK n \in {N - C(p) : p \in ps} : \A k \in {N - C(p) : p \in ps} : n <= k
    <2>1. \A p \in ps : N - C(p) \in Nat
        BY <1>2
    <2>2. {N - C(p) : p \in ps} \in SUBSET Nat /\ {N - C(p) : p \in ps} # {}
        BY <2>1, Zenon
    <2> QED BY <2>2, LeastOf
  <1>4. PICK p \in ps : n = N - C(p)
      BY <1>3
  <1>5. \A q \in ps : C(q) <= C(p)
    <2> TAKE q \in ps
    <2>1. N - C(p) <= N - C(q)
        BY <1>3, <1>4
    <2> QED BY <2>1, <1>2
  <1>6. \E d \in ps : \A q \in ps : Cardinality(Above[q]) <= Cardinality(Above[d])
      BY <1>5, Zenon DEF C
  <1> QED BY <1>6 DEF Deepest

\* The home homes have in common is a home.
LEMMA CommonAncestorIn ==
    ASSUME NEW hs \in SUBSET Homes
    PROVE  CommonAncestor(hs) \in Homes
  <1> DEFINE bound == hs \ {Everyone}
  <1> DEFINE common == {p \in Positions : \A h \in bound : p \in AtOrAbove(h)}
  <1>1. Root \in Positions /\ Root \in common
      BY TreeAssumption, RootAbove
  <1>2. Deepest(common) \in Positions
      BY <1>1, DeepestIn
  <1> QED BY <1>1, <1>2 DEF CommonAncestor, Homes

\* What is at or above a position is what its parents lead up to,
LEMMA AboveIs ==
    ASSUME NEW p \in Positions
    PROVE  /\ AtOrAbove(p) = UpFrom(p) /\ Ancestors(p) = Above[p] /\ Everyone \notin AtOrAbove(p)
           /\ p # Root => Parent[p] \in Positions /\ Above[p] = UpFrom(Parent[p])
           /\ p = Root => Above[p] = {}
  <1>1. p # Everyone /\ p \in Homes /\ Everyone \notin Positions
      BY TreeAssumption DEF Homes
  <1>2. AtOrAbove(p) = {p} \cup Above[p] /\ Ancestors(p) = Above[p]
      BY <1>1 DEF AtOrAbove, Ancestors
  <1>3. CASE p = Root
    <2>1. Above[p] = {} /\ ClosedUpwards({p}) /\ p \in {p}
        BY <1>3 DEF Above, ClosedUpwards
    <2>2. UpFrom(p) = {p}
        BY <2>1, ClosedHas, UpFromItself
    <2> QED BY <1>1, <1>2, <1>3, <2>1, <2>2
  <1>4. CASE p # Root
    <2> DEFINE ps == {p} \cup UpFrom(Parent[p])
    <2>1. Parent[p] \in Positions /\ Above[p] = UpFrom(Parent[p])
        BY <1>4, TreeAssumption DEF Above
    <2>2. ps \in SUBSET Positions /\ ClosedUpwards(ps)
        BY <2>1, UpFromItself DEF ClosedUpwards
    <2>3. UpFrom(p) \subseteq ps
        BY <2>2, ClosedHas
    <2>4. UpFrom(p) \in SUBSET Positions /\ ClosedUpwards(UpFrom(p)) /\ Parent[p] \in UpFrom(p) /\ p \in UpFrom(p)
        BY <1>4, UpFromItself DEF ClosedUpwards
    <2>5. UpFrom(Parent[p]) \subseteq UpFrom(p)
        BY <2>4, ClosedHas
    <2>6. UpFrom(p) = {p} \cup Above[p] /\ UpFrom(p) \subseteq Positions
        BY <2>1, <2>3, <2>4, <2>5
    <2> QED BY <1>1, <1>2, <1>4, <2>1, <2>6
  <1> QED BY <1>3, <1>4

\* ... and every home is at or above everyone's.
LEMMA AboveEveryone == AtOrAbove(Everyone) = Homes /\ Ancestors(Everyone) = Positions
  BY DEF AtOrAbove, Ancestors, Homes

\* What is above one that is above is above.
LEMMA AboveTrans ==
    ASSUME NEW h \in Homes, NEW g \in AtOrAbove(h)
    PROVE  g \in Homes /\ AtOrAbove(g) \subseteq AtOrAbove(h) /\ Ancestors(g) \subseteq AtOrAbove(h)
  <1>1. g \in Homes /\ AtOrAbove(g) \subseteq Homes
      BY AboveIn
  <1>2. CASE h = Everyone
      BY <1>1, <1>2, AboveEveryone DEF AtOrAbove
  <1>3. CASE h # Everyone
    <2>1. h \in Positions /\ UpFrom(h) = AtOrAbove(h) /\ g \in Positions
        BY <1>1, <1>3, AboveIs DEF Homes
    <2>2. UpFrom(h) \in SUBSET Positions /\ ClosedUpwards(UpFrom(h)) /\ g \in UpFrom(h)
        BY <2>1, UpFromItself DEF ClosedUpwards
    <2>3. UpFrom(g) \subseteq UpFrom(h) /\ UpFrom(g) = AtOrAbove(g)
        BY <2>1, <2>2, ClosedHas, AboveIs
    <2> QED BY <1>1, <2>1, <2>3 DEF AtOrAbove
  <1> QED BY <1>2, <1>3

\* The positions above one are on one line.
LEMMA AboveLine ==
    ASSUME NEW p \in Positions, NEW x \in AtOrAbove(p), NEW y \in AtOrAbove(p)
    PROVE  y \in AtOrAbove(x) \/ x \in AtOrAbove(y)
  <1> DEFINE up == UpFrom(p)
  <1> DEFINE line == {z \in up : \A u \in up : u \in UpFrom(z) \/ z \in UpFrom(u)}
  <1>1. /\ up \subseteq Positions /\ p \in up /\ up = AtOrAbove(p)
        /\ \A q \in up \ {Root} : Parent[q] \in up
      BY UpFromItself, AboveIs
  <1>2. p \in line
      BY <1>1
  <1>3. ClosedUpwards(line)
    <2> SUFFICES ASSUME NEW z \in line \ {Root} PROVE Parent[z] \in line
      BY DEF ClosedUpwards
    <2>1. z \in up /\ z \in Positions /\ z # Root /\ Parent[z] \in up
        BY <1>1
    <2>2. UpFrom(z) = {z} \cup UpFrom(Parent[z]) /\ Parent[z] \in Positions
        BY <2>1, AboveIs DEF AtOrAbove
    <2> SUFFICES ASSUME NEW u \in up PROVE u \in UpFrom(Parent[z]) \/ Parent[z] \in UpFrom(u)
      BY <2>1
    <2>3. u \in Positions
        BY <1>1
    <2>4. CASE z \in UpFrom(u)
        BY <2>1, <2>3, <2>4, UpFromItself
    <2>5. CASE u \in UpFrom(z)
      <3>1. CASE u = z
          BY <2>1, <3>1, UpFromItself
      <3>2. CASE u # z
          BY <2>2, <2>5, <3>2
      <3> QED BY <3>1, <3>2
    <2> QED BY <2>4, <2>5
  <1>4. line \in SUBSET Positions
      BY <1>1
  <1> HIDE DEF line
  <1>5. up \subseteq line
      BY <1>2, <1>3, <1>4, ClosedHas
  <1>6. \A z, u \in up : u \in UpFrom(z) \/ z \in UpFrom(u)
      BY <1>5 DEF line
  <1>7. x \in Positions /\ y \in Positions /\ x \in up /\ y \in up
      BY <1>1
  <1>8. UpFrom(x) = AtOrAbove(x) /\ UpFrom(y) = AtOrAbove(y)
      BY <1>7, AboveIs
  <1> QED BY <1>6, <1>7, <1>8

\* The home homes have in common is at or above each of them, and what is above them all is above it.
LEMMA CommonIs ==
    ASSUME NEW hs \in SUBSET Homes, hs # {}
    PROVE  /\ \A h \in hs : CommonAncestor(hs) \in AtOrAbove(h)
           /\ \A x \in Homes : (\A h \in hs : x \in AtOrAbove(h)) => x \in AtOrAbove(CommonAncestor(hs))
  <1> DEFINE bound == hs \ {Everyone}
  <1> DEFINE common == {p \in Positions : \A h \in bound : p \in AtOrAbove(h)}
  <1> DEFINE d == Deepest(common)
  <1>1. CASE bound = {}
    <2>1. hs = {Everyone} /\ CommonAncestor(hs) = Everyone
        BY <1>1 DEF CommonAncestor
    <2> QED BY <2>1, AboveEveryone DEF Homes
  <1>2. CASE bound # {}
    <2>1. CommonAncestor(hs) = d
        BY <1>2 DEF CommonAncestor
    <2>2. Root \in common /\ common \in SUBSET Positions
        BY TreeAssumption, RootAbove
    <2> HIDE DEF common
    <2>3. d \in common /\ \A q \in common : Cardinality(Above[q]) <= Cardinality(Above[d])
        BY <2>2, DeepestIn
    <2>4. d \in Positions /\ d \in Homes /\ \A h \in bound : d \in AtOrAbove(h)
        BY <2>3 DEF common, Homes
    <2> HIDE DEF d
    <2>5. \A h \in hs : d \in AtOrAbove(h)
        BY <2>4, AboveEveryone
    <2>6. ASSUME NEW x \in Homes, \A h \in hs : x \in AtOrAbove(h) PROVE x \in AtOrAbove(d)
      <3>1. PICK h \in bound : TRUE
          BY <1>2
      <3>2. h \in Positions /\ x \in AtOrAbove(h) /\ d \in AtOrAbove(h)
          BY <2>4, <2>6, <3>1 DEF Homes
      <3>3. x \in Positions /\ x \in common
          BY <2>6, <3>2, AboveIs DEF Homes, common
      <3>4. x \in AtOrAbove(d) \/ d \in AtOrAbove(x)
          BY <3>2, AboveLine
      <3>5. ASSUME d \in AtOrAbove(x), d # x PROVE FALSE
        <4>1. Above[d] \subseteq AtOrAbove(x) /\ AtOrAbove(x) = {x} \cup Above[x] /\ Above[x] \subseteq Positions /\ d \in Above[x]
            BY <2>4, <3>3, <3>5, AboveTrans, AboveIs, AboveIn DEF AtOrAbove
        <4>2. x \notin Above[d]
          <5>1. ASSUME x \in Above[d] PROVE x \in Above[x]
            <6>1. Above[x] \in SUBSET Positions /\ x # Root /\ Parent[x] \in Positions /\ Above[x] = UpFrom(Parent[x])
                BY <3>3, <4>1, AboveIs
            <6>2. ClosedUpwards(Above[x])
                BY <6>1, UpFromItself DEF ClosedUpwards
            <6>3. UpFrom(d) \subseteq Above[x]
                BY <4>1, <6>1, <6>2, ClosedHas
            <6>4. Above[d] \subseteq UpFrom(d)
                BY <2>4, AboveIs DEF AtOrAbove
            <6> QED BY <5>1, <6>3, <6>4
          <5> QED BY <3>3, <5>1, TreeAssumption
        <4>3. Above[d] \subseteq Above[x] /\ d \notin Above[d]
            BY <2>4, <4>1, <4>2, TreeAssumption
        <4>4. IsFiniteSet(Above[x]) /\ Above[d] # Above[x]
            BY <4>1, <4>3, TreeAssumption, FS_Subset
        <4>5. Cardinality(Above[d]) < Cardinality(Above[x])
            BY <4>3, <4>4, FS_Subset, FS_CardinalityType
        <4>6. Cardinality(Above[x]) <= Cardinality(Above[d]) /\ Cardinality(Above[x]) \in Nat /\ Cardinality(Above[d]) \in Nat
            BY <2>3, <3>3, <4>3, <4>4, FS_Subset, FS_CardinalityType
        <4> QED BY <4>5, <4>6
      <3>6. d \in AtOrAbove(d)
          BY <2>4, AboveIn
      <3> QED BY <3>4, <3>5, <3>6
    <2> QED BY <2>1, <2>5, <2>6
  <1> QED BY <1>1, <1>2

--------------------------------------------------------------------------
(* Where an entry lands                                                    *)

\* One step up from a home is a home.
LEMMA UpIn ==
    ASSUME NEW h \in Homes
    PROVE  Up(h) \in Homes
  BY TreeAssumption DEF Up, Homes

\* A sure verdict names a home, and releases to a home or to none.
LEMMA VerdictIn ==
    ASSUME NEW origin \in Homes, NEW verdict \in Verdicts(origin)
    PROVE  /\ Sure(verdict) => verdict.home \in Homes
           /\ verdict.release \in Homes \cup {None}
  <1>1. Root \in Homes /\ Everyone \in Homes
      BY TreeAssumption DEF Homes
  <1>2. CASE verdict \in {Out, Unsure}
      BY <1>2 DEF Sure, Out, Unsure
  <1>3. CASE origin \in {Root, Everyone} /\ verdict \in [home : {Root}, release : {None}]
      BY <1>1, <1>3
  <1>4. CASE origin \notin {Root, Everyone} /\ verdict \in [home : AtOrAbove(origin), release : {None} \cup (Subtree(origin) \ {origin})]
      BY <1>4, AboveIn DEF Subtree, Homes
  <1> QED BY <1>2, <1>3, <1>4 DEF Verdicts

Placement == [home : Homes, ungraded : BOOLEAN, ask : Homes \cup {None}, restricted : BOOLEAN]

\* Wherever the grader and the floor put it, it is somewhere.
LEMMA PlaceIn ==
    ASSUME NEW origin \in Homes, NEW verdict \in Verdicts(origin), NEW current \in Homes \cup {None}, NEW floor \in Homes
    PROVE  /\ Place(origin, verdict, current, floor) \in Placement
           /\ Place(origin, verdict, current, floor).restricted => current # None
  <1> DEFINE at == IF origin \in {Root, Everyone}
                   THEN [home |-> IF current = None THEN origin ELSE current,
                         ungraded |-> FALSE, ask |-> None, restricted |-> FALSE]
                   ELSE Decide(origin, verdict, current)
  <1>1. Decide(origin, verdict, current) \in Placement /\ (Decide(origin, verdict, current).restricted => current # None)
    <2>1. CASE current # None
        BY <2>1, VerdictIn DEF Decide, Placement
    <2>2. CASE current = None
        BY <2>2, VerdictIn, UpIn DEF Decide, Placement
    <2> QED BY <2>1, <2>2
  <1>2. at \in Placement /\ (at.restricted => current # None)
      BY <1>1 DEF Placement
  <1>3. Place(origin, verdict, current, floor) = ApplyFloor(at, origin, floor)
      BY DEF Place
  <1> HIDE DEF at
  <1>4. CASE floor = origin
      BY <1>2, <1>3, <1>4 DEF ApplyFloor
  <1>5. CASE floor # origin
    <2> DEFINE h == IF floor \in Ancestors(at.home) THEN floor ELSE at.home
    <2>1. at = [home |-> at.home, ungraded |-> at.ungraded, ask |-> at.ask, restricted |-> at.restricted]
        BY <1>2 DEF Placement
    <2>2. ApplyFloor(at, origin, floor) = [home |-> h, ungraded |-> at.ungraded, ask |-> None, restricted |-> at.restricted]
        BY <1>5, <2>1 DEF ApplyFloor
    <2>3. h \in Homes /\ at.ungraded \in BOOLEAN /\ at.restricted \in BOOLEAN
        BY <1>2 DEF Placement
    <2> HIDE DEF h
    <2> QED BY <1>2, <1>3, <2>2, <2>3 DEF Placement
  <1> QED BY <1>4, <1>5

\* One step up from a home is above it, and a sure verdict at or above the origin.
LEMMA UpAbove ==
    ASSUME NEW h \in Homes
    PROVE  /\ Up(h) \in AtOrAbove(h)
           /\ \A verdict \in Verdicts(h) : Sure(verdict) /\ h \notin {Root, Everyone} => verdict.home \in AtOrAbove(h)
  <1>1. h \in AtOrAbove(h)
      BY AboveIn
  <1>2. ASSUME h \notin {Root, Everyone} PROVE Parent[h] \in AtOrAbove(h)
      BY <1>2, AboveIs, UpFromItself DEF Homes
  <1> QED BY <1>1, <1>2 DEF Up, Verdicts, Sure

\* An entry is placed at or above where it is, or its origin when it is new; and at or above the
\* floor, if that is on one line with it, and with the origin too where the grader restricts.
LEMMA PlaceAbove ==
    ASSUME NEW origin \in Homes, NEW verdict \in Verdicts(origin), NEW current \in Homes \cup {None}, NEW floor \in Homes,
           NEW base, base = IF current = None THEN origin ELSE current,
           NEW p, p = Place(origin, verdict, current, floor)
    PROVE  /\ p.home \in AtOrAbove(base)
           /\ floor # origin /\ (base \in AtOrAbove(floor) \/ floor \in AtOrAbove(base)) /\ (p.restricted => floor \in AtOrAbove(origin))
                => p.home \in AtOrAbove(floor)
           /\ p.ungraded => verdict = Out /\ current = None
           /\ p.restricted \in BOOLEAN
  <1> DEFINE at == IF origin \in {Root, Everyone}
                   THEN [home |-> IF current = None THEN origin ELSE current,
                         ungraded |-> FALSE, ask |-> None, restricted |-> FALSE]
                   ELSE Decide(origin, verdict, current)
  <1> DEFINE h == at.home
  <1> DEFINE r == at.restricted
  <1>0. base \in Homes /\ None \notin Homes
      BY TreeAssumption DEF Homes
  <1>1. /\ h \in AtOrAbove(base) /\ r \in BOOLEAN
        /\ r => origin \notin {Root, Everyone} /\ h \in AtOrAbove(origin)
        /\ ~r /\ current # None => h = current
        /\ r => current # None
        /\ origin = Everyone /\ current = None => h = Everyone
        /\ at.ungraded => verdict = Out /\ current = None
        /\ at.ungraded \in BOOLEAN
    <2>1. CASE origin \in {Root, Everyone}
        BY <1>0, <2>1, AboveIn
    <2>2. CASE origin \notin {Root, Everyone} /\ current # None
        BY <1>0, <2>2, AboveIn, UpAbove DEF Decide, AtOrAbove
    <2>3. CASE origin \notin {Root, Everyone} /\ current = None
        BY <1>0, <2>3, AboveIn, UpAbove DEF Decide
    <2> QED BY <2>1, <2>2, <2>3
  <1>2. /\ p.home = IF floor # origin /\ floor \in Ancestors(h) THEN floor ELSE h
        /\ p.restricted = r /\ p.ungraded = at.ungraded
    <2>1. p = ApplyFloor(at, origin, floor)
        BY DEF Place
    <2>2. CASE origin \in {Root, Everyone}
        BY <2>1, <2>2 DEF ApplyFloor
    <2>3. CASE origin \notin {Root, Everyone} /\ current # None
        BY <2>1, <2>3 DEF ApplyFloor, Decide
    <2>4. CASE origin \notin {Root, Everyone} /\ current = None
        BY <2>1, <2>4 DEF ApplyFloor, Decide
    <2> QED BY <2>2, <2>3, <2>4
  <1> DEFINE ungraded == at.ungraded
  <1>3. p.ungraded = ungraded /\ (ungraded => verdict = Out /\ current = None)
      BY <1>1, <1>2
  <1> HIDE DEF h, r, ungraded, at
  <1>4. h \in Homes /\ Ancestors(h) \subseteq AtOrAbove(base) /\ AtOrAbove(h) \subseteq AtOrAbove(base)
      BY <1>0, <1>1, AboveTrans
  <1>5. p.home \in AtOrAbove(base)
      BY <1>1, <1>2, <1>4
  <1>6. ASSUME floor # origin, base \in AtOrAbove(floor) \/ floor \in AtOrAbove(base), r => floor \in AtOrAbove(origin)
        PROVE  p.home \in AtOrAbove(floor)
    <2>1. floor \in AtOrAbove(floor)
        BY AboveIn
    <2>2. CASE h \in AtOrAbove(floor)
      <3>1. Ancestors(h) \subseteq AtOrAbove(floor)
          BY <2>2, AboveTrans
      <3> QED BY <1>2, <2>1, <2>2
    <2>3. ASSUME floor \in AtOrAbove(h) PROVE p.home \in AtOrAbove(floor)
      <3>1. floor = h \/ floor \in Ancestors(h)
          BY <2>3 DEF AtOrAbove
      <3> QED BY <1>2, <1>6, <2>1, <3>1
    <2>4. CASE base \in AtOrAbove(floor)
      <3>1. AtOrAbove(base) \subseteq AtOrAbove(floor)
          BY <2>4, AboveTrans
      <3> QED BY <1>1, <2>2, <3>1
    <2>5. CASE base \in Positions /\ floor \in AtOrAbove(base)
      <3>1. floor \in AtOrAbove(h) \/ h \in AtOrAbove(floor)
          BY <1>1, <2>5, AboveLine
      <3> QED BY <2>2, <2>3, <3>1
    <2>6. CASE base = Everyone /\ floor \in AtOrAbove(base)
      <3>1. CASE r
        <4>1. origin \in Positions /\ floor \in AtOrAbove(origin) /\ h \in AtOrAbove(origin)
            BY <1>1, <1>6, <3>1 DEF Homes
        <4>2. floor \in AtOrAbove(h) \/ h \in AtOrAbove(floor)
            BY <4>1, AboveLine
        <4> QED BY <2>2, <2>3, <4>2
      <3>2. CASE ~r
        <4>1. CASE h = Everyone
            BY <2>3, <4>1, AboveEveryone
        <4>2. CASE h # Everyone
          <5>1. current = None /\ origin = Everyone
              BY <1>1, <2>6, <3>2, <4>2
          <5> QED BY <1>1, <4>2, <5>1
        <4> QED BY <4>1, <4>2
      <3> QED BY <3>1, <3>2
    <2> QED BY <1>0, <1>6, <2>4, <2>5, <2>6 DEF Homes
  <1> QED BY <1>1, <1>2, <1>3, <1>5, <1>6

--------------------------------------------------------------------------
(* What calls carry                                                        *)

After == Pendings \cup {None}
By == People \cup {None}
Some(D, S) == UNION {[d -> S] : d \in SUBSET D}

WriteRec == [kind : {"write"}, e : Entries, floor : Homes, by : By, worker : BOOLEAN, after : After, old : Row \cup {None}]
AskRec == [kind : {"ask"}, e : Entries, from : Homes, to : Homes, after : After]
TypedRec == [kind : {"typed"}, rid : Rids, floor : Homes \cup {None}, read : Row \cup {None}, after : After]
MoveRec == [kind : {"move"}, rid : Rids, e : Entries, from : Homes, to : Homes, person : BOOLEAN, after : After,
            read : Row \cup {None}, placed : BOOLEAN]
Waiting == {x \in Row : x.ungraded # None}
RegradeRec == [kind : {"regrade"}, rows : Some(Rids, Waiting)]
ConfirmRec == [kind : {"confirm"}, q : Pendings, person : People, read : ShareProposal]
ResolveRec == [kind : {"resolve"}, write : Pendings, rows : Some(Pendings, ShareProposal), read : BOOLEAN]
OpenRec == [kind : {"open"}, step : {"join", "grade", "match", "show"}, q : Asked, to : SUBSET Recipients]
Later == {Idle} \cup ResolveRec \cup [kind : {"open"}, step : {"show"}, q : Asked, to : SUBSET Recipients]
GrantRec == [kind : {"grant"}, what : Granted, after : After, then : Later]
RefreshRec == [kind : {"refresh"}, seen : {None} \cup SUBSET Grants, after : After, then : Later]
SettleRec == [kind : {"settle"}, after : Pendings, ok : BOOLEAN, then : Later]
MeetRec == [kind : {"meet"}, q : Asked, rid : Rids, e : Entries, home : Homes, visible : BOOLEAN]
CloseRec == [kind : {"close"}, q : Asked]
LinkRec == [kind : {"link"}, rid : Rids, home : Homes, todo : SUBSET Nouns, asks : BOOLEAN]
MakeRec == [kind : {"make"}, l : LinkRec, n : Nouns, maybe : Tids \cup {None}]
AboutRec == [kind : {"about"}, rid : Rids, home : Homes, x : Tids, next : {Idle} \cup LinkRec]
StrayRec == [kind : {"stray"}, x : Tids, counted : BOOLEAN]
RenameRec == [kind : {"rename"}, x : Tids, names : (SUBSET Nouns) \ {{}}]
MergeRec == [kind : {"merge"}, step : {"read", "move", "homes", "delete"}, keep : Tids, drop : Tids, after : After,
             names : SUBSET Nouns, homes : SUBSET Homes, from : SUBSET Rids]
FoldRec == [kind : {"fold"}, step : {"read", "move", "delete"}, keep : Rids, drop : Rids, after : After,
            home : Homes \cup {None}, xs : SUBSET Tids]
DeleteRec == [kind : {"delete"}, drop : Rids, after : After]
EndRec == [kind : {"settle"}, after : Pendings, ok : BOOLEAN, then : {Idle}]
Rests == {Idle} \cup EndRec \cup RegradeRec \cup AboutRec \cup {f \in FoldRec : f.step = "delete"}
SeenRec == [kind : {"seen"}, todo : SUBSET Tids, home : Homes, x : Tids \cup {None}, got : SUBSET Homes, then : Rests]

\* A worker's correction is of a record it read, seen from no fewer than what else it read; a move that nobody
\* approved is up, and by a person where a person had placed the entry.
Corrects(c) == c.floor \in Homes /\ c.read # None /\ (c.floor = c.read.home \/ c.read.home = Everyone)
MovesUp(m) == m.after = None => m.to \in AtOrAbove(m.from) /\ (m.placed => m.person)

\* A call's record is of its kind; a share's call is for the proposal its grant names, a merge that writes has names.
Shape(w) ==
    /\ w.kind \in {"idle", "write", "ask", "typed", "move", "regrade", "confirm", "resolve", "open", "grant", "refresh", "settle",
                   "meet", "close", "link", "make", "about", "stray", "rename", "merge", "fold", "delete", "seen"}
    /\ w.kind = "idle" => w = Idle
    /\ w.kind = "write" => w \in WriteRec /\ (w.worker \/ w.floor \in AtOrAbove(Origin[w.e]))
    /\ w.kind = "ask" => w \in AskRec
    /\ w.kind = "typed" => w \in TypedRec /\ (w.after = None => Corrects(w))
    /\ w.kind = "move" => w \in MoveRec /\ MovesUp(w) /\ (w.read # None => w.read.e = w.e /\ w.read.home = w.from)
    /\ w.kind = "regrade" => w \in RegradeRec
    /\ w.kind = "confirm" => w \in ConfirmRec
    /\ w.kind = "resolve" => w \in ResolveRec
    /\ w.kind = "open" => w \in OpenRec
    /\ w.kind = "grant" => w \in GrantRec /\ w.what.from = w.after
    /\ w.kind = "refresh" => w \in RefreshRec
    /\ w.kind = "settle" => w \in SettleRec
    /\ w.kind = "meet" => w \in MeetRec
    /\ w.kind = "close" => w \in CloseRec
    /\ w.kind = "link" => w \in LinkRec
    /\ w.kind = "make" => w \in MakeRec
    /\ w.kind = "about" => w \in AboutRec
    /\ w.kind = "stray" => w \in StrayRec
    /\ w.kind = "rename" => w \in RenameRec
    /\ w.kind = "merge" => w \in MergeRec /\ (w.step # "read" => w.names # {})
    /\ w.kind = "fold" => w \in FoldRec /\ (w.step = "move" => w.home \in Homes)
    /\ w.kind = "delete" => w \in DeleteRec
    /\ w.kind = "seen" => w \in SeenRec

\* The proposal a call will settle, what it resolves, and whether a question's showing is with it.
AfterOf(w) ==
    IF w.kind \in {"write", "ask", "typed", "move", "grant", "refresh", "settle", "merge", "fold", "delete"} THEN w.after
    ELSE IF w.kind = "seen" /\ w.then.kind \in {"settle", "fold"} THEN w.then.after ELSE None
Makers == {"grant", "refresh", "settle"}
\* What a call resolves, at once or after the grant it is making.
Resolution(w) == IF w.kind \in Makers THEN w.then ELSE w
\* A call may still show a question to somebody, or is about to.
Late(w, q) ==
    \/ w.kind = "open" /\ w.step \in {"match", "show"} /\ w.q = q
    \/ w.kind = "meet" /\ w.q = q
    \/ w.kind = "grant" /\ w.what.target = q
    \/ w.kind \in Makers /\ w.then.kind = "open" /\ w.then.q = q

\* A resolution reads what waits, or goes on with less of what it read; a confirmation is of the proposal as it stands.
ReadNow(x, y) ==
    /\ x.kind = "resolve" /\ y.write = x.write
    /\ \A q \in DOMAIN y.rows : \/ (q \in DOMAIN x.rows /\ y.rows[q] = x.rows[q])
                               \/ (Waits(q, y.write) /\ y.rows[q] = pending[q])
AsRead(w) ==
    /\ w.q \in Pendings /\ pending[w.q] # None /\ pending[w.q].kind = "share" /\ w.read.status \in {"pending", "waiting"}
    /\ pending[w.q].status = "waiting" => w.read.write = pending[w.q].write

\* A call goes from v to w without taking up a share or a question.
ShareCalm(v, w) ==
    /\ AfterOf(w) \in {None, AfterOf(v)}
    /\ AfterOf(w) # None /\ w.kind \notin Makers => v.kind \notin Makers
    /\ w.kind = "confirm" => AsRead(w)
    /\ w.kind = "grant" => w.after = None
    /\ Resolution(w).kind = "resolve" => Resolution(w) = Resolution(v) \/ ReadNow(Resolution(v), Resolution(w))
NeedCalm(v, w) ==
    /\ v.kind # "close" /\ w.kind # "close"
    /\ \A q \in Asked : (Concerns(w, q) => Concerns(v, q)) /\ (Late(w, q) => Late(v, q))

--------------------------------------------------------------------------
(* The state's types                                                       *)

RowsOK == row \in [Rids -> Row \cup {None}]
MarksOK == marks \in [Actors -> SUBSET Homes]
PendingOK == pending \in [Pendings -> Proposal \cup {None}]
TasksOK == task = [t \in Tasks |-> task[t]] /\ \A t \in Tasks : Shape(task[t])
DueOK == due \in [Entries -> Homes]
QuotaOK == quota \in Use
EntriesOK == RowsOK /\ MarksOK /\ PendingOK /\ TasksOK /\ DueOK /\ QuotaOK

\* A row of the database stays one, and grants that were read are grants.
IsGrant(g) == g \in Grants /\ grant[g] # None
GrantsOK ==
    /\ grant \in [Grants -> Granted \cup {None}] /\ refused \subseteq Pendings
    /\ cache \subseteq Grants /\ \A g \in cache : IsGrant(g)
    /\ \A t \in Tasks : task[t].kind = "refresh" /\ task[t].seen # None => \A g \in task[t].seen : IsGrant(g)

NeedRec == [status : NeedStatuses, asker : People \cup {None}, home : Positions \cup {None}, dismissed : SUBSET People]
NeedsOK ==
    /\ need \in [Asked -> NeedRec] /\ crossed \subseteq Asked
    /\ \A q \in Asked : need[q].status # "none" => need[q].asker \in People /\ need[q].home \in Positions
    /\ near \subseteq [q : Asked, rid : Rids, e : Entries, state : {"open", "visible", "shared", "declined"}]

ThingsOK ==
    /\ thing \in [Tids -> Thing \cup {None, Gone}]
    /\ about \subseteq Rids \X Tids /\ relates \subseteq Tids \X Tids
    /\ \A p \in about : row[p[1]] # None /\ Exists(p[2])
    /\ \A p \in relates : Exists(p[1]) /\ Exists(p[2])

TypeInv == EntriesOK /\ GrantsOK /\ NeedsOK /\ ThingsOK

--------------------------------------------------------------------------
(* What makes a share once, and hides a closed question                    *)

\* A call will settle a proposal, resolves what waits on a write, and has read one of these.
Claims(w, q) == AfterOf(w) = q
Resolves(w, q) == Resolution(w).kind = "resolve" /\ Resolution(w).write = q
InRows(w, q) == HasRead(Resolution(w), q)
Holding(w, q) == Claims(w, q) \/ Resolves(w, q)

\* A proposal is no longer up for a decision, nor waits on a write.
Spent(q) ==
    /\ pending[q] # None /\ pending[q].status \notin {"pending", "waiting"}
    /\ pending[q].kind = "share" /\ pending[q].status \in {"confirmed", "rejected"} => pending[q].write = None

\* At most one call holds a proposal, to settle it or to resolve what waits on it.
OneHolds == \A t, u \in Tasks : \A q \in Pendings : t # u => ~(Holding(task[t], q) /\ Holding(task[u], q))
\* What a call will settle is up for a decision no more, and a share is settled by who makes its grant.
ClaimedIsSpent ==
    \A t \in Tasks : \A q \in Pendings : Claims(task[t], q) =>
        /\ Spent(q)
        /\ task[t].kind \notin Makers => pending[q].kind # "share"
        /\ task[t].kind = "grant" => ~Made(q)
\* What is resolved is a write that has been taken up,
ResolvedRan ==
    \A t \in Tasks : \A q \in Pendings : Resolves(task[t], q) =>
        pending[q] # None /\ pending[q].kind = "upsert" /\ pending[q].status # "pending"
\* ... and what a resolution has read has waited on it since, unless its person decided.
ReadStillWaits ==
    \A t \in Tasks : \A q \in Pendings : InRows(task[t], q) =>
        /\ pending[q] # None /\ pending[q].kind = "share" /\ pending[q].write = Resolution(task[t]).write
        /\ pending[q].status \in {"waiting", "confirmed", "rejected"}
        /\ Resolution(task[t]).rows[q].status = "confirmed" => pending[q].status # "waiting"
\* A share that was made is up for a decision no more,
MadeIsSpent == \A q \in Pendings : Made(q) => Spent(q)
\* ... and is made by one grant.
MadeOnce == \A g, h \in Grants : g # h /\ grant[g] # None /\ grant[h] # None /\ grant[g].from # None => grant[g].from # grant[h].from
\* A share declined in time stays rejected, and no call has it.
RefusedStays ==
    \A q \in refused :
        /\ pending[q] # None /\ pending[q].status = "rejected" /\ ~Made(q)
        /\ \A t \in Tasks : ~Claims(task[t], q) /\ ~InRows(task[t], q)
\* A person confirms the proposal as it was read.
ConfirmedAsRead == \A t \in Tasks : task[t].kind = "confirm" => AsRead(task[t])
SharedInv ==
    /\ OneHolds /\ ClaimedIsSpent /\ ResolvedRan /\ ReadStillWaits
    /\ MadeIsSpent /\ MadeOnce /\ RefusedStays /\ ConfirmedAsRead

Closed == {"withdrawn", "joined", "expired"}
\* A question not asked yet, or closed in order, has no call at work on it.
LeftAlone ==
    \A q \in Asked : need[q].status = "none" \/ (need[q].status \in Closed /\ q \notin crossed) =>
        \A t \in Tasks : ~Concerns(task[t], q)
\* A question is shown to nobody before it is opened.
ShownIsOpened ==
    \A q \in Asked : need[q].status \in {"none", "proposed", "opening"} =>
        /\ \A t \in Tasks : ~Late(task[t], q)
        /\ \A g \in Grants : grant[g] # None => grant[g].target # q
QuestionInv == LeftAlone /\ ShownIsOpened /\ ClosedIsHidden

\* What most steps do: one call goes on, a proposal may be queued, no row goes, no grant is made or revived.
CallCalm(t) ==
    /\ \A u \in Tasks \ {t} : task'[u] = task[u]
    /\ ShareCalm(task[t], task'[t]) /\ NeedCalm(task[t], task'[t])
    /\ task'[t].kind = "refresh" /\ task'[t].seen # None => \A g \in task'[t].seen : IsGrant(g)
TaskCalm == UNCHANGED task \/ \E t \in Tasks : CallCalm(t)
PendingCalm == UNCHANGED pending \/ \E new \in Proposal : Queue(new)
RowsCalm == \A r \in Rids : row[r] # None => row'[r] # None
GrantsCalm ==
    \A g \in Grants : /\ (grant'[g] = None) <=> (grant[g] = None)
                      /\ grant[g] # None => /\ grant'[g].target = grant[g].target /\ grant'[g].from = grant[g].from
                                            /\ grant'[g].status = "active" => grant[g].status = "active"
EntryCalm == EntriesOK' /\ TaskCalm /\ PendingCalm

--------------------------------------------------------------------------
(* What the helpers return                                                 *)

\* A call that begins takes a place that is free.
LEMMA FreeTaskIs ==
    ASSUME HasTask
    PROVE  FreeTask \in Tasks /\ task[FreeTask] = Idle
  <1> DEFINE free == {t \in Tasks : task[t] = Idle}
  <1>1. free \in SUBSET Nat /\ free # {}
      BY EntriesAssumption DEF HasTask, Tasks
  <1>2. PICK t \in free : \A s \in free : t <= s
      BY <1>1, LeastOf
  <1>3. \A s \in 1 .. (t - 1) : task[s] # Idle
    <2> SUFFICES ASSUME NEW s \in 1 .. (t - 1), task[s] = Idle PROVE FALSE
      OBVIOUS
    <2>1. t \in 1 .. MaxTasks /\ MaxTasks \in Nat
        BY <1>2, EntriesAssumption DEF Tasks
    <2>2. s \in Tasks /\ ~(t <= s)
        BY <2>1 DEF Tasks
    <2> QED BY <1>2, <2>2
  <1>4. \E t1 \in Tasks : task[t1] = Idle /\ \A s \in 1 .. (t1 - 1) : task[s] # Idle
      BY <1>2, <1>3
  <1> QED BY <1>4 DEF FreeTask

\* ... and a new proposal,
LEMMA FreePendingIs ==
    ASSUME HasPending
    PROVE  FreePending \in Pendings /\ pending[FreePending] = None
  <1> DEFINE free == {q \in Pendings : pending[q] = None}
  <1>1. free \in SUBSET Nat /\ free # {}
      BY EntriesAssumption DEF HasPending, Pendings
  <1>2. PICK q \in free : \A s \in free : q <= s
      BY <1>1, LeastOf
  <1>3. \A s \in 1 .. (q - 1) : pending[s] # None
    <2> SUFFICES ASSUME NEW s \in 1 .. (q - 1), pending[s] = None PROVE FALSE
      OBVIOUS
    <2>1. q \in 1 .. MaxPending /\ MaxPending \in Nat
        BY <1>2, EntriesAssumption DEF Pendings
    <2>2. s \in Pendings /\ ~(q <= s)
        BY <2>1 DEF Pendings
    <2> QED BY <1>2, <2>2
  <1>4. \E q1 \in Pendings : pending[q1] = None /\ \A s \in 1 .. (q1 - 1) : pending[s] # None
      BY <1>2, <1>3
  <1> QED BY <1>4 DEF FreePending

\* ... and a new grant.
LEMMA FreeGrantIs ==
    ASSUME HasGrant
    PROVE  FreeGrant \in Grants /\ grant[FreeGrant] = None
  <1> DEFINE free == {g \in Grants : grant[g] = None}
  <1>1. free \in SUBSET Nat /\ free # {}
      BY SharesAssumption DEF HasGrant, Grants
  <1>2. PICK g \in free : \A s \in free : g <= s
      BY <1>1, LeastOf
  <1>3. \A s \in 1 .. (g - 1) : grant[s] # None
    <2> SUFFICES ASSUME NEW s \in 1 .. (g - 1), grant[s] = None PROVE FALSE
      OBVIOUS
    <2>1. g \in 1 .. MaxGrants /\ MaxGrants \in Nat
        BY <1>2, SharesAssumption DEF Grants
    <2>2. s \in Grants /\ ~(g <= s)
        BY <2>1 DEF Grants
    <2> QED BY <1>2, <2>2
  <1>4. \E g1 \in Grants : grant[g1] = None /\ \A s \in 1 .. (g1 - 1) : grant[s] # None
      BY <1>2, <1>3
  <1> QED BY <1>4 DEF FreeGrant

Counted == {"read", "lapse", "write", "workerWrite", "fault", "move", "decide", "tick", "delete", "revoke", "share", "answer",
            "restart", "ask", "press", "meet", "withdraw", "expire", "reply", "link", "unlink", "rename", "relate", "merge", "fold"}

\* What may still happen is counted down.
LEMMA SpendKeeps ==
    ASSUME QuotaOK, NEW what \in Counted, Spend(what)
    PROVE  QuotaOK'
  <1>1. quota[what] \in Nat /\ quota[what] > 0 /\ quota' = [quota EXCEPT ![what] = quota[what] - 1]
      BY DEF Spend, Counted, Use, QuotaOK
  <1> DEFINE n == quota[what] - 1
  <1>2. n \in Nat
      BY <1>1
  <1> HIDE DEF n
  <1>3. quota' = [quota EXCEPT ![what] = n]
      BY <1>1 DEF n
  <1> QED BY <1>2, <1>3 DEF Counted, Use, QuotaOK

\* Who calls, and who approves, is someone.
LEMMA CallersAre ==
    ASSUME QuotaOK
    PROVE  /\ quota.callers \subseteq Actors /\ quota.approvers \subseteq Approvers
           /\ \A a \in quota.asks : a \in BOOLEAN
  BY DEF QuotaOK, Use

\* A queued proposal takes a new row.
LEMMA QueueOK ==
    ASSUME PendingOK, NEW new \in Proposal, Queue(new)
    PROVE  PendingOK' /\ PendingCalm
  BY FreePendingIs DEF PendingOK, Queue, PendingCalm

\* The floor of what somebody writes is a home at or above where they write it,
LEMMA DerivedFloorIn ==
    ASSUME MarksOK, NEW a \in Actors, NEW h \in Homes
    PROVE  DerivedFloor(a, h) \in Homes /\ DerivedFloor(a, h) \in AtOrAbove(h)
  BY CommonAncestorIn, CommonIs DEF DerivedFloor, MarksOK

\* ... and so is what is owed to an entry.
LEMMA DueWithIn ==
    ASSUME DueOK, NEW e \in Entries, NEW floor \in Homes, NEW lives
    PROVE  DueWith(e, floor, lives) \in Homes
  BY CommonAncestorIn DEF DueWith, DueOK

\* The row of a stored entry is of that entry,
LEMMA RidOfIs ==
    ASSUME NEW e, Stored(e)
    PROVE  RidOf(e) \in Rids /\ row[RidOf(e)] # None /\ row[RidOf(e)].e = e
  BY DEF Stored, RidOf, RidsOf

\* ... and one that is not stored yet is given a row that is free.
LEMMA RidForIs ==
    ASSUME NEW e, HasRid(e)
    PROVE  /\ RidFor(e) \in Rids
           /\ IF Stored(e) THEN RidFor(e) = RidOf(e) /\ row[RidFor(e)] # None ELSE row[RidFor(e)] = None
  BY RidOfIs DEF HasRid, RidFor

--------------------------------------------------------------------------
(* How calls go                                                            *)

\* The kinds that have nothing to do with shares and questions.
Plain == {"idle", "write", "ask", "typed", "move", "regrade", "link", "make", "about", "stray", "rename", "merge", "fold",
          "delete", "seen"}

\* A call that goes on as one with no share and no question takes up neither.
LEMMA PlainCalm ==
    ASSUME NEW v, NEW w, v.kind # "close", w.kind \in Plain, AfterOf(w) \in {None, AfterOf(v)},
           AfterOf(w) # None => v.kind \notin Makers
    PROVE  ShareCalm(v, w) /\ NeedCalm(v, w)
  BY DEF Plain, ShareCalm, NeedCalm, Makers, Resolution, Concerns, Opens, Late

\* A call goes on.
LEMMA BeginOK ==
    ASSUME TasksOK, NEW t \in Tasks, NEW w, Shape(w), Begin(t, w)
    PROVE  TasksOK' /\ task'[t] = w /\ \A u \in Tasks \ {t} : task'[u] = task[u]
  <1>1. task' = [task EXCEPT ![t] = w]
      BY DEF Begin
  <1>2. task' = [u \in Tasks |-> IF u = t THEN w ELSE task[u]]
      BY <1>1 DEF TasksOK
  <1> QED BY <1>2, Zenon DEF TasksOK

\* A call that goes on calmly keeps the types,
LEMMA BeginCalm ==
    ASSUME TasksOK, NEW t \in Tasks, NEW w, Shape(w), Begin(t, w), ShareCalm(task[t], w), NeedCalm(task[t], w),
           w.kind = "refresh" => w.seen = None
    PROVE  TasksOK' /\ TaskCalm
  BY BeginOK DEF TaskCalm, CallCalm

\* ... and so does one that goes on with neither a share nor a question.
LEMMA BeginPlain ==
    ASSUME TasksOK, NEW t \in Tasks, NEW w, Shape(w), Begin(t, w), task[t].kind # "close", w.kind \in Plain,
           AfterOf(w) \in {None, AfterOf(task[t])}, AfterOf(w) # None => task[t].kind \notin Makers
    PROVE  TasksOK' /\ TaskCalm
  BY BeginCalm, PlainCalm DEF Plain

\* A new call of such a kind, that settles nothing.
LEMMA BeginNew ==
    ASSUME TasksOK, HasTask, NEW w, Shape(w), Begin(FreeTask, w), w.kind \in Plain, AfterOf(w) = None
    PROVE  TasksOK' /\ TaskCalm
  <1>1. FreeTask \in Tasks /\ task[FreeTask].kind = "idle"
      BY FreeTaskIs DEF Idle
  <1> QED BY <1>1, BeginPlain

\* No proposal to settle is not one of the proposals.
LEMMA NoneAfter == None \notin Pendings
  BY KnowledgeAssumption

\* A call ends, its proposal settled.
LEMMA SettlingIs ==
    ASSUME NEW after \in After, NEW ok \in BOOLEAN, NEW then \in Later
    PROVE  /\ Shape(Settling(after, ok, then))
           /\ after = None => Settling(after, ok, then) = then
           /\ after # None => Settling(after, ok, then) = [kind |-> "settle", after |-> after, ok |-> ok, then |-> then]
           /\ AfterOf(Settling(after, ok, then)) = after
  <1>1. CASE after = None
      BY <1>1 DEF Settling, Shape, Later, Idle, ResolveRec, OpenRec, AfterOf
  <1>2. CASE after # None
    <2> DEFINE w == [kind |-> "settle", after |-> after, ok |-> ok, then |-> then]
    <2>1. Settling(after, ok, then) = w /\ w.kind = "settle" /\ w.after = after
        BY <1>2 DEF Settling
    <2>2. w \in SettleRec
        BY <1>2 DEF SettleRec, After
    <2>3. Shape(w) /\ AfterOf(w) = after
        BY <2>1, <2>2 DEF Shape, AfterOf
    <2> QED BY <1>2, <2>1, <2>3
  <1> QED BY <1>1, <1>2

\* A call that ends may settle the proposal it is for, and no other.
LEMMA EndCalm ==
    ASSUME NEW v, v.kind # "close", AfterOf(v) \in After, NEW after \in {None, AfterOf(v)}, NEW ok \in BOOLEAN,
           NEW w, w = Settling(after, ok, Idle)
    PROVE  Shape(w) /\ ShareCalm(v, w) /\ NeedCalm(v, w) /\ w.kind # "refresh" /\ AfterOf(w) = after
  <1>1. Idle \in Later /\ Idle.kind = "idle" /\ after \in After
      BY DEF Later, Idle, After
  <1>2. Shape(w) /\ AfterOf(w) = after
      BY <1>1, SettlingIs
  <1>3. CASE after = None
    <2>1. w = Idle
        BY <1>3 DEF Settling
    <2> QED BY <2>1, <1>1, <1>2, <1>3, PlainCalm DEF Plain
  <1>4. CASE after # None
    <2>1. w = [kind |-> "settle", after |-> after, ok |-> ok, then |-> Idle]
        BY <1>4 DEF Settling
    <2>2. w.kind = "settle" /\ w.then.kind = "idle"
        BY <2>1, <1>1
    <2> QED BY <1>2, <2>2 DEF ShareCalm, NeedCalm, Makers, Resolution, Concerns, Opens, Late
  <1> QED BY <1>3, <1>4

\* A call ends.
LEMMA BeginEnd ==
    ASSUME TasksOK, NEW t \in Tasks, task[t].kind # "close", AfterOf(task[t]) \in After, NEW after \in {None, AfterOf(task[t])},
           NEW ok \in BOOLEAN, Begin(t, Settling(after, ok, Idle))
    PROVE  TasksOK' /\ TaskCalm
  <1> DEFINE w == Settling(after, ok, Idle)
  <1>1. Shape(w) /\ ShareCalm(task[t], w) /\ NeedCalm(task[t], w) /\ w.kind # "refresh"
      BY EndCalm
  <1>2. Begin(t, w)
      OBVIOUS
  <1> HIDE DEF w
  <1> QED BY <1>1, <1>2, BeginCalm

--------------------------------------------------------------------------
(* Entries                                                                 *)

\* A write's call is of its kind,
LEMMA WriteTaskOK ==
    ASSUME RowsOK, NEW e \in Entries, NEW floor \in Homes, NEW writer \in By, NEW worker \in BOOLEAN, NEW after \in After,
           worker \/ floor \in AtOrAbove(Origin[e])
    PROVE  /\ Shape(WriteTask(e, floor, writer, worker, after)) /\ AfterOf(WriteTask(e, floor, writer, worker, after)) = after
           /\ WriteTask(e, floor, writer, worker, after).kind = "write"
  <1> DEFINE w == WriteTask(e, floor, writer, worker, after)
  <1> DEFINE old == IF Stored(e) THEN row[RidOf(e)] ELSE None
  <1>1. old \in Row \cup {None}
      BY RidOfIs DEF RowsOK
  <1>2. w = [kind |-> "write", e |-> e, floor |-> floor, by |-> writer, worker |-> worker, after |-> after, old |-> old]
      BY DEF WriteTask
  <1> HIDE DEF old, w
  <1>3. w \in WriteRec /\ w.kind = "write" /\ w.after = after /\ (w.worker \/ w.floor \in AtOrAbove(Origin[w.e]))
      BY <1>1, <1>2 DEF WriteRec
  <1> QED BY <1>3 DEF Shape, AfterOf, w

\* ... and so is a move's.
LEMMA MoveTaskOK ==
    ASSUME RowsOK, NEW r \in Rids, NEW e \in Entries, NEW from \in Homes, NEW to \in Homes, NEW person \in BOOLEAN, NEW after \in After,
           after = None => to \in AtOrAbove(from) /\ (row[r] # None /\ row[r].placed => person)
    PROVE  /\ Shape(MoveTask(r, e, from, to, person, after)) /\ AfterOf(MoveTask(r, e, from, to, person, after)) = after
           /\ MoveTask(r, e, from, to, person, after).kind = "move"
  <1> DEFINE w == MoveTask(r, e, from, to, person, after)
  <1> DEFINE placed == row[r] # None /\ row[r].placed
  <1>1. placed \in BOOLEAN
      BY DEF RowsOK, Row
  <1>2. w = [kind |-> "move", rid |-> r, e |-> e, from |-> from, to |-> to, person |-> person,
             after |-> after, read |-> None, placed |-> placed]
      BY DEF MoveTask
  <1> HIDE DEF placed, w
  <1>3. w \in MoveRec /\ w.kind = "move" /\ w.after = after /\ w.read = None
      BY <1>1, <1>2 DEF MoveRec
  <1>4. MovesUp(w)
      BY <1>2 DEF MovesUp, placed
  <1> QED BY <1>3, <1>4 DEF Shape, AfterOf, w

\* A proposed write is a proposal,
LEMMA UpsertIn ==
    ASSUME NEW a \in Actors, NEW e \in Entries, NEW floor \in Homes, NEW worker \in BOOLEAN, worker \/ floor \in AtOrAbove(Origin[e])
    PROVE  UpsertPending(a, e, floor, worker) \in Proposal
  <1>1. Origin[e] \in Homes /\ WriterOf(a) \in By
      BY EntriesAssumption DEF WriterOf, IsPerson, By
  <1> DEFINE o == Origin[e]
  <1> DEFINE b == WriterOf(a)
  <1>2. UpsertPending(a, e, floor, worker) = [kind |-> "upsert", status |-> "pending", home |-> o, who |-> a,
                                              e |-> e, floor |-> floor, by |-> b, worker |-> worker]
      BY DEF UpsertPending
  <1>3. o \in Homes /\ b \in By
      BY <1>1
  <1> HIDE DEF o, b
  <1> QED BY <1>2, <1>3 DEF Proposal, Statuses, By

\* ... and so is a proposed move.
LEMMA RehomeIn ==
    ASSUME NEW a \in Actors \cup {None}, NEW r \in Rids, NEW e \in Entries, NEW from \in Homes, NEW to \in Homes
    PROVE  RehomePending(a, r, e, from, to) \in Proposal
  BY DEF RehomePending, Proposal, Statuses

\* What a row is.
LEMMA RowIs ==
    ASSUME RowsOK, NEW r \in Rids, row[r] # None
    PROVE  /\ row[r] \in Row /\ row[r].e \in Entries /\ row[r].home \in Homes /\ row[r].placed \in BOOLEAN
           /\ row[r].by \in By /\ row[r].ungraded \in Awaiting \cup {None}
  BY DEF RowsOK, Row, By

\* Reading keeps the types (Read),
LEMMA ReadStep ==
    ASSUME EntriesOK, NEW a \in quota.callers, NEW r \in Rids, Read(a, r)
    PROVE  EntryCalm /\ UNCHANGED row
  <1>1. QuotaOK'
      BY SpendKeeps DEF Read, EntriesOK, Counted
  <1>2. MarksOK'
      BY RowIs DEF Read, EntriesOK, MarksOK, Sees
  <1>3. RowsOK' /\ PendingOK' /\ TasksOK' /\ DueOK' /\ TaskCalm /\ PendingCalm /\ UNCHANGED row
      BY DEF Read, EntriesOK, RowsOK, PendingOK, TasksOK, DueOK, TaskCalm, PendingCalm
  <1> QED BY <1>1, <1>2, <1>3 DEF EntryCalm, EntriesOK

\* ... the marks of a session may lapse (MarksLapse),
LEMMA LapseStep ==
    ASSUME EntriesOK, NEW a \in quota.callers, MarksLapse(a)
    PROVE  EntryCalm /\ UNCHANGED row
  <1>1. QuotaOK'
      BY SpendKeeps DEF MarksLapse, EntriesOK, Counted
  <1>2. MarksOK'
      BY DEF MarksLapse, EntriesOK, MarksOK
  <1>3. RowsOK' /\ PendingOK' /\ TasksOK' /\ DueOK' /\ TaskCalm /\ PendingCalm /\ UNCHANGED row
      BY DEF MarksLapse, EntriesOK, RowsOK, PendingOK, TasksOK, DueOK, TaskCalm, PendingCalm
  <1> QED BY <1>1, <1>2, <1>3 DEF EntryCalm, EntriesOK

\* A step that reads, queues or begins something leaves rows, marks and dues alone.
LEMMA StillThere ==
    ASSUME EntriesOK, UNCHANGED <<row, marks, due>>
    PROVE  RowsOK' /\ MarksOK' /\ DueOK'
  BY DEF EntriesOK, RowsOK, MarksOK, DueOK

\* A step that leaves the proposals keeps what holds of them,
LEMMA PendingStays ==
    ASSUME PendingOK, UNCHANGED pending
    PROVE  PendingOK' /\ PendingCalm
  BY DEF PendingOK, PendingCalm

\* ... and one that leaves the calls.
LEMMA TasksStay ==
    ASSUME TasksOK, UNCHANGED task
    PROVE  TasksOK' /\ TaskCalm
  BY DEF TasksOK, TaskCalm

\* Somebody writes, or proposes to (Write).
LEMMA WriteStep ==
    ASSUME EntriesOK, NEW a \in quota.callers, NEW e \in Entries, Write(a, e)
    PROVE  EntryCalm /\ UNCHANGED row
  <1>1. QuotaOK' /\ a \in Actors
      BY SpendKeeps, CallersAre DEF Write, EntriesOK, Counted
  <1>2. RowsOK' /\ MarksOK' /\ DueOK' /\ UNCHANGED row
      BY StillThere DEF Write
  <1> DEFINE floor == DerivedFloor(a, Origin[e])
  <1>3. floor \in Homes /\ WriterOf(a) \in By /\ floor \in AtOrAbove(Origin[e])
      BY <1>1, DerivedFloorIn, EntriesAssumption DEF EntriesOK, WriterOf, IsPerson, By
  <1>4. CASE a \in Queued
    <2>1. Queue(UpsertPending(a, e, floor, FALSE)) /\ UNCHANGED task
        BY <1>4 DEF Write
    <2> HIDE DEF floor
    <2>2. FALSE \in BOOLEAN
        OBVIOUS
    <2>5. UpsertPending(a, e, floor, FALSE) \in Proposal
        BY <1>1, <1>3, <2>2, UpsertIn
    <2>3. PendingOK' /\ PendingCalm
        BY <2>1, <2>5, QueueOK DEF EntriesOK
    <2>4. TasksOK' /\ TaskCalm
        BY <2>1, TasksStay DEF EntriesOK
    <2> QED BY <1>1, <1>2, <2>3, <2>4 DEF EntryCalm, EntriesOK
  <1>5. CASE a \notin Queued
    <2> DEFINE w == WriteTask(e, floor, WriterOf(a), FALSE, None)
    <2>1. HasTask /\ Begin(FreeTask, w) /\ UNCHANGED pending
        BY <1>5 DEF Write
    <2> HIDE DEF floor
    <2>0. None \in After /\ FALSE \in BOOLEAN
        BY DEF After
    <2>2. Shape(w) /\ AfterOf(w) = None /\ w.kind = "write"
        BY <1>3, <2>0, WriteTaskOK DEF EntriesOK
    <2> HIDE DEF w
    <2>3. TasksOK' /\ TaskCalm
        BY <2>1, <2>2, BeginNew DEF EntriesOK, Plain
    <2>4. PendingOK' /\ PendingCalm
        BY <2>1, PendingStays DEF EntriesOK
    <2> QED BY <1>1, <1>2, <2>3, <2>4 DEF EntryCalm, EntriesOK
  <1> QED BY <1>4, <1>5

\* What a worker stores is written, or proposed.
LEMMA WorkerStoresOK ==
    ASSUME EntriesOK, NEW e \in Entries, NEW lives \in Homes, NEW propose \in BOOLEAN, WorkerStores(e, lives, propose)
    PROVE  TasksOK' /\ TaskCalm /\ PendingOK' /\ PendingCalm
  <1> DEFINE lift == FloorLifts(lives, DerivedFloor(Worker, lives))
  <1> DEFINE floor == IF lift THEN lives ELSE DerivedFloor(Worker, lives)
  <1>1. Worker \in Actors /\ floor \in Homes
      BY DerivedFloorIn DEF EntriesOK, Actors
  <1>2. CASE propose
    <2>1. Queue(UpsertPending(Worker, e, floor, TRUE)) /\ UNCHANGED task
        BY <1>2 DEF WorkerStores
    <2> HIDE DEF floor
    <2>0. TRUE \in BOOLEAN
        OBVIOUS
    <2>2. UpsertPending(Worker, e, floor, TRUE) \in Proposal
        BY <1>1, <2>0, UpsertIn
    <2> QED BY <2>1, <2>2, QueueOK, TasksStay DEF EntriesOK
  <1>3. CASE ~propose
    <2> DEFINE w == WriteTask(e, floor, None, TRUE, None)
    <2>1. HasTask /\ Begin(FreeTask, w) /\ UNCHANGED pending
        BY <1>3 DEF WorkerStores
    <2> HIDE DEF floor
    <2>0. None \in After /\ None \in By /\ TRUE \in BOOLEAN
        BY DEF After, By
    <2>2. Shape(w) /\ AfterOf(w) = None /\ w.kind = "write"
        BY <1>1, <2>0, WriteTaskOK DEF EntriesOK
    <2> HIDE DEF w
    <2> QED BY <2>1, <2>2, BeginNew, PendingStays DEF EntriesOK, Plain
  <1> QED BY <1>2, <1>3

\* A worker writes (WorkerWrite),
LEMMA WorkerWriteStep ==
    ASSUME EntriesOK, NEW e \in Entries, NEW propose \in BOOLEAN, WorkerWrite(e, propose)
    PROVE  EntryCalm /\ UNCHANGED row
  <1> DEFINE lives == IF Stored(e) THEN row[RidOf(e)].home ELSE Origin[e]
  <1>1. QuotaOK'
      BY SpendKeeps DEF WorkerWrite, EntriesOK, Counted
  <1>2. RowsOK' /\ MarksOK' /\ DueOK' /\ UNCHANGED row
      BY StillThere DEF WorkerWrite
  <1>3. lives \in Homes
      BY RidOfIs, RowIs, EntriesAssumption DEF EntriesOK
  <1>4. WorkerStores(e, lives, propose)
      BY DEF WorkerWrite
  <1> HIDE DEF lives
  <1> QED BY <1>1, <1>2, <1>3, <1>4, WorkerStoresOK DEF EntryCalm, EntriesOK

\* ... corrects what is stored (WorkerUpdate),
LEMMA WorkerUpdateStep ==
    ASSUME EntriesOK, NEW r \in Rids, NEW propose \in BOOLEAN, WorkerUpdate(r, propose)
    PROVE  EntryCalm /\ UNCHANGED row
  <1>1. QuotaOK'
      BY SpendKeeps DEF WorkerUpdate, EntriesOK, Counted
  <1>2. RowsOK' /\ MarksOK' /\ DueOK' /\ UNCHANGED row
      BY StillThere DEF WorkerUpdate
  <1>3. row[r].e \in Entries /\ row[r].home \in Homes /\ WorkerStores(row[r].e, row[r].home, propose)
      BY RowIs DEF WorkerUpdate, EntriesOK
  <1>4. TasksOK' /\ TaskCalm /\ PendingOK' /\ PendingCalm
      BY <1>3, WorkerStoresOK
  <1> QED BY <1>1, <1>2, <1>4 DEF EntryCalm, EntriesOK

\* ... and corrects what has a type (TypedUpdate).
LEMMA TypedUpdateStep ==
    ASSUME EntriesOK, NEW r \in Rids, NEW propose \in BOOLEAN, TypedUpdate(r, propose)
    PROVE  EntryCalm /\ UNCHANGED row
  <1>1. QuotaOK'
      BY SpendKeeps DEF TypedUpdate, EntriesOK, Counted
  <1>2. RowsOK' /\ MarksOK' /\ DueOK' /\ UNCHANGED row
      BY StillThere DEF TypedUpdate
  <1> DEFINE home == row[r].home
  <1> DEFINE floor == DerivedFloor(Worker, home)
  <1> DEFINE old == row[r]
  <1>3. home \in Homes /\ old \in Row /\ old # None
      BY RowIs DEF TypedUpdate, EntriesOK
  <1>4. floor \in Homes /\ floor \in AtOrAbove(home) /\ Worker \in Actors /\ Root \in Homes
      BY <1>3, DerivedFloorIn, TreeAssumption DEF EntriesOK, Actors, Homes
  <1>5. CASE propose \/ FloorLifts(home, floor)
    <2> DEFINE p == [kind |-> "typed", status |-> "pending", home |-> Root, who |-> Worker, rid |-> r]
    <2>1. Queue(p) /\ UNCHANGED task
        BY <1>5 DEF TypedUpdate
    <2>2. p \in Proposal
        BY <1>4 DEF Proposal, Statuses
    <2> HIDE DEF p, home, floor
    <2> QED BY <1>1, <1>2, <2>1, <2>2, QueueOK, TasksStay DEF EntriesOK, EntryCalm
  <1>6. CASE ~(propose \/ FloorLifts(home, floor))
    <2> DEFINE w == [kind |-> "typed", rid |-> r, floor |-> floor, read |-> old, after |-> None]
    <2>1. HasTask /\ Begin(FreeTask, w) /\ UNCHANGED pending
        BY <1>6 DEF TypedUpdate
    <2>4. floor = home \/ home = Everyone
        BY <1>4, <1>6 DEF FloorLifts, AtOrAbove
    <2>5. home = old.home
        OBVIOUS
    <2> HIDE DEF floor, old, home
    <2>2. w \in TypedRec /\ w.kind = "typed" /\ w.after = None /\ Corrects(w)
        BY <1>3, <1>4, <2>4, <2>5 DEF TypedRec, After, Corrects
    <2> HIDE DEF w
    <2>3. Shape(w) /\ AfterOf(w) = None
        BY <2>2 DEF Shape, AfterOf
    <2> QED BY <1>1, <1>2, <2>1, <2>2, <2>3, BeginNew, PendingStays DEF EntriesOK, EntryCalm, Plain
  <1> QED BY <1>5, <1>6

\* An entry is moved, or proposed to be (SetHome).
LEMMA SetHomeStep ==
    ASSUME EntriesOK, NEW a \in quota.callers, NEW r \in Rids, NEW to \in Homes, NEW propose \in BOOLEAN, SetHome(a, r, to, propose)
    PROVE  EntryCalm /\ UNCHANGED row
  <1>1. QuotaOK' /\ a \in Actors
      BY SpendKeeps, CallersAre DEF SetHome, EntriesOK, Counted
  <1>2. RowsOK' /\ MarksOK' /\ DueOK' /\ UNCHANGED row
      BY StillThere DEF SetHome
  <1>3. row[r].e \in Entries /\ row[r].home \in Homes
      BY RowIs DEF SetHome, EntriesOK
  <1>4. CASE MovesItself(a, r, to) /\ ~propose
    <2> DEFINE w == MoveTask(r, row[r].e, row[r].home, to, IsPerson(a), None)
    <2>1. HasTask /\ Begin(FreeTask, w) /\ UNCHANGED pending
        BY <1>4 DEF SetHome
    <2>2. IsPerson(a) \in BOOLEAN /\ None \in After /\ to \in AtOrAbove(row[r].home) /\ (row[r].placed => IsPerson(a))
        BY <1>4 DEF IsPerson, After, MovesItself, Restricts
    <2>3. Shape(w) /\ AfterOf(w) = None /\ w.kind = "move"
        BY <1>3, <2>2, MoveTaskOK DEF EntriesOK
    <2> HIDE DEF w
    <2> QED BY <1>1, <1>2, <2>1, <2>3, BeginNew, PendingStays DEF EntriesOK, EntryCalm, Plain
  <1>5. CASE ~(MovesItself(a, r, to) /\ ~propose)
    <2>1. Queue(RehomePending(a, r, row[r].e, row[r].home, to)) /\ UNCHANGED task
        BY <1>5 DEF SetHome
    <2>2. RehomePending(a, r, row[r].e, row[r].home, to) \in Proposal
        BY <1>1, <1>3, RehomeIn
    <2> QED BY <1>1, <1>2, <2>1, <2>2, QueueOK, TasksStay DEF EntriesOK, EntryCalm
  <1> QED BY <1>4, <1>5

\* A partial function's values, and what is left of it without some.
LEMMA SomeIs ==
    ASSUME NEW D, NEW S, NEW f \in Some(D, S)
    PROVE  DOMAIN f \subseteq D /\ \A x \in DOMAIN f : f[x] \in S
  BY DEF Some

\* A function on some of a set is one of those,
LEMMA SomeIn ==
    ASSUME NEW D, NEW S, NEW d \in SUBSET D, NEW f \in [d -> S]
    PROVE  f \in Some(D, S)
  BY DEF Some

\* ... and so is what is left of it without one.
LEMMA SomeLeft ==
    ASSUME NEW D, NEW S, NEW f \in Some(D, S), NEW x
    PROVE  /\ Restrict(f, DOMAIN f \ {x}) \in Some(D, S) /\ DOMAIN Restrict(f, DOMAIN f \ {x}) = DOMAIN f \ {x}
           /\ \A y \in DOMAIN f \ {x} : Restrict(f, DOMAIN f \ {x})[y] = f[y]
  <1> DEFINE d == DOMAIN f \ {x}
  <1> DEFINE g == [y \in d |-> f[y]]
  <1>1. d \in SUBSET D /\ g \in [d -> S]
      BY SomeIs
  <1>2. Restrict(f, d) = g
      BY DEF Restrict
  <1>3. g \in Some(D, S)
      BY <1>1, SomeIn, Zenon
  <1> QED BY <1>2, <1>3

\* The regrading reads what waits for a grade (RegradeRead).
LEMMA RegradeReadStep ==
    ASSUME EntriesOK, RegradeRead
    PROVE  EntryCalm /\ UNCHANGED row
  <1> DEFINE waits == {r \in Rids : row[r] # None /\ row[r].ungraded # None}
  <1> DEFINE rows == [r \in waits |-> row[r]]
  <1> DEFINE w == [kind |-> "regrade", rows |-> rows]
  <1>1. QuotaOK'
      BY SpendKeeps DEF RegradeRead, EntriesOK, Counted
  <1>2. RowsOK' /\ MarksOK' /\ DueOK' /\ UNCHANGED row
      BY StillThere DEF RegradeRead
  <1>3. HasTask /\ Begin(FreeTask, w) /\ UNCHANGED pending
      BY DEF RegradeRead
  <1>4. waits \in SUBSET Rids /\ rows \in [waits -> Waiting]
      BY RowIs DEF EntriesOK, Waiting
  <1>5. rows \in Some(Rids, Waiting)
      BY <1>4, SomeIn, Zenon
  <1> HIDE DEF rows
  <1>6. w \in RegradeRec /\ w.kind = "regrade"
      BY <1>5 DEF RegradeRec
  <1> HIDE DEF w
  <1>7. Shape(w) /\ AfterOf(w) = None
      BY <1>6 DEF Shape, AfterOf
  <1> QED BY <1>1, <1>2, <1>3, <1>6, <1>7, BeginNew, PendingStays DEF EntriesOK, EntryCalm, Plain

\* A correction is applied, and its call ends.
LEMMA TypedApplyStep ==
    ASSUME EntriesOK, NEW t \in Tasks, TypedApply(t)
    PROVE  EntryCalm /\ UNCHANGED row
  <1> DEFINE c == task[t]
  <1>1. c.kind = "typed" /\ c \in TypedRec /\ (c.after = None => c.floor \in Homes) /\ AfterOf(c) = c.after
      BY DEF TypedApply, EntriesOK, TasksOK, Shape, Corrects, AfterOf
  <1>2. c.after \in After /\ c.rid \in Rids /\ c.floor \in Homes \cup {None} /\ c.kind # "close"
      BY <1>1 DEF TypedRec
  <1>3. RowsOK' /\ MarksOK' /\ QuotaOK' /\ UNCHANGED row /\ PendingOK' /\ PendingCalm
      BY PendingStays DEF TypedApply, EntriesOK, RowsOK, MarksOK, QuotaOK
  <1>4. TRUE \in BOOLEAN /\ FALSE \in BOOLEAN /\ AfterOf(c) \in After /\ c.after \in {None, AfterOf(c)}
      BY <1>1, <1>2
  <1>5. Begin(t, Settling(c.after, TRUE, Idle)) \/ Begin(t, Settling(c.after, FALSE, Idle))
      BY DEF TypedApply, Ended, Failed
  <1>6. TasksOK' /\ TaskCalm
      BY <1>2, <1>4, <1>5, BeginEnd DEF EntriesOK
  <1>7. DueOK'
    <2>1. CASE row[c.rid] = None \/ c.after # None
        BY <2>1 DEF TypedApply, EntriesOK, DueOK
    <2>2. CASE row[c.rid] # None /\ c.after = None
      <3> DEFINE e == row[c.rid].e
      <3> DEFINE new == DueWith(e, c.floor, c.read.home)
      <3>1. due' = [due EXCEPT ![e] = new] /\ e \in Entries
          BY <2>2, <1>2, RowIs DEF TypedApply, EntriesOK
      <3>2. c.floor \in Homes
          BY <2>2, <1>1
      <3>3. new \in Homes
          BY <3>1, <3>2, DueWithIn DEF EntriesOK
      <3> HIDE DEF e, new
      <3> QED BY <3>1, <3>3 DEF EntriesOK, DueOK
    <2> QED BY <2>1, <2>2
  <1> QED BY <1>3, <1>6, <1>7 DEF EntryCalm, EntriesOK

\* Where a write puts its entry.
LEMMA PlacedIn ==
    ASSUME NEW w \in WriteRec, NEW verdict \in Verdicts(Origin[w.e])
    PROVE  Placed(w, verdict) \in Placement
  <1> DEFINE current == KeptHome(w.old, verdict)
  <1> DEFINE p == Place(Origin[w.e], verdict, current, w.floor)
  <1>1. w.e \in Entries /\ w.floor \in Homes /\ w.old \in Row \cup {None} /\ Origin[w.e] \in Homes
      BY EntriesAssumption DEF WriteRec
  <1>2. current \in Homes \cup {None} /\ (current # None => w.old # None)
      BY <1>1 DEF KeptHome, Row
  <1> HIDE DEF current
  <1>3. p \in Placement /\ (p.restricted => w.old \in Row)
      BY <1>1, <1>2, PlaceIn
  <1>4. Placed(w, verdict) = IF w.worker /\ p.restricted THEN [p EXCEPT !.home = w.old.home] ELSE p
      BY DEF Placed, current
  <1>5. p.restricted => w.old.home \in Homes
      BY <1>3 DEF Row
  <1> HIDE DEF p
  <1> QED BY <1>3, <1>4, <1>5 DEF Placement

\* A write is stored, and what its grader asks is asked.
LEMMA WriteStoreStep ==
    ASSUME EntriesOK, NEW t \in Tasks, WriteStore(t)
    PROVE  EntryCalm /\ RowsCalm
  <1> DEFINE w == task[t]
  <1>1. w.kind = "write" /\ w \in WriteRec /\ AfterOf(w) = w.after /\ HasRid(w.e)
      BY DEF WriteStore, EntriesOK, TasksOK, Shape, AfterOf
  <1>2. w.after \in After /\ w.e \in Entries /\ w.floor \in Homes /\ w.by \in By /\ w.kind # "close"
      BY <1>1 DEF WriteRec
  <1>3. MarksOK' /\ QuotaOK' /\ PendingOK' /\ PendingCalm
      BY PendingStays DEF WriteStore, EntriesOK, MarksOK, QuotaOK
  <1>4. PICK verdict \in Verdicts(Origin[w.e]) :
           LET p == Placed(w, verdict)
               r == RidFor(w.e)
               was == row[r]
           IN /\ row' = [row EXCEPT ![r] =
                   [e |-> w.e, home |-> p.home, placed |-> was # None /\ was.placed,
                    by |-> IF was # None /\ was.by # None THEN was.by ELSE w.by,
                    ungraded |-> UngradedAfter(w, verdict, p)]]
              /\ due' = [due EXCEPT ![w.e] = DueWith(w.e, w.floor, IF w.worker /\ was # None THEN was.home ELSE Origin[w.e])]
              /\ task' = [task EXCEPT ![t] =
                   IF p.ask = None THEN Ended(w.after)
                   ELSE [kind |-> "ask", e |-> w.e, from |-> p.home, to |-> p.ask, after |-> w.after]]
      BY DEF WriteStore
  <1> DEFINE p == Placed(w, verdict)
  <1> DEFINE r == RidFor(w.e)
  <1> DEFINE was == row[r]
  <1>5. p \in Placement
      BY <1>1, PlacedIn
  <1>6. p.home \in Homes /\ p.ungraded \in BOOLEAN /\ p.ask \in Homes \cup {None}
      BY <1>5 DEF Placement
  <1>7. r \in Rids /\ was \in Row \cup {None}
      BY <1>1, RidForIs DEF EntriesOK, RowsOK
  <1>8. RowsOK' /\ RowsCalm
    <2> DEFINE placed == was # None /\ was.placed
    <2> DEFINE by == IF was # None /\ was.by # None THEN was.by ELSE w.by
    <2> DEFINE ungraded == UngradedAfter(w, verdict, p)
    <2> DEFINE new == [e |-> w.e, home |-> p.home, placed |-> placed, by |-> by, ungraded |-> ungraded]
    <2>1. placed \in BOOLEAN /\ by \in By
        BY <1>2, <1>7 DEF Row, By
    <2>2. ungraded \in Awaiting \cup {None}
      <3>1. Stored(w.e) => row[RidOf(w.e)].ungraded \in Awaiting \cup {None}
          BY RidOfIs, RowIs DEF EntriesOK
      <3>2. [held |-> p.home, floor |-> w.floor] \in Awaiting
          BY <1>2, <1>6 DEF Awaiting
      <3> HIDE DEF p
      <3> QED BY <3>1, <3>2 DEF UngradedAfter
    <2>3. row' = [row EXCEPT ![r] = new]
        BY <1>4
    <2> HIDE DEF placed, by, ungraded, p, was
    <2>4. new \in Row
        BY <1>2, <1>6, <2>1, <2>2 DEF Row, By
    <2>5. new # None
        BY <2>4, KnowledgeAssumption
    <2> HIDE DEF new, r
    <2> QED BY <1>7, <2>3, <2>4, <2>5 DEF EntriesOK, RowsOK, RowsCalm
  <1>9. DueOK'
    <2> DEFINE lives == IF w.worker /\ was # None THEN was.home ELSE Origin[w.e]
    <2> DEFINE new == DueWith(w.e, w.floor, lives)
    <2>1. due' = [due EXCEPT ![w.e] = new]
        BY <1>4
    <2>2. new \in Homes
        BY <1>2, DueWithIn DEF EntriesOK
    <2> HIDE DEF new
    <2> QED BY <1>2, <2>1, <2>2 DEF EntriesOK, DueOK
  <1>10. TasksOK' /\ TaskCalm
    <2>1. CASE p.ask = None
      <3>1. Begin(t, Settling(w.after, TRUE, Idle))
          BY <1>4, <2>1 DEF Begin, Ended
      <3>2. AfterOf(w) \in After /\ w.after \in {None, AfterOf(w)} /\ TRUE \in BOOLEAN
          BY <1>1, <1>2
      <3> QED BY <1>2, <3>1, <3>2, BeginEnd DEF EntriesOK
    <2>2. CASE p.ask # None
      <3> DEFINE v == [kind |-> "ask", e |-> w.e, from |-> p.home, to |-> p.ask, after |-> w.after]
      <3>1. Begin(t, v)
          BY <1>4, <2>2 DEF Begin
      <3> HIDE DEF p
      <3>2. v \in AskRec /\ v.kind = "ask" /\ v.after = AfterOf(w)
          BY <1>1, <1>2, <1>6, <2>2 DEF AskRec
      <3> HIDE DEF v
      <3>3. Shape(v) /\ AfterOf(v) = AfterOf(w)
          BY <3>2 DEF Shape, AfterOf
      <3>4. task[t].kind # "close" /\ task[t].kind \notin Makers /\ v.kind \in Plain
          BY <1>1, <3>2 DEF Makers, Plain
      <3> QED BY <3>1, <3>3, <3>4, BeginPlain DEF EntriesOK
    <2> QED BY <2>1, <2>2
  <1> QED BY <1>3, <1>8, <1>9, <1>10 DEF EntryCalm, EntriesOK

\* The grader's question is put to a person, or lost.
LEMMA WriteAskStep ==
    ASSUME EntriesOK, NEW t \in Tasks, WriteAsk(t)
    PROVE  EntryCalm /\ UNCHANGED row
  <1> DEFINE w == task[t]
  <1>1. w.kind = "ask" /\ w \in AskRec /\ AfterOf(w) = w.after /\ w.kind # "close"
      BY DEF WriteAsk, EntriesOK, TasksOK, Shape, AfterOf
  <1>2. w.after \in After /\ w.e \in Entries /\ w.from \in Homes /\ w.to \in Homes
      BY <1>1 DEF AskRec
  <1>3. RowsOK' /\ MarksOK' /\ DueOK' /\ QuotaOK' /\ UNCHANGED row
      BY StillThere DEF WriteAsk, EntriesOK, QuotaOK
  <1>4. PendingOK' /\ PendingCalm
    <2>1. CASE Stored(w.e)
      <3>1. Queue(RehomePending(None, RidOf(w.e), w.e, w.from, w.to)) /\ RidOf(w.e) \in Rids
          BY <2>1, RidOfIs DEF WriteAsk
      <3>2. RehomePending(None, RidOf(w.e), w.e, w.from, w.to) \in Proposal
          BY <1>2, <3>1, RehomeIn
      <3> QED BY <3>1, <3>2, QueueOK DEF EntriesOK
    <2>2. CASE ~Stored(w.e)
        BY <2>2, PendingStays DEF WriteAsk, EntriesOK
    <2> QED BY <2>1, <2>2
  <1>5. AfterOf(w) \in After /\ w.after \in {None, AfterOf(w)} /\ TRUE \in BOOLEAN
      BY <1>1, <1>2
  <1>6. TasksOK' /\ TaskCalm
      BY <1>1, <1>5, BeginEnd DEF EntriesOK, WriteAsk, Ended
  <1> QED BY <1>3, <1>4, <1>6 DEF EntryCalm, EntriesOK

\* The question where it should land is lost with its call (WriteAskLost).
LEMMA WriteAskLostStep ==
    ASSUME EntriesOK, NEW t \in Tasks, WriteAskLost(t)
    PROVE  EntryCalm /\ UNCHANGED row
  <1> DEFINE w == task[t]
  <1>1. w.kind = "ask" /\ w \in AskRec /\ AfterOf(w) = w.after /\ w.kind # "close"
      BY DEF WriteAskLost, EntriesOK, TasksOK, Shape, AfterOf
  <1>2. QuotaOK'
      BY SpendKeeps DEF WriteAskLost, EntriesOK, Counted
  <1>3. RowsOK' /\ MarksOK' /\ DueOK' /\ PendingOK' /\ PendingCalm /\ UNCHANGED row
      BY StillThere, PendingStays DEF WriteAskLost, EntriesOK
  <1>4. AfterOf(w) \in After /\ w.after \in {None, AfterOf(w)} /\ FALSE \in BOOLEAN
      BY <1>1 DEF AskRec
  <1>5. TasksOK' /\ TaskCalm
      BY <1>1, <1>4, BeginEnd DEF EntriesOK, WriteAskLost, Failed
  <1> QED BY <1>2, <1>3, <1>5 DEF EntryCalm, EntriesOK

\* What a call that shows things goes on with.
LEMMA RestIs ==
    ASSUME NEW w \in Rests
    PROVE  /\ Shape(w) /\ AfterOf(w) \in After /\ w.kind \in Plain \cup {"settle"}
           /\ w.kind = "settle" => w.then = Idle
           /\ AfterOf(w) = IF w.kind \in {"settle", "fold"} THEN w.after ELSE None
  <1>1. CASE w = Idle
      BY <1>1 DEF Idle, Shape, AfterOf, After, Plain
  <1>2. CASE w \in EndRec
    <2>1. w.kind = "settle" /\ w.after \in Pendings /\ w.then = Idle
        BY <1>2 DEF EndRec
    <2>2. w \in SettleRec
        BY <1>2 DEF EndRec, SettleRec, Later
    <2> QED BY <2>1, <2>2 DEF Shape, AfterOf, After
  <1>3. CASE w \in RegradeRec
    <2>1. w.kind = "regrade"
        BY <1>3 DEF RegradeRec
    <2> QED BY <1>3, <2>1 DEF Shape, AfterOf, After, Plain
  <1>4. CASE w \in AboutRec
    <2>1. w.kind = "about"
        BY <1>4 DEF AboutRec
    <2> QED BY <1>4, <2>1 DEF Shape, AfterOf, After, Plain
  <1>5. CASE w \in FoldRec /\ w.step = "delete"
    <2>1. w.kind = "fold" /\ w.after \in After
        BY <1>5 DEF FoldRec
    <2> QED BY <1>5, <2>1 DEF Shape, AfterOf, After, Plain
  <1> QED BY <1>1, <1>2, <1>3, <1>4, <1>5 DEF Rests

\* A call that is to see things from a home is of its kind,
LEMMA SeenIs ==
    ASSUME NEW xs \in SUBSET Tids, NEW home \in Homes, NEW then \in Rests, NEW w, w = Seen(xs, home, then)
    PROVE  /\ Shape(w) /\ AfterOf(w) = AfterOf(then) /\ w.kind \in Plain \cup {"settle"}
           /\ w.kind = "settle" => w.then = Idle
  <1>1. CASE xs = {}
      BY <1>1, RestIs DEF Seen
  <1>2. CASE xs # {}
    <2>1. w = [kind |-> "seen", todo |-> xs, home |-> home, x |-> None, got |-> {}, then |-> then]
        BY <1>2 DEF Seen
    <2>2. w \in SeenRec /\ w.kind = "seen" /\ w.then = then
        BY <2>1 DEF SeenRec
    <2>3. AfterOf(w) = IF then.kind \in {"settle", "fold"} THEN then.after ELSE None
        BY <2>2 DEF AfterOf
    <2>4. AfterOf(w) = AfterOf(then)
        BY <2>3, RestIs
    <2> QED BY <2>2, <2>4 DEF Shape, Plain
  <1> QED BY <1>1, <1>2

\* A call goes on to something else that has nothing to do with shares and questions, or to its end.
LEMMA RestCalm ==
    ASSUME NEW v, NEW w, v.kind # "close", w.kind \in Plain \cup {"settle"}, w.kind = "settle" => w.then = Idle,
           AfterOf(w) \in {None, AfterOf(v)}, AfterOf(w) # None => v.kind \notin Makers
    PROVE  ShareCalm(v, w) /\ NeedCalm(v, w) /\ w.kind # "refresh"
  <1>1. CASE w.kind \in Plain
      BY <1>1, PlainCalm DEF Plain
  <1>2. CASE w.kind = "settle"
    <2>1. w.then.kind = "idle"
        BY <1>2 DEF Idle
    <2> QED BY <1>2, <2>1 DEF ShareCalm, NeedCalm, Makers, Resolution, Concerns, Opens, Late
  <1> QED BY <1>1, <1>2

\* ... and to go on with it keeps the types.
LEMMA BeginSeen ==
    ASSUME TasksOK, NEW t \in Tasks, NEW xs \in SUBSET Tids, NEW home \in Homes, NEW then \in Rests,
           Begin(t, Seen(xs, home, then)), task[t].kind # "close",
           AfterOf(then) \in {None, AfterOf(task[t])}, AfterOf(then) # None => task[t].kind \notin Makers
    PROVE  TasksOK' /\ TaskCalm
  <1> DEFINE w == Seen(xs, home, then)
  <1>1. /\ Shape(w) /\ AfterOf(w) = AfterOf(then) /\ w.kind \in Plain \cup {"settle"}
        /\ w.kind = "settle" => w.then = Idle
      BY SeenIs
  <1>2. Begin(t, w)
      OBVIOUS
  <1> HIDE DEF w
  <1>3. ShareCalm(task[t], w) /\ NeedCalm(task[t], w) /\ w.kind # "refresh"
      BY <1>1, RestCalm
  <1> QED BY <1>1, <1>2, <1>3, BeginCalm

\* The end of a call is one.
LEMMA EndIs ==
    ASSUME NEW after \in After, NEW ok \in BOOLEAN
    PROVE  Settling(after, ok, Idle) \in Rests /\ AfterOf(Settling(after, ok, Idle)) = after
  <1>1. CASE after = None
      BY <1>1 DEF Settling, Rests, AfterOf, Idle
  <1>2. CASE after # None
    <2> DEFINE w == [kind |-> "settle", after |-> after, ok |-> ok, then |-> Idle]
    <2>1. Settling(after, ok, Idle) = w /\ w.kind = "settle" /\ w.after = after
        BY <1>2 DEF Settling
    <2>2. w \in EndRec
        BY <1>2 DEF EndRec, After
    <2> HIDE DEF w
    <2> QED BY <2>1, <2>2 DEF Rests, AfterOf
  <1> QED BY <1>1, <1>2

\* The record is looked up again before it is moved.
LEMMA MoveCheckStep ==
    ASSUME EntriesOK, NEW t \in Tasks, MoveCheck(t)
    PROVE  EntryCalm /\ UNCHANGED row
  <1> DEFINE m == task[t]
  <1>1. m.kind = "move" /\ m \in MoveRec /\ MovesUp(m) /\ AfterOf(m) = m.after /\ m.kind # "close"
      BY DEF MoveCheck, EntriesOK, TasksOK, Shape, AfterOf
  <1>2. RowsOK' /\ MarksOK' /\ DueOK' /\ PendingOK' /\ PendingCalm /\ QuotaOK' /\ UNCHANGED row
      BY StillThere, PendingStays DEF MoveCheck, EntriesOK, QuotaOK
  <1>3. m.rid \in Rids /\ m.after \in After
      BY <1>1 DEF MoveRec
  <1>4. CASE row[m.rid] # None /\ row[m.rid].e = m.e /\ row[m.rid].home = m.from
    <2> DEFINE w == [m EXCEPT !.read = row[m.rid]]
    <2>1. Begin(t, w)
        BY <1>4 DEF MoveCheck
    <2>2. row[m.rid] \in Row
        BY <1>3, <1>4, RowIs DEF EntriesOK
    <2>3. w \in MoveRec /\ w.kind = "move" /\ w.after = m.after /\ w.read.e = w.e /\ w.read.home = w.from
        BY <1>1, <1>4, <2>2 DEF MoveRec
    <2>6. MovesUp(w)
        BY <1>1, <2>2 DEF MoveRec, MovesUp
    <2> HIDE DEF w
    <2>4. Shape(w) /\ AfterOf(w) = AfterOf(m)
        BY <1>1, <2>3, <2>6 DEF Shape, AfterOf
    <2>5. TasksOK' /\ TaskCalm
        BY <1>1, <2>1, <2>3, <2>4, BeginPlain DEF EntriesOK, Plain, Makers
    <2> QED BY <1>2, <2>5 DEF EntryCalm, EntriesOK
  <1>5. CASE ~(row[m.rid] # None /\ row[m.rid].e = m.e /\ row[m.rid].home = m.from)
    <2>1. Begin(t, Settling(m.after, FALSE, Idle))
        BY <1>5 DEF MoveCheck, Failed
    <2>2. AfterOf(m) \in After /\ m.after \in {None, AfterOf(m)} /\ FALSE \in BOOLEAN
        BY <1>1, <1>3
    <2>3. TasksOK' /\ TaskCalm
        BY <1>1, <2>1, <2>2, BeginEnd DEF EntriesOK
    <2> QED BY <1>2, <2>3 DEF EntryCalm, EntriesOK
  <1> QED BY <1>4, <1>5

\* An entry is moved, and its things follow it.
LEMMA MoveStep ==
    ASSUME EntriesOK, ThingsOK, NEW t \in Tasks, MoveFollowed(t)
    PROVE  EntryCalm /\ RowsCalm
  <1> DEFINE m == task[t]
  <1>1. m.kind = "move" /\ m \in MoveRec /\ AfterOf(m) = m.after /\ m.kind \notin Makers \cup {"close"}
      BY DEF MoveFollowed, EntriesOK, TasksOK, Shape, AfterOf, Makers
  <1>2. m.rid \in Rids /\ m.after \in After /\ m.to \in Homes /\ m.person \in BOOLEAN
      BY <1>1 DEF MoveRec
  <1> DEFINE follow == Follow(m.rid, m.to, Ended(m.after))
  <1>3. MoveApply(t, follow)
      BY DEF MoveFollowed
  <1>4. MarksOK' /\ QuotaOK' /\ PendingOK' /\ PendingCalm
      BY <1>3, PendingStays DEF MoveApply, EntriesOK, MarksOK, QuotaOK
  <1>5. TRUE \in BOOLEAN
      OBVIOUS
  <1>6. Settling(m.after, TRUE, Idle) \in Rests /\ AfterOf(Settling(m.after, TRUE, Idle)) = m.after
      BY <1>2, <1>5, EndIs
  <1>7. CASE row[m.rid] = None
    <2>1. Begin(t, Settling(m.after, TRUE, Idle))
        BY <1>3, <1>7 DEF MoveApply, Ended, Begin
    <2>2. AfterOf(m) \in After /\ m.after \in {None, AfterOf(m)}
        BY <1>1, <1>2
    <2>3. TasksOK' /\ TaskCalm
        BY <1>1, <1>5, <2>1, <2>2, BeginEnd DEF EntriesOK
    <2>4. RowsOK' /\ DueOK' /\ RowsCalm
        BY <1>3, <1>7 DEF MoveApply, EntriesOK, RowsOK, DueOK, RowsCalm
    <2> QED BY <1>4, <2>3, <2>4 DEF EntryCalm, EntriesOK
  <1>8. CASE row[m.rid] # None
    <2>1. /\ row' = [row EXCEPT ![m.rid].home = m.to, ![m.rid].placed = @ \/ m.person]
          /\ task' = [task EXCEPT ![t] = follow]
          /\ due' = IF m.after # None THEN [due EXCEPT ![row[m.rid].e] = Everyone] ELSE due
        BY <1>3, <1>8 DEF MoveApply
    <2>2. ThingsOf(m.rid) \in SUBSET Tids
        BY DEF ThingsOf
    <2>3. Begin(t, Seen(ThingsOf(m.rid), m.to, Settling(m.after, TRUE, Idle)))
        BY <2>1 DEF Begin, Follow, Ended
    <2>4. TasksOK' /\ TaskCalm
        BY <1>1, <1>2, <1>6, <2>2, <2>3, BeginSeen DEF EntriesOK
    <2>5. RowsOK' /\ RowsCalm
      <3>1. row[m.rid] \in Row /\ row[m.rid].placed \in BOOLEAN
          BY <1>2, <1>8, RowIs DEF EntriesOK
      <3> DEFINE placed == row[m.rid].placed \/ m.person
      <3> DEFINE new == [row[m.rid] EXCEPT !.home = m.to, !.placed = placed]
      <3>2. placed \in BOOLEAN
          BY <1>2, <3>1
      <3>3. row' = [row EXCEPT ![m.rid] = new]
          BY <1>2, <2>1 DEF EntriesOK, RowsOK
      <3> HIDE DEF placed
      <3>4. new \in Row
          BY <1>2, <3>1, <3>2 DEF Row
      <3>5. new # None
          BY <3>4, KnowledgeAssumption
      <3> HIDE DEF new
      <3> QED BY <1>2, <3>3, <3>4, <3>5 DEF EntriesOK, RowsOK, RowsCalm
    <2>6. DueOK'
      <3>1. Everyone \in Homes /\ row[m.rid].e \in Entries
          BY <1>2, <1>8, RowIs DEF EntriesOK, Homes
      <3> QED BY <2>1, <3>1 DEF EntriesOK, DueOK
    <2> QED BY <1>4, <2>4, <2>5, <2>6 DEF EntryCalm, EntriesOK
  <1> QED BY <1>7, <1>8

\* What is left of a regrading.
LEMMA OthersIs ==
    ASSUME NEW t \in Tasks, task[t] \in RegradeRec, NEW r
    PROVE  Others(t, r) \in Rests /\ AfterOf(Others(t, r)) = None
  <1> DEFINE left == Restrict(task[t].rows, DOMAIN task[t].rows \ {r})
  <1>1. task[t].rows \in Some(Rids, Waiting)
      BY DEF RegradeRec
  <1>2. left \in Some(Rids, Waiting)
      BY <1>1, SomeLeft, Zenon
  <1>3. Others(t, r) = IF DOMAIN left = {} THEN Idle ELSE [task[t] EXCEPT !.rows = left]
      BY DEF Others
  <1> HIDE DEF left
  <1>4. [task[t] EXCEPT !.rows = left] \in RegradeRec
      BY <1>2 DEF RegradeRec
  <1>5. Others(t, r) \in {Idle} \cup RegradeRec
      BY <1>3, <1>4
  <1>6. Others(t, r).kind \in {"idle", "regrade"}
      BY <1>5 DEF RegradeRec, Idle
  <1> QED BY <1>5, <1>6 DEF Rests, AfterOf

\* One that waited is graded, and settles.
LEMMA RegradeStepOK ==
    ASSUME EntriesOK, ThingsOK, NEW t \in Tasks, RegradeStep(t)
    PROVE  EntryCalm /\ RowsCalm
  <1>1. task[t].kind = "regrade" /\ task[t] \in RegradeRec /\ task[t].kind \notin Makers \cup {"close"}
      BY DEF RegradeStep, EntriesOK, TasksOK, Shape, Makers
  <1>2. PICK r \in DOMAIN task[t].rows : Regrade(t, r, [h \in Homes |-> Follow(r, h, Others(t, r))])
      BY DEF RegradeStep
  <1> DEFINE follow == [h \in Homes |-> Follow(r, h, Others(t, r))]
  <1> DEFINE next == Others(t, r)
  <1> DEFINE x == task[t].rows[r]
  <1>3. r \in Rids /\ x \in Waiting
    <2>1. task[t].rows \in Some(Rids, Waiting)
        BY <1>1 DEF RegradeRec
    <2> QED BY <1>2, <2>1, SomeIs
  <1>4. x \in Row /\ x.e \in Entries /\ x.ungraded.floor \in Homes /\ Origin[x.e] \in Homes
      BY <1>3, EntriesAssumption DEF Waiting, Row, Awaiting
  <1>5. next \in Rests /\ AfterOf(next) = None /\ Shape(next) /\ next.kind \in Plain \cup {"settle"} /\ (next.kind = "settle" => next.then = Idle)
      BY <1>1, OthersIs, RestIs
  <1>6. MarksOK' /\ QuotaOK'
      BY <1>2 DEF Regrade, EntriesOK, MarksOK, QuotaOK
  <1>7. ASSUME Begin(t, next) PROVE TasksOK' /\ TaskCalm
    <2>1. ShareCalm(task[t], next) /\ NeedCalm(task[t], next) /\ next.kind # "refresh"
        BY <1>1, <1>5, RestCalm
    <2> HIDE DEF next
    <2> QED BY <1>5, <1>7, <2>1, BeginCalm DEF EntriesOK
  <1>8. DueOK'
      BY <1>2 DEF Regrade, EntriesOK, DueOK
  <1>9. CASE row[r] = None
    <2>1. Begin(t, next) /\ UNCHANGED <<row, pending>>
        BY <1>2, <1>9 DEF Regrade
    <2>2. RowsOK' /\ RowsCalm /\ PendingOK' /\ PendingCalm
        BY <2>1, PendingStays DEF EntriesOK, RowsOK, RowsCalm
    <2> QED BY <1>6, <1>7, <1>8, <2>1, <2>2 DEF EntryCalm, EntriesOK
  <1>10. CASE row[r] # None /\ Moved(x)
    <2>1. row' = [row EXCEPT ![r].ungraded = None] /\ Begin(t, next) /\ UNCHANGED pending
        BY <1>2, <1>10 DEF Regrade
    <2>2. row[r] \in Row
        BY <1>3, <1>10, RowIs DEF EntriesOK
    <2> DEFINE new == [row[r] EXCEPT !.ungraded = None]
    <2>3. new \in Row /\ row' = [row EXCEPT ![r] = new]
        BY <1>3, <2>1, <2>2 DEF Row, EntriesOK, RowsOK
    <2>4. new # None
        BY <2>3, KnowledgeAssumption
    <2> HIDE DEF new
    <2>5. RowsOK' /\ RowsCalm
        BY <1>3, <2>3, <2>4 DEF EntriesOK, RowsOK, RowsCalm
    <2>6. PendingOK' /\ PendingCalm
        BY <2>1, PendingStays DEF EntriesOK
    <2> QED BY <1>6, <1>7, <1>8, <2>1, <2>5, <2>6 DEF EntryCalm, EntriesOK
  <1>11. CASE row[r] # None /\ ~Moved(x)
    <2>1. PICK verdict \in Verdicts(Origin[x.e]) :
             LET p == Place(Origin[x.e], verdict, None, x.ungraded.floor) IN
             /\ row' = [row EXCEPT ![r].home = p.home, ![r].ungraded = None]
             /\ Begin(t, IF p.home # x.ungraded.held THEN follow[p.home] ELSE next)
             /\ IF p.ask = None THEN UNCHANGED pending
                ELSE Queue(RehomePending(None, r, x.e, p.home, p.ask))
        BY <1>2, <1>11 DEF Regrade
    <2> DEFINE p == Place(Origin[x.e], verdict, None, x.ungraded.floor)
    <2>2. p \in Placement
        BY <1>4, PlaceIn
    <2>3. p.home \in Homes /\ p.ask \in Homes \cup {None}
        BY <2>2 DEF Placement
    <2>4. /\ row' = [row EXCEPT ![r].home = p.home, ![r].ungraded = None]
          /\ Begin(t, IF p.home # x.ungraded.held THEN follow[p.home] ELSE next)
          /\ IF p.ask = None THEN UNCHANGED pending
             ELSE Queue(RehomePending(None, r, x.e, p.home, p.ask))
        BY <2>1
    <2> HIDE DEF p
    <2>5. RowsOK' /\ RowsCalm
      <3>1. row[r] \in Row
          BY <1>3, <1>11, RowIs DEF EntriesOK
      <3> DEFINE new == [row[r] EXCEPT !.home = p.home, !.ungraded = None]
      <3>2. new \in Row /\ row' = [row EXCEPT ![r] = new]
          BY <1>3, <2>3, <2>4, <3>1 DEF Row, EntriesOK, RowsOK
      <3>3. new # None
          BY <3>2, KnowledgeAssumption
      <3> HIDE DEF new
      <3> QED BY <1>3, <3>2, <3>3 DEF EntriesOK, RowsOK, RowsCalm
    <2>6. PendingOK' /\ PendingCalm
      <3>1. CASE p.ask = None
          BY <2>4, <3>1, PendingStays DEF EntriesOK
      <3>2. CASE p.ask # None
        <4>1. RehomePending(None, r, x.e, p.home, p.ask) \in Proposal
            BY <1>3, <1>4, <2>3, <3>2, RehomeIn
        <4> QED BY <2>4, <3>2, <4>1, QueueOK DEF EntriesOK
      <3> QED BY <3>1, <3>2
    <2>7. TasksOK' /\ TaskCalm
      <3>1. CASE p.home # x.ungraded.held
        <4>1. Begin(t, Seen(ThingsOf(r), p.home, next))
            BY <2>3, <2>4, <3>1 DEF Follow
        <4>2. ThingsOf(r) \in SUBSET Tids
            BY DEF ThingsOf
        <4> HIDE DEF next
        <4> QED BY <1>1, <1>5, <2>3, <4>1, <4>2, BeginSeen DEF EntriesOK
      <3>2. CASE p.home = x.ungraded.held
          BY <1>7, <2>4, <3>2
      <3> QED BY <3>1, <3>2
    <2> QED BY <1>6, <1>8, <2>5, <2>6, <2>7 DEF EntryCalm, EntriesOK
  <1> QED BY <1>9, <1>10, <1>11

\* The regrading ends early (RegradeOut).
LEMMA RegradeOutStep ==
    ASSUME EntriesOK, NEW t \in Tasks, RegradeOut(t)
    PROVE  EntryCalm /\ UNCHANGED row
  <1>1. Begin(t, Idle) /\ task[t].kind # "close"
      BY DEF RegradeOut
  <1>2. Shape(Idle) /\ Idle.kind = "idle" /\ AfterOf(Idle) = None
      BY DEF Shape, Idle, AfterOf
  <1>3. TasksOK' /\ TaskCalm
      BY <1>1, <1>2, BeginPlain DEF EntriesOK, Plain
  <1>4. RowsOK' /\ MarksOK' /\ DueOK' /\ PendingOK' /\ PendingCalm /\ QuotaOK' /\ UNCHANGED row
      BY StillThere, PendingStays DEF RegradeOut, EntriesOK, QuotaOK
  <1> QED BY <1>3, <1>4 DEF EntryCalm, EntriesOK

\* A call of theirs does nothing to the grants, and takes up no share and no question.
LEMMA EntryCallStep ==
    ASSUME EntriesOK, EntryCall
    PROVE  EntryCalm /\ RowsCalm
  <1>0. Worker \in quota.callers \/ Worker \notin quota.callers
      OBVIOUS
  <1>1. EntryCalm /\ UNCHANGED row
      BY ReadStep, LapseStep, WriteStep, WorkerWriteStep, WorkerUpdateStep, TypedUpdateStep, SetHomeStep, RegradeReadStep DEF EntryCall
  <1> QED BY <1>1 DEF RowsCalm

\* Every step of a call on entries takes up no share, or settles its proposal (EntryTask).
LEMMA EntryTaskStep ==
    ASSUME EntriesOK, ThingsOK, NEW t \in Tasks, EntryTask(t)
    PROVE  (EntryCalm /\ RowsCalm) \/ Settle(t, AfterSettle(t))
  <1>1. EntryCalm /\ UNCHANGED row => EntryCalm /\ RowsCalm
      BY DEF RowsCalm
  <1> QED BY <1>1, WriteStoreStep, WriteAskStep, WriteAskLostStep, TypedApplyStep, MoveCheckStep, MoveStep, RegradeStepOK, RegradeOutStep
          DEF EntryTask

--------------------------------------------------------------------------
(* What a step that is calm keeps                                          *)

\* What a calm step may do to any call.
LEMMA CalmTasks ==
    ASSUME TaskCalm, NEW t \in Tasks
    PROVE  \/ task'[t] = task[t]
           \/ /\ ShareCalm(task[t], task'[t]) /\ NeedCalm(task[t], task'[t])
              /\ task'[t].kind = "refresh" /\ task'[t].seen # None => \A g \in task'[t].seen : IsGrant(g)
  BY DEF TaskCalm, CallCalm

\* A task's claims and what it resolves are the ones it had.
LEMMA CalmHolds ==
    ASSUME TaskCalm, NEW t \in Tasks, NEW q \in Pendings
    PROVE  /\ Claims(task'[t], q) => Claims(task[t], q)
           /\ Claims(task'[t], q) /\ task'[t].kind \notin Makers => task[t].kind \notin Makers
           /\ Claims(task'[t], q) /\ task'[t].kind = "grant" => task[t].kind = "grant"
           /\ Resolves(task'[t], q) => Resolves(task[t], q)
  <1>1. q # None
      BY NoneAfter
  <1>2. CASE task'[t] = task[t]
      BY <1>2
  <1>3. CASE ShareCalm(task[t], task'[t])
    <2>1. AfterOf(task'[t]) \in {None, AfterOf(task[t])}
        BY <1>3 DEF ShareCalm
    <2>2. Resolution(task'[t]).kind = "resolve" => Resolution(task[t]).kind = "resolve" /\ Resolution(task'[t]).write = Resolution(task[t]).write
        BY <1>3 DEF ShareCalm, ReadNow
    <2>3. AfterOf(task'[t]) # None /\ task'[t].kind \notin Makers => task[t].kind \notin Makers
        BY <1>3 DEF ShareCalm
    <2>4. task'[t].kind = "grant" => AfterOf(task'[t]) = None
        BY <1>3 DEF ShareCalm, AfterOf
    <2> QED BY <1>1, <2>1, <2>2, <2>3, <2>4 DEF Claims, Resolves
  <1> QED BY <1>2, <1>3, CalmTasks

\* What it has read it had read, or waits now.
LEMMA CalmRows ==
    ASSUME TaskCalm, NEW t \in Tasks, NEW q, InRows(task'[t], q)
    PROVE  /\ Resolution(task[t]).kind = "resolve" /\ Resolution(task'[t]).write = Resolution(task[t]).write
           /\ \/ InRows(task[t], q) /\ Resolution(task'[t]).rows[q] = Resolution(task[t]).rows[q]
              \/ Waits(q, Resolution(task[t]).write) /\ Resolution(task'[t]).rows[q] = pending[q]
  <1>1. Resolution(task'[t]).kind = "resolve" /\ q \in DOMAIN Resolution(task'[t]).rows
      BY DEF InRows, HasRead
  <1>2. CASE Resolution(task'[t]) = Resolution(task[t])
      BY <1>1, <1>2 DEF InRows, HasRead
  <1>3. CASE ReadNow(Resolution(task[t]), Resolution(task'[t]))
      BY <1>1, <1>3 DEF ReadNow, InRows, HasRead
  <1>4. ShareCalm(task[t], task'[t]) \/ task'[t] = task[t]
      BY CalmTasks
  <1> QED BY <1>1, <1>2, <1>3, <1>4 DEF ShareCalm

\* What is queued is new.
LEMMA CalmPending ==
    ASSUME PendingOK, PendingCalm, NEW q \in Pendings, pending[q] # None
    PROVE  pending'[q] = pending[q]
  <1>1. CASE UNCHANGED pending
      BY <1>1
  <1>2. ASSUME NEW new \in Proposal, Queue(new) PROVE pending'[q] = pending[q]
      BY <1>2, FreePendingIs DEF Queue, PendingOK
  <1> QED BY <1>1, <1>2 DEF PendingCalm

\* What a step that makes and revives no grant leaves as it was.
LEMMA CalmGrants ==
    ASSUME GrantsCalm
    PROVE  /\ \A q : Made(q)' <=> Made(q)
           /\ \A g \in Grants : grant'[g] # None => grant[g] # None /\ grant'[g].from = grant[g].from /\ grant'[g].target = grant[g].target
           /\ \A g \in Active' : g \in Active
  BY DEF GrantsCalm, Made, Active

\* A proposal's record changes in a way that goes unnoticed by what has read it: what is no longer up for a
\* decision is not put up again, and what waits, or was read, waits on the same write.
Softly(q) ==
    /\ pending'[q] # None /\ pending'[q].kind = pending[q].kind
    /\ Spent(q) => Spent(q)'
    /\ pending[q].kind = "upsert" => pending'[q].status # "pending"
    /\ pending'[q].status = "waiting" => pending[q].status = "waiting" /\ pending'[q].write = pending[q].write
    /\ \A t \in Tasks : InRows(task'[t], q) =>
          pending'[q].write = pending[q].write /\ pending'[q].status \in {"waiting", "confirmed", "rejected"}
PendingSoft == \A q \in Pendings : pending[q] # None => pending'[q] = pending[q] \/ Softly(q)

\* ... so does what calls hold, resolve, have read and confirm.
LEMMA SoftTasks ==
    ASSUME SharedInv, TasksOK, TaskCalm, PendingSoft
    PROVE  OneHolds' /\ ResolvedRan' /\ ReadStillWaits' /\ ConfirmedAsRead'
  <1>1. OneHolds'
      BY CalmHolds DEF SharedInv, OneHolds, Holding
  <1>2. ResolvedRan'
    <2> SUFFICES ASSUME NEW t \in Tasks, NEW q \in Pendings, Resolves(task'[t], q)
                 PROVE  pending'[q] # None /\ pending'[q].kind = "upsert" /\ pending'[q].status # "pending"
        BY DEF ResolvedRan
    <2>1. Resolves(task[t], q)
        BY CalmHolds
    <2>2. pending[q] # None /\ pending[q].kind = "upsert" /\ pending[q].status # "pending"
        BY <2>1 DEF SharedInv, ResolvedRan
    <2> QED BY <2>2 DEF PendingSoft, Softly
  <1>3. ReadStillWaits'
    <2> SUFFICES ASSUME NEW t \in Tasks, NEW q \in Pendings, InRows(task'[t], q)
                 PROVE  /\ pending'[q] # None /\ pending'[q].kind = "share" /\ pending'[q].write = Resolution(task'[t]).write
                        /\ pending'[q].status \in {"waiting", "confirmed", "rejected"}
                        /\ Resolution(task'[t]).rows[q].status = "confirmed" => pending'[q].status # "waiting"
        BY DEF ReadStillWaits
    <2>1. /\ pending[q] # None /\ pending[q].kind = "share" /\ pending[q].write = Resolution(task'[t]).write
          /\ pending[q].status \in {"waiting", "confirmed", "rejected"}
          /\ Resolution(task'[t]).rows[q].status = "confirmed" => pending[q].status # "waiting"
      <3>1. CASE InRows(task[t], q) /\ Resolution(task'[t]).rows[q] = Resolution(task[t]).rows[q]
          BY <3>1, CalmRows DEF SharedInv, ReadStillWaits
      <3>2. CASE Waits(q, Resolution(task[t]).write) /\ Resolution(task'[t]).rows[q] = pending[q]
          BY <3>2, CalmRows DEF Waits
      <3> QED BY <3>1, <3>2, CalmRows
    <2>2. CASE pending'[q] = pending[q]
        BY <2>1, <2>2
    <2>3. CASE Softly(q)
        BY <2>1, <2>3 DEF Softly
    <2> QED BY <2>1, <2>2, <2>3 DEF PendingSoft
  <1>4. ConfirmedAsRead'
    <2> SUFFICES ASSUME NEW t \in Tasks, task'[t].kind = "confirm"
                 PROVE  /\ task'[t].q \in Pendings /\ pending'[task'[t].q] # None /\ pending'[task'[t].q].kind = "share" /\ task'[t].read.status \in {"pending", "waiting"}
                        /\ pending'[task'[t].q].status = "waiting" => task'[t].read.write = pending'[task'[t].q].write
        BY DEF ConfirmedAsRead, AsRead
    <2>1. task'[t] = task[t] \/ ShareCalm(task[t], task'[t])
        BY CalmTasks
    <2>2. AsRead(task'[t])
      <3>1. CASE task'[t] = task[t]
          BY <3>1 DEF SharedInv, ConfirmedAsRead, AsRead
      <3>2. CASE ShareCalm(task[t], task'[t])
          BY <3>2 DEF ShareCalm
      <3> QED BY <2>1, <3>1, <3>2
    <2> QED BY <2>2 DEF AsRead, PendingSoft, Softly
  <1> QED BY <1>1, <1>2, <1>3, <1>4

\* ... and all that makes a share once.
LEMMA SoftShared ==
    ASSUME SharedInv, TasksOK, TaskCalm, PendingSoft, GrantsCalm, RefusedStays'
    PROVE  SharedInv'
  <1>1. ClaimedIsSpent'
    <2> SUFFICES ASSUME NEW t \in Tasks, NEW q \in Pendings, Claims(task'[t], q)
                 PROVE  /\ Spent(q)'
                        /\ task'[t].kind \notin Makers => pending'[q].kind # "share"
                        /\ task'[t].kind = "grant" => ~Made(q)'
        BY DEF ClaimedIsSpent
    <2>1. Claims(task[t], q) /\ Spent(q) /\ pending[q] # None
        BY CalmHolds DEF SharedInv, ClaimedIsSpent, Spent
    <2>2. pending'[q].kind = pending[q].kind /\ Spent(q)'
        BY <2>1 DEF PendingSoft, Softly, Spent
    <2> QED BY <2>1, <2>2, CalmHolds, CalmGrants DEF SharedInv, ClaimedIsSpent
  <1>2. MadeIsSpent'
    <2> SUFFICES ASSUME NEW q \in Pendings, Made(q)' PROVE Spent(q)'
        BY DEF MadeIsSpent
    <2>1. Spent(q) /\ pending[q] # None
        BY CalmGrants DEF SharedInv, MadeIsSpent, Spent
    <2> QED BY <2>1 DEF PendingSoft, Softly, Spent
  <1>3. MadeOnce'
      BY CalmGrants DEF SharedInv, MadeOnce
  <1> QED BY <1>1, <1>2, <1>3, SoftTasks DEF SharedInv

\* A calm step keeps what makes a share once,
LEMMA CalmShared ==
    ASSUME SharedInv, PendingOK, TasksOK, refused \subseteq Pendings, TaskCalm, PendingCalm, GrantsCalm, UNCHANGED refused
    PROVE  SharedInv'
  <1>1. PendingSoft
      BY CalmPending DEF PendingSoft
  <1>2. RefusedStays'
    <2> SUFFICES ASSUME NEW q \in refused
                 PROVE  /\ pending'[q] # None /\ pending'[q].status = "rejected" /\ ~Made(q)'
                        /\ \A t \in Tasks : ~Claims(task'[t], q) /\ ~InRows(task'[t], q)
        BY DEF RefusedStays
    <2>1. pending[q] # None /\ pending[q].status = "rejected" /\ ~Made(q) /\ q \in Pendings
          /\ \A t \in Tasks : ~Claims(task[t], q) /\ ~InRows(task[t], q)
        BY DEF SharedInv, RefusedStays
    <2>2. pending'[q] = pending[q] /\ ~Made(q)'
        BY <2>1, CalmPending, CalmGrants
    <2>3. \A t \in Tasks : ~Claims(task'[t], q) /\ ~InRows(task'[t], q)
        BY <2>1, CalmHolds, CalmRows DEF Waits
    <2> QED BY <2>1, <2>2, <2>3
  <1> QED BY <1>1, <1>2, SoftShared

\* Calls go on without taking up a question.
QuestionsCalm == \A t \in Tasks : task'[t] = task[t] \/ NeedCalm(task[t], task'[t])

\* ... and what hides a closed question.
LEMMA CalmQuestions ==
    ASSUME QuestionInv, QuestionsCalm, GrantsCalm, UNCHANGED <<need, crossed>>
    PROVE  QuestionInv'
  <1>1. \A t \in Tasks, q \in Asked : (Concerns(task'[t], q) => Concerns(task[t], q)) /\ (Late(task'[t], q) => Late(task[t], q))
      BY DEF QuestionsCalm, NeedCalm
  <1>2. LeftAlone'
      BY <1>1 DEF QuestionInv, LeftAlone
  <1>3. ShownIsOpened'
      BY <1>1, CalmGrants DEF QuestionInv, ShownIsOpened
  <1>4. ClosedIsHidden'
    <2> SUFFICES ASSUME NEW q \in Asked, need'[q].status \in {"withdrawn", "joined", "expired"}, q \notin crossed',
                        \A t \in Tasks : task'[t].kind = "close" => task'[t].q # q, NEW g \in Active'
                 PROVE  grant'[g].target # q
        BY DEF ClosedIsHidden
    <2>1. \A t \in Tasks : task[t].kind = "close" => task[t].q # q
        BY DEF QuestionsCalm, NeedCalm
    <2>2. g \in Active /\ grant'[g].target = grant[g].target
        BY CalmGrants DEF Active
    <2> QED BY <2>1, <2>2 DEF QuestionInv, ClosedIsHidden
  <1> QED BY <1>2, <1>3, <1>4 DEF QuestionInv

\* A calm call takes up no question.
LEMMA TasksAreCalm ==
    ASSUME TaskCalm
    PROVE  QuestionsCalm
  BY CalmTasks DEF QuestionsCalm

\* The rest of the state's types, where a step leaves it alone.
LEMMA GrantsStay ==
    ASSUME GrantsOK, TaskCalm, UNCHANGED shareVars
    PROVE  GrantsOK' /\ GrantsCalm /\ UNCHANGED refused
  <1>1. UNCHANGED <<grant, cache, refused>>
      BY DEF shareVars
  <1>2. ASSUME NEW t \in Tasks, task'[t].kind = "refresh", task'[t].seen # None, NEW g \in task'[t].seen PROVE IsGrant(g)
      BY <1>2, CalmTasks DEF GrantsOK
  <1> QED BY <1>1, <1>2 DEF GrantsOK, GrantsCalm, IsGrant

\* A step that leaves the questions keeps their types,
LEMMA NeedsStay ==
    ASSUME NeedsOK, UNCHANGED needVars
    PROVE  NeedsOK'
  BY DEF NeedsOK, needVars

\* ... and one that leaves the things and every row keeps theirs.
LEMMA ThingsStay ==
    ASSUME ThingsOK, RowsCalm, UNCHANGED <<thing, about, relates>>
    PROVE  ThingsOK'
  BY DEF ThingsOK, RowsCalm, Exists

\* Steps that take up no share and make no grant.
Calmly == EntryCalm /\ RowsCalm /\ GrantsOK' /\ GrantsCalm /\ UNCHANGED refused

\* Grants that stay grants, and are not taken up again.
LEMMA GrantsKept ==
    ASSUME GrantsOK, TaskCalm, GrantsCalm, grant' \in [Grants -> Granted \cup {None}], cache' \subseteq Grants,
           \A g \in cache' : IsGrant(g), UNCHANGED refused
    PROVE  GrantsOK'
  <1>1. ASSUME NEW g \in Grants, IsGrant(g) PROVE grant'[g] # None
      BY <1>1 DEF GrantsCalm, IsGrant
  <1>2. ASSUME NEW t \in Tasks, task'[t].kind = "refresh", task'[t].seen # None, NEW g \in task'[t].seen PROVE IsGrant(g)
      BY <1>2, CalmTasks DEF GrantsOK
  <1>3. ASSUME NEW g, IsGrant(g) PROVE IsGrant(g)'
      BY <1>1, <1>3 DEF IsGrant
  <1> QED BY <1>2, <1>3 DEF GrantsOK

--------------------------------------------------------------------------
(* Shares                                                                  *)

\* A refresh, begun or gone on with.
LEMMA RefreshIs ==
    ASSUME NEW after \in After, NEW then \in Later, NEW w, w = Refresh(after, then)
    PROVE  Shape(w) /\ AfterOf(w) = after /\ w.kind = "refresh" /\ w.then = then /\ w.seen = None
  <1>1. w = [kind |-> "refresh", seen |-> None, after |-> after, then |-> then]
      BY DEF Refresh
  <1>2. w \in RefreshRec /\ w.kind = "refresh" /\ w.after = after /\ w.then = then /\ w.seen = None
      BY <1>1 DEF RefreshRec
  <1> QED BY <1>2 DEF Shape, AfterOf

\* To start refreshing the cache of grants is calm.
LEMMA BeginRefresh ==
    ASSUME TasksOK, HasTask, Begin(FreeTask, Refreshing)
    PROVE  TasksOK' /\ TaskCalm
  <1> DEFINE w == Refreshing
  <1>0. None \in After /\ Idle \in Later /\ Idle.kind = "idle"
      BY DEF After, Later, Idle
  <1>1. Shape(w) /\ AfterOf(w) = None /\ w.kind = "refresh" /\ w.then = Idle /\ w.seen = None
      BY <1>0, RefreshIs DEF Refreshing
  <1>2. Begin(FreeTask, w)
      OBVIOUS
  <1> HIDE DEF w
  <1>3. FreeTask \in Tasks /\ task[FreeTask] = Idle
      BY FreeTaskIs
  <1>4. ShareCalm(Idle, w) /\ NeedCalm(Idle, w)
      BY <1>0, <1>1 DEF ShareCalm, NeedCalm, Resolution, Makers, Concerns, Opens, Late
  <1> QED BY <1>1, <1>2, <1>3, <1>4, BeginCalm

\* The call that makes a grant is for the proposal the grant names.
LEMMA GrantTaskIs ==
    ASSUME NEW what \in Granted, NEW after \in After, what.from = after, NEW w, w = GrantTask(what, after)
    PROVE  Shape(w) /\ AfterOf(w) = after /\ w.kind = "grant" /\ w.then = Idle /\ w.what = what /\ w.after = after
  <1>1. w = [kind |-> "grant", what |-> what, after |-> after, then |-> Idle]
      BY DEF GrantTask
  <1>2. w \in GrantRec /\ w.kind = "grant" /\ w.after = after /\ w.then = Idle /\ w.what = what
      BY <1>1 DEF GrantRec, Later
  <1> QED BY <1>2 DEF Shape, AfterOf

\* A grant on an entry is no question's.
LEMMA BeginGrant ==
    ASSUME TasksOK, HasTask, NEW what \in Granted, what.from = None, what.target \in Rids, Begin(FreeTask, GrantTask(what, None))
    PROVE  TasksOK' /\ TaskCalm
  <1> DEFINE w == GrantTask(what, None)
  <1>0. None \in After /\ Idle.kind = "idle"
      BY DEF After, Idle
  <1>1. Shape(w) /\ AfterOf(w) = None /\ w.kind = "grant" /\ w.then = Idle /\ w.what = what /\ w.after = None
      BY <1>0, GrantTaskIs
  <1>2. Begin(FreeTask, w)
      OBVIOUS
  <1> HIDE DEF w
  <1>3. FreeTask \in Tasks /\ task[FreeTask] = Idle
      BY FreeTaskIs
  <1>4. \A q \in Asked : what.target # q
      BY QuestionsAssumption
  <1>5. ShareCalm(Idle, w) /\ NeedCalm(Idle, w)
      BY <1>0, <1>1, <1>4 DEF ShareCalm, NeedCalm, Resolution, Makers, Concerns, Opens, Late
  <1> QED BY <1>1, <1>2, <1>3, <1>5, BeginCalm

\* A new grant is a grant,
LEMMA NewGrantIn ==
    ASSUME NEW target \in Rids \cup Asked \cup {None}, NEW e \in Entries \cup Asked, NEW to \in Recipients, NEW by \in Actors \cup {None},
           NEW home \in Homes \cup {None}, NEW from \in After
    PROVE  /\ NewGrant(target, e, to, by, home, from) \in Granted
           /\ NewGrant(target, e, to, by, home, from).target = target /\ NewGrant(target, e, to, by, home, from).from = from
  BY DEF NewGrant, Granted, After

\* ... and a proposed share is a proposal.
LEMMA SharePendingIn ==
    ASSUME NEW a \in People \cup Agents, NEW e \in Entries, NEW r \in Rids \cup {None}, NEW to \in Recipients, NEW home \in Homes,
           NEW write \in After, NEW status \in Statuses
    PROVE  SharePending(a, e, r, to, home, write, status) \in ShareProposal
  BY DEF SharePending, ShareProposal, After

\* A grant is revoked (revokeGrant).
LEMMA RevokeStep ==
    ASSUME EntriesOK, GrantsOK, NEW a \in quota.callers, NEW g \in Grants, Revoke(a, g)
    PROVE  Calmly
  <1>1. g \in Active /\ HasTask /\ grant' = [grant EXCEPT ![g].status = "revoked"] /\ Begin(FreeTask, Refreshing) /\ UNCHANGED <<cache, refused>>
      BY DEF Revoke
  <1>2. TasksOK' /\ TaskCalm
      BY <1>1, BeginRefresh DEF EntriesOK
  <1>3. QuotaOK' /\ RowsOK' /\ MarksOK' /\ DueOK' /\ PendingOK' /\ PendingCalm /\ UNCHANGED row
      BY SpendKeeps, StillThere, PendingStays DEF Revoke, EntriesOK, Counted
  <1> DEFINE old == grant[g]
  <1> DEFINE new == [old EXCEPT !.status = "revoked"]
  <1>4. old \in Granted /\ grant' = [grant EXCEPT ![g] = new]
      BY <1>1 DEF Active, GrantsOK
  <1> HIDE DEF old
  <1>5. new \in Granted /\ new.target = old.target /\ new.from = old.from /\ new.status = "revoked"
      BY <1>4 DEF Granted
  <1>6. new # None /\ old # None
      BY <1>4, <1>5, KnowledgeAssumption
  <1> HIDE DEF new
  <1>7. grant' \in [Grants -> Granted \cup {None}]
      BY <1>1, <1>4, <1>5 DEF GrantsOK
  <1>8. GrantsCalm
      BY <1>1, <1>4, <1>5, <1>6 DEF GrantsOK, GrantsCalm, old
  <1>9. GrantsOK'
      BY <1>1, <1>2, <1>7, <1>8, GrantsKept DEF GrantsOK
  <1> QED BY <1>1, <1>2, <1>3, <1>8, <1>9 DEF Calmly, EntryCalm, EntriesOK, RowsCalm

\* Somebody reads what was shared with them (ReadGranted).
LEMMA ReadGrantedStep ==
    ASSUME EntriesOK, GrantsOK, NEW a \in quota.callers, NEW r \in Rids, ReadGranted(a, r)
    PROVE  Calmly
  <1>1. QuotaOK'
      BY SpendKeeps DEF ReadGranted, EntriesOK, Counted
  <1>2. MarksOK'
      BY RowIs DEF ReadGranted, EntriesOK, MarksOK
  <1>3. RowsOK' /\ PendingOK' /\ TasksOK' /\ DueOK' /\ TaskCalm /\ PendingCalm /\ RowsCalm
      BY DEF ReadGranted, EntriesOK, RowsOK, PendingOK, TasksOK, DueOK, TaskCalm, PendingCalm, RowsCalm
  <1>4. GrantsOK' /\ GrantsCalm /\ UNCHANGED refused
      BY <1>3, GrantsStay DEF ReadGranted
  <1> QED BY <1>1, <1>2, <1>3, <1>4 DEF Calmly, EntryCalm, EntriesOK

\* The cache of grants is refreshed in time (RefreshTick).
LEMMA RefreshTickStep ==
    ASSUME EntriesOK, GrantsOK, RefreshTick
    PROVE  Calmly
  <1>1. TasksOK' /\ TaskCalm
      BY BeginRefresh DEF RefreshTick, EntriesOK
  <1>2. RowsOK' /\ MarksOK' /\ DueOK' /\ PendingOK' /\ PendingCalm /\ QuotaOK' /\ RowsCalm
      BY StillThere, PendingStays DEF RefreshTick, EntriesOK, QuotaOK, RowsCalm
  <1>3. GrantsOK' /\ GrantsCalm /\ UNCHANGED refused
      BY <1>1, GrantsStay DEF RefreshTick
  <1> QED BY <1>1, <1>2, <1>3 DEF Calmly, EntryCalm, EntriesOK

\* A person or an agent shares an entry, or proposes to (grantAccess),
LEMMA GrantAccessStep ==
    ASSUME EntriesOK, GrantsOK, NEW a \in quota.callers \ {Worker}, NEW e \in Entries, NEW to \in Recipients, GrantAccess(a, e, to)
    PROVE  Calmly
  <1>1. QuotaOK' /\ a \in Actors /\ a \in People \cup Agents
      BY SpendKeeps, CallersAre DEF GrantAccess, EntriesOK, Counted, Actors
  <1>2. RowsOK' /\ MarksOK' /\ DueOK' /\ RowsCalm
      BY StillThere DEF GrantAccess, RowsCalm
  <1> DEFINE r == RidOf(e)
  <1> DEFINE home == row[r].home
  <1>3. r \in Rids /\ home \in Homes
      BY RidOfIs, RowIs DEF GrantAccess, EntriesOK
  <1>4. TasksOK' /\ TaskCalm /\ PendingOK' /\ PendingCalm
    <2>0. None \in After /\ "pending" \in Statuses
        BY DEF After, Statuses
    <2>1. CASE SharesDirectly(a)
      <3> DEFINE what == NewGrant(r, e, to, a, home, None)
      <3>1. HasTask /\ UNCHANGED pending /\ Begin(FreeTask, GrantTask(what, None))
          BY <2>1 DEF GrantAccess
      <3> HIDE DEF r, home
      <3>2. what \in Granted /\ what.target = r /\ what.from = None
          BY <1>1, <1>3, <2>0, NewGrantIn
      <3> HIDE DEF what
      <3> QED BY <1>3, <3>1, <3>2, BeginGrant, PendingStays DEF EntriesOK
    <2>2. CASE ~SharesDirectly(a)
      <3> DEFINE new == SharePending(a, e, r, to, home, None, "pending")
      <3>1. Queue(new) /\ UNCHANGED task
          BY <2>2 DEF GrantAccess
      <3> HIDE DEF r, home
      <3>2. new \in Proposal
          BY <1>1, <1>3, <2>0, SharePendingIn DEF Proposal
      <3> HIDE DEF new
      <3> QED BY <3>1, <3>2, QueueOK, TasksStay DEF EntriesOK
    <2> QED BY <2>1, <2>2
  <1>5. GrantsOK' /\ GrantsCalm /\ UNCHANGED refused
      BY <1>4, GrantsStay DEF GrantAccess
  <1> QED BY <1>1, <1>2, <1>4, <1>5 DEF Calmly, EntryCalm, EntriesOK

\* ... or what they have proposed to write.
LEMMA GrantWaitingStep ==
    ASSUME EntriesOK, GrantsOK, NEW a \in quota.callers \ {Worker}, NEW e \in Entries, NEW to \in Recipients, NEW q \in Pendings,
           GrantWaiting(a, e, to, q)
    PROVE  Calmly
  <1>1. QuotaOK' /\ a \in Actors /\ a \in People \cup Agents /\ Origin[e] \in Homes
      BY SpendKeeps, CallersAre, EntriesAssumption DEF GrantWaiting, EntriesOK, Counted, Actors
  <1>2. RowsOK' /\ MarksOK' /\ DueOK' /\ RowsCalm
      BY StillThere DEF GrantWaiting, RowsCalm
  <1> DEFINE status == IF SharesDirectly(a) THEN "confirmed" ELSE "waiting"
  <1> DEFINE home == Origin[e]
  <1> DEFINE new == SharePending(a, e, None, to, home, q, status)
  <1>3. Queue(new) /\ UNCHANGED task
      BY DEF GrantWaiting
  <1>4. status \in Statuses /\ q \in After /\ None \in Rids \cup {None}
      BY DEF Statuses, After
  <1> HIDE DEF status
  <1>5. new \in Proposal
      BY <1>1, <1>4, SharePendingIn DEF Proposal
  <1> HIDE DEF new
  <1>6. TasksOK' /\ TaskCalm /\ PendingOK' /\ PendingCalm
      BY <1>3, <1>5, QueueOK, TasksStay DEF EntriesOK
  <1>7. GrantsOK' /\ GrantsCalm /\ UNCHANGED refused
      BY <1>6, GrantsStay DEF GrantWaiting
  <1> QED BY <1>1, <1>2, <1>6, <1>7 DEF Calmly, EntryCalm, EntriesOK

\* A refresh reads the grants.
LEMMA RefreshReadStep ==
    ASSUME EntriesOK, GrantsOK, NEW t \in Tasks, RefreshRead(t)
    PROVE  Calmly
  <1> DEFINE v == task[t]
  <1> DEFINE seen == Active
  <1> DEFINE w == [v EXCEPT !.seen = seen]
  <1>1. v.kind = "refresh" /\ v \in RefreshRec /\ Begin(t, w)
      BY DEF RefreshRead, EntriesOK, TasksOK, Shape
  <1>2. seen \in SUBSET Grants /\ \A g \in seen : IsGrant(g)
      BY DEF Active, IsGrant
  <1> HIDE DEF seen
  <1>3. w \in RefreshRec /\ w.kind = "refresh" /\ w.after = v.after /\ w.then = v.then /\ w.seen = seen
      BY <1>1, <1>2 DEF RefreshRec
  <1> HIDE DEF w
  <1>4. Shape(w) /\ AfterOf(w) = AfterOf(v)
      BY <1>1, <1>3 DEF Shape, AfterOf
  <1>5. ShareCalm(v, w) /\ NeedCalm(v, w)
      BY <1>1, <1>3, <1>4 DEF ShareCalm, NeedCalm, Makers, Resolution, Concerns, Opens, Late
  <1>6. TasksOK' /\ task'[t] = w /\ \A u \in Tasks \ {t} : task'[u] = task[u]
      BY <1>1, <1>4, BeginOK DEF EntriesOK
  <1>7. TaskCalm
      BY <1>2, <1>3, <1>5, <1>6 DEF TaskCalm, CallCalm
  <1>8. RowsOK' /\ MarksOK' /\ DueOK' /\ PendingOK' /\ PendingCalm /\ QuotaOK' /\ RowsCalm
      BY StillThere, PendingStays DEF RefreshRead, EntriesOK, QuotaOK, RowsCalm
  <1>9. GrantsOK' /\ GrantsCalm /\ UNCHANGED refused
      BY <1>7, GrantsStay DEF RefreshRead
  <1> QED BY <1>6, <1>7, <1>8, <1>9 DEF Calmly, EntryCalm, EntriesOK

\* A refresh goes on with what it was for.
LEMMA RefreshEnd ==
    ASSUME NEW v \in RefreshRec, NEW ok \in BOOLEAN, NEW w, w = Settling(v.after, ok, v.then)
    PROVE  Shape(w) /\ ShareCalm(v, w) /\ NeedCalm(v, w) /\ w.kind # "refresh"
  <1>1. v.kind = "refresh" /\ v.after \in After /\ v.then \in Later /\ AfterOf(v) = v.after
      BY DEF RefreshRec, AfterOf
  <1>2. /\ Shape(w) /\ AfterOf(w) = v.after
        /\ v.after = None => w = v.then
        /\ v.after # None => w = [kind |-> "settle", after |-> v.after, ok |-> ok, then |-> v.then]
      BY <1>1, SettlingIs, Zenon
  <1>3. CASE v.after = None
    <2>1. w \in Later /\ w = v.then
        BY <1>1, <1>2, <1>3
    <2>2. w.kind \in {"idle", "resolve", "open"} /\ (w.kind = "open" => w.step = "show")
      <3>1. CASE w = Idle
          BY <3>1 DEF Idle
      <3>2. CASE w \in ResolveRec
          BY <3>2 DEF ResolveRec
      <3>3. CASE w \in [kind : {"open"}, step : {"show"}, q : Asked, to : SUBSET Recipients]
          BY <3>3
      <3> QED BY <2>1, <3>1, <3>2, <3>3 DEF Later
    <2>3. Resolution(w) = w /\ Resolution(v) = w
        BY <1>1, <2>1, <2>2 DEF Resolution, Makers
    <2>4. ShareCalm(v, w)
        BY <1>2, <1>3, <2>2, <2>3 DEF ShareCalm
    <2>5. NeedCalm(v, w)
        BY <1>1, <2>1, <2>2 DEF NeedCalm, Concerns, Opens, Late, Makers
    <2> QED BY <1>2, <2>2, <2>4, <2>5
  <1>4. CASE v.after # None
    <2>0. w = [kind |-> "settle", after |-> v.after, ok |-> ok, then |-> v.then]
        BY <1>2, <1>4, Zenon
    <2>1. w.kind = "settle" /\ w.then = v.then
        BY <2>0
    <2> QED BY <1>1, <1>2, <2>1 DEF ShareCalm, NeedCalm, Makers, Resolution, Concerns, Opens, Late
  <1> QED BY <1>3, <1>4

\* A refresh revokes the grants of what is gone.
LEMMA RefreshSweepStep ==
    ASSUME EntriesOK, GrantsOK, NEW t \in Tasks, RefreshSweep(t)
    PROVE  Calmly
  <1> DEFINE v == task[t]
  <1> DEFINE w == Settling(v.after, TRUE, v.then)
  <1> DEFINE seen == v.seen
  <1>1. v.kind = "refresh" /\ v \in RefreshRec /\ Begin(t, w) /\ seen # None /\ UNCHANGED refused
      BY DEF RefreshSweep, EntriesOK, TasksOK, Shape
  <1>2. /\ grant' = [g \in Grants |-> IF g \in seen /\ ~Holds(g) THEN [grant[g] EXCEPT !.status = "revoked"] ELSE grant[g]]
        /\ cache' = CacheAfter(seen)
      BY DEF RefreshSweep
  <1>0. TRUE \in BOOLEAN
      OBVIOUS
  <1>3. Shape(w) /\ ShareCalm(v, w) /\ NeedCalm(v, w) /\ w.kind # "refresh"
      BY <1>0, <1>1, RefreshEnd
  <1> HIDE DEF w
  <1>4. TasksOK' /\ TaskCalm
      BY <1>1, <1>3, BeginCalm DEF EntriesOK
  <1>5. RowsOK' /\ MarksOK' /\ DueOK' /\ PendingOK' /\ PendingCalm /\ QuotaOK' /\ RowsCalm
      BY StillThere, PendingStays DEF RefreshSweep, EntriesOK, QuotaOK, RowsCalm
  <1>6. \A g \in seen : IsGrant(g)
      BY <1>1 DEF GrantsOK
  <1> HIDE DEF seen
  <1>7. ASSUME NEW g \in Grants
        PROVE  /\ grant'[g] \in Granted \cup {None} /\ (grant'[g] = None <=> grant[g] = None)
               /\ grant[g] # None => /\ grant'[g].target = grant[g].target /\ grant'[g].from = grant[g].from
                                     /\ grant'[g].status = "active" => grant[g].status = "active"
    <2>1. CASE g \in seen /\ ~Holds(g)
      <3> DEFINE new == [grant[g] EXCEPT !.status = "revoked"]
      <3>1. grant[g] \in Granted /\ grant'[g] = new
          BY <1>2, <1>6, <2>1 DEF GrantsOK, IsGrant
      <3>2. new \in Granted /\ new.target = grant[g].target /\ new.from = grant[g].from /\ new.status = "revoked"
          BY <3>1 DEF Granted
      <3> HIDE DEF new
      <3> QED BY <3>1, <3>2, KnowledgeAssumption
    <2>2. CASE ~(g \in seen /\ ~Holds(g))
        BY <1>2, <2>2 DEF GrantsOK
    <2> QED BY <2>1, <2>2
  <1>8. GrantsCalm
      BY <1>7 DEF GrantsCalm
  <1>9. grant' \in [Grants -> Granted \cup {None}]
    <2>1. grant' = [g \in Grants |-> grant'[g]]
        BY <1>2
    <2> QED BY <1>7, <2>1
  <1>10. cache' \subseteq Grants /\ \A g \in cache' : IsGrant(g)
      BY <1>2, <1>6 DEF CacheAfter, IsGrant
  <1>11. GrantsOK'
      BY <1>1, <1>4, <1>8, <1>9, <1>10, GrantsKept
  <1> QED BY <1>1, <1>4, <1>5, <1>8, <1>11 DEF Calmly, EntryCalm, EntriesOK

--------------------------------------------------------------------------
(* A share is made once                                                    *)

Kept == EntriesOK' /\ GrantsOK' /\ RowsCalm /\ SharedInv' /\ QuestionInv'

\* A calm step keeps all of it.
LEMMA CalmKept ==
    ASSUME EntriesOK, GrantsOK, SharedInv, QuestionInv, Calmly, UNCHANGED <<need, crossed>>
    PROVE  Kept
  <1>1. EntriesOK' /\ TaskCalm /\ PendingCalm /\ RowsCalm /\ GrantsOK' /\ GrantsCalm /\ UNCHANGED refused
      BY DEF Calmly, EntryCalm
  <1>2. PendingOK /\ TasksOK /\ refused \subseteq Pendings
      BY DEF EntriesOK, GrantsOK
  <1> QED BY <1>1, <1>2, CalmShared, CalmQuestions, TasksAreCalm DEF Kept

\* A proposal to share is made of what such a proposal is made of.
LEMMA ShareIs ==
    ASSUME PendingOK, NEW q \in Pendings, pending[q] # None, pending[q].kind = "share"
    PROVE  pending[q] \in ShareProposal
  BY DEF PendingOK, Proposal

\* A confirmation reads the proposal.
LEMMA ConfirmReadStep ==
    ASSUME EntriesOK, GrantsOK, NEW p \in People, NEW q \in Pendings, ConfirmRead(p, q)
    PROVE  Calmly
  <1> DEFINE read == pending[q]
  <1> DEFINE w == [kind |-> "confirm", q |-> q, person |-> p, read |-> read]
  <1>1. /\ read # None /\ read.kind = "share" /\ read.status \in {"pending", "waiting"} /\ HasTask /\ Begin(FreeTask, w)
      BY DEF ConfirmRead, OwnProposal
  <1>2. read \in ShareProposal
      BY <1>1, ShareIs DEF EntriesOK
  <1>3. AsRead(w) /\ w.kind = "confirm"
      BY <1>1 DEF AsRead
  <1> HIDE DEF read
  <1>4. w \in ConfirmRec
      BY <1>2 DEF ConfirmRec
  <1> HIDE DEF w
  <1>5. Shape(w) /\ AfterOf(w) = None
      BY <1>3, <1>4 DEF Shape, AfterOf
  <1>6. FreeTask \in Tasks /\ task[FreeTask] = Idle /\ Idle.kind = "idle"
      BY <1>1, FreeTaskIs DEF Idle
  <1>7. ShareCalm(Idle, w) /\ NeedCalm(Idle, w)
      BY <1>3, <1>5, <1>6 DEF ShareCalm, NeedCalm, Resolution, Makers, Concerns, Opens, Late
  <1>8. TasksOK' /\ TaskCalm
      BY <1>1, <1>3, <1>5, <1>6, <1>7, BeginCalm DEF EntriesOK
  <1>9. QuotaOK' /\ RowsOK' /\ MarksOK' /\ DueOK' /\ PendingOK' /\ PendingCalm /\ RowsCalm
      BY SpendKeeps, StillThere, PendingStays DEF ConfirmRead, EntriesOK, Counted, RowsCalm
  <1>10. GrantsOK' /\ GrantsCalm /\ UNCHANGED refused
      BY <1>8, GrantsStay DEF ConfirmRead
  <1> QED BY <1>8, <1>9, <1>10 DEF Calmly, EntryCalm, EntriesOK

\* A resolution reads the shares that wait.
LEMMA ResolveReadStep ==
    ASSUME EntriesOK, GrantsOK, NEW t \in Tasks, ResolveRead(t)
    PROVE  Calmly
  <1> DEFINE v == task[t]
  <1> DEFINE waiting == {q \in Pendings : Waits(q, v.write)}
  <1> DEFINE rows == [q \in waiting |-> pending[q]]
  <1> DEFINE w == IF waiting = {} THEN Idle ELSE [v EXCEPT !.read = TRUE, !.rows = rows]
  <1>1. v.kind = "resolve" /\ v \in ResolveRec /\ Begin(t, w)
      BY DEF ResolveRead, EntriesOK, TasksOK, Shape
  <1>2. waiting \in SUBSET Pendings /\ rows \in [waiting -> ShareProposal]
      BY ShareIs DEF Waits, EntriesOK
  <1>3. rows \in Some(Pendings, ShareProposal)
      BY <1>2, SomeIn, Zenon
  <1>4. DOMAIN rows = waiting /\ \A q \in waiting : rows[q] = pending[q]
      OBVIOUS
  <1>5. \A q \in waiting : Waits(q, v.write)
      OBVIOUS
  <1> HIDE DEF rows, waiting
  <1>6. Shape(w) /\ ShareCalm(v, w) /\ NeedCalm(v, w) /\ w.kind # "refresh"
    <2>1. CASE waiting = {}
      <3>1. w.kind = "idle" /\ w = Idle
          BY <2>1 DEF Idle
      <3> QED BY <1>1, <3>1 DEF Shape, ShareCalm, NeedCalm, AfterOf, Resolution, Makers, Concerns, Opens, Late
    <2>2. CASE waiting # {}
      <3>1. w = [v EXCEPT !.read = TRUE, !.rows = rows]
          BY <2>2
      <3>2. w \in ResolveRec /\ w.kind = "resolve" /\ w.write = v.write /\ w.rows = rows
          BY <1>1, <1>3, <3>1 DEF ResolveRec
      <3> HIDE DEF w
      <3>3. Resolution(w) = w /\ Resolution(v) = v /\ AfterOf(w) = None
          BY <1>1, <3>2 DEF Resolution, Makers, AfterOf
      <3>4. ReadNow(v, w)
          BY <1>1, <1>4, <1>5, <3>2 DEF ReadNow
      <3> QED BY <1>1, <3>2, <3>3, <3>4 DEF Shape, ShareCalm, NeedCalm, Makers, Concerns, Opens, Late
    <2> QED BY <2>1, <2>2
  <1> HIDE DEF w
  <1>8. TasksOK' /\ TaskCalm
      BY <1>1, <1>6, BeginCalm DEF EntriesOK
  <1>9. QuotaOK' /\ RowsOK' /\ MarksOK' /\ DueOK' /\ PendingOK' /\ PendingCalm /\ RowsCalm
      BY StillThere, PendingStays DEF ResolveRead, EntriesOK, QuotaOK, RowsCalm
  <1>10. GrantsOK' /\ GrantsCalm /\ UNCHANGED refused
      BY <1>8, GrantsStay DEF ResolveRead
  <1> QED BY <1>8, <1>9, <1>10 DEF Calmly, EntryCalm, EntriesOK

\* A proposal with another status is otherwise the same.
LEMMA StatusIs ==
    ASSUME NEW p \in Proposal, NEW status \in Statuses, NEW new, new = [p EXCEPT !.status = status]
    PROVE  /\ new \in Proposal /\ new # None /\ new.kind = p.kind /\ new.status = status
           /\ p.kind = "share" => new \in ShareProposal /\ new.write = p.write
  <1>1. new \in Proposal /\ new.kind = p.kind /\ new.status = status
      BY DEF Proposal, ShareProposal
  <1>2. p.kind = "share" => new \in ShareProposal /\ new.write = p.write
      BY DEF Proposal, ShareProposal
  <1>3. new # None
      BY <1>1, KnowledgeAssumption
  <1> QED BY <1>1, <1>2, <1>3

\* Nothing but shares and their statuses change.
LEMMA SoftKept ==
    ASSUME EntriesOK, GrantsOK, SharedInv, QuestionInv, EntriesOK', TaskCalm, PendingSoft, RowsCalm, GrantsOK', GrantsCalm,
           RefusedStays', UNCHANGED <<need, crossed>>
    PROVE  Kept
  BY SoftShared, CalmQuestions, TasksAreCalm DEF Kept, EntriesOK

\* A person declines a share.
LEMMA DeclineStep ==
    ASSUME EntriesOK, GrantsOK, SharedInv, QuestionInv, NEW p \in People, NEW q \in Pendings, Decline(p, q), UNCHANGED <<need, crossed>>
    PROVE  Kept
  <1> DEFINE old == pending[q]
  <1> DEFINE new == [old EXCEPT !.status = "rejected"]
  <1>1. old # None /\ old.kind = "share" /\ old.status \in {"pending", "waiting", "confirmed"}
      BY DEF Decline, OwnProposal
  <1>2. pending' = [pending EXCEPT ![q] = new] /\ UNCHANGED <<row, marks, task, due, grant, cache>>
      BY <1>1 DEF Decline, Declinable, EntriesOK, PendingOK
  <1>3. old \in Proposal /\ "rejected" \in Statuses
      BY <1>1 DEF EntriesOK, PendingOK, Statuses
  <1>4. new \in Proposal /\ new # None /\ new.kind = "share" /\ new.status = "rejected" /\ new.write = old.write
      BY <1>1, <1>3, StatusIs
  <1> HIDE DEF new
  <1>5. PendingOK' /\ pending'[q] = new /\ \A u \in Pendings \ {q} : pending'[u] = pending[u]
      BY <1>2, <1>4 DEF EntriesOK, PendingOK
  <1>6. TaskCalm /\ EntriesOK' /\ RowsCalm
    <2>1. QuotaOK' /\ RowsOK' /\ MarksOK' /\ DueOK' /\ TasksOK' /\ TaskCalm
        BY <1>2, SpendKeeps, StillThere, TasksStay DEF Decline, EntriesOK, Counted
    <2> QED BY <1>2, <1>5, <2>1 DEF EntriesOK, RowsCalm
  <1>7. Spent(q) => old.write = None
      BY <1>1 DEF Spent
  <1>8. PendingSoft
    <2>1. Softly(q)
        BY <1>1, <1>4, <1>5, <1>7 DEF Softly, Spent
    <2> QED BY <1>5, <2>1 DEF PendingSoft
  <1>9. GrantsOK' /\ GrantsCalm
    <2>1. refused' \subseteq Pendings
        BY DEF Decline, GrantsOK
    <2> QED BY <1>2, <2>1 DEF GrantsOK, GrantsCalm, IsGrant
  <1>10. \A u : Made(u)' <=> Made(u)
      BY <1>2 DEF Made
  <1>11. RefusedStays'
    <2> SUFFICES ASSUME NEW u \in refused'
                 PROVE  /\ pending'[u] # None /\ pending'[u].status = "rejected" /\ ~Made(u)
                        /\ \A t \in Tasks : ~Claims(task[t], u) /\ ~InRows(task[t], u)
        BY <1>2, <1>10 DEF RefusedStays
    <2>1. CASE u \in refused
      <3>1. u \in Pendings /\ u # q
          BY <1>1, <2>1 DEF GrantsOK, SharedInv, RefusedStays
      <3> QED BY <1>5, <2>1, <3>1 DEF SharedInv, RefusedStays
    <2>2. CASE u \notin refused
      <3>1. u = q /\ ~Resolving(q) /\ ~Made(q)
          BY <2>2 DEF Decline
      <3>2. ASSUME NEW t \in Tasks, Claims(task[t], q) PROVE FALSE
        <4>1. task[t].kind \in Makers
            BY <1>1, <3>2 DEF SharedInv, ClaimedIsSpent
        <4>2. task[t].after = q
            BY <3>2, <4>1 DEF Claims, AfterOf, Makers
        <4> QED BY <3>1, <4>1, <4>2 DEF Resolving, Makers
      <3>3. ASSUME NEW t \in Tasks, InRows(task[t], q) PROVE FALSE
          BY <3>1, <3>3 DEF InRows, Resolution, Resolving, Makers
      <3> QED BY <1>4, <1>5, <3>1, <3>2, <3>3
    <2> QED BY <2>1, <2>2
  <1> QED BY <1>6, <1>8, <1>9, <1>11, SoftKept

\* An approver refuses a proposal, and what waited on it goes with it.
LEMMA RejectStep ==
    ASSUME EntriesOK, GrantsOK, SharedInv, QuestionInv, NEW a \in quota.approvers, NEW q \in Pendings, Reject(a, q),
           UNCHANGED <<shareVars, need, crossed>>
    PROVE  Kept
  <1>1. pending[q] # None /\ pending[q].status = "pending" /\ UNCHANGED <<row, marks, task, due>>
      BY DEF Reject
  <1>2. pending' = [p \in Pendings |-> IF p = q \/ Waits(p, q) THEN [pending[p] EXCEPT !.status = "rejected"] ELSE pending[p]]
      BY DEF Reject
  <1>3. ASSUME NEW p \in Pendings, p = q \/ Waits(p, q)
        PROVE  /\ pending[p] # None /\ pending'[p] \in Proposal /\ pending'[p] # None /\ pending'[p].kind = pending[p].kind
               /\ pending'[p].status = "rejected" /\ (pending[p].kind = "share" => pending'[p].write = pending[p].write)
    <2>1. pending[p] \in Proposal /\ pending[p] # None /\ "rejected" \in Statuses
        BY <1>1, <1>3 DEF EntriesOK, PendingOK, Waits, Statuses
    <2> DEFINE new == [pending[p] EXCEPT !.status = "rejected"]
    <2>2. pending'[p] = new
        BY <1>2, <1>3
    <2>3. /\ new \in Proposal /\ new # None /\ new.kind = pending[p].kind /\ new.status = "rejected"
          /\ pending[p].kind = "share" => new.write = pending[p].write
        BY <2>1, StatusIs
    <2> QED BY <2>1, <2>2, <2>3
  <1>4. \A p \in Pendings : ~(p = q \/ Waits(p, q)) => pending'[p] = pending[p]
      BY <1>2
  <1>5. PendingOK'
    <2>1. pending' = [p \in Pendings |-> pending'[p]]
        BY <1>2
    <2> QED BY <1>3, <1>4, <2>1 DEF EntriesOK, PendingOK
  <1>6. TaskCalm /\ EntriesOK' /\ RowsCalm /\ GrantsOK' /\ GrantsCalm /\ UNCHANGED <<refused, grant>>
    <2>1. QuotaOK' /\ RowsOK' /\ MarksOK' /\ DueOK' /\ TasksOK' /\ TaskCalm
        BY <1>1, SpendKeeps, StillThere, TasksStay DEF Reject, EntriesOK, Counted
    <2> QED BY <1>1, <1>5, <2>1, GrantsStay DEF EntriesOK, RowsCalm, shareVars
  <1>7. PendingSoft
    <2> SUFFICES ASSUME NEW p \in Pendings, p = q \/ Waits(p, q) PROVE Softly(p)
        BY <1>4 DEF PendingSoft
    <2>1. CASE p = q
      <3>1. ~Spent(p)
          BY <1>1, <2>1 DEF Spent
      <3>2. \A t \in Tasks : ~InRows(task[t], p)
          BY <1>1, <2>1 DEF SharedInv, ReadStillWaits
      <3> QED BY <1>1, <1>3, <3>1, <3>2 DEF Softly
    <2>2. CASE Waits(p, q)
      <3>1. ~Spent(p)
          BY <2>2, NoneAfter DEF Spent, Waits
      <3>2. pending[p].kind = "share"
          BY <2>2 DEF Waits
      <3> QED BY <1>1, <1>3, <3>1, <3>2 DEF Softly
    <2> QED BY <2>1, <2>2
  <1>8. RefusedStays'
    <2> SUFFICES ASSUME NEW u \in refused
                 PROVE  /\ pending'[u] # None /\ pending'[u].status = "rejected" /\ ~Made(u)
                        /\ \A t \in Tasks : ~Claims(task[t], u) /\ ~InRows(task[t], u)
        BY <1>1, <1>6 DEF RefusedStays, Made
    <2>1. u \in Pendings /\ pending[u] # None /\ pending[u].status = "rejected"
        BY DEF GrantsOK, SharedInv, RefusedStays
    <2>2. ~(u = q \/ Waits(u, q))
        BY <1>1, <2>1 DEF Waits
    <2> QED BY <1>4, <2>1, <2>2 DEF SharedInv, RefusedStays
  <1> QED BY <1>6, <1>7, <1>8, SoftKept

\* One share that still waits changes.
LEMMA OneKept ==
    ASSUME EntriesOK, GrantsOK, SharedInv, QuestionInv, NEW q \in Pendings, pending[q] # None, pending[q].kind = "share",
           NEW new \in ShareProposal, pending' = [pending EXCEPT ![q] = new], TasksOK', TaskCalm,
           UNCHANGED <<row, marks, due, quota, shareVars, need, crossed>>, q \notin refused, ~Spent(q),
           new.status = "waiting" => pending[q].status = "waiting" /\ new.write = pending[q].write,
           \A t \in Tasks : InRows(task'[t], q) => new.write = pending[q].write /\ new.status \in {"waiting", "confirmed", "rejected"}
    PROVE  Kept
  <1>1. new \in Proposal /\ new # None /\ new.kind = "share"
    <2>1. new \in Proposal /\ new.kind = "share"
        BY DEF Proposal, ShareProposal
    <2> QED BY <2>1, KnowledgeAssumption
  <1>2. PendingOK' /\ pending'[q] = new /\ \A u \in Pendings \ {q} : pending'[u] = pending[u]
      BY <1>1 DEF EntriesOK, PendingOK
  <1>3. EntriesOK' /\ RowsCalm
    <2>1. QuotaOK' /\ RowsOK' /\ MarksOK' /\ DueOK'
        BY StillThere DEF EntriesOK, QuotaOK
    <2> QED BY <1>2, <2>1 DEF EntriesOK, RowsCalm
  <1>4. GrantsOK' /\ GrantsCalm /\ UNCHANGED <<refused, grant>>
      BY GrantsStay DEF shareVars
  <1>5. PendingSoft
    <2>1. Softly(q)
        BY <1>1, <1>2 DEF Softly
    <2> QED BY <1>2, <2>1 DEF PendingSoft
  <1>6. RefusedStays'
    <2> SUFFICES ASSUME NEW u \in refused
                 PROVE  /\ pending'[u] # None /\ pending'[u].status = "rejected" /\ ~Made(u)
                        /\ \A t \in Tasks : ~Claims(task'[t], u) /\ ~InRows(task'[t], u)
        BY <1>4 DEF RefusedStays, Made
    <2>1. /\ u \in Pendings /\ u # q /\ pending[u] # None /\ pending[u].status = "rejected" /\ ~Made(u)
          /\ \A t \in Tasks : ~Claims(task[t], u) /\ ~InRows(task[t], u)
        BY DEF GrantsOK, SharedInv, RefusedStays
    <2>2. \A t \in Tasks : ~Claims(task'[t], u) /\ ~InRows(task'[t], u)
        BY <2>1, CalmHolds, CalmRows DEF Waits
    <2> QED BY <1>2, <2>1, <2>2
  <1> QED BY <1>3, <1>4, <1>5, <1>6, SoftKept

\* A call takes up a proposal that no other has, and it is spent.
LEMMA ClaimShared ==
    ASSUME EntriesOK, GrantsOK, SharedInv, NEW t \in Tasks, NEW w, task'[t] = w, \A u \in Tasks \ {t} : task'[u] = task[u],
           NEW q \in Pendings, pending[q] # None, NEW new, pending'[q] = new, \A u \in Pendings \ {q} : pending'[u] = pending[u],
           ~Spent(q), Spent(q)', new.kind = pending[q].kind, q \notin refused, UNCHANGED shareVars,
           AfterOf(task[t]) = None, AfterOf(w) = q, w.kind # "confirm", w.kind \notin Makers => pending[q].kind # "share",
           Resolution(w).kind = "resolve" => ReadNow(Resolution(task[t]), Resolution(w)), ~InRows(w, q),
           \A u \in Tasks \ {t} : ~InRows(task[u], q),
           \A u \in Tasks : ~Resolves(task[u], q)
    PROVE  SharedInv'
  <1> DEFINE v == task[t]
  <1>1. UNCHANGED <<grant, refused>> /\ \A p : Made(p)' <=> Made(p)
      BY DEF shareVars, Made
  <1>2. ~Made(q) /\ \A u \in Tasks : ~Claims(task[u], q)
      BY DEF SharedInv, MadeIsSpent, ClaimedIsSpent
  <1>3. \A p \in Pendings : Claims(w, p) <=> p = q
      BY DEF Claims
  <1>4. \A p \in Pendings : Resolves(w, p) => Resolves(v, p)
      BY DEF Resolves, ReadNow
  <1>5. ASSUME NEW p \in Pendings, InRows(w, p)
        PROVE  /\ Resolution(v).kind = "resolve" /\ Resolution(w).write = Resolution(v).write /\ p # q
               /\ \/ (InRows(v, p) /\ Resolution(w).rows[p] = Resolution(v).rows[p])
                  \/ (Waits(p, Resolution(v).write) /\ Resolution(w).rows[p] = pending[p])
      BY <1>5 DEF InRows, HasRead, ReadNow
  <1>6. \A p \in Pendings : ~Claims(v, p)
      BY NoneAfter DEF Claims
  <1> HIDE DEF v
  <1>7. OneHolds'
    <2> SUFFICES ASSUME NEW x \in Tasks, NEW y \in Tasks, NEW p \in Pendings, x # y, Holding(task'[x], p), Holding(task'[y], p) PROVE FALSE
        BY DEF OneHolds
    <2>1. ASSUME NEW z \in Tasks \ {t}, Holding(task[z], p) PROVE ~Holding(w, p)
      <3>1. p # q
          BY <1>2, <2>1 DEF Holding
      <3>2. ~Resolves(v, p)
          BY <2>1 DEF SharedInv, OneHolds, Holding, v
      <3> QED BY <1>3, <1>4, <3>1, <3>2 DEF Holding
    <2>2. CASE x # t /\ y # t
        BY <2>2 DEF SharedInv, OneHolds
    <2>3. CASE x = t
        BY <2>1, <2>3
    <2>4. CASE y = t
        BY <2>1, <2>4
    <2> QED BY <2>2, <2>3, <2>4
  <1>8. ClaimedIsSpent'
    <2> SUFFICES ASSUME NEW u \in Tasks, NEW p \in Pendings, Claims(task'[u], p)
                 PROVE  /\ Spent(p)'
                        /\ task'[u].kind \notin Makers => pending'[p].kind # "share"
                        /\ task'[u].kind = "grant" => ~Made(p)
        BY <1>1 DEF ClaimedIsSpent
    <2>1. CASE u = t
        BY <1>2, <1>3, <2>1
    <2>2. CASE u # t
      <3>1. Claims(task[u], p) /\ p # q
          BY <1>2, <2>2
      <3>2. Spent(p) /\ pending'[p] = pending[p]
          BY <3>1 DEF SharedInv, ClaimedIsSpent
      <3> QED BY <2>2, <3>1, <3>2 DEF SharedInv, ClaimedIsSpent, Spent
    <2> QED BY <2>1, <2>2
  <1>9. ResolvedRan'
    <2> SUFFICES ASSUME NEW u \in Tasks, NEW p \in Pendings, Resolves(task'[u], p)
                 PROVE  pending'[p] # None /\ pending'[p].kind = "upsert" /\ pending'[p].status # "pending"
        BY DEF ResolvedRan
    <2>1. Resolves(task[u], p)
        BY <1>4 DEF v
    <2> QED BY <2>1 DEF SharedInv, ResolvedRan
  <1>10. ReadStillWaits'
    <2> SUFFICES ASSUME NEW u \in Tasks, NEW p \in Pendings, InRows(task'[u], p)
                 PROVE  /\ pending'[p] # None /\ pending'[p].kind = "share" /\ pending'[p].write = Resolution(task'[u]).write
                        /\ pending'[p].status \in {"waiting", "confirmed", "rejected"}
                        /\ Resolution(task'[u]).rows[p].status = "confirmed" => pending'[p].status # "waiting"
        BY DEF ReadStillWaits
    <2>1. CASE u = t
      <3>1. p # q /\ pending'[p] = pending[p]
          BY <1>5, <2>1
      <3>2. CASE InRows(v, p) /\ Resolution(w).rows[p] = Resolution(v).rows[p]
          BY <1>5, <2>1, <3>1, <3>2 DEF SharedInv, ReadStillWaits, v
      <3>3. CASE Waits(p, Resolution(v).write) /\ Resolution(w).rows[p] = pending[p]
          BY <1>5, <2>1, <3>1, <3>3 DEF Waits
      <3> QED BY <1>5, <2>1, <3>2, <3>3
    <2>2. CASE u # t
        BY <2>2 DEF SharedInv, ReadStillWaits
    <2> QED BY <2>1, <2>2
  <1>11. MadeIsSpent'
    <2> SUFFICES ASSUME NEW p \in Pendings, Made(p) PROVE Spent(p)'
        BY <1>1 DEF MadeIsSpent
    <2>1. p # q /\ Spent(p)
        BY <1>2 DEF SharedInv, MadeIsSpent
    <2> QED BY <2>1 DEF Spent
  <1>12. MadeOnce'
      BY <1>1 DEF SharedInv, MadeOnce
  <1>13. RefusedStays'
    <2> SUFFICES ASSUME NEW p \in refused
                 PROVE  /\ pending'[p] # None /\ pending'[p].status = "rejected" /\ ~Made(p)
                        /\ \A u \in Tasks : ~Claims(task'[u], p) /\ ~InRows(task'[u], p)
        BY <1>1 DEF RefusedStays
    <2>1. /\ p \in Pendings /\ p # q /\ pending[p] # None /\ pending[p].status = "rejected" /\ ~Made(p)
          /\ \A u \in Tasks : ~Claims(task[u], p) /\ ~InRows(task[u], p)
        BY DEF GrantsOK, SharedInv, RefusedStays
    <2>2. ~Claims(w, p) /\ ~InRows(w, p)
        BY <1>3, <1>5, <2>1 DEF Waits, v
    <2> QED BY <2>1, <2>2
  <1>14. ConfirmedAsRead'
    <2> SUFFICES ASSUME NEW u \in Tasks, task'[u].kind = "confirm"
                 PROVE  /\ task'[u].q \in Pendings /\ pending'[task'[u].q] # None /\ pending'[task'[u].q].kind = "share" /\ task'[u].read.status \in {"pending", "waiting"}
                        /\ pending'[task'[u].q].status = "waiting" => task'[u].read.write = pending'[task'[u].q].write
        BY DEF ConfirmedAsRead, AsRead
    <2>1. u # t /\ task'[u] = task[u]
        OBVIOUS
    <2>2. AsRead(task[u])
        BY <2>1 DEF SharedInv, ConfirmedAsRead
    <2>3. new # None /\ new.status # "waiting"
        BY DEF Spent
    <2> QED BY <2>1, <2>2, <2>3 DEF AsRead
  <1> QED BY <1>7, <1>8, <1>9, <1>10, <1>11, <1>12, <1>13, <1>14 DEF SharedInv

\* ... and the types and the questions are as they were.
LEMMA ClaimRest ==
    ASSUME EntriesOK, GrantsOK, QuestionInv, NEW t \in Tasks, NEW w, Shape(w), Begin(t, w), NeedCalm(task[t], w), w.kind # "refresh",
           NEW q \in Pendings, NEW new \in Proposal, pending' = [pending EXCEPT ![q] = new], QuotaOK',
           UNCHANGED <<row, marks, due, shareVars, need, crossed>>
    PROVE  /\ EntriesOK' /\ GrantsOK' /\ RowsCalm /\ QuestionInv'
           /\ task'[t] = w /\ \A u \in Tasks \ {t} : task'[u] = task[u]
           /\ pending'[q] = new /\ \A u \in Pendings \ {q} : pending'[u] = pending[u]
  <1>1. TasksOK' /\ task'[t] = w /\ \A u \in Tasks \ {t} : task'[u] = task[u]
      BY BeginOK DEF EntriesOK
  <1>2. PendingOK' /\ pending'[q] = new /\ \A u \in Pendings \ {q} : pending'[u] = pending[u]
      BY DEF EntriesOK, PendingOK
  <1>3. RowsOK' /\ MarksOK' /\ DueOK' /\ RowsCalm
      BY StillThere DEF EntriesOK, RowsCalm
  <1>4. GrantsOK' /\ GrantsCalm
      BY <1>1 DEF GrantsOK, GrantsCalm, IsGrant, shareVars
  <1>5. QuestionsCalm
      BY <1>1 DEF QuestionsCalm
  <1>6. QuestionInv'
      BY <1>4, <1>5, CalmQuestions
  <1> QED BY <1>1, <1>2, <1>3, <1>4, <1>6 DEF EntriesOK

\* A proposal that is up for a decision is taken up by a call.
Runners == {"write", "typed", "move", "grant", "merge", "fold", "delete"}
\* A proposal that was up for a decision is taken up by one call, which no other has.
LEMMA TakenUp ==
    ASSUME EntriesOK, GrantsOK, SharedInv, QuestionInv, NEW t \in Tasks, NEW w, Shape(w), Begin(t, w), NeedCalm(task[t], w),
           AfterOf(task[t]) = None,
           NEW q \in Pendings, pending[q] # None, pending[q].status = "pending",
           NEW new \in Proposal, pending' = [pending EXCEPT ![q] = new], new.kind = pending[q].kind, new.status = "executing",
           AfterOf(w) = q, w.kind \in Runners,
           w.kind = "grant" => w.then = Idle, w.kind # "grant" => pending[q].kind # "share",
           QuotaOK', UNCHANGED <<row, marks, due, shareVars, need, crossed>>
    PROVE  Kept
  <1>0. w.kind # "refresh"
      BY DEF Runners
  <1>1. /\ EntriesOK' /\ GrantsOK' /\ RowsCalm /\ QuestionInv'
        /\ task'[t] = w /\ \A u \in Tasks \ {t} : task'[u] = task[u]
        /\ pending'[q] = new /\ \A u \in Pendings \ {q} : pending'[u] = pending[u]
      BY <1>0, ClaimRest
  <1>2. ~Spent(q) /\ new # None
      BY KnowledgeAssumption DEF Spent
  <1>3. Spent(q)'
      BY <1>1, <1>2 DEF Spent
  <1>4. q \notin refused
      BY DEF SharedInv, RefusedStays
  <1>5. Resolution(w).kind # "resolve"
      BY DEF Resolution, Makers, Idle, Runners
  <1>6. ~InRows(w, q)
      BY <1>5 DEF InRows, HasRead
  <1>7. \A u \in Tasks : ~InRows(task[u], q) /\ ~Resolves(task[u], q)
      BY DEF SharedInv, ReadStillWaits, ResolvedRan
  <1>8. w.kind # "confirm" /\ (w.kind \notin Makers => pending[q].kind # "share")
      BY DEF Makers, Runners
  <1>9. SharedInv'
      BY <1>1, <1>2, <1>3, <1>4, <1>5, <1>6, <1>7, <1>8, ClaimShared
  <1> QED BY <1>1, <1>9 DEF Kept

\* A grant of an entry is not one of a question.
LEMMA TargetIsNoQuestion ==
    ASSUME NEW target \in Rids \cup {None}, NEW q \in Asked
    PROVE  target # q
  BY QuestionsAssumption

\* The grant a share proposal stands for.
LEMMA GrantOfIs ==
    ASSUME NEW q \in Pendings, NEW p \in ShareProposal, NEW by \in Actors \cup {None}
    PROVE  /\ GrantOf(q, p, by) \in Granted /\ GrantOf(q, p, by).from = q /\ GrantOf(q, p, by).target \in Rids \cup {None}
  <1> DEFINE rid == p.rid
  <1> DEFINE e == p.e
  <1> DEFINE to == p.to
  <1> DEFINE home == p.home
  <1> DEFINE what == NewGrant(rid, e, to, by, home, q)
  <1>1. rid \in Rids \cup Asked \cup {None} /\ e \in Entries \cup Asked /\ to \in Recipients /\ home \in Homes \cup {None}
        /\ rid \in Rids \cup {None}
      BY DEF ShareProposal
  <1>3. GrantOf(q, p, by) = what
      BY DEF GrantOf
  <1> HIDE DEF rid, e, to, home
  <1>4. what \in Granted /\ what.target = rid /\ what.from = q
      BY <1>1 DEF NewGrant, Granted
  <1> HIDE DEF what
  <1> QED BY <1>1, <1>3, <1>4

\* A call to make a share is no question's.
LEMMA GrantIsCalm ==
    ASSUME NEW v, v.kind # "close", NEW what \in Granted, NEW after \in After, what.from = after, what.target \in Rids \cup {None},
           NEW w, w = GrantTask(what, after)
    PROVE  Shape(w) /\ NeedCalm(v, w) /\ AfterOf(w) = after /\ w.kind = "grant" /\ w.then = Idle
  <1>1. Shape(w) /\ AfterOf(w) = after /\ w.kind = "grant" /\ w.then = Idle /\ w.what = what
      BY GrantTaskIs
  <1>2. Idle.kind = "idle"
      BY DEF Idle
  <1>3. \A q \in Asked : what.target # q
      BY TargetIsNoQuestion
  <1> QED BY <1>1, <1>2, <1>3 DEF NeedCalm, Concerns, Opens, Late, Makers

\* An approver makes a reviewed share.
LEMMA ApproveShareStep ==
    ASSUME EntriesOK, GrantsOK, SharedInv, QuestionInv, NEW a \in quota.approvers, NEW q \in Pendings, ApproveShare(a, q),
           UNCHANGED <<need, crossed>>
    PROVE  Kept
  <1> DEFINE old == pending[q]
  <1> DEFINE new == [old EXCEPT !.status = "executing"]
  <1> DEFINE what == GrantOf(q, old, old.who)
  <1> DEFINE w == GrantTask(what, q)
  <1>1. old # None /\ old.kind = "share" /\ old.status = "pending" /\ HasTask /\ Begin(FreeTask, w)
      BY DEF ApproveShare
  <1>2. pending' = [pending EXCEPT ![q] = new]
      BY <1>1 DEF ApproveShare, EntriesOK, PendingOK
  <1>3. old \in Proposal /\ old \in ShareProposal /\ "executing" \in Statuses
      BY <1>1, ShareIs DEF EntriesOK, PendingOK, Statuses
  <1>4. new \in Proposal /\ new.kind = old.kind /\ new.status = "executing"
      BY <1>3, StatusIs
  <1>5. old.who \in Actors
      BY <1>3 DEF ShareProposal, Actors
  <1>6. what \in Granted /\ what.from = q /\ what.target \in Rids \cup {None}
      BY <1>3, <1>5, GrantOfIs
  <1>7. FreeTask \in Tasks /\ task[FreeTask] = Idle /\ Idle.kind = "idle" /\ AfterOf(Idle) = None /\ q \in After
      BY <1>1, FreeTaskIs DEF Idle, AfterOf, After
  <1> HIDE DEF what
  <1>8. Shape(w) /\ NeedCalm(Idle, w) /\ AfterOf(w) = q /\ w.kind = "grant" /\ w.then = Idle
      BY <1>6, <1>7, GrantIsCalm
  <1>9. QuotaOK' /\ UNCHANGED <<row, marks, due, shareVars>>
      BY SpendKeeps DEF ApproveShare, EntriesOK, Counted
  <1> HIDE DEF new, w
  <1>10. w.kind \in Runners
      BY <1>8 DEF Runners
  <1> QED BY <1>1, <1>2, <1>4, <1>7, <1>8, <1>9, <1>10, TakenUp

\* A call ends that was for nothing.
LEMMA BeginIdle ==
    ASSUME TasksOK, NEW t \in Tasks, task[t].kind # "close", Begin(t, Idle)
    PROVE  TasksOK' /\ TaskCalm
  <1>1. Shape(Idle) /\ Idle.kind \in Plain /\ AfterOf(Idle) = None
      BY DEF Shape, Idle, Plain, AfterOf
  <1> QED BY <1>1, BeginPlain

\* A share its person said yes to is otherwise the same.
Said(p, status) == [p EXCEPT !.status = status, !.said = TRUE]
\* A share its person said yes to is the same proposal still.
LEMMA SaidIs ==
    ASSUME NEW p \in ShareProposal, NEW status \in Statuses, NEW new, new = Said(p, status)
    PROVE  new \in ShareProposal /\ new \in Proposal /\ new.status = status /\ new.write = p.write /\ new.kind = "share"
  <1>1. new \in ShareProposal /\ new.status = status /\ new.write = p.write /\ new.kind = "share"
      BY DEF ShareProposal, Said
  <1> QED BY <1>1 DEF Proposal

\* A person's yes is recorded, for whoever comes next, or takes the share up.
LEMMA ConfirmWriteStep ==
    ASSUME EntriesOK, GrantsOK, SharedInv, QuestionInv, NEW t \in Tasks, ConfirmWrite(t), UNCHANGED <<need, crossed>>
    PROVE  Kept
  <1> DEFINE c == task[t]
  <1> DEFINE q == c.q
  <1> DEFINE old == pending[q]
  <1>1. c.kind = "confirm" /\ c \in ConfirmRec /\ AsRead(c)
      BY DEF ConfirmWrite, EntriesOK, TasksOK, Shape, SharedInv, ConfirmedAsRead
  <1>2. q \in Pendings /\ c.person \in People /\ c.read \in ShareProposal
      BY <1>1 DEF ConfirmRec
  <1>3. /\ old # None /\ old.kind = "share" /\ old \in ShareProposal /\ c.read.status \in {"pending", "waiting"}
        /\ old.status = "waiting" => c.read.write = old.write
      BY <1>1, ShareIs DEF AsRead, EntriesOK
  <1>4. UNCHANGED <<row, marks, due, quota, shareVars>>
      BY DEF ConfirmWrite
  <1>5. "confirmed" \in Statuses /\ "executing" \in Statuses /\ (old.status \in {"pending", "waiting"} => old.status \in Statuses)
      BY DEF Statuses
  <1>6. ASSUME old.status \in {"pending", "waiting"} PROVE q \notin refused /\ ~Spent(q)
      BY <1>6 DEF SharedInv, RefusedStays, Spent
  <1>7. ASSUME TaskCalm, NEW u \in Tasks, InRows(task'[u], q) PROVE old.status \in {"waiting", "confirmed", "rejected"}
      BY <1>2, <1>7, CalmRows DEF SharedInv, ReadStillWaits, Waits
  <1>8. Begin(t, Idle) => TasksOK' /\ TaskCalm
      BY <1>1, BeginIdle DEF EntriesOK
  <1>9. CASE Begin(t, Idle) /\ UNCHANGED pending
    <2>1. RowsOK' /\ MarksOK' /\ DueOK' /\ PendingOK' /\ PendingCalm /\ QuotaOK' /\ RowsCalm
        BY <1>4, <1>9, StillThere, PendingStays DEF EntriesOK, QuotaOK, RowsCalm
    <2>2. GrantsOK' /\ GrantsCalm /\ UNCHANGED refused
        BY <1>4, <1>8, <1>9, GrantsStay
    <2>3. Calmly
        BY <1>8, <1>9, <2>1, <2>2 DEF Calmly, EntryCalm, EntriesOK
    <2> QED BY <2>3, CalmKept
  <1>10. CASE ~SharesDirectly(c.person) /\ old.status \in {"pending", "waiting"}
    <2> DEFINE new == Said(c.read, old.status)
    <2>1. pending' = [pending EXCEPT ![q] = new] /\ Begin(t, Idle)
        BY <1>10 DEF ConfirmWrite, Said
    <2>2. new \in ShareProposal /\ new.status = old.status /\ new.write = c.read.write
      <3>1. old.status \in Statuses
          BY <1>5, <1>10
      <3> HIDE DEF old
      <3> QED BY <1>2, <3>1, SaidIs
    <2> HIDE DEF new
    <2>3. \A u \in Tasks : InRows(task'[u], q) => old.status = "waiting"
        BY <1>7, <1>8, <1>10, <2>1
    <2> QED BY <1>2, <1>3, <1>4, <1>6, <1>8, <1>10, <2>1, <2>2, <2>3, OneKept
  <1>11. CASE SharesDirectly(c.person) /\ Still(q, c.read.status) /\ c.read.status = "waiting"
    <2> DEFINE new == Said(old, "confirmed")
    <2>1. pending' = [pending EXCEPT ![q] = new] /\ Begin(t, Idle)
        BY <1>2, <1>11 DEF ConfirmWrite, EntriesOK, PendingOK, Said
    <2>2. new \in ShareProposal /\ new.status = "confirmed" /\ new.write = old.write
        BY <1>3, <1>5, SaidIs
    <2>3. old.status = "waiting"
        BY <1>11 DEF Still
    <2> HIDE DEF new
    <2> QED BY <1>2, <1>3, <1>4, <1>6, <1>8, <2>1, <2>2, <2>3, OneKept
  <1>12. CASE SharesDirectly(c.person) /\ Still(q, c.read.status) /\ c.read.status # "waiting"
    <2> DEFINE new == Said(old, "executing")
    <2> DEFINE what == GrantOf(q, c.read, c.person)
    <2> DEFINE w == GrantTask(what, q)
    <2>1. pending' = [pending EXCEPT ![q] = new] /\ Begin(t, w)
        BY <1>2, <1>12 DEF ConfirmWrite, EntriesOK, PendingOK, Said
    <2>2. new \in Proposal /\ new.status = "executing" /\ new.kind = old.kind
        BY <1>3, <1>5, SaidIs
    <2>3. old.status = "pending"
        BY <1>3, <1>12 DEF Still
    <2>4. c.person \in Actors
        BY <1>2 DEF Actors
    <2>5. what \in Granted /\ what.from = q /\ what.target \in Rids \cup {None}
        BY <1>2, <2>4, GrantOfIs
    <2>6. q \in After /\ AfterOf(c) = None /\ c.kind # "close"
        BY <1>1, <1>2 DEF AfterOf, After
    <2> HIDE DEF what
    <2>7. Shape(w) /\ NeedCalm(c, w) /\ AfterOf(w) = q /\ w.kind = "grant" /\ w.then = Idle
        BY <2>5, <2>6, GrantIsCalm
    <2>8. QuotaOK'
        BY <1>4 DEF EntriesOK, QuotaOK
    <2> HIDE DEF new, w
    <2>9. w.kind \in Runners
        BY <2>7 DEF Runners
    <2> QED BY <1>2, <1>3, <1>4, <2>1, <2>2, <2>3, <2>6, <2>7, <2>8, <2>9, TakenUp
  <1>13. \/ Begin(t, Idle) /\ UNCHANGED pending
         \/ ~SharesDirectly(c.person) /\ old.status \in {"pending", "waiting"}
         \/ SharesDirectly(c.person) /\ Still(q, c.read.status)
      BY DEF ConfirmWrite
  <1> QED BY <1>9, <1>10, <1>11, <1>12, <1>13

\* What is left of a resolution after one share.
Left(v, q) ==
    LET left == Restrict(v.rows, DOMAIN v.rows \ {q})
    IN IF DOMAIN left = {} THEN Idle ELSE [v EXCEPT !.rows = left]
\* What is left of a resolution after one share has read no more than before, and that one no longer.
LEMMA LeftIs ==
    ASSUME NEW v \in ResolveRec, NEW q, NEW next, next = Left(v, q)
    PROVE  /\ next \in Later /\ Shape(next) /\ next.kind \in {"idle", "resolve"} /\ AfterOf(next) = None
           /\ next.kind = "resolve" => ReadNow(v, next)
           /\ ~HasRead(next, q)
  <1> DEFINE left == Restrict(v.rows, DOMAIN v.rows \ {q})
  <1>1. v.kind = "resolve" /\ v.rows \in Some(Pendings, ShareProposal)
      BY DEF ResolveRec
  <1>2. left \in Some(Pendings, ShareProposal)
      BY <1>1, SomeLeft, Zenon
  <1>3. \A p \in DOMAIN left : p \in DOMAIN v.rows /\ p # q /\ left[p] = v.rows[p]
      BY DEF Restrict
  <1>4. next = IF DOMAIN left = {} THEN Idle ELSE [v EXCEPT !.rows = left]
      BY DEF Left
  <1> HIDE DEF left
  <1>5. CASE DOMAIN left = {}
      BY <1>4, <1>5 DEF Later, Shape, Idle, AfterOf, HasRead
  <1>6. CASE DOMAIN left # {}
    <2>1. next = [v EXCEPT !.rows = left]
        BY <1>4, <1>6
    <2>2. next \in ResolveRec /\ next.kind = "resolve" /\ next.write = v.write /\ next.rows = left
        BY <1>1, <1>2, <2>1 DEF ResolveRec
    <2>3. ReadNow(v, next) /\ ~HasRead(next, q)
        BY <1>1, <1>3, <2>2 DEF ReadNow, HasRead
    <2> QED BY <2>2, <2>3 DEF Later, Shape, AfterOf
  <1> QED BY <1>5, <1>6

\* A resolution decides one of the shares it read: it fails, is put up for a decision, or is made.
LEMMA ResolveOneStep ==
    ASSUME EntriesOK, GrantsOK, SharedInv, QuestionInv, NEW t \in Tasks, task[t].kind = "resolve", NEW q \in DOMAIN task[t].rows,
           ResolveOne(t, q), UNCHANGED <<need, crossed>>
    PROVE  Kept
  <1> DEFINE v == task[t]
  <1> DEFINE old == pending[q]
  <1> DEFINE p == v.rows[q]
  <1> DEFINE next == Left(v, q)
  <1> DEFINE owner == Person(p.who)
  <1> DEFINE rid == RidOf(p.e)
  <1> DEFINE home == row[rid].home
  <1> DEFINE stored == Stored(p.e) /\ Owns(owner, home)
  <1> DEFINE resolved == [p EXCEPT !.rid = rid, !.home = home, !.write = None]
  <1>1. v \in ResolveRec /\ v.write \in Pendings /\ Resolution(v) = v /\ AfterOf(v) = None /\ v.kind # "close"
      BY DEF EntriesOK, TasksOK, Shape, Resolution, Makers, AfterOf, ResolveRec
  <1>2. q \in Pendings /\ p \in ShareProposal
    <2>1. v.rows \in Some(Pendings, ShareProposal)
        BY <1>1 DEF ResolveRec
    <2> QED BY <2>1, SomeIs
  <1>3. InRows(v, q)
      BY <1>1 DEF InRows, HasRead
  <1>4. /\ old # None /\ old.kind = "share" /\ old.write = v.write /\ old.status \in {"waiting", "confirmed", "rejected"}
        /\ p.status = "confirmed" => old.status # "waiting"
      BY <1>1, <1>2, <1>3 DEF SharedInv, ReadStillWaits
  <1>5. q \notin refused
      BY <1>3 DEF SharedInv, RefusedStays
  <1>6. ~Spent(q)
      BY <1>1, <1>4, NoneAfter DEF Spent
  <1>7. \A u \in Tasks \ {t} : ~InRows(task[u], q)
    <2> SUFFICES ASSUME NEW u \in Tasks \ {t}, InRows(task[u], q) PROVE FALSE
        OBVIOUS
    <2>1. Resolves(task[u], v.write) /\ Resolves(v, v.write)
        BY <1>1, <1>2, <1>4 DEF InRows, HasRead, Resolves, SharedInv, ReadStillWaits
    <2> QED BY <1>1, <2>1 DEF SharedInv, OneHolds, Holding
  <1>8. /\ next \in Later /\ Shape(next) /\ next.kind \in {"idle", "resolve"} /\ AfterOf(next) = None
        /\ next.kind = "resolve" => ReadNow(v, next)
        /\ ~HasRead(next, q)
      BY <1>1, LeftIs
  <1>9. Resolution(next) = next
      BY <1>8 DEF Resolution, Makers
  <1>10. UNCHANGED <<row, marks, due, quota, shareVars>>
      BY DEF ResolveOne
  <1>11. old \in ShareProposal
      BY <1>2, <1>4, ShareIs DEF EntriesOK
  <1>12. Stored(p.e) => rid \in Rids /\ home \in Homes
    <2>1. Stored(p.e) => rid \in Rids /\ row[rid] # None
        BY RidOfIs
    <2> QED BY <2>1, RowIs DEF EntriesOK
  <1>13. /\ ~stored => pending' = [pending EXCEPT ![q].status = "failed"] /\ Begin(t, next)
         /\ stored /\ p.status = "confirmed" /\ SharesDirectly(owner) =>
               /\ pending' = [pending EXCEPT ![q] = [resolved EXCEPT !.status = old.status]]
               /\ Begin(t, [GrantTask(GrantOf(q, resolved, owner), q) EXCEPT !.then = next])
         /\ stored /\ ~(p.status = "confirmed" /\ SharesDirectly(owner)) =>
               pending' = [pending EXCEPT ![q] = [resolved EXCEPT !.status = "pending"]] /\ Begin(t, next)
      BY DEF ResolveOne, Left
  <1> HIDE DEF next, stored, owner
  <1>14. ASSUME Begin(t, next)
         PROVE  /\ TasksOK' /\ TaskCalm
                /\ \A u \in Tasks : ~InRows(task'[u], q)
    <2>1. ShareCalm(v, next) /\ NeedCalm(v, next)
        BY <1>1, <1>8, <1>9 DEF ShareCalm, NeedCalm, Makers, Concerns, Opens, Late
    <2>2. TasksOK' /\ TaskCalm
        BY <1>8, <1>14, <2>1, BeginCalm DEF EntriesOK
    <2>3. task'[t] = next /\ \A u \in Tasks \ {t} : task'[u] = task[u]
        BY <1>8, <1>14, BeginOK DEF EntriesOK
    <2> QED BY <1>7, <1>8, <1>9, <2>2, <2>3 DEF InRows
  <1>15. ASSUME NEW new \in ShareProposal, new.status \in {"pending", "failed"}, pending' = [pending EXCEPT ![q] = new], Begin(t, next)
         PROVE  Kept
      BY <1>2, <1>4, <1>5, <1>6, <1>10, <1>14, <1>15, OneKept
  <1>16. CASE ~stored
    <2> DEFINE new == [old EXCEPT !.status = "failed"]
    <2>1. pending' = [pending EXCEPT ![q] = new] /\ Begin(t, next)
        BY <1>2, <1>13, <1>16 DEF EntriesOK, PendingOK
    <2>2. new \in ShareProposal /\ new.status = "failed"
        BY <1>11 DEF ShareProposal, Statuses
    <2> HIDE DEF new
    <2> QED BY <1>15, <2>1, <2>2
  <1>17. CASE stored /\ ~(p.status = "confirmed" /\ SharesDirectly(owner))
    <2> DEFINE new == [resolved EXCEPT !.status = "pending"]
    <2>1. pending' = [pending EXCEPT ![q] = new] /\ Begin(t, next)
        BY <1>13, <1>17
    <2>2. rid \in Rids /\ home \in Homes
        BY <1>12, <1>17 DEF stored
    <2> HIDE DEF rid, home, p
    <2>3. new \in ShareProposal /\ new.status = "pending"
        BY <1>2, <2>2 DEF ShareProposal, Statuses
    <2> HIDE DEF new
    <2> QED BY <1>15, <2>1, <2>3
  <1>18. CASE stored /\ p.status = "confirmed" /\ SharesDirectly(owner)
    <2> DEFINE new == [resolved EXCEPT !.status = old.status]
    <2> DEFINE what == GrantOf(q, resolved, owner)
    <2> DEFINE plain == GrantTask(what, q)
    <2> DEFINE w == [plain EXCEPT !.then = next]
    <2>1. pending' = [pending EXCEPT ![q] = new] /\ Begin(t, w)
        BY <1>13, <1>18
    <2>2. rid \in Rids /\ home \in Homes
        BY <1>12, <1>18 DEF stored
    <2>3. owner \in Actors
        BY <1>2, SharesAssumption DEF owner, Person, ShareProposal, Actors
    <2>4. old.status \in {"confirmed", "rejected"}
        BY <1>4, <1>18
    <2> HIDE DEF rid, home, p, old
    <2>5. resolved \in ShareProposal
        BY <1>2, <2>2 DEF ShareProposal
    <2>6. new \in ShareProposal /\ new.status = old.status /\ new.write = None /\ new.kind = "share"
        BY <1>2, <2>2, <2>4 DEF ShareProposal, Statuses
    <2> HIDE DEF resolved
    <2>7. what \in Granted /\ what.from = q /\ what.target \in Rids \cup {None}
        BY <1>2, <2>3, <2>5, GrantOfIs
    <2> HIDE DEF what
    <2>8. q \in After
        BY <1>2 DEF After
    <2>9. w = [kind |-> "grant", what |-> what, after |-> q, then |-> next]
        BY DEF GrantTask
    <2>10. w \in GrantRec /\ w.kind = "grant" /\ w.what = what /\ w.after = q /\ w.then = next
        BY <1>8, <2>7, <2>8, <2>9 DEF GrantRec
    <2> HIDE DEF w, new
    <2>11. Shape(w) /\ AfterOf(w) = q /\ Resolution(w) = next
        BY <2>7, <2>10 DEF Shape, AfterOf, Resolution, Makers
    <2>12. \A x \in Asked : what.target # x
        BY <2>7, TargetIsNoQuestion
    <2>13. NeedCalm(v, w)
        BY <1>1, <1>8, <2>10, <2>12 DEF NeedCalm, Concerns, Opens, Late, Makers
    <2>14. new \in Proposal /\ QuotaOK'
        BY <1>10, <2>6 DEF Proposal, EntriesOK, QuotaOK
    <2>15. /\ EntriesOK' /\ GrantsOK' /\ RowsCalm /\ QuestionInv'
           /\ task'[t] = w /\ \A u \in Tasks \ {t} : task'[u] = task[u]
           /\ pending'[q] = new /\ \A u \in Pendings \ {q} : pending'[u] = pending[u]
        BY <1>2, <1>10, <2>1, <2>10, <2>11, <2>13, <2>14, ClaimRest
    <2>16. new # None
        BY <2>14, KnowledgeAssumption
    <2>17. Spent(q)'
        BY <2>4, <2>6, <2>15, <2>16 DEF Spent
    <2>18. ~InRows(w, q) /\ (Resolution(w).kind = "resolve" => ReadNow(Resolution(v), Resolution(w)))
        BY <1>1, <1>8, <2>11 DEF InRows
    <2>19. \A u \in Tasks : ~Resolves(task[u], q)
        BY <1>2, <1>4 DEF SharedInv, ResolvedRan, old
    <2>20. w.kind # "confirm" /\ (w.kind \notin Makers => pending[q].kind # "share") /\ new.kind = pending[q].kind /\ pending[q] # None
        BY <1>4, <2>6, <2>10 DEF Makers, old
    <2>21. SharedInv'
        BY <1>1, <1>2, <1>5, <1>6, <1>7, <1>10, <2>11, <2>15, <2>17, <2>18, <2>19, <2>20, ClaimShared
    <2> QED BY <2>15, <2>21 DEF Kept
  <1> QED BY <1>16, <1>17, <1>18

\* A resolution makes, refuses or leaves one of the shares it has read (resolveWaitingShares).
LEMMA ResolveStepOK ==
    ASSUME EntriesOK, GrantsOK, SharedInv, QuestionInv, NEW t \in Tasks, ResolveStep(t), UNCHANGED <<need, crossed>>
    PROVE  Kept
  BY ResolveOneStep DEF ResolveStep

\* A merge's call is of its kind,
LEMMA MergeTaskOK ==
    ASSUME NEW keep \in Tids, NEW drop \in Tids, NEW after \in After
    PROVE  /\ Shape(MergeTask(keep, drop, after)) /\ AfterOf(MergeTask(keep, drop, after)) = after
           /\ MergeTask(keep, drop, after).kind = "merge"
  <1> DEFINE w == MergeTask(keep, drop, after)
  <1>1. w \in MergeRec /\ w.kind = "merge" /\ w.after = after /\ w.step = "read"
      BY DEF MergeTask, MergeRec
  <1> HIDE DEF w
  <1> QED BY <1>1 DEF Shape, AfterOf, w

\* ... and so is a fold's.
LEMMA FoldTaskOK ==
    ASSUME NEW keep \in Rids, NEW drop \in Rids, NEW after \in After
    PROVE  /\ Shape(FoldTask(keep, drop, after)) /\ AfterOf(FoldTask(keep, drop, after)) = after
           /\ FoldTask(keep, drop, after).kind = "fold"
  <1> DEFINE w == FoldTask(keep, drop, after)
  <1>1. w \in FoldRec /\ w.kind = "fold" /\ w.after = after /\ w.step = "read"
      BY DEF FoldTask, FoldRec
  <1> HIDE DEF w
  <1> QED BY <1>1 DEF Shape, AfterOf, w

\* An approved proposal's call is started.
LEMMA TakenUpPlain ==
    ASSUME EntriesOK, GrantsOK, SharedInv, QuestionInv, HasTask, NEW w, Shape(w), Begin(FreeTask, w),
           w.kind \in {"write", "typed", "move", "merge", "fold", "delete"},
           NEW q \in Pendings, AfterOf(w) = q, pending[q] # None, pending[q].status = "pending", pending[q].kind # "share",
           pending' = [pending EXCEPT ![q].status = "executing"],
           QuotaOK', UNCHANGED <<row, marks, due, shareVars, need, crossed>>
    PROVE  Kept
  <1> DEFINE old == pending[q]
  <1> DEFINE new == [old EXCEPT !.status = "executing"]
  <1>1. pending' = [pending EXCEPT ![q] = new]
      BY DEF EntriesOK, PendingOK
  <1>2. old \in Proposal /\ "executing" \in Statuses
      BY DEF EntriesOK, PendingOK, Statuses
  <1>3. new \in Proposal /\ new.kind = old.kind /\ new.status = "executing"
      BY <1>2, StatusIs
  <1>4. PICK t \in Tasks : t = FreeTask
      BY FreeTaskIs
  <1>5. task[t] = Idle /\ Idle.kind = "idle" /\ AfterOf(Idle) = None
      BY <1>4, FreeTaskIs DEF Idle, AfterOf
  <1>6. NeedCalm(Idle, w)
      BY <1>5 DEF NeedCalm, Concerns, Opens, Late, Makers
  <1> HIDE DEF new
  <1>7. Begin(t, w) /\ NeedCalm(task[t], w) /\ AfterOf(task[t]) = None
      BY <1>4, <1>6, <1>5
  <1>8. /\ w.kind \in Runners
        /\ w.kind = "grant" => w.then = Idle
        /\ w.kind # "grant" => pending[q].kind # "share"
      BY DEF Runners
  <1> QED BY <1>1, <1>3, <1>7, <1>8, TakenUp

\* An approver runs a queued write or a proposed move.
LEMMA ApproveStep ==
    ASSUME EntriesOK, GrantsOK, SharedInv, QuestionInv, NEW a \in quota.approvers, NEW q \in Pendings, Approve(a, q),
           UNCHANGED <<shareVars, need, crossed>>
    PROVE  Kept
  <1> DEFINE p == pending[q]
  <1>1. p # None /\ p.kind \in {"upsert", "rehome", "typed"} /\ p.status = "pending" /\ HasTask /\ p \in Proposal
      BY DEF Approve, EntriesOK, PendingOK
  <1>2. pending' = [pending EXCEPT ![q].status = "executing"] /\ UNCHANGED <<row, marks, due>>
      BY DEF Approve
  <1>3. QuotaOK'
      BY SpendKeeps DEF Approve, EntriesOK, Counted
  <1>4. q \in After
      BY DEF After
  <1>5. /\ p.kind = "rehome" => Begin(FreeTask, MoveTask(p.rid, p.e, p.from, p.to, IsPerson(a), q))
        /\ p.kind = "upsert" => Begin(FreeTask, WriteTask(p.e, p.floor, p.by, p.worker, q))
        /\ p.kind = "typed" => Begin(FreeTask, [kind |-> "typed", rid |-> p.rid, floor |-> None, read |-> row[p.rid], after |-> q])
      BY <1>1 DEF Approve
  <1>6. ASSUME NEW w, Shape(w), Begin(FreeTask, w), w.kind \in {"write", "typed", "move"}, AfterOf(w) = q PROVE Kept
      BY <1>1, <1>2, <1>3, <1>6, TakenUpPlain
  <1>7. CASE p.kind = "rehome"
    <2> DEFINE rid == p.rid
    <2> DEFINE e == p.e
    <2> DEFINE from == p.from
    <2> DEFINE to == p.to
    <2> DEFINE person == IsPerson(a)
    <2> DEFINE w == MoveTask(rid, e, from, to, person, q)
    <2>1. rid \in Rids /\ e \in Entries /\ from \in Homes /\ to \in Homes /\ person \in BOOLEAN
        BY <1>1, <1>7 DEF Proposal, ShareProposal, IsPerson
    <2>2. Begin(FreeTask, w)
        BY <1>5, <1>7
    <2> HIDE DEF rid, e, from, to, person
    <2>3. Shape(w) /\ AfterOf(w) = q /\ w.kind = "move"
        BY <1>4, <2>1, NoneAfter, MoveTaskOK DEF EntriesOK
    <2> HIDE DEF w
    <2> QED BY <1>6, <2>2, <2>3
  <1>8. CASE p.kind = "upsert"
    <2> DEFINE e == p.e
    <2> DEFINE floor == p.floor
    <2> DEFINE by == p.by
    <2> DEFINE worker == p.worker
    <2> DEFINE w == WriteTask(e, floor, by, worker, q)
    <2>1. e \in Entries /\ floor \in Homes /\ by \in By /\ worker \in BOOLEAN /\ (worker \/ floor \in AtOrAbove(Origin[e]))
        BY <1>1, <1>8 DEF Proposal, ShareProposal, By
    <2>2. Begin(FreeTask, w)
        BY <1>5, <1>8
    <2> HIDE DEF e, floor, by, worker
    <2>3. Shape(w) /\ AfterOf(w) = q /\ w.kind = "write"
        BY <1>4, <2>1, WriteTaskOK DEF EntriesOK
    <2> HIDE DEF w
    <2> QED BY <1>6, <2>2, <2>3
  <1>9. CASE p.kind = "typed"
    <2> DEFINE rid == p.rid
    <2> DEFINE read == row[rid]
    <2> DEFINE w == [kind |-> "typed", rid |-> rid, floor |-> None, read |-> read, after |-> q]
    <2>1. rid \in Rids
        BY <1>1, <1>9 DEF Proposal, ShareProposal
    <2>2. read \in Row \cup {None}
        BY <2>1 DEF EntriesOK, RowsOK
    <2>3. Begin(FreeTask, w)
        BY <1>5, <1>9
    <2> HIDE DEF rid, read
    <2>4. w \in TypedRec /\ w.kind = "typed" /\ w.after = q
        BY <1>4, <2>1, <2>2 DEF TypedRec
    <2> HIDE DEF w
    <2>5. Shape(w) /\ AfterOf(w) = q
        BY <2>4, NoneAfter DEF Shape, AfterOf
    <2> QED BY <1>6, <2>3, <2>4, <2>5
  <1> QED BY <1>1, <1>7, <1>8, <1>9

\* An approver runs a proposed merge, fold or delete.
LEMMA ApproveThingStep ==
    ASSUME EntriesOK, GrantsOK, SharedInv, QuestionInv, NEW a \in quota.approvers, NEW q \in Pendings, ApproveThing(a, q)
    PROVE  Kept
  <1> DEFINE p == pending[q]
  <1>1. p # None /\ p.kind \in {"merge", "fold", "delete"} /\ p.status = "pending" /\ HasTask /\ p \in Proposal
      BY DEF ApproveThing, EntriesOK, PendingOK
  <1>2. pending' = [pending EXCEPT ![q].status = "executing"] /\ UNCHANGED <<row, marks, due, shareVars, need, crossed>>
      BY DEF ApproveThing, others, needVars
  <1>3. QuotaOK'
      BY SpendKeeps DEF ApproveThing, EntriesOK, Counted
  <1>4. q \in After
      BY DEF After
  <1>5. /\ p.kind = "merge" => Begin(FreeTask, MergeTask(p.keep, p.drop, q))
        /\ p.kind = "fold" => Begin(FreeTask, FoldTask(p.keep, p.drop, q))
        /\ p.kind = "delete" => Begin(FreeTask, [kind |-> "delete", drop |-> p.drop, after |-> q])
      BY <1>1 DEF ApproveThing
  <1>6. ASSUME NEW w, Shape(w), Begin(FreeTask, w), w.kind \in {"merge", "fold", "delete"}, AfterOf(w) = q PROVE Kept
      BY <1>1, <1>2, <1>3, <1>6, TakenUpPlain
  <1> DEFINE keep == p.keep
  <1> DEFINE drop == p.drop
  <1>7. CASE p.kind = "merge"
    <2> DEFINE w == MergeTask(keep, drop, q)
    <2>1. keep \in Tids /\ drop \in Tids
        BY <1>1, <1>7 DEF Proposal, ShareProposal
    <2>2. Begin(FreeTask, w)
        BY <1>5, <1>7
    <2> HIDE DEF keep, drop
    <2>3. Shape(w) /\ AfterOf(w) = q /\ w.kind = "merge"
        BY <1>4, <2>1, MergeTaskOK
    <2> HIDE DEF w
    <2> QED BY <1>6, <2>2, <2>3
  <1>8. CASE p.kind = "fold"
    <2> DEFINE w == FoldTask(keep, drop, q)
    <2>1. keep \in Rids /\ drop \in Rids
        BY <1>1, <1>8 DEF Proposal, ShareProposal
    <2>2. Begin(FreeTask, w)
        BY <1>5, <1>8
    <2> HIDE DEF keep, drop
    <2>3. Shape(w) /\ AfterOf(w) = q /\ w.kind = "fold"
        BY <1>4, <2>1, FoldTaskOK
    <2> HIDE DEF w
    <2> QED BY <1>6, <2>2, <2>3
  <1>9. CASE p.kind = "delete"
    <2> DEFINE w == [kind |-> "delete", drop |-> drop, after |-> q]
    <2>1. drop \in Rids
        BY <1>1, <1>9 DEF Proposal, ShareProposal
    <2>2. Begin(FreeTask, w)
        BY <1>5, <1>9
    <2> HIDE DEF drop
    <2>3. w \in DeleteRec /\ w.kind = "delete" /\ w.after = q
        BY <1>4, <2>1 DEF DeleteRec
    <2> HIDE DEF w
    <2>4. Shape(w) /\ AfterOf(w) = q
        BY <2>3 DEF Shape, AfterOf
    <2> QED BY <1>6, <2>2, <2>3, <2>4
  <1> QED BY <1>1, <1>7, <1>8, <1>9

\* What a call resolves is a resolution's record.
LEMMA ResolutionIs ==
    ASSUME NEW w, Shape(w), Resolution(w).kind = "resolve"
    PROVE  Resolution(w) \in ResolveRec /\ Resolution(w).write \in Pendings
  <1>1. Resolution(w) \in ResolveRec
    <2>1. CASE w.kind \in Makers
      <3>1. w.then \in Later
          BY <2>1 DEF Shape, Makers, GrantRec, RefreshRec, SettleRec
      <3>2. w.then.kind = "resolve"
          BY <2>1 DEF Resolution
      <3>3. w.then \in ResolveRec
          BY <3>1, <3>2 DEF Later, Idle
      <3> QED BY <2>1, <3>3 DEF Resolution
    <2>2. CASE w.kind \notin Makers
      <3>1. w.kind = "resolve" /\ Resolution(w) = w
          BY <2>2 DEF Resolution
      <3> QED BY <3>1 DEF Shape
    <2> QED BY <2>1, <2>2
  <1> QED BY <1>1 DEF ResolveRec

\* What is spent is read by no resolution.
LEMMA SpentNotRead ==
    ASSUME TasksOK, SharedInv, NEW q \in Pendings, Spent(q), NEW t \in Tasks
    PROVE  /\ ~InRows(task[t], q)
           /\ Resolution(task[t]).kind = "resolve" => ~Waits(q, Resolution(task[t]).write)
  <1>1. Resolution(task[t]).kind = "resolve" => Resolution(task[t]).write \in Pendings
      BY ResolutionIs DEF TasksOK
  <1>2. InRows(task[t], q) => Resolution(task[t]).kind = "resolve"
      BY DEF InRows, HasRead
  <1> QED BY <1>1, <1>2, NoneAfter DEF SharedInv, ReadStillWaits, Spent, Waits

\* What a grant's call goes on with settles no proposal of its own.
LEMMA LaterIs ==
    ASSUME NEW w \in Later
    PROVE  /\ Shape(w) /\ AfterOf(w) = None /\ w.kind \in {"idle", "resolve", "open"} /\ (w.kind = "open" => w.step = "show")
           /\ Resolution(w) = w
  <1>1. CASE w = Idle
      BY <1>1 DEF Idle, Shape, AfterOf, Resolution, Makers
  <1>2. CASE w \in ResolveRec
    <2>1. w.kind = "resolve"
        BY <1>2 DEF ResolveRec
    <2> QED BY <1>2, <2>1 DEF Shape, AfterOf, Resolution, Makers
  <1>3. CASE w \in [kind : {"open"}, step : {"show"}, q : Asked, to : SUBSET Recipients]
    <2>1. w.kind = "open" /\ w.step = "show"
        BY <1>3
    <2>2. w \in OpenRec
        BY <1>3 DEF OpenRec
    <2> QED BY <2>1, <2>2 DEF Shape, AfterOf, Resolution, Makers
  <1> QED BY <1>1, <1>2, <1>3 DEF Later

\* The start of a resolution.
LEMMA ResolveIs ==
    ASSUME NEW q \in Pendings
    PROVE  /\ Resolve(q) \in Later /\ Resolve(q).kind = "resolve" /\ Resolve(q).write = q
           /\ \A p : ~HasRead(Resolve(q), p)
  <1> DEFINE none == << >>
  <1> DEFINE w == [kind |-> "resolve", write |-> q, rows |-> none, read |-> FALSE]
  <1>1. none \in [{} -> ShareProposal] /\ DOMAIN none = {}
      OBVIOUS
  <1>2. none \in Some(Pendings, ShareProposal)
      BY <1>1 DEF Some
  <1>3. Resolve(q) = w
      BY DEF Resolve
  <1> HIDE DEF none
  <1>4. w \in ResolveRec /\ w.kind = "resolve" /\ w.write = q /\ w.rows = none
      BY <1>2 DEF ResolveRec
  <1> HIDE DEF w
  <1> QED BY <1>1, <1>3, <1>4 DEF Later, HasRead

\* A proposal is settled, and what waited on it is resolved if it was a write.
LEMMA SettleStep ==
    ASSUME EntriesOK, GrantsOK, SharedInv, QuestionInv, NEW t \in Tasks, Settle(t, AfterSettle(t)),
           UNCHANGED <<shareVars, need, crossed>>
    PROVE  Kept
  <1> DEFINE v == task[t]
  <1>0. PICK q \in Pendings : q = v.after
      BY DEF Settle, EntriesOK, TasksOK, Shape, SettleRec
  <1> DEFINE old == pending[q]
  <1> DEFINE status == IF v.ok THEN "approved" ELSE "failed"
  <1> DEFINE new == [old EXCEPT !.status = status]
  <1> DEFINE w == AfterSettle(t)
  <1>1. v.kind = "settle" /\ v \in SettleRec /\ AfterOf(v) = q /\ Resolution(v) = v.then /\ v.kind \in Makers
      BY <1>0 DEF Settle, EntriesOK, TasksOK, Shape, AfterOf, Resolution, Makers
  <1>2. q \in Pendings /\ v.then \in Later
      BY <1>1 DEF SettleRec
  <1>3. Claims(v, q) /\ Holding(v, q)
      BY <1>1 DEF Claims, Holding
  <1>4. Spent(q) /\ old # None
      BY <1>2, <1>3 DEF SharedInv, ClaimedIsSpent, Spent
  <1>5. pending' = [pending EXCEPT ![q] = new] /\ Begin(t, w) /\ UNCHANGED <<row, marks, due, quota>>
      BY <1>0 DEF Settle, EntriesOK, PendingOK
  <1>6. status \in Statuses /\ status \in {"approved", "failed"} /\ old \in Proposal
      BY <1>2, <1>4 DEF Statuses, EntriesOK, PendingOK
  <1>7. w = IF v.ok /\ old.kind = "upsert" THEN Resolve(q) ELSE v.then
      BY <1>0 DEF AfterSettle
  <1> HIDE DEF status
  <1>8. new \in Proposal /\ new # None /\ new.kind = old.kind /\ new.status = status
    <2> HIDE DEF old
    <2> QED BY <1>6, StatusIs
  <1> HIDE DEF new, w
  <1>9. w \in Later
      BY <1>2, <1>7, ResolveIs
  <1>10. Shape(w) /\ AfterOf(w) = None /\ w.kind \in {"idle", "resolve", "open"} /\ (w.kind = "open" => w.step = "show") /\ Resolution(w) = w
      BY <1>9, LaterIs
  <1>11. NeedCalm(v, w)
      BY <1>1, <1>7, <1>10, <1>2, ResolveIs DEF NeedCalm, Concerns, Opens, Late, Makers
  <1>12. QuotaOK' /\ w.kind # "refresh"
      BY <1>5, <1>10 DEF EntriesOK, QuotaOK
  <1>13. /\ EntriesOK' /\ GrantsOK' /\ RowsCalm /\ QuestionInv'
         /\ task'[t] = w /\ \A u \in Tasks \ {t} : task'[u] = task[u]
         /\ pending'[q] = new /\ \A u \in Pendings \ {q} : pending'[u] = pending[u]
      BY <1>2, <1>5, <1>8, <1>10, <1>11, <1>12, ClaimRest
  <1>14. UNCHANGED <<grant, refused>> /\ \A p : Made(p)' <=> Made(p)
      BY DEF shareVars, Made
  <1>15. \A u \in Tasks : ~InRows(task[u], q)
      BY <1>2, <1>4, SpentNotRead DEF EntriesOK
  <1>16. Spent(q)'
      BY <1>6, <1>8, <1>13 DEF Spent
  <1>17. \A p \in refused : p # q /\ p \in Pendings
      BY <1>3 DEF SharedInv, RefusedStays, GrantsOK
  <1>18. CASE w = v.then
    <2>1. ShareCalm(v, w)
        BY <1>1, <1>10, <1>18 DEF ShareCalm
    <2>2. TaskCalm
        BY <1>11, <1>12, <1>13, <2>1 DEF TaskCalm, CallCalm
    <2>3. \A u \in Tasks : ~InRows(task'[u], q)
        BY <1>2, <1>4, <2>2, CalmRows, SpentNotRead DEF EntriesOK
    <2>4. Softly(q)
        BY <1>6, <1>8, <1>13, <1>16, <2>3 DEF Softly
    <2>5. PendingSoft
        BY <1>13, <2>4 DEF PendingSoft
    <2>6. GrantsCalm
        BY <1>14 DEF GrantsCalm
    <2>7. RefusedStays'
      <3> SUFFICES ASSUME NEW p \in refused
                   PROVE  /\ pending'[p] # None /\ pending'[p].status = "rejected" /\ ~Made(p)
                          /\ \A u \in Tasks : ~Claims(task'[u], p) /\ ~InRows(task'[u], p)
          BY <1>14 DEF RefusedStays
      <3>1. /\ p \in Pendings /\ p # q /\ pending[p] # None /\ pending[p].status = "rejected" /\ ~Made(p)
            /\ \A u \in Tasks : ~Claims(task[u], p) /\ ~InRows(task[u], p)
          BY <1>17 DEF SharedInv, RefusedStays
      <3>2. \A u \in Tasks : ~Claims(task'[u], p) /\ ~InRows(task'[u], p)
          BY <2>2, <3>1, CalmHolds, CalmRows DEF Waits
      <3> QED BY <1>13, <3>1, <3>2
    <2>8. SharedInv'
        BY <2>2, <2>5, <2>6, <2>7, SoftShared DEF EntriesOK
    <2> QED BY <1>13, <2>8 DEF Kept
  <1>19. CASE v.ok /\ old.kind = "upsert"
    <2>1. w = Resolve(q)
        BY <1>7, <1>19
    <2>2. w.kind = "resolve" /\ w.write = q /\ \A p : ~InRows(w, p)
        BY <1>2, <1>10, <2>1, ResolveIs DEF InRows
    <2>3. \A p \in Pendings : Holding(w, p) => p = q
        BY <1>10, <2>2, NoneAfter DEF Holding, Claims, Resolves
    <2>4. \A p \in Pendings : ~Claims(w, p)
        BY <1>10, NoneAfter DEF Claims
    <2>5. \A u \in Tasks \ {t} : ~Holding(task[u], q)
        BY <1>2, <1>3 DEF SharedInv, OneHolds
    <2>6. new.kind = "upsert" /\ new.status # "pending"
        BY <1>6, <1>8, <1>19
    <2>7. OneHolds'
      <3> SUFFICES ASSUME NEW x \in Tasks, NEW y \in Tasks, NEW p \in Pendings, x # y, Holding(task'[x], p), Holding(task'[y], p) PROVE FALSE
          BY DEF OneHolds
      <3>1. x # t => task'[x] = task[x]
          BY <1>13
      <3>2. y # t => task'[y] = task[y]
          BY <1>13
      <3>3. CASE x # t /\ y # t
          BY <3>1, <3>2, <3>3 DEF SharedInv, OneHolds
      <3>4. CASE x = t
          BY <1>13, <2>3, <2>5, <3>2, <3>4
      <3>5. CASE y = t
          BY <1>13, <2>3, <2>5, <3>1, <3>5
      <3> QED BY <3>3, <3>4, <3>5
    <2>8. ClaimedIsSpent'
      <3> SUFFICES ASSUME NEW u \in Tasks, NEW p \in Pendings, Claims(task'[u], p)
                   PROVE  /\ Spent(p)'
                          /\ task'[u].kind \notin Makers => pending'[p].kind # "share"
                          /\ task'[u].kind = "grant" => ~Made(p)
          BY <1>14 DEF ClaimedIsSpent
      <3>1. u # t /\ task'[u] = task[u]
          BY <1>13, <2>4
      <3>2. p # q /\ pending'[p] = pending[p]
          BY <1>13, <2>5, <3>1 DEF Holding
      <3> QED BY <3>1, <3>2 DEF SharedInv, ClaimedIsSpent, Spent
    <2>9. ResolvedRan'
      <3> SUFFICES ASSUME NEW u \in Tasks, NEW p \in Pendings, Resolves(task'[u], p)
                   PROVE  pending'[p] # None /\ pending'[p].kind = "upsert" /\ pending'[p].status # "pending"
          BY DEF ResolvedRan
      <3>1. CASE p = q
          BY <1>8, <1>13, <2>6, <3>1
      <3>2. CASE p # q
        <4>1. u # t
            BY <1>13, <2>3, <3>2 DEF Holding
        <4> QED BY <1>13, <3>2, <4>1 DEF SharedInv, ResolvedRan
      <3> QED BY <3>1, <3>2
    <2>10. ReadStillWaits'
      <3> SUFFICES ASSUME NEW u \in Tasks, NEW p \in Pendings, InRows(task'[u], p)
                   PROVE  /\ pending'[p] # None /\ pending'[p].kind = "share" /\ pending'[p].write = Resolution(task'[u]).write
                          /\ pending'[p].status \in {"waiting", "confirmed", "rejected"}
                          /\ Resolution(task'[u]).rows[p].status = "confirmed" => pending'[p].status # "waiting"
          BY DEF ReadStillWaits
      <3>1. u # t /\ task'[u] = task[u]
          BY <1>13, <2>2
      <3>2. p # q /\ pending'[p] = pending[p]
          BY <1>13, <1>15, <3>1
      <3> QED BY <3>1, <3>2 DEF SharedInv, ReadStillWaits
    <2>11. MadeIsSpent'
      <3> SUFFICES ASSUME NEW p \in Pendings, Made(p) PROVE Spent(p)'
          BY <1>14 DEF MadeIsSpent
      <3>1. CASE p = q
          BY <1>16, <3>1
      <3>2. CASE p # q
          BY <1>13, <3>2 DEF SharedInv, MadeIsSpent, Spent
      <3> QED BY <3>1, <3>2
    <2>12. MadeOnce'
        BY <1>14 DEF SharedInv, MadeOnce
    <2>13. RefusedStays'
      <3> SUFFICES ASSUME NEW p \in refused
                   PROVE  /\ pending'[p] # None /\ pending'[p].status = "rejected" /\ ~Made(p)
                          /\ \A u \in Tasks : ~Claims(task'[u], p) /\ ~InRows(task'[u], p)
          BY <1>14 DEF RefusedStays
      <3>1. /\ p \in Pendings /\ p # q /\ pending[p] # None /\ pending[p].status = "rejected" /\ ~Made(p)
            /\ \A u \in Tasks : ~Claims(task[u], p) /\ ~InRows(task[u], p)
          BY <1>17 DEF SharedInv, RefusedStays
      <3> QED BY <1>13, <2>2, <2>4, <3>1
    <2>14. ConfirmedAsRead'
      <3> SUFFICES ASSUME NEW u \in Tasks, task'[u].kind = "confirm"
                   PROVE  /\ task'[u].q \in Pendings /\ pending'[task'[u].q] # None /\ pending'[task'[u].q].kind = "share" /\ task'[u].read.status \in {"pending", "waiting"}
                          /\ pending'[task'[u].q].status = "waiting" => task'[u].read.write = pending'[task'[u].q].write
          BY DEF ConfirmedAsRead, AsRead
      <3>1. u # t /\ task'[u] = task[u]
          BY <1>13, <2>2
      <3>2. AsRead(task[u])
          BY <3>1 DEF SharedInv, ConfirmedAsRead
      <3>3. task[u].q # q
          BY <1>19, <3>2 DEF AsRead
      <3> QED BY <1>13, <3>1, <3>2, <3>3 DEF AsRead
    <2>15. SharedInv'
        BY <2>7, <2>8, <2>9, <2>10, <2>11, <2>12, <2>13, <2>14 DEF SharedInv
    <2> QED BY <1>13, <2>15 DEF Kept
  <1> QED BY <1>7, <1>18, <1>19

\* A grant is stored: the proposal's one, or an open question's.
LEMMA StoreGrantStep ==
    ASSUME EntriesOK, GrantsOK, SharedInv, QuestionInv, NEW t \in Tasks, StoreGrant(t), UNCHANGED <<need, crossed>>
    PROVE  Kept
  <1> DEFINE v == task[t]
  <1> DEFINE what == v.what
  <1> DEFINE w == Refresh(v.after, v.then)
  <1>1. v.kind = "grant" /\ v \in GrantRec /\ what.from = v.after /\ AfterOf(v) = v.after /\ Resolution(v) = v.then
      BY DEF StoreGrant, EntriesOK, TasksOK, Shape, AfterOf, Resolution, Makers
  <1>2. what \in Granted /\ v.after \in After /\ v.then \in Later
      BY <1>1 DEF GrantRec
  <1>3. PICK g \in Grants : g = FreeGrant /\ grant[g] = None
      BY FreeGrantIs DEF StoreGrant
  <1>4. grant' = [grant EXCEPT ![g] = what] /\ Begin(t, w) /\ UNCHANGED <<row, marks, pending, due, quota, cache, refused>>
      BY <1>3 DEF StoreGrant
  <1>5. Shape(w) /\ AfterOf(w) = v.after /\ w.kind = "refresh" /\ w.then = v.then /\ w.seen = None
      BY <1>2, RefreshIs
  <1> HIDE DEF w
  <1>6. ShareCalm(v, w) /\ NeedCalm(v, w)
      BY <1>1, <1>5 DEF ShareCalm, NeedCalm, Makers, Resolution, Concerns, Opens, Late
  <1>7. TasksOK' /\ task'[t] = w /\ (\A u \in Tasks \ {t} : task'[u] = task[u]) /\ TaskCalm
      BY <1>4, <1>5, <1>6, BeginOK, BeginCalm DEF EntriesOK
  <1>8. EntriesOK' /\ RowsCalm
    <2>1. RowsOK' /\ MarksOK' /\ DueOK' /\ PendingOK' /\ QuotaOK' /\ RowsCalm
        BY <1>4, StillThere, PendingStays DEF EntriesOK, QuotaOK, RowsCalm
    <2> QED BY <1>7, <2>1 DEF EntriesOK
  <1>9. what # None
      BY <1>2, KnowledgeAssumption
  <1> HIDE DEF what
  <1>10. grant'[g] = what /\ \A h \in Grants \ {g} : grant'[h] = grant[h]
      BY <1>4 DEF GrantsOK
  <1>11. GrantsOK'
    <2>1. grant' \in [Grants -> Granted \cup {None}]
        BY <1>2, <1>4 DEF GrantsOK
    <2>2. ASSUME NEW h, IsGrant(h) PROVE IsGrant(h)'
        BY <1>3, <1>10, <2>2 DEF IsGrant
    <2>3. ASSUME NEW u \in Tasks, task'[u].kind = "refresh", task'[u].seen # None, NEW h \in task'[u].seen PROVE IsGrant(h)
        BY <1>5, <1>7, <2>3 DEF GrantsOK
    <2> QED BY <1>4, <2>1, <2>2, <2>3 DEF GrantsOK
  <1>12. \A p : Made(p)' => Made(p) \/ p = v.after
      BY <1>1, <1>10 DEF Made, what
  <1>13. PendingSoft
      BY <1>4 DEF PendingSoft
  <1>14. ASSUME v.after # None PROVE v.after \in Pendings /\ Claims(v, v.after) /\ Spent(v.after) /\ ~Made(v.after)
    <2>1. v.after \in Pendings /\ Claims(v, v.after)
        BY <1>1, <1>2, <1>14 DEF After, Claims
    <2> QED BY <1>1, <2>1 DEF SharedInv, ClaimedIsSpent
  <1>15. ClaimedIsSpent'
    <2> SUFFICES ASSUME NEW u \in Tasks, NEW p \in Pendings, Claims(task'[u], p)
                 PROVE  /\ Spent(p)
                        /\ task'[u].kind \notin Makers => pending[p].kind # "share"
                        /\ task'[u].kind = "grant" => ~Made(p)'
        BY <1>4 DEF ClaimedIsSpent, Spent
    <2>1. Claims(task[u], p) /\ Spent(p) /\ (task'[u].kind \notin Makers => pending[p].kind # "share")
        BY <1>7, CalmHolds DEF SharedInv, ClaimedIsSpent
    <2>2. ASSUME task'[u].kind = "grant" PROVE ~Made(p)'
      <3>1. u # t /\ task[u].kind = "grant"
          BY <1>5, <1>7, <2>2
      <3>2. p # v.after
        <4>1. p = v.after => Claims(v, p)
            BY <1>1 DEF Claims
        <4> QED BY <2>1, <3>1, <4>1 DEF SharedInv, OneHolds, Holding
      <3>3. ~Made(p)
          BY <2>1, <3>1 DEF SharedInv, ClaimedIsSpent
      <3> QED BY <1>12, <3>2, <3>3
    <2> QED BY <2>1, <2>2
  <1>16. MadeIsSpent'
    <2> SUFFICES ASSUME NEW p \in Pendings, Made(p)' PROVE Spent(p)
        BY <1>4 DEF MadeIsSpent, Spent
    <2> QED BY <1>12, <1>14, NoneAfter DEF SharedInv, MadeIsSpent
  <1>17. MadeOnce'
    <2> SUFFICES ASSUME NEW h \in Grants, NEW k \in Grants, h # k, grant'[h] # None, grant'[k] # None, grant'[h].from # None,
                        grant'[h].from = grant'[k].from
                 PROVE  FALSE
        BY DEF MadeOnce
    <2>1. CASE h # g /\ k # g
        BY <1>10, <2>1 DEF SharedInv, MadeOnce
    <2>2. CASE h = g
        BY <1>1, <1>10, <1>14, <2>2 DEF Made, what
    <2>3. CASE k = g
        BY <1>1, <1>10, <1>14, <2>3 DEF Made, what
    <2> QED BY <2>1, <2>2, <2>3
  <1>18. RefusedStays'
    <2> SUFFICES ASSUME NEW p \in refused
                 PROVE  /\ pending[p] # None /\ pending[p].status = "rejected" /\ ~Made(p)'
                        /\ \A u \in Tasks : ~Claims(task'[u], p) /\ ~InRows(task'[u], p)
        BY <1>4 DEF RefusedStays
    <2>1. /\ p \in Pendings /\ pending[p] # None /\ pending[p].status = "rejected" /\ ~Made(p)
          /\ \A u \in Tasks : ~Claims(task[u], p) /\ ~InRows(task[u], p)
        BY DEF GrantsOK, SharedInv, RefusedStays
    <2>2. \A u \in Tasks : ~Claims(task'[u], p) /\ ~InRows(task'[u], p)
        BY <1>7, <2>1, CalmHolds, CalmRows DEF Waits
    <2>3. p # v.after
        BY <1>1, <2>1 DEF Claims
    <2> QED BY <1>12, <2>1, <2>2, <2>3
  <1>19. SharedInv'
      BY <1>7, <1>13, <1>15, <1>16, <1>17, <1>18, SoftTasks DEF SharedInv, EntriesOK
  <1>20. \A u \in Tasks, q \in Asked : (Concerns(task'[u], q) => Concerns(task[u], q)) /\ (Late(task'[u], q) => Late(task[u], q))
      BY <1>7, TasksAreCalm DEF QuestionsCalm, NeedCalm
  <1>21. \A q \in Asked : what.target = q => Concerns(v, q) /\ Late(v, q)
      BY <1>1 DEF Concerns, Late, what
  <1>22. LeftAlone'
      BY <1>20 DEF QuestionInv, LeftAlone
  <1>23. ShownIsOpened'
    <2> SUFFICES ASSUME NEW q \in Asked, need'[q].status \in {"none", "proposed", "opening"}
                 PROVE  /\ \A u \in Tasks : ~Late(task'[u], q)
                        /\ \A h \in Grants : grant'[h] # None => grant'[h].target # q
        BY DEF ShownIsOpened
    <2>1. /\ \A u \in Tasks : ~Late(task[u], q)
          /\ \A h \in Grants : grant[h] # None => grant[h].target # q
        BY DEF QuestionInv, ShownIsOpened
    <2> QED BY <1>10, <1>20, <1>21, <2>1
  <1>24. ClosedIsHidden'
    <2> SUFFICES ASSUME NEW q \in Asked, need'[q].status \in {"withdrawn", "joined", "expired"}, q \notin crossed',
                        \A u \in Tasks : task'[u].kind = "close" => task'[u].q # q, NEW h \in Active'
                 PROVE  grant'[h].target # q
        BY DEF ClosedIsHidden
    <2>1. \A u \in Tasks : task[u].kind = "close" => task[u].q # q
        BY <1>7, TasksAreCalm DEF QuestionsCalm, NeedCalm
    <2>2. CASE h = g
      <3>1. ~Concerns(v, q)
          BY DEF QuestionInv, LeftAlone, Closed
      <3> QED BY <1>10, <1>21, <2>2, <3>1
    <2>3. CASE h # g
      <3>1. h \in Active /\ grant'[h] = grant[h]
          BY <1>10, <2>3 DEF Active
      <3> QED BY <2>1, <3>1 DEF QuestionInv, ClosedIsHidden
    <2> QED BY <2>2, <2>3
  <1>25. QuestionInv'
      BY <1>22, <1>23, <1>24 DEF QuestionInv
  <1> QED BY <1>8, <1>11, <1>19, <1>25 DEF Kept

\* A restart takes up nothing: every call at work is gone, and the grants are read again.
LEMMA RestartStep ==
    ASSUME EntriesOK, GrantsOK, SharedInv, QuestionInv, RestartThings
    PROVE  Kept
  <1>1. /\ task' = [t \in Tasks |-> Idle] /\ cache' = CacheAfter(Active) /\ UNCHANGED <<row, marks, pending, due, refused, need>>
        /\ grant' = [g \in Grants |-> IF g \in Active /\ ~Holds(g) THEN [grant[g] EXCEPT !.status = "revoked"] ELSE grant[g]]
        /\ crossed' = crossed \cup {q \in Asked : \E t \in Tasks : task[t].kind = "close" /\ task[t].q = q}
      BY DEF RestartThings, Restart
  <1>2. Shape(Idle) /\ AfterOf(Idle) = None /\ Resolution(Idle) = Idle /\ Idle.kind = "idle" /\ Idle \in Later
      BY LaterIs DEF Later, Idle
  <1>3. \A t \in Tasks : task'[t] = Idle
      BY <1>1
  <1>4. TasksOK'
      BY <1>1, <1>2 DEF TasksOK
  <1>5. EntriesOK' /\ RowsCalm
    <2>1. QuotaOK' /\ RowsOK' /\ MarksOK' /\ DueOK' /\ PendingOK'
        BY <1>1, SpendKeeps, StillThere, PendingStays DEF RestartThings, Restart, EntriesOK, Counted
    <2> QED BY <1>1, <1>4, <2>1 DEF EntriesOK, RowsCalm
  <1>6. ASSUME NEW g \in Grants
        PROVE  /\ grant'[g] \in Granted \cup {None} /\ (grant'[g] = None <=> grant[g] = None)
               /\ grant[g] # None => /\ grant'[g].target = grant[g].target /\ grant'[g].from = grant[g].from
                                     /\ grant'[g].status = "active" => grant[g].status = "active"
    <2>1. CASE g \in Active /\ ~Holds(g)
      <3> DEFINE new == [grant[g] EXCEPT !.status = "revoked"]
      <3>1. grant[g] \in Granted /\ grant'[g] = new
          BY <1>1, <2>1 DEF GrantsOK, Active
      <3>2. new \in Granted /\ new.target = grant[g].target /\ new.from = grant[g].from /\ new.status = "revoked"
          BY <3>1 DEF Granted
      <3> HIDE DEF new
      <3> QED BY <3>1, <3>2, KnowledgeAssumption
    <2>2. CASE ~(g \in Active /\ ~Holds(g))
        BY <1>1, <2>2 DEF GrantsOK
    <2> QED BY <2>1, <2>2
  <1>7. GrantsCalm
      BY <1>6 DEF GrantsCalm
  <1>8. GrantsOK'
    <2>1. grant' = [g \in Grants |-> grant'[g]]
        BY <1>1
    <2>2. grant' \in [Grants -> Granted \cup {None}]
        BY <1>6, <2>1
    <2>3. cache' \subseteq Grants /\ \A g \in cache' : IsGrant(g)'
        BY <1>1, <1>6 DEF CacheAfter, Active, IsGrant
    <2>4. \A t \in Tasks : task'[t].kind # "refresh"
        BY <1>2, <1>3
    <2> QED BY <1>1, <2>2, <2>3, <2>4 DEF GrantsOK
  <1>9. \A t \in Tasks, q \in Pendings : ~Claims(task'[t], q) /\ ~Resolves(task'[t], q)
      BY <1>2, <1>3, NoneAfter DEF Claims, Resolves
  <1>10. \A t \in Tasks : \A q : ~InRows(task'[t], q)
      BY <1>2, <1>3 DEF InRows, HasRead
  <1>11. SharedInv'
    <2>1. \A q : Made(q)' <=> Made(q)
        BY <1>7, CalmGrants
    <2>2. OneHolds'
        BY <1>9 DEF OneHolds, Holding
    <2>3. ClaimedIsSpent'
        BY <1>9 DEF ClaimedIsSpent
    <2>4. ResolvedRan'
        BY <1>9 DEF ResolvedRan
    <2>5. ReadStillWaits'
        BY <1>10 DEF ReadStillWaits
    <2>6. MadeIsSpent'
        BY <1>1, <2>1 DEF SharedInv, MadeIsSpent, Spent
    <2>7. MadeOnce'
        BY <1>7, CalmGrants DEF SharedInv, MadeOnce
    <2>8. RefusedStays'
        BY <1>1, <1>9, <1>10, <2>1 DEF SharedInv, RefusedStays, GrantsOK
    <2>9. ConfirmedAsRead'
        BY <1>2, <1>3 DEF ConfirmedAsRead
    <2> QED BY <2>2, <2>3, <2>4, <2>5, <2>6, <2>7, <2>8, <2>9 DEF SharedInv
  <1>12. \A t \in Tasks, q \in Asked : ~Concerns(task'[t], q) /\ ~Late(task'[t], q)
      BY <1>2, <1>3 DEF Concerns, Late, Opens, Makers
  <1>13. QuestionInv'
    <2>1. LeftAlone'
        BY <1>12 DEF LeftAlone
    <2>2. ShownIsOpened'
        BY <1>1, <1>7, <1>12, CalmGrants DEF QuestionInv, ShownIsOpened
    <2>3. ClosedIsHidden'
      <3> SUFFICES ASSUME NEW q \in Asked, need'[q].status \in {"withdrawn", "joined", "expired"}, q \notin crossed', NEW g \in Active'
                   PROVE  grant'[g].target # q
          BY DEF ClosedIsHidden
      <3>1. \A t \in Tasks : task[t].kind = "close" => task[t].q # q
          BY <1>1
      <3>2. g \in Active /\ grant'[g].target = grant[g].target
          BY <1>7, CalmGrants DEF Active
      <3> QED BY <1>1, <3>1, <3>2 DEF QuestionInv, ClosedIsHidden
    <2> QED BY <2>1, <2>2, <2>3 DEF QuestionInv
  <1> QED BY <1>5, <1>8, <1>11, <1>13 DEF Kept

--------------------------------------------------------------------------
(* A closed question is hidden                                             *)

\* What holds of each question.
AsksOne(q) ==
    /\ need[q].status = "none" \/ (need[q].status \in Closed /\ q \notin crossed) => \A t \in Tasks : ~Concerns(task[t], q)
    /\ need[q].status \in {"none", "proposed", "opening"} =>
           /\ \A t \in Tasks : ~Late(task[t], q)
           /\ \A g \in Grants : grant[g] # None => grant[g].target # q
    /\ need[q].status \in Closed /\ q \notin crossed /\ (\A t \in Tasks : task[t].kind = "close" => task[t].q # q)
           => \A g \in Active : grant[g].target # q

\* What hides the closed questions holds of them one by one.
LEMMA AsksEach ==
    /\ QuestionInv => \A q \in Asked : AsksOne(q)
    /\ (\A q \in Asked : AsksOne(q)') => QuestionInv'
  <1>1. QuestionInv => \A q \in Asked : AsksOne(q)
      BY DEF QuestionInv, LeftAlone, ShownIsOpened, ClosedIsHidden, AsksOne, Closed
  <1>2. ASSUME \A q \in Asked : AsksOne(q)' PROVE QuestionInv'
    <2>1. LeftAlone'
        BY <1>2 DEF AsksOne, LeftAlone
    <2>2. ShownIsOpened'
        BY <1>2 DEF AsksOne, ShownIsOpened
    <2>3. ClosedIsHidden'
        BY <1>2 DEF AsksOne, ClosedIsHidden, Closed
    <2> QED BY <2>1, <2>2, <2>3 DEF QuestionInv
  <1> QED BY <1>1, <1>2

\* A step leaves a question alone.
Unmoved(q) ==
    /\ need'[q].status = need[q].status /\ (q \in crossed' <=> q \in crossed)
    /\ \A t \in Tasks : /\ Concerns(task'[t], q) => Concerns(task[t], q)
                        /\ Late(task'[t], q) => Late(task[t], q)
                        /\ task[t].kind = "close" /\ task[t].q = q => task'[t] = task[t]

\* A step that leaves a question alone and makes no grant keeps it hidden.
LEMMA UnmovedKeeps ==
    ASSUME NEW q \in Asked, AsksOne(q), Unmoved(q), GrantsCalm
    PROVE  AsksOne(q)'
  <1>1. \A g \in Grants : grant'[g] # None => grant[g] # None /\ grant'[g].target = grant[g].target
      BY CalmGrants
  <1>2. \A g \in Active' : g \in Active /\ grant'[g].target = grant[g].target
      BY <1>1, CalmGrants DEF Active
  <1>3. need'[q].status = "none" \/ (need'[q].status \in Closed /\ q \notin crossed') => \A t \in Tasks : ~Concerns(task'[t], q)
      BY DEF AsksOne, Unmoved
  <1>4. need'[q].status \in {"none", "proposed", "opening"} =>
           /\ \A t \in Tasks : ~Late(task'[t], q)
           /\ \A g \in Grants : grant'[g] # None => grant'[g].target # q
      BY <1>1 DEF AsksOne, Unmoved
  <1>5. need'[q].status \in Closed /\ q \notin crossed' /\ (\A t \in Tasks : task'[t].kind = "close" => task'[t].q # q)
           => \A g \in Active' : grant'[g].target # q
      BY <1>2 DEF AsksOne, Unmoved
  <1> QED BY <1>3, <1>4, <1>5 DEF AsksOne

\* A call that holds no proposal, and has read none.
Holdless(w) == AfterOf(w) = None /\ Resolution(w).kind # "resolve" /\ w.kind # "confirm"

\* A step after which a call holds no proposal keeps what makes a share once.
LEMMA HoldlessShared ==
    ASSUME SharedInv, GrantsCalm, refused \subseteq Pendings, UNCHANGED <<pending, refused>>,
           \A t \in Tasks : task'[t] = task[t] \/ Holdless(task'[t])
    PROVE  SharedInv'
  <1>1. \A t \in Tasks : \A q \in Pendings : task'[t] # task[t] => ~Claims(task'[t], q) /\ ~Resolves(task'[t], q)
      BY NoneAfter DEF Holdless, Claims, Resolves
  <1>2. \A t \in Tasks : \A q : task'[t] # task[t] => ~InRows(task'[t], q)
      BY DEF Holdless, InRows, HasRead
  <1>3. \A t \in Tasks : task'[t] # task[t] => task'[t].kind # "confirm"
      BY DEF Holdless
  <1>4. \A q : Made(q)' <=> Made(q)
      BY CalmGrants
  <1>5. OneHolds'
      BY <1>1 DEF SharedInv, OneHolds, Holding
  <1>6. ClaimedIsSpent'
      BY <1>1, <1>4 DEF SharedInv, ClaimedIsSpent, Spent
  <1>7. ResolvedRan'
      BY <1>1 DEF SharedInv, ResolvedRan
  <1>8. ReadStillWaits'
      BY <1>2 DEF SharedInv, ReadStillWaits
  <1>9. MadeIsSpent'
      BY <1>4 DEF SharedInv, MadeIsSpent, Spent
  <1>10. MadeOnce'
      BY CalmGrants DEF SharedInv, MadeOnce
  <1>11. RefusedStays'
    <2> SUFFICES ASSUME NEW q \in refused
                 PROVE  /\ pending[q] # None /\ pending[q].status = "rejected" /\ ~Made(q)
                        /\ \A t \in Tasks : ~Claims(task'[t], q) /\ ~InRows(task'[t], q)
        BY <1>4 DEF RefusedStays
    <2>1. q \in Pendings
        OBVIOUS
    <2> QED BY <1>1, <1>2, <2>1 DEF SharedInv, RefusedStays
  <1>12. ConfirmedAsRead'
      BY <1>3 DEF SharedInv, ConfirmedAsRead, AsRead
  <1> QED BY <1>5, <1>6, <1>7, <1>8, <1>9, <1>10, <1>11, <1>12 DEF SharedInv

\* A step about one question keeps what holds, if it does of that one.
LEMMA NeedKept ==
    ASSUME EntriesOK, GrantsOK, SharedInv, QuestionInv, TasksOK', QuotaOK', UNCHANGED <<row, marks, pending, due, refused>>,
           GrantsOK', GrantsCalm, \A t \in Tasks : task'[t] = task[t] \/ Holdless(task'[t]),
           NEW q \in Asked, \A p \in Asked \ {q} : Unmoved(p), AsksOne(q)'
    PROVE  Kept
  <1>1. EntriesOK' /\ RowsCalm
    <2>1. RowsOK' /\ MarksOK' /\ DueOK' /\ PendingOK'
        BY StillThere, PendingStays DEF EntriesOK
    <2> QED BY <2>1 DEF EntriesOK, RowsCalm
  <1>2. SharedInv'
      BY HoldlessShared DEF GrantsOK
  <1>3. \A p \in Asked : AsksOne(p)'
    <2> TAKE p \in Asked
    <2>1. AsksOne(p)
        BY AsksEach
    <2> QED BY <2>1, UnmovedKeeps
  <1>4. QuestionInv'
      BY <1>3, AsksEach
  <1> QED BY <1>1, <1>2, <1>4 DEF Kept

\* ... as one that begins a call about it.
LEMMA NeedBegins ==
    ASSUME EntriesOK, GrantsOK, SharedInv, QuestionInv, NEW t \in Tasks, task[t].kind # "close", NEW w, Shape(w), Begin(t, w),
           w.kind \in {"idle", "open", "meet", "close"}, QuotaOK', UNCHANGED <<row, marks, pending, due, shareVars>>,
           NEW q \in Asked, w.kind # "idle" => w.q = q,
           \A p \in Asked \ {q} : need'[p].status = need[p].status /\ (p \in crossed' <=> p \in crossed),
           AsksOne(q)'
    PROVE  Kept
  <1>1. TasksOK' /\ task'[t] = w /\ \A u \in Tasks \ {t} : task'[u] = task[u]
      BY BeginOK DEF EntriesOK
  <1>2. Holdless(w) /\ w.kind # "refresh"
      BY DEF Holdless, AfterOf, Resolution, Makers
  <1>3. GrantsOK' /\ GrantsCalm /\ UNCHANGED refused
      BY <1>1, <1>2 DEF GrantsOK, GrantsCalm, IsGrant, shareVars
  <1>4. ASSUME NEW p \in Asked \ {q} PROVE Unmoved(p)
    <2>1. ~Concerns(w, p) /\ ~Late(w, p)
        BY DEF Concerns, Late, Opens, Makers
    <2> QED BY <1>1, <2>1 DEF Unmoved
  <1>5. \A u \in Tasks : task'[u] = task[u] \/ Holdless(task'[u])
      BY <1>1, <1>2
  <1> QED BY <1>1, <1>3, <1>4, <1>5, NeedKept

\* A call on a question goes on, with nothing new about it.
LEMMA CalmBegins ==
    ASSUME EntriesOK, GrantsOK, NEW t \in Tasks, NEW w, Shape(w), Begin(t, w), ShareCalm(task[t], w), NeedCalm(task[t], w),
           w.kind # "refresh", QuotaOK', UNCHANGED rest
    PROVE  Calmly
  <1>1. UNCHANGED <<row, marks, due>> /\ UNCHANGED pending /\ UNCHANGED shareVars
      BY DEF rest
  <1>2. TasksOK' /\ TaskCalm
      BY BeginCalm DEF EntriesOK
  <1>3. RowsOK' /\ MarksOK' /\ DueOK' /\ PendingOK' /\ PendingCalm /\ RowsCalm
      BY <1>1, StillThere, PendingStays DEF EntriesOK, RowsCalm
  <1>4. GrantsOK' /\ GrantsCalm /\ UNCHANGED refused
      BY <1>1, <1>2, GrantsStay
  <1> QED BY <1>2, <1>3, <1>4 DEF Calmly, EntryCalm, EntriesOK

\* One that opens a question was at work on it before, and shows it only if it did.
LEMMA OpenCalm ==
    ASSUME NEW v, NEW w, v.kind # "close", w.kind = "open", Concerns(v, w.q), w.step \in {"match", "show"} => Late(v, w.q)
    PROVE  ShareCalm(v, w) /\ NeedCalm(v, w) /\ w.kind # "refresh"
  BY DEF ShareCalm, NeedCalm, AfterOf, Resolution, Makers, Concerns, Opens, Late

\* A step that leaves what a scenario allows keeps it one.
LEMMA SameQuota ==
    ASSUME QuotaOK, UNCHANGED quota
    PROVE  QuotaOK'
  BY DEF QuotaOK

\* Who is asked about a question is a person.
LEMMA OwnersAre ==
    ASSUME NEW home, NEW asker
    PROVE  OwnersFor(home, asker) \subseteq People
  BY DEF OwnersFor, HoldersOf

\* An asked question is graded (openNeed),
LEMMA OpenGradeStep ==
    ASSUME EntriesOK, GrantsOK, NeedsOK, NEW t \in Tasks, OpenGrade(t)
    PROVE  Calmly /\ NeedsOK' /\ UNCHANGED <<need, crossed>>
  <1> DEFINE v == task[t]
  <1> DEFINE w == [v EXCEPT !.step = "grade"]
  <1>1. v.kind = "open" /\ v.step = "join" /\ Begin(t, w) /\ UNCHANGED rest /\ UNCHANGED quota /\ UNCHANGED needVars
      BY DEF OpenGrade, needVars
  <1>2. v \in OpenRec
      BY <1>1 DEF EntriesOK, TasksOK, Shape
  <1>3. w \in OpenRec /\ w.kind = "open" /\ w.step = "grade" /\ w.q = v.q
      BY <1>2 DEF OpenRec
  <1> HIDE DEF w
  <1>4. Shape(w) /\ Concerns(v, w.q)
      BY <1>1, <1>3 DEF Shape, Concerns, Opens
  <1>5. ShareCalm(v, w) /\ NeedCalm(v, w) /\ w.kind # "refresh"
      BY <1>1, <1>3, <1>4, OpenCalm
  <1>6. QuotaOK' /\ NeedsOK'
      BY <1>1, SameQuota, NeedsStay DEF EntriesOK
  <1>7. Calmly
      BY <1>1, <1>4, <1>5, <1>6, CalmBegins
  <1> QED BY <1>1, <1>6, <1>7 DEF needVars

\* ... matched with what is hidden from the asker,
LEMMA OpenMatchStep ==
    ASSUME EntriesOK, GrantsOK, NeedsOK, NEW t \in Tasks, OpenMatch(t)
    PROVE  Calmly /\ NeedsOK' /\ UNCHANGED <<need, crossed>>
  <1> DEFINE v == task[t]
  <1> DEFINE q == v.q
  <1> DEFINE hidden == {r \in Rids : row[r] # None /\ ~Owns(need[q].asker, row[r].home) /\ ~Shared(need[q].asker, r)}
  <1> DEFINE to(met, posted) == IF met = {} THEN {posted} \ {None}
                                ELSE UNION {OwnersFor(row[r].home, need[q].asker) : r \in met}
  <1>1. v.kind = "open" /\ v.step = "match" /\ UNCHANGED rest /\ UNCHANGED quota /\ UNCHANGED <<need, crossed>>
      BY DEF OpenMatch
  <1>2. PICK met \in SUBSET hidden : \E posted \in {None} \cup (Positions \ AtOrAbove(need[q].home)) :
             /\ near' = near \cup {[q |-> q, rid |-> r, e |-> row[r].e, state |-> "open"] : r \in met}
             /\ Begin(t, [v EXCEPT !.step = "show", !.to = to(met, posted)])
      BY DEF OpenMatch
  <1>3. PICK posted \in {None} \cup (Positions \ AtOrAbove(need[q].home)) :
             Begin(t, [v EXCEPT !.step = "show", !.to = to(met, posted)])
      BY <1>2
  <1> DEFINE shown == to(met, posted)
  <1>4. shown \in SUBSET Recipients
    <2>1. CASE met = {}
        BY <2>1 DEF Recipients
    <2>2. CASE met # {}
      <3>1. \A r \in met : OwnersFor(row[r].home, need[q].asker) \subseteq Recipients
          BY OwnersAre, Zenon DEF Recipients
      <3> QED BY <2>2, <3>1, Zenon
    <2> QED BY <2>1, <2>2
  <1>5. near' \subseteq [q : Asked, rid : Rids, e : Entries, state : {"open", "visible", "shared", "declined"}]
    <2> DEFINE T == [q : Asked, rid : Rids, e : Entries, state : {"open", "visible", "shared", "declined"}]
    <2>1. q \in Asked
        BY <1>1 DEF EntriesOK, TasksOK, Shape, OpenRec
    <2>2. \A r \in met : row[r].e \in Entries
        BY RowIs DEF EntriesOK
    <2> HIDE DEF q
    <2>3. ASSUME NEW r \in met PROVE [q |-> q, rid |-> r, e |-> row[r].e, state |-> "open"] \in T
        BY <2>1, <2>2
    <2>4. near \subseteq T
        BY DEF NeedsOK
    <2> HIDE DEF T, hidden, to
    <2>5. near' \subseteq T
        BY <1>2, <2>3, <2>4
    <2> QED BY <2>5 DEF T
  <1> HIDE DEF shown
  <1> DEFINE w == [v EXCEPT !.step = "show", !.to = shown]
  <1>6. Begin(t, w)
      BY <1>3 DEF shown
  <1> HIDE DEF to, hidden
  <1>7. v \in OpenRec
      BY <1>1 DEF EntriesOK, TasksOK, Shape
  <1>8. w \in OpenRec /\ w.kind = "open" /\ w.step = "show" /\ w.q = v.q
      BY <1>4, <1>7 DEF OpenRec
  <1> HIDE DEF w
  <1>9. Shape(w) /\ Concerns(v, w.q) /\ Late(v, w.q)
      BY <1>1, <1>8 DEF Shape, Concerns, Opens, Late
  <1>10. ShareCalm(v, w) /\ NeedCalm(v, w) /\ w.kind # "refresh"
      BY <1>1, <1>8, <1>9, OpenCalm
  <1>11. QuotaOK' /\ NeedsOK'
      BY <1>1, <1>5, SameQuota DEF EntriesOK, NeedsOK
  <1>12. Calmly
      BY <1>1, <1>6, <1>9, <1>10, <1>11, CalmBegins
  <1> QED BY <1>1, <1>11, <1>12

\* ... and shown to one more, unless it has been closed (shareNeed),
LEMMA ShowToStep ==
    ASSUME EntriesOK, GrantsOK, NeedsOK, NEW t \in Tasks, NEW to \in task[t].to, ShowTo(t, to)
    PROVE  Calmly /\ NeedsOK' /\ UNCHANGED <<need, crossed>>
  <1> DEFINE v == task[t]
  <1> DEFINE q == v.q
  <1> DEFINE next == [v EXCEPT !.to = @ \ {to}]
  <1> DEFINE what == NewGrant(q, q, to, None, need[q].home, None)
  <1> DEFINE w == [GrantTask(what, None) EXCEPT !.then = next]
  <1>1. v.kind = "open" /\ v.step = "show" /\ UNCHANGED rest /\ UNCHANGED quota /\ UNCHANGED needVars
      BY DEF ShowTo
  <1>2. Begin(t, next) \/ Begin(t, w)
      BY DEF ShowTo
  <1>3. v \in OpenRec /\ q \in Asked /\ to \in Recipients
      BY <1>1 DEF EntriesOK, TasksOK, Shape, OpenRec
  <1>4. next \in [kind : {"open"}, step : {"show"}, q : Asked, to : SUBSET Recipients] /\ next.q = q
      BY <1>1, <1>3 DEF OpenRec
  <1> HIDE DEF next
  <1>5. next \in OpenRec /\ next \in Later /\ next.kind = "open" /\ next.step = "show" /\ next.q = q
      BY <1>4 DEF OpenRec, Later
  <1>6. Concerns(v, q) /\ Late(v, q)
      BY <1>1 DEF Concerns, Opens, Late
  <1>7. need[q].home \in Homes \cup {None}
      BY <1>3 DEF NeedsOK, NeedRec, Homes
  <1>8. what \in Granted /\ what.target = q /\ what.from = None
    <2>0. None \in After
        BY DEF After
    <2> HIDE DEF q
    <2> QED BY <1>3, <1>7, <2>0, NewGrantIn
  <1> HIDE DEF what, q
  <1>9. w = [kind |-> "grant", what |-> what, after |-> None, then |-> next]
      BY DEF GrantTask
  <1>10. w \in GrantRec /\ w.kind = "grant" /\ w.what = what /\ w.after = None /\ w.then = next
      BY <1>5, <1>8, <1>9 DEF GrantRec, After
  <1> HIDE DEF w, v
  <1>11. Shape(w) /\ AfterOf(w) = None
      BY <1>8, <1>10 DEF Shape, AfterOf
  <1>12. ShareCalm(v, w) /\ NeedCalm(v, w)
    <2>1. ShareCalm(v, w)
        BY <1>5, <1>10, <1>11 DEF ShareCalm, Resolution, Makers
    <2>2. \A p \in Asked : Concerns(w, p) => p = q
        BY <1>5, <1>8, <1>10 DEF Concerns, Opens
    <2>3. \A p \in Asked : Late(w, p) => p = q
        BY <1>5, <1>8, <1>10 DEF Late, Makers
    <2> QED BY <1>1, <1>6, <1>10, <2>1, <2>2, <2>3 DEF NeedCalm
  <1>13. Shape(next) /\ ShareCalm(v, next) /\ NeedCalm(v, next)
    <2>1. Shape(next)
        BY <1>5 DEF Shape
    <2> QED BY <1>1, <1>5, <1>6, <2>1, OpenCalm
  <1>14. QuotaOK' /\ NeedsOK'
      BY <1>1, SameQuota, NeedsStay DEF EntriesOK
  <1>15. Calmly
    <2>1. CASE Begin(t, next)
        BY <1>1, <1>5, <1>13, <1>14, <2>1, CalmBegins DEF v
    <2>2. CASE Begin(t, w)
        BY <1>1, <1>10, <1>11, <1>12, <1>14, <2>2, CalmBegins DEF v
    <2> QED BY <1>2, <2>1, <2>2
  <1> QED BY <1>1, <1>14, <1>15 DEF needVars

\* ... until it has been shown to all.
LEMMA ShowDoneStep ==
    ASSUME EntriesOK, GrantsOK, NeedsOK, NEW t \in Tasks, ShowDone(t)
    PROVE  Calmly /\ NeedsOK' /\ UNCHANGED <<need, crossed>>
  <1>1. task[t].kind = "open" /\ Begin(t, Idle) /\ UNCHANGED rest /\ UNCHANGED quota /\ UNCHANGED needVars
      BY DEF ShowDone
  <1>2. Shape(Idle) /\ Idle.kind \in Plain /\ AfterOf(Idle) = None /\ Idle.kind # "refresh"
      BY DEF Shape, Idle, Plain, AfterOf
  <1>3. ShareCalm(task[t], Idle) /\ NeedCalm(task[t], Idle)
      BY <1>1, <1>2, PlainCalm
  <1>4. QuotaOK' /\ NeedsOK'
      BY <1>1, SameQuota, NeedsStay DEF EntriesOK
  <1>5. Calmly
      BY <1>1, <1>2, <1>3, <1>4, CalmBegins
  <1> QED BY <1>1, <1>4, <1>5 DEF needVars

\* What met a question is written down (meetAssertion).
LEMMA MeetWriteStep ==
    ASSUME EntriesOK, GrantsOK, NeedsOK, NEW t \in Tasks, MeetWrite(t)
    PROVE  Calmly /\ NeedsOK' /\ UNCHANGED <<need, crossed>>
  <1> DEFINE m == task[t]
  <1> DEFINE shown == OwnersFor(m.home, need[m.q].asker)
  <1> DEFINE w == [kind |-> "open", step |-> "show", q |-> m.q, to |-> shown]
  <1> DEFINE edge == [q |-> m.q, rid |-> m.rid, e |-> m.e, state |-> IF m.visible THEN "visible" ELSE "open"]
  <1>1. m.kind = "meet" /\ UNCHANGED rest /\ UNCHANGED quota /\ UNCHANGED <<need, crossed>>
      BY DEF MeetWrite
  <1>2. (Begin(t, Idle) \/ Begin(t, w)) /\ (near' = near \/ near' = near \cup {edge})
      BY DEF MeetWrite
  <1>3. m \in MeetRec
      BY <1>1 DEF EntriesOK, TasksOK, Shape
  <1>4. edge \in [q : Asked, rid : Rids, e : Entries, state : {"open", "visible", "shared", "declined"}]
      BY <1>3 DEF MeetRec
  <1>5. shown \in SUBSET Recipients /\ m.q \in Asked
      BY <1>3, OwnersAre DEF MeetRec, Recipients
  <1> HIDE DEF edge, shown
  <1>6. w \in OpenRec /\ w.kind = "open" /\ w.step = "show" /\ w.q = m.q
      BY <1>5 DEF OpenRec
  <1> HIDE DEF w
  <1>7. Shape(w) /\ Concerns(m, w.q) /\ Late(m, w.q)
      BY <1>1, <1>6 DEF Shape, Concerns, Opens, Late
  <1>8. ShareCalm(m, w) /\ NeedCalm(m, w) /\ w.kind # "refresh"
      BY <1>1, <1>6, <1>7, OpenCalm
  <1>9. Shape(Idle) /\ Idle.kind \in Plain /\ AfterOf(Idle) = None /\ Idle.kind # "refresh"
      BY DEF Shape, Idle, Plain, AfterOf
  <1>10. ShareCalm(m, Idle) /\ NeedCalm(m, Idle)
      BY <1>1, <1>9, PlainCalm
  <1>11. QuotaOK'
      BY <1>1, SameQuota DEF EntriesOK
  <1>12. NeedsOK'
      BY <1>1, <1>2, <1>4 DEF NeedsOK
  <1>13. Calmly
    <2>1. CASE Begin(t, Idle)
        BY <1>1, <1>9, <1>10, <1>11, <2>1, CalmBegins
    <2>2. CASE Begin(t, w)
        BY <1>1, <1>7, <1>8, <1>11, <2>2, CalmBegins
    <2> QED BY <1>2, <2>1, <2>2
  <1> QED BY <1>1, <1>12, <1>13

\* An owner shares what met the question (answerRequest).
LEMMA AnswerStep ==
    ASSUME EntriesOK, GrantsOK, NeedsOK, NEW p \in People, NEW x \in near, Answer(p, x)
    PROVE  Calmly /\ NeedsOK' /\ UNCHANGED <<need, crossed>>
  <1> DEFINE to == need[x.q].asker
  <1> DEFINE r == row[x.rid]
  <1>1. /\ need[x.q].status = "open" /\ row[x.rid] # None /\ HasTask
        /\ UNCHANGED <<row, marks, due>> /\ UNCHANGED shareVars /\ UNCHANGED <<need, crossed>>
        /\ near' = (near \ {x}) \cup {[x EXCEPT !.state = "shared"]}
      BY DEF Answer, MayAnswer
  <1>2. QuotaOK'
      BY SpendKeeps DEF Answer, EntriesOK, Counted
  <1>3. x.q \in Asked /\ x.rid \in Rids /\ [x EXCEPT !.state = "shared"] \in [q : Asked, rid : Rids, e : Entries, state : {"open", "visible", "shared", "declined"}]
    <2>1. x \in [q : Asked, rid : Rids, e : Entries, state : {"open", "visible", "shared", "declined"}]
        BY DEF NeedsOK
    <2> QED BY <2>1
  <1>4. to \in People /\ r.e \in Entries /\ r.home \in Homes
      BY <1>1, <1>3, RowIs DEF NeedsOK, EntriesOK
  <1>5. TasksOK' /\ TaskCalm /\ PendingOK' /\ PendingCalm
    <2>0. None \in After /\ "pending" \in Statuses /\ to \in Recipients /\ p \in Actors \cup {None} /\ p \in People \cup Agents
        BY <1>4 DEF After, Statuses, Recipients, Actors
    <2>1. CASE RecipientSees(to, r.home)
      <3>1. UNCHANGED pending /\ UNCHANGED task
          BY <2>1 DEF Answer
      <3> QED BY <3>1, PendingStays, TasksStay DEF EntriesOK
    <2>2. CASE ~RecipientSees(to, r.home) /\ SharesDirectly(p)
      <3> DEFINE what == NewGrant(x.rid, r.e, to, p, r.home, None)
      <3>1. UNCHANGED pending /\ Begin(FreeTask, GrantTask(what, None))
          BY <2>2 DEF Answer
      <3>2. what \in Granted /\ what.target = x.rid /\ what.from = None
        <4> HIDE DEF to, r
        <4> QED BY <1>3, <1>4, <2>0, NewGrantIn
      <3> HIDE DEF what, to, r
      <3> QED BY <1>1, <1>3, <3>1, <3>2, BeginGrant, PendingStays DEF EntriesOK
    <2>3. CASE ~RecipientSees(to, r.home) /\ ~SharesDirectly(p)
      <3> DEFINE new == SharePending(p, r.e, x.rid, to, r.home, None, "pending")
      <3>1. Queue(new) /\ UNCHANGED task
          BY <2>3 DEF Answer
      <3>2. new \in Proposal
        <4> HIDE DEF to, r
        <4> QED BY <1>3, <1>4, <2>0, SharePendingIn DEF Proposal
      <3> HIDE DEF new
      <3> QED BY <3>1, <3>2, QueueOK, TasksStay DEF EntriesOK
    <2> QED BY <2>1, <2>2, <2>3
  <1>6. NeedsOK'
      BY <1>1, <1>3 DEF NeedsOK
  <1>7. GrantsOK' /\ GrantsCalm /\ UNCHANGED refused
      BY <1>1, <1>5, GrantsStay
  <1>8. RowsOK' /\ MarksOK' /\ DueOK' /\ RowsCalm
      BY <1>1, StillThere DEF RowsCalm
  <1> QED BY <1>1, <1>2, <1>5, <1>6, <1>7, <1>8 DEF Calmly, EntryCalm, EntriesOK

\* A question's entry is written.
LEMMA NeedIs ==
    ASSUME NeedsOK, NEW q \in Asked, NEW new \in NeedRec, new.asker \in People, new.home \in Positions,
           need' = [need EXCEPT ![q] = new], crossed' \subseteq Asked, UNCHANGED near
    PROVE  NeedsOK' /\ need'[q] = new /\ \A p \in Asked \ {q} : need'[p] = need[p]
  <1>1. need'[q] = new /\ \A p \in Asked \ {q} : need'[p] = need[p]
      BY DEF NeedsOK
  <1>2. need' \in [Asked -> NeedRec]
      BY DEF NeedsOK
  <1>3. \A p \in Asked : need'[p].status # "none" => need'[p].asker \in People /\ need'[p].home \in Positions
      BY <1>1 DEF NeedsOK
  <1> QED BY <1>1, <1>2, <1>3 DEF NeedsOK

\* Its status changes.
LEMMA StatusChanges ==
    ASSUME NeedsOK, NEW q \in Asked, need[q].status # "none", NEW status \in NeedStatuses,
           need' = [need EXCEPT ![q].status = status], crossed' \subseteq Asked, UNCHANGED near
    PROVE  NeedsOK' /\ need'[q].status = status /\ \A p \in Asked \ {q} : need'[p] = need[p]
  <1> DEFINE old == need[q]
  <1> DEFINE new == [old EXCEPT !.status = status]
  <1>1. old \in NeedRec /\ old.asker \in People /\ old.home \in Positions
      BY DEF NeedsOK
  <1>2. need' = [need EXCEPT ![q] = new]
      OBVIOUS
  <1> HIDE DEF old
  <1>3. new \in NeedRec /\ new.status = status /\ new.asker = old.asker /\ new.home = old.home
      BY <1>1 DEF NeedRec
  <1> HIDE DEF new
  <1>4. NeedsOK' /\ need'[q] = new /\ \A p \in Asked \ {q} : need'[p] = need[p]
      BY <1>1, <1>2, <1>3, NeedIs
  <1> QED BY <1>3, <1>4

\* Grants end.
LEMMA GrantsEnd ==
    ASSUME GrantsOK, NEW S \in SUBSET Active, NEW end \in {"revoked", "expired"},
           grant' = [g \in Grants |-> IF g \in S THEN [grant[g] EXCEPT !.status = end] ELSE grant[g]]
    PROVE  /\ grant' \in [Grants -> Granted \cup {None}] /\ GrantsCalm
           /\ Active' = Active \ S
  <1>1. ASSUME NEW g \in S
        PROVE  /\ g \in Grants /\ grant[g] # None /\ grant'[g] \in Granted /\ grant'[g] # None /\ grant'[g].status = end
               /\ grant'[g].target = grant[g].target /\ grant'[g].from = grant[g].from
    <2> DEFINE old == grant[g]
    <2> DEFINE new == [old EXCEPT !.status = end]
    <2>1. g \in Grants /\ old # None /\ old \in Granted
        BY DEF Active, GrantsOK
    <2>2. grant'[g] = new
        BY <2>1
    <2> HIDE DEF old
    <2>3. new \in Granted /\ new.target = old.target /\ new.from = old.from /\ new.status = end
        BY <2>1 DEF Granted
    <2> HIDE DEF new
    <2> QED BY <2>1, <2>2, <2>3, KnowledgeAssumption DEF old
  <1>2. \A g \in Grants \ S : grant'[g] = grant[g]
      OBVIOUS
  <1>3. \A g \in Grants : grant'[g] \in Granted \cup {None}
      BY <1>1, <1>2 DEF GrantsOK
  <1>4. grant' \in [Grants -> Granted \cup {None}]
    <2>1. grant' = [g \in Grants |-> grant'[g]]
        OBVIOUS
    <2> QED BY <1>3, <2>1
  <1>5. GrantsCalm
      BY <1>1, <1>2 DEF GrantsCalm
  <1>6. Active' = Active \ S
      BY <1>1, <1>2 DEF Active
  <1> QED BY <1>4, <1>5, <1>6

\* Whoever calls, and is no worker, speaks for a person.
LEMMA CallerIs ==
    ASSUME NEW a \in Actors \ {Worker}
    PROVE  Person(a) \in People
  BY SharesAssumption DEF Person, Actors

\* The call that opens a question has shown it to nobody yet.
LEMMA OpenTaskIs ==
    ASSUME NEW q \in Asked, NEW w, w = OpenTask(q)
    PROVE  Shape(w) /\ w.kind = "open" /\ w.q = q /\ \A p : ~Late(w, p)
  <1>1. w \in OpenRec /\ w.kind = "open" /\ w.q = q /\ w.step = "join"
      BY DEF OpenTask, OpenRec
  <1> QED BY <1>1 DEF Shape, Late, Makers

\* An agent drafts a question, or a person asks one.
LEMMA AskStep ==
    ASSUME EntriesOK, GrantsOK, NeedsOK, SharedInv, QuestionInv, NEW a \in quota.callers \ {Worker}, NEW q \in Asked, Ask(a, q)
    PROVE  Kept /\ NeedsOK'
  <1>1. /\ need[q].status = "none" /\ Held[a] # {} /\ UNCHANGED rest /\ UNCHANGED near /\ UNCHANGED crossed
        /\ need' = [need EXCEPT ![q] = [@ EXCEPT !.status = "proposed", !.asker = Person(a), !.home = DefaultHome(a)]]
      BY DEF Ask
  <1>2. (HasTask /\ Begin(FreeTask, OpenTask(q))) \/ UNCHANGED task
      BY DEF Ask
  <1>3. QuotaOK' /\ a \in Actors \ {Worker}
      BY SpendKeeps, CallersAre DEF Ask, EntriesOK, Counted
  <1> DEFINE old == need[q]
  <1> DEFINE asker == Person(a)
  <1> DEFINE home == DefaultHome(a)
  <1> DEFINE new == [old EXCEPT !.status = "proposed", !.asker = asker, !.home = home]
  <1>4. asker \in People /\ home \in Positions
    <2>1. Held[a] \in SUBSET Positions
        BY <1>3, EntriesAssumption
    <2>2. Deepest(Held[a]) \in Positions
        BY <1>1, <2>1, DeepestIn
    <2> QED BY <1>3, <2>2, CallerIs DEF DefaultHome
  <1>5. old \in NeedRec /\ need' = [need EXCEPT ![q] = new]
      BY <1>1 DEF NeedsOK
  <1> HIDE DEF old, asker, home
  <1>6. new \in NeedRec /\ new.status = "proposed" /\ new.asker = asker /\ new.home = home
    <2>1. "proposed" \in NeedStatuses
        BY DEF NeedStatuses
    <2> QED BY <1>4, <1>5, <2>1 DEF NeedRec
  <1> HIDE DEF new
  <1>7. NeedsOK' /\ need'[q] = new /\ \A p \in Asked \ {q} : need'[p] = need[p]
    <2>1. crossed' \subseteq Asked
        BY <1>1 DEF NeedsOK
    <2> QED BY <1>1, <1>4, <1>5, <1>6, <2>1, NeedIs
  <1>8. /\ \A t \in Tasks : ~Late(task[t], q)
        /\ \A g \in Grants : grant[g] # None => grant[g].target # q
      BY <1>1 DEF QuestionInv, ShownIsOpened
  <1>9. UNCHANGED <<row, marks, pending, due>> /\ UNCHANGED shareVars
      BY <1>1 DEF rest
  <1>10. UNCHANGED grant /\ UNCHANGED cache /\ UNCHANGED refused
      BY <1>9 DEF shareVars
  <1>11. CASE HasTask /\ Begin(FreeTask, OpenTask(q))
    <2> DEFINE t == FreeTask
    <2> DEFINE w == OpenTask(q)
    <2>1. Shape(w) /\ w.kind = "open" /\ w.q = q /\ ~Late(w, q)
        BY OpenTaskIs
    <2>2. t \in Tasks /\ task[t].kind # "close" /\ Begin(t, w)
        BY <1>11, FreeTaskIs DEF Idle
    <2> HIDE DEF t, w
    <2>3. task'[t] = w /\ \A u \in Tasks \ {t} : task'[u] = task[u]
        BY <2>1, <2>2, BeginOK DEF EntriesOK
    <2>4. AsksOne(q)'
        BY <1>6, <1>7, <1>8, <1>10, <2>1, <2>3 DEF AsksOne, Closed
    <2>5. \A p \in Asked \ {q} : need'[p].status = need[p].status /\ (p \in crossed' <=> p \in crossed)
        BY <1>1, <1>7
    <2>6. Kept
        BY <1>3, <1>9, <2>1, <2>2, <2>4, <2>5, NeedBegins
    <2> QED BY <1>7, <2>6
  <1>12. CASE UNCHANGED task
    <2>1. TasksOK' /\ TaskCalm /\ \A t \in Tasks : task'[t] = task[t] \/ Holdless(task'[t])
        BY <1>12, TasksStay DEF EntriesOK
    <2>2. GrantsOK' /\ GrantsCalm /\ UNCHANGED refused
        BY <1>9, <2>1, GrantsStay
    <2>3. AsksOne(q)'
        BY <1>6, <1>7, <1>8, <1>10, <1>12 DEF AsksOne, Closed
    <2>4. \A p \in Asked \ {q} : Unmoved(p)
        BY <1>1, <1>7, <1>12 DEF Unmoved
    <2>5. Kept
        BY <1>3, <1>9, <2>1, <2>2, <2>3, <2>4, NeedKept
    <2> QED BY <1>7, <2>5
  <1> QED BY <1>2, <1>11, <1>12

\* A person confirms a question an agent asked (ConfirmAsk).
LEMMA ConfirmAskStep ==
    ASSUME EntriesOK, GrantsOK, NeedsOK, SharedInv, QuestionInv, NEW p \in People, NEW q \in Asked, ConfirmAsk(p, q)
    PROVE  Kept /\ NeedsOK'
  <1> DEFINE t == FreeTask
  <1> DEFINE w == OpenTask(q)
  <1>1. /\ need[q].status = "proposed" /\ HasTask /\ need' = [need EXCEPT ![q].status = "opening"] /\ Begin(t, w)
        /\ UNCHANGED rest /\ UNCHANGED near /\ UNCHANGED crossed
      BY DEF ConfirmAsk
  <1>2. QuotaOK'
      BY SpendKeeps DEF ConfirmAsk, EntriesOK, Counted
  <1>3. Shape(w) /\ w.kind = "open" /\ w.q = q /\ ~Late(w, q)
      BY OpenTaskIs
  <1>4. t \in Tasks /\ task[t].kind # "close"
      BY <1>1, FreeTaskIs DEF Idle
  <1> HIDE DEF t, w
  <1>5. NeedsOK' /\ need'[q].status = "opening" /\ \A o \in Asked \ {q} : need'[o] = need[o]
    <2>1. "opening" \in NeedStatuses /\ crossed' \subseteq Asked /\ need[q].status # "none"
        BY <1>1 DEF NeedStatuses, NeedsOK
    <2> QED BY <1>1, <2>1, StatusChanges
  <1>6. /\ \A u \in Tasks : ~Late(task[u], q)
        /\ \A g \in Grants : grant[g] # None => grant[g].target # q
      BY <1>1 DEF QuestionInv, ShownIsOpened
  <1>7. UNCHANGED <<row, marks, pending, due>> /\ UNCHANGED shareVars /\ UNCHANGED grant
      BY <1>1 DEF rest, shareVars
  <1>8. task'[t] = w /\ \A u \in Tasks \ {t} : task'[u] = task[u]
      BY <1>1, <1>3, <1>4, BeginOK DEF EntriesOK
  <1>9. AsksOne(q)'
      BY <1>3, <1>5, <1>6, <1>7, <1>8 DEF AsksOne, Closed
  <1>10. \A o \in Asked \ {q} : need'[o].status = need[o].status /\ (o \in crossed' <=> o \in crossed)
      BY <1>1, <1>5
  <1>11. Kept
      BY <1>1, <1>2, <1>3, <1>4, <1>7, <1>9, <1>10, NeedBegins
  <1> QED BY <1>5, <1>11

\* A call at work on a question finds it asked, and not closed unless that crossed it.
LEMMA AtWork ==
    ASSUME QuestionInv, NEW t \in Tasks, NEW q \in Asked, Concerns(task[t], q)
    PROVE  need[q].status # "none" /\ (need[q].status \in Closed => q \in crossed)
  BY DEF QuestionInv, LeftAlone

\* A question that was asked before joins the one there is (openNeed),
LEMMA OpenJoinStep ==
    ASSUME EntriesOK, GrantsOK, NeedsOK, SharedInv, QuestionInv, NEW t \in Tasks, OpenJoin(t)
    PROVE  Kept /\ NeedsOK'
  <1> DEFINE v == task[t]
  <1>1. PICK q : q = v.q
      OBVIOUS
  <1>2. /\ v.kind = "open" /\ need' = [need EXCEPT ![q].status = "joined"] /\ Begin(t, Idle)
        /\ crossed' = IF need[q].status = "open" \/ AtWorkOn(q, {t}) THEN crossed \cup {q} ELSE crossed
        /\ UNCHANGED rest /\ UNCHANGED near /\ UNCHANGED quota
      BY <1>1 DEF OpenJoin
  <1>3. q \in Asked
      BY <1>1, <1>2 DEF EntriesOK, TasksOK, Shape, OpenRec
  <1>4. need[q].status # "none" /\ (need[q].status \in Closed => q \in crossed)
    <2>1. Concerns(v, q)
        BY <1>1, <1>2 DEF Concerns, Opens
    <2> QED BY <1>3, <2>1, AtWork
  <1>5. NeedsOK' /\ need'[q].status = "joined" /\ \A o \in Asked \ {q} : need'[o] = need[o]
    <2>1. "joined" \in NeedStatuses /\ crossed' \subseteq Asked
        BY <1>2, <1>3 DEF NeedStatuses, NeedsOK
    <2> QED BY <1>2, <1>3, <1>4, <2>1, StatusChanges
  <1>6. QuotaOK'
      BY <1>2, SameQuota DEF EntriesOK
  <1>7. Shape(Idle) /\ Idle.kind = "idle" /\ ~Concerns(Idle, q)
      BY DEF Shape, Idle, Concerns, Opens
  <1>8. UNCHANGED <<row, marks, pending, due>> /\ UNCHANGED shareVars /\ UNCHANGED grant
      BY <1>2 DEF rest, shareVars
  <1>9. task'[t] = Idle /\ \A u \in Tasks \ {t} : task'[u] = task[u]
      BY <1>2, <1>7, BeginOK DEF EntriesOK
  <1>10. AsksOne(q)'
    <2>1. ASSUME q \notin crossed' PROVE \A u \in Tasks : ~Concerns(task'[u], q)
      <3>1. ~AtWorkOn(q, {t})
          BY <1>2, <2>1
      <3> QED BY <1>7, <1>9, <3>1 DEF AtWorkOn
    <2>2. ASSUME q \notin crossed' PROVE \A g \in Grants : grant[g] # None => grant[g].target # q
      <3>1. need[q].status \in {"proposed", "opening"}
        <4>1. need[q].status \in NeedStatuses
            BY <1>3 DEF NeedsOK, NeedRec
        <4>2. need[q].status # "open" /\ q \notin crossed
            BY <1>2, <2>2
        <4> QED BY <1>4, <4>1, <4>2 DEF NeedStatuses, Closed
      <3> QED BY <1>3, <3>1 DEF QuestionInv, ShownIsOpened
    <2> QED BY <1>5, <1>8, <2>1, <2>2 DEF AsksOne, Active
  <1>11. \A o \in Asked \ {q} : need'[o].status = need[o].status /\ (o \in crossed' <=> o \in crossed)
      BY <1>2, <1>5
  <1>12. Kept
      BY <1>2, <1>3, <1>6, <1>7, <1>8, <1>10, <1>11, NeedBegins
  <1> QED BY <1>5, <1>12

\* ... and any other is opened.
LEMMA OpenNowStep ==
    ASSUME EntriesOK, GrantsOK, NeedsOK, SharedInv, QuestionInv, NEW t \in Tasks, OpenNow(t)
    PROVE  Kept /\ NeedsOK'
  <1> DEFINE v == task[t]
  <1> DEFINE w == [v EXCEPT !.step = "match"]
  <1>1. PICK q : q = v.q
      OBVIOUS
  <1>2. /\ v.kind = "open" /\ need' = [need EXCEPT ![q].status = "open"] /\ Begin(t, w)
        /\ UNCHANGED rest /\ UNCHANGED near /\ UNCHANGED crossed /\ UNCHANGED quota
      BY <1>1 DEF OpenNow
  <1>3. v \in OpenRec /\ q \in Asked
      BY <1>1, <1>2 DEF EntriesOK, TasksOK, Shape, OpenRec
  <1>4. w \in OpenRec /\ w.kind = "open" /\ w.q = q
      BY <1>1, <1>3 DEF OpenRec
  <1> HIDE DEF w
  <1>5. Shape(w)
      BY <1>4 DEF Shape
  <1>6. need[q].status # "none"
    <2>1. Concerns(v, q)
        BY <1>1, <1>2 DEF Concerns, Opens
    <2> QED BY <1>3, <2>1, AtWork
  <1>7. NeedsOK' /\ need'[q].status = "open" /\ \A o \in Asked \ {q} : need'[o] = need[o]
    <2>1. "open" \in NeedStatuses /\ crossed' \subseteq Asked
        BY <1>2 DEF NeedStatuses, NeedsOK
    <2> QED BY <1>2, <1>3, <1>6, <2>1, StatusChanges
  <1>8. QuotaOK'
      BY <1>2, SameQuota DEF EntriesOK
  <1>9. UNCHANGED <<row, marks, pending, due>> /\ UNCHANGED shareVars
      BY <1>2 DEF rest
  <1>10. AsksOne(q)'
      BY <1>7 DEF AsksOne, Closed
  <1>11. \A o \in Asked \ {q} : need'[o].status = need[o].status /\ (o \in crossed' <=> o \in crossed)
      BY <1>2, <1>7
  <1>12. Kept
      BY <1>2, <1>3, <1>4, <1>5, <1>8, <1>9, <1>10, <1>11, NeedBegins
  <1> QED BY <1>7, <1>12

\* An entry meets a question (meetAssertion).
LEMMA MeetStep ==
    ASSUME EntriesOK, GrantsOK, NeedsOK, SharedInv, QuestionInv, NEW q \in Asked, NEW r \in Rids, Meet(q, r)
    PROVE  Kept /\ NeedsOK'
  <1> DEFINE t == FreeTask
  <1> DEFINE e == row[r].e
  <1> DEFINE home == row[r].home
  <1> DEFINE seen == PersonSees(need[q].asker, r)
  <1> DEFINE w == [kind |-> "meet", q |-> q, rid |-> r, e |-> e, home |-> home, visible |-> seen]
  <1>1. need[q].status = "open" /\ row[r] # None /\ HasTask /\ Begin(t, w) /\ UNCHANGED rest /\ UNCHANGED needVars
      BY DEF Meet
  <1>2. QuotaOK'
      BY SpendKeeps DEF Meet, EntriesOK, Counted
  <1>3. e \in Entries /\ home \in Homes
      BY <1>1, RowIs DEF EntriesOK
  <1>4. seen \in BOOLEAN
      BY DEF PersonSees, Sees, Shared
  <1>5. t \in Tasks /\ task[t].kind # "close"
      BY <1>1, FreeTaskIs DEF Idle
  <1> HIDE DEF t, e, home, seen
  <1>6. w \in MeetRec /\ w.kind = "meet" /\ w.q = q
      BY <1>3, <1>4 DEF MeetRec
  <1> HIDE DEF w
  <1>7. Shape(w)
      BY <1>6 DEF Shape
  <1>8. UNCHANGED <<row, marks, pending, due>> /\ UNCHANGED shareVars /\ UNCHANGED need /\ UNCHANGED crossed
      BY <1>1 DEF rest, needVars
  <1>9. AsksOne(q)'
      BY <1>1, <1>8 DEF AsksOne, Closed
  <1>10. \A o \in Asked \ {q} : need'[o].status = need[o].status /\ (o \in crossed' <=> o \in crossed)
      BY <1>8
  <1>11. Kept
      BY <1>1, <1>2, <1>5, <1>6, <1>7, <1>8, <1>9, <1>10, NeedBegins
  <1>12. NeedsOK'
      BY <1>1, NeedsStay
  <1> QED BY <1>11, <1>12

\* The asker withdraws it (closeNeed).
LEMMA WithdrawStep ==
    ASSUME EntriesOK, GrantsOK, NeedsOK, SharedInv, QuestionInv, NEW p \in People, NEW q \in Asked, Withdraw(p, q)
    PROVE  Kept /\ NeedsOK'
  <1> DEFINE t == FreeTask
  <1> DEFINE w == [kind |-> "close", q |-> q]
  <1>1. /\ need[q].status \in {"proposed", "open"} /\ HasTask /\ need' = [need EXCEPT ![q].status = "withdrawn"] /\ Begin(t, w)
        /\ crossed' = IF AtWorkOn(q, {}) THEN crossed \cup {q} ELSE crossed
        /\ UNCHANGED rest /\ UNCHANGED near
      BY DEF Withdraw
  <1>2. QuotaOK'
      BY SpendKeeps DEF Withdraw, EntriesOK, Counted
  <1>3. w \in CloseRec /\ w.kind = "close" /\ w.q = q
      BY DEF CloseRec
  <1>4. t \in Tasks /\ task[t].kind # "close"
      BY <1>1, FreeTaskIs DEF Idle
  <1> HIDE DEF t, w
  <1>5. Shape(w) /\ ~Concerns(w, q)
      BY <1>3 DEF Shape, Concerns, Opens
  <1>6. NeedsOK' /\ need'[q].status = "withdrawn" /\ \A o \in Asked \ {q} : need'[o] = need[o]
    <2>1. "withdrawn" \in NeedStatuses /\ crossed' \subseteq Asked /\ need[q].status # "none"
        BY <1>1 DEF NeedStatuses, NeedsOK
    <2> QED BY <1>1, <2>1, StatusChanges
  <1>7. UNCHANGED <<row, marks, pending, due>> /\ UNCHANGED shareVars
      BY <1>1 DEF rest
  <1>8. task'[t] = w /\ \A u \in Tasks \ {t} : task'[u] = task[u]
      BY <1>1, <1>4, <1>5, BeginOK DEF EntriesOK
  <1>9. AsksOne(q)'
    <2>1. q \notin crossed' => \A u \in Tasks : ~Concerns(task'[u], q)
        BY <1>1, <1>5, <1>8 DEF AtWorkOn
    <2>2. ~(\A u \in Tasks : task'[u].kind = "close" => task'[u].q # q)
        BY <1>3, <1>4, <1>8
    <2> QED BY <1>6, <2>1, <2>2 DEF AsksOne
  <1>10. \A o \in Asked \ {q} : need'[o].status = need[o].status /\ (o \in crossed' <=> o \in crossed)
      BY <1>1, <1>6
  <1>11. Kept
      BY <1>1, <1>2, <1>3, <1>4, <1>5, <1>7, <1>9, <1>10, NeedBegins
  <1> QED BY <1>6, <1>11

\* The closing of a question revokes what showed it (closeNeed).
LEMMA CloseRevokeStep ==
    ASSUME EntriesOK, GrantsOK, NeedsOK, SharedInv, QuestionInv, NEW t \in Tasks, CloseRevoke(t)
    PROVE  Kept /\ NeedsOK'
  <1>1. PICK q : q = task[t].q
      OBVIOUS
  <1> DEFINE S == ShownBy(q)
  <1>2. /\ task[t].kind = "close" /\ Begin(t, Refreshing)
        /\ grant' = [g \in Grants |-> IF g \in S THEN [grant[g] EXCEPT !.status = "revoked"] ELSE grant[g]]
        /\ UNCHANGED <<row, marks, pending, due, refused>> /\ UNCHANGED quota /\ UNCHANGED cache /\ UNCHANGED needVars
      BY <1>1 DEF CloseRevoke
  <1>3. q \in Asked
      BY <1>1, <1>2 DEF EntriesOK, TasksOK, Shape, CloseRec
  <1>4. /\ Shape(Refreshing) /\ AfterOf(Refreshing) = None /\ Refreshing.kind = "refresh" /\ Refreshing.then = Idle
        /\ Refreshing.seen = None
    <2>1. None \in After /\ Idle \in Later
        BY DEF After, Later
    <2> QED BY <2>1, RefreshIs DEF Refreshing
  <1>5. TasksOK' /\ task'[t] = Refreshing /\ \A u \in Tasks \ {t} : task'[u] = task[u]
      BY <1>2, <1>4, BeginOK DEF EntriesOK
  <1>6. Holdless(Refreshing) /\ \A p \in Asked : ~Concerns(Refreshing, p) /\ ~Late(Refreshing, p)
      BY <1>4 DEF Holdless, Resolution, Makers, Concerns, Opens, Late, Idle
  <1>7. /\ grant' \in [Grants -> Granted \cup {None}] /\ GrantsCalm
        /\ Active' = Active \ S
    <2>1. S \in SUBSET Active
        BY DEF ShownBy
    <2> QED BY <1>2, <2>1, GrantsEnd
  <1>8. GrantsOK'
    <2>1. ASSUME NEW g, IsGrant(g) PROVE IsGrant(g)'
        BY <1>7, <2>1 DEF GrantsCalm, IsGrant
    <2>2. ASSUME NEW u \in Tasks, task'[u].kind = "refresh", task'[u].seen # None, NEW g \in task'[u].seen PROVE IsGrant(g)
        BY <1>4, <1>5, <2>2 DEF GrantsOK
    <2> QED BY <1>2, <1>7, <2>1, <2>2 DEF GrantsOK
  <1>9. \A u \in Tasks : task'[u] = task[u] \/ Holdless(task'[u])
      BY <1>5, <1>6
  <1>10. UNCHANGED <<need, crossed>> /\ NeedsOK'
      BY <1>2, NeedsStay DEF needVars
  <1>11. \A p \in Asked \ {q} : Unmoved(p)
      BY <1>1, <1>2, <1>5, <1>6, <1>10 DEF Unmoved
  <1>12. AsksOne(q)'
    <2>1. AsksOne(q)
        BY <1>3, AsksEach
    <2>2. \A u \in Tasks : (Concerns(task'[u], q) => Concerns(task[u], q)) /\ (Late(task'[u], q) => Late(task[u], q))
        BY <1>3, <1>5, <1>6
    <2>3. \A g \in Grants : grant'[g] # None => grant[g] # None /\ grant'[g].target = grant[g].target
        BY <1>7, CalmGrants
    <2>4. \A g \in Active' : grant'[g].target # q
      <3> TAKE g \in Active'
      <3>1. g \in Active /\ g \notin S /\ g \in Grants
          BY <1>7 DEF Active
      <3> QED BY <1>2, <3>1 DEF ShownBy
    <2> QED BY <1>10, <2>1, <2>2, <2>3, <2>4 DEF AsksOne
  <1>13. QuotaOK'
      BY <1>2, SameQuota DEF EntriesOK
  <1>14. Kept
      BY <1>2, <1>3, <1>5, <1>7, <1>8, <1>9, <1>11, <1>12, <1>13, NeedKept
  <1> QED BY <1>10, <1>14

\* A question expires (expireRequests).
LEMMA ExpireAskStep ==
    ASSUME EntriesOK, GrantsOK, NeedsOK, SharedInv, QuestionInv, NEW q \in Asked, ExpireAsk(q)
    PROVE  Kept /\ NeedsOK'
  <1> DEFINE S == ShownBy(q)
  <1>1. /\ need[q].status = "open" /\ need' = [need EXCEPT ![q].status = "expired"]
        /\ grant' = [g \in Grants |-> IF g \in S THEN [grant[g] EXCEPT !.status = "expired"] ELSE grant[g]]
        /\ crossed' = IF AtWorkOn(q, {}) THEN crossed \cup {q} ELSE crossed
        /\ UNCHANGED <<row, marks, pending, due, refused>> /\ UNCHANGED task /\ UNCHANGED cache /\ UNCHANGED near
      BY DEF ExpireAsk
  <1>2. QuotaOK'
      BY SpendKeeps DEF ExpireAsk, EntriesOK, Counted
  <1>3. TasksOK' /\ TaskCalm /\ \A u \in Tasks : task'[u] = task[u] \/ Holdless(task'[u])
      BY <1>1, TasksStay DEF EntriesOK
  <1>4. /\ grant' \in [Grants -> Granted \cup {None}] /\ GrantsCalm
        /\ Active' = Active \ S
    <2>1. S \in SUBSET Active
        BY DEF ShownBy
    <2> QED BY <1>1, <2>1, GrantsEnd
  <1>5. GrantsOK'
      BY <1>1, <1>3, <1>4, GrantsKept DEF GrantsOK
  <1>6. NeedsOK' /\ need'[q].status = "expired" /\ \A o \in Asked \ {q} : need'[o] = need[o]
    <2>1. "expired" \in NeedStatuses /\ crossed' \subseteq Asked /\ need[q].status # "none"
        BY <1>1 DEF NeedStatuses, NeedsOK
    <2> QED BY <1>1, <2>1, StatusChanges
  <1>7. \A p \in Asked \ {q} : Unmoved(p)
      BY <1>1, <1>6 DEF Unmoved
  <1>8. AsksOne(q)'
    <2>1. q \notin crossed' => \A u \in Tasks : ~Concerns(task'[u], q)
        BY <1>1 DEF AtWorkOn
    <2>2. \A g \in Active' : grant'[g].target # q
      <3> TAKE g \in Active'
      <3>1. g \in Active /\ g \notin S /\ g \in Grants
          BY <1>4 DEF Active
      <3> QED BY <1>1, <3>1 DEF ShownBy
    <2> QED BY <1>6, <2>1, <2>2 DEF AsksOne
  <1>9. Kept
      BY <1>1, <1>2, <1>3, <1>4, <1>5, <1>7, <1>8, NeedKept
  <1> QED BY <1>6, <1>9

\* Somebody it was shown to dismisses it (dismissRequest).
LEMMA DismissStep ==
    ASSUME EntriesOK, GrantsOK, NeedsOK, SharedInv, QuestionInv, NEW p \in People, NEW q \in Asked, Dismiss(p, q)
    PROVE  Kept /\ NeedsOK'
  <1> DEFINE old == need[q]
  <1> DEFINE new == [old EXCEPT !.dismissed = @ \cup {p}]
  <1> DEFINE T == [q : Asked, rid : Rids, e : Entries, state : {"open", "visible", "shared", "declined"}]
  <1>1. /\ need[q].status = "open" /\ need' = [need EXCEPT ![q].dismissed = @ \cup {p}]
        /\ near' = {IF x.q = q /\ x.state = "open" /\ MayAnswer(p, x) THEN [x EXCEPT !.state = "declined"] ELSE x : x \in near}
        /\ UNCHANGED rest /\ UNCHANGED task /\ UNCHANGED crossed
      BY DEF Dismiss
  <1>2. QuotaOK'
      BY SpendKeeps DEF Dismiss, EntriesOK, Counted
  <1>3. UNCHANGED <<row, marks, pending, due, refused>> /\ UNCHANGED shareVars
      BY <1>1 DEF rest, shareVars
  <1>4. TasksOK' /\ TaskCalm /\ \A u \in Tasks : task'[u] = task[u] \/ Holdless(task'[u])
      BY <1>1, TasksStay DEF EntriesOK
  <1>5. GrantsOK' /\ GrantsCalm
      BY <1>3, <1>4, GrantsStay
  <1>6. old \in NeedRec /\ old.asker \in People /\ old.home \in Positions /\ old.status = "open" /\ need' = [need EXCEPT ![q] = new]
      BY <1>1 DEF NeedsOK
  <1> HIDE DEF old
  <1>7. new \in NeedRec /\ new.status = "open" /\ new.asker = old.asker /\ new.home = old.home
      BY <1>6 DEF NeedRec
  <1> HIDE DEF new
  <1>8. need'[q] = new /\ \A o \in Asked \ {q} : need'[o] = need[o]
      BY <1>6 DEF NeedsOK
  <1>9. near' \subseteq T
    <2>1. near \subseteq T
        BY DEF NeedsOK
    <2>2. \A x \in T : [x EXCEPT !.state = "declined"] \in T
        OBVIOUS
    <2> HIDE DEF T
    <2> QED BY <1>1, <2>1, <2>2
  <1>10. NeedsOK'
    <2>1. need' \in [Asked -> NeedRec]
        BY <1>6, <1>7 DEF NeedsOK
    <2>2. \A o \in Asked : need'[o].status # "none" => need'[o].asker \in People /\ need'[o].home \in Positions
        BY <1>6, <1>7, <1>8 DEF NeedsOK
    <2>3. crossed' \subseteq Asked
        BY <1>1 DEF NeedsOK
    <2> QED BY <1>9, <2>1, <2>2, <2>3 DEF NeedsOK
  <1>11. \A o \in Asked : Unmoved(o)
      BY <1>1, <1>6, <1>7, <1>8 DEF Unmoved, old
  <1>12. AsksOne(q)'
    <2>1. AsksOne(q)
        BY AsksEach
    <2> QED BY <1>5, <1>11, <2>1, UnmovedKeeps
  <1>13. Kept
      BY <1>2, <1>3, <1>4, <1>5, <1>11, <1>12, NeedKept
  <1> QED BY <1>10, <1>13

\* Every step on a question.
LEMMA NeedTaskStep ==
    ASSUME EntriesOK, GrantsOK, NeedsOK, SharedInv, QuestionInv, NEW t \in Tasks, NeedTask(t)
    PROVE  Kept /\ NeedsOK'
  <1>1. CASE OpenJoin(t)
      BY <1>1, OpenJoinStep
  <1>2. CASE OpenGrade(t)
      BY <1>2, OpenGradeStep, CalmKept
  <1>3. CASE OpenNow(t)
      BY <1>3, OpenNowStep
  <1>4. CASE OpenMatch(t)
      BY <1>4, OpenMatchStep, CalmKept
  <1>5. CASE Show(t)
    <2>1. PICK to \in task[t].to : ShowTo(t, to)
        BY <1>5 DEF Show
    <2> QED BY <2>1, ShowToStep, CalmKept
  <1>6. CASE ShowDone(t)
      BY <1>6, ShowDoneStep, CalmKept
  <1>7. CASE MeetWrite(t)
      BY <1>7, MeetWriteStep, CalmKept
  <1>8. CASE CloseRevoke(t)
      BY <1>8, CloseRevokeStep
  <1> QED BY <1>1, <1>2, <1>3, <1>4, <1>5, <1>6, <1>7, <1>8 DEF NeedTask

\* Every call on questions keeps the types, the shares and the questions (NeedCall).
LEMMA NeedCallStep ==
    ASSUME EntriesOK, GrantsOK, NeedsOK, SharedInv, QuestionInv, NeedCall
    PROVE  Kept /\ NeedsOK'
  BY AskStep, MeetStep, ExpireAskStep DEF NeedCall

--------------------------------------------------------------------------
(* Things                                                                  *)

\* What keeps the entries, the shares and the questions.
Safe == EntriesOK' /\ GrantsOK' /\ SharedInv' /\ QuestionInv'

\* A calm step on things keeps the entries, the shares and the questions,
LEMMA ThingSafe ==
    ASSUME EntriesOK, GrantsOK, SharedInv, QuestionInv, EntryCalm, UNCHANGED shareVars, UNCHANGED needVars
    PROVE  Safe
  <1>1. EntriesOK' /\ TaskCalm /\ PendingCalm
      BY DEF EntryCalm
  <1>2. GrantsOK' /\ GrantsCalm /\ UNCHANGED refused
      BY <1>1, GrantsStay
  <1>3. PendingOK /\ TasksOK /\ refused \subseteq Pendings /\ UNCHANGED <<need, crossed>>
      BY DEF EntriesOK, GrantsOK, needVars
  <1> QED BY <1>1, <1>2, <1>3, CalmShared, CalmQuestions, TasksAreCalm DEF Safe

\* ... which it is if it leaves the rows, the marks and what is due,
LEMMA EntriesFrom ==
    ASSUME EntriesOK, UNCHANGED <<row, marks, due>>, PendingOK', PendingCalm, QuotaOK', TasksOK', TaskCalm
    PROVE  EntryCalm /\ RowsCalm
  <1>1. RowsOK' /\ MarksOK' /\ DueOK' /\ RowsCalm
      BY StillThere DEF RowsCalm
  <1> QED BY <1>1 DEF EntryCalm, EntriesOK

\* ... or changes nothing but calls.
LEMMA OnlyTask ==
    ASSUME EntriesOK, UNCHANGED <<row, marks, due>>, UNCHANGED pending, QuotaOK', TasksOK', TaskCalm
    PROVE  EntryCalm /\ RowsCalm
  BY EntriesFrom, PendingStays DEF EntriesOK

\* Things that are there stay, and new links are between what is there.
LEMMA ThingsGrow ==
    ASSUME ThingsOK, RowsCalm, thing' \in [Tids -> Thing \cup {None, Gone}], \A x \in Tids : Exists(x) => Exists(x)',
           about' \subseteq Rids \X Tids, relates' \subseteq Tids \X Tids,
           \A p \in about' : p \in about \/ (row'[p[1]] # None /\ Exists(p[2])'),
           \A p \in relates' : p \in relates \/ (Exists(p[1])' /\ Exists(p[2])')
    PROVE  ThingsOK'
  <1>1. ASSUME NEW p \in about' PROVE row'[p[1]] # None /\ Exists(p[2])'
    <2>1. CASE p \in about
      <3>1. p[1] \in Rids /\ p[2] \in Tids /\ row[p[1]] # None /\ Exists(p[2])
          BY <2>1 DEF ThingsOK
      <3> QED BY <3>1 DEF RowsCalm
    <2> QED BY <2>1
  <1>2. ASSUME NEW p \in relates' PROVE Exists(p[1])' /\ Exists(p[2])'
    <2>1. CASE p \in relates
      <3>1. p[1] \in Tids /\ p[2] \in Tids /\ Exists(p[1]) /\ Exists(p[2])
          BY <2>1 DEF ThingsOK
      <3> QED BY <3>1
    <2> QED BY <2>1
  <1>3. \A p \in about' : row'[p[1]] # None /\ Exists(p[2])'
      BY <1>1
  <1>4. \A p \in relates' : Exists(p[1])' /\ Exists(p[2])'
      BY <1>2
  <1> QED BY <1>3, <1>4 DEF ThingsOK

\* What is written of a thing is one.
LEMMA ThingIs ==
    ASSUME NEW new \in Thing
    PROVE  new \notin {None, Gone}
  <1>1. new.names # {}
      BY DEF Thing
  <1> QED BY <1>1, KnowledgeAssumption DEF Gone

\* A thing that exists is a thing.
LEMMA ThereIs ==
    ASSUME ThingsOK, NEW x \in Tids, Exists(x)
    PROVE  thing[x] \in Thing
  BY DEF ThingsOK, Exists

\* To write a thing down keeps the types.
LEMMA ThingWritten ==
    ASSUME ThingsOK, RowsCalm, NEW x \in Tids, NEW new \in Thing, thing' = [thing EXCEPT ![x] = new], UNCHANGED <<about, relates>>
    PROVE  ThingsOK'
  <1>1. thing' \in [Tids -> Thing \cup {None, Gone}] /\ thing'[x] = new /\ \A y \in Tids \ {x} : thing'[y] = thing[y]
      BY DEF ThingsOK
  <1>2. \A y \in Tids : Exists(y) => Exists(y)'
      BY <1>1, ThingIs DEF Exists
  <1>3. about' \subseteq Rids \X Tids /\ relates' \subseteq Tids \X Tids /\ about' = about /\ relates' = relates
      BY DEF ThingsOK
  <1> QED BY <1>1, <1>2, <1>3, ThingsGrow

\* Links go.
LEMMA LinksGo ==
    ASSUME ThingsOK, RowsCalm, UNCHANGED thing, about' \subseteq about, relates' \subseteq relates
    PROVE  ThingsOK'
  <1>1. \A x \in Tids : Exists(x) => Exists(x)'
      BY DEF Exists
  <1>2. about' \subseteq Rids \X Tids /\ relates' \subseteq Tids \X Tids /\ thing' \in [Tids -> Thing \cup {None, Gone}]
      BY DEF ThingsOK
  <1> QED BY <1>1, <1>2, ThingsGrow

\* A thing goes, and its links with it.
LEMMA ThingGoes ==
    ASSUME ThingsOK, RowsCalm, NEW x \in Tids, thing' = [thing EXCEPT ![x] = Gone], about' = WithoutThing(about, x),
           relates' = Unrelated(x)
    PROVE  ThingsOK'
  <1>1. thing' \in [Tids -> Thing \cup {None, Gone}] /\ \A y \in Tids \ {x} : thing'[y] = thing[y]
      BY DEF ThingsOK
  <1>2. \A p \in about' : p \in about /\ p[2] # x
      BY DEF WithoutThing
  <1>3. \A p \in relates' : p \in relates /\ p[1] # x /\ p[2] # x
      BY DEF Unrelated
  <1>4. \A p \in about' : p \in Rids \X Tids /\ row'[p[1]] # None /\ Exists(p[2])'
    <2> TAKE p \in about'
    <2>1. p \in Rids \X Tids /\ row[p[1]] # None /\ Exists(p[2]) /\ p[2] # x
        BY <1>2 DEF ThingsOK
    <2> QED BY <1>1, <2>1 DEF RowsCalm, Exists
  <1>5. \A p \in relates' : p \in Tids \X Tids /\ Exists(p[1])' /\ Exists(p[2])'
    <2> TAKE p \in relates'
    <2>1. p \in Tids \X Tids /\ Exists(p[1]) /\ Exists(p[2]) /\ p[1] # x /\ p[2] # x
        BY <1>3 DEF ThingsOK
    <2> QED BY <1>1, <2>1 DEF Exists
  <1>6. about' \subseteq Rids \X Tids /\ relates' \subseteq Tids \X Tids
      BY <1>4, <1>5
  <1> QED BY <1>1, <1>4, <1>5, <1>6 DEF ThingsOK

\* An entry goes, and its links with it.
LEMMA EntryGoes ==
    ASSUME EntriesOK, ThingsOK, NEW r \in Rids, row[r] # None, Removed(r), about' = WithoutEntry(about, r), UNCHANGED <<thing, relates>>
    PROVE  RowsOK' /\ DueOK' /\ ThingsOK'
  <1>1. row[r].e \in Entries /\ Everyone \in Homes
      BY RowIs DEF EntriesOK, Homes
  <1>2. row' \in [Rids -> Row \cup {None}] /\ \A s \in Rids \ {r} : row'[s] = row[s]
      BY DEF Removed, EntriesOK, RowsOK
  <1>3. due' \in [Entries -> Homes]
      BY <1>1 DEF Removed, EntriesOK, DueOK
  <1>4. \A p \in about' : p \in about /\ p[1] # r
      BY DEF WithoutEntry
  <1>5. \A p \in about' : p \in Rids \X Tids /\ row'[p[1]] # None /\ Exists(p[2])'
    <2> TAKE p \in about'
    <2>1. p \in Rids \X Tids /\ row[p[1]] # None /\ Exists(p[2]) /\ p[1] # r
        BY <1>4 DEF ThingsOK
    <2> QED BY <1>2, <2>1 DEF Exists
  <1>6. about' \subseteq Rids \X Tids
      BY <1>5
  <1>7. thing' \in [Tids -> Thing \cup {None, Gone}] /\ relates' \subseteq Tids \X Tids
        /\ \A p \in relates' : Exists(p[1])' /\ Exists(p[2])'
      BY DEF ThingsOK, Exists
  <1> QED BY <1>2, <1>3, <1>5, <1>6, <1>7 DEF RowsOK, DueOK, ThingsOK

\* Calls on things.
LEMMA LinkCallStep ==
    ASSUME EntriesOK, ThingsOK, NEW r \in Rids, NEW ns \in SUBSET Nouns, ns # {}, NEW asks \in BOOLEAN, Link(r, ns, asks)
    PROVE  EntryCalm /\ ThingsOK' /\ UNCHANGED <<shareVars, needVars>>
  <1> DEFINE w == LinkTask(r, ns, asks)
  <1>1. row[r] # None /\ HasTask /\ Begin(FreeTask, w) /\ UNCHANGED <<row, pending, due>> /\ UNCHANGED others /\ UNCHANGED thingVars
      BY DEF Link
  <1>2. QuotaOK'
      BY SpendKeeps DEF Link, EntriesOK, Counted
  <1>3. w = [kind |-> "link", rid |-> r, home |-> row[r].home, todo |-> ns, asks |-> asks]
      BY DEF LinkTask
  <1>4. row[r].home \in Homes
      BY <1>1, RowIs DEF EntriesOK
  <1>5. w \in LinkRec /\ w.kind = "link"
      BY <1>3, <1>4 DEF LinkRec
  <1> HIDE DEF w
  <1>6. Shape(w) /\ AfterOf(w) = None /\ w.kind \in Plain
      BY <1>5 DEF Shape, AfterOf, Plain
  <1>7. TasksOK' /\ TaskCalm
      BY <1>1, <1>6, BeginNew DEF EntriesOK
  <1>8. EntryCalm /\ RowsCalm
      BY <1>1, <1>2, <1>7, OnlyTask DEF others
  <1>9. ThingsOK'
      BY <1>1, <1>8, ThingsStay DEF thingVars
  <1> QED BY <1>1, <1>8, <1>9 DEF others

\* The call that looks after a stray thing is of its kind.
LEMMA StrayIs ==
    ASSUME NEW x \in Tids, NEW counted \in BOOLEAN, NEW w, w = [kind |-> "stray", x |-> x, counted |-> counted]
    PROVE  Shape(w) /\ AfterOf(w) = None /\ w.kind \in Plain
  <1>1. w \in StrayRec /\ w.kind = "stray"
      BY DEF StrayRec
  <1> QED BY <1>1 DEF Shape, AfterOf, Plain

\* An entry is no longer about a thing (Unlink).
LEMMA UnlinkStep ==
    ASSUME EntriesOK, ThingsOK, NEW r \in Rids, NEW n \in Nouns, NEW x \in Tids, Unlink(r, n, x)
    PROVE  EntryCalm /\ ThingsOK' /\ UNCHANGED <<shareVars, needVars>>
  <1>0. FALSE \in BOOLEAN
      OBVIOUS
  <1>1. /\ HasTask /\ Begin(FreeTask, [kind |-> "stray", x |-> x, counted |-> FALSE]) /\ UNCHANGED <<row, pending, due>>
        /\ UNCHANGED others /\ UNCHANGED <<thing, relates>> /\ about' = about \ {<<r, x>>}
      BY DEF Unlink
  <1>2. QuotaOK'
      BY SpendKeeps DEF Unlink, EntriesOK, Counted
  <1>3. TasksOK' /\ TaskCalm
      BY <1>0, <1>1, StrayIs, BeginNew DEF EntriesOK
  <1>4. EntryCalm /\ RowsCalm
      BY <1>1, <1>2, <1>3, OnlyTask DEF others
  <1>5. ThingsOK'
      BY <1>1, <1>4, LinksGo
  <1> QED BY <1>1, <1>4, <1>5 DEF others

\* A thing is deleted, and what linked to it (DeleteThing),
LEMMA DeleteThingStep ==
    ASSUME EntriesOK, ThingsOK, NEW n \in Nouns, NEW x \in Tids, DeleteThing(n, x)
    PROVE  EntryCalm /\ ThingsOK' /\ UNCHANGED <<shareVars, needVars>>
  <1>0. TRUE \in BOOLEAN
      OBVIOUS
  <1>1. /\ HasTask /\ Begin(FreeTask, [kind |-> "stray", x |-> x, counted |-> TRUE]) /\ UNCHANGED <<row, pending, due>>
        /\ UNCHANGED others /\ UNCHANGED thingVars
      BY DEF DeleteThing
  <1>2. QuotaOK'
      BY SpendKeeps DEF DeleteThing, EntriesOK, Counted
  <1>3. TasksOK' /\ TaskCalm
      BY <1>0, <1>1, StrayIs, BeginNew DEF EntriesOK
  <1>4. EntryCalm /\ RowsCalm
      BY <1>1, <1>2, <1>3, OnlyTask DEF others
  <1>5. ThingsOK'
      BY <1>1, <1>4, ThingsStay DEF thingVars
  <1> QED BY <1>1, <1>4, <1>5 DEF others

\* ... renamed (Rename),
LEMMA RenameStep ==
    ASSUME EntriesOK, ThingsOK, NEW x \in Tids, NEW n \in Nouns, Rename(x, n)
    PROVE  EntryCalm /\ ThingsOK' /\ UNCHANGED <<shareVars, needVars>>
  <1> DEFINE w == [kind |-> "rename", x |-> x, names |-> thing[x].names \cup {n}]
  <1>1. /\ HasTask /\ Begin(FreeTask, w) /\ UNCHANGED <<row, pending, due>> /\ Exists(x)
        /\ UNCHANGED others /\ UNCHANGED thingVars
      BY DEF Rename
  <1>2. QuotaOK'
      BY SpendKeeps DEF Rename, EntriesOK, Counted
  <1>3. thing[x].names \subseteq Nouns
      BY <1>1, ThereIs DEF Thing
  <1>4. w \in RenameRec /\ w.kind = "rename"
      BY <1>3 DEF RenameRec
  <1> HIDE DEF w
  <1>5. Shape(w) /\ AfterOf(w) = None /\ w.kind \in Plain
      BY <1>4 DEF Shape, AfterOf, Plain
  <1>6. TasksOK' /\ TaskCalm
      BY <1>1, <1>5, BeginNew DEF EntriesOK
  <1>7. EntryCalm /\ RowsCalm
      BY <1>1, <1>2, <1>6, OnlyTask DEF others
  <1>8. ThingsOK'
      BY <1>1, <1>7, ThingsStay DEF thingVars
  <1> QED BY <1>1, <1>7, <1>8 DEF others

\* ... and related to another, or no longer (Relate, Unrelate).
LEMMA RelateStep ==
    ASSUME EntriesOK, ThingsOK, NEW x \in Tids, NEW y \in Tids, Relate(x, y) \/ Unrelate(x, y)
    PROVE  EntryCalm /\ ThingsOK' /\ UNCHANGED <<shareVars, needVars>>
  <1>1. UNCHANGED <<row, pending, due, task>> /\ UNCHANGED others /\ UNCHANGED <<thing, about>>
      BY DEF Relate, Unrelate
  <1>2. QuotaOK'
      BY SpendKeeps DEF Relate, Unrelate, EntriesOK, Counted
  <1>3. TasksOK' /\ TaskCalm
      BY <1>1, TasksStay DEF EntriesOK
  <1>4. EntryCalm /\ RowsCalm
      BY <1>1, <1>2, <1>3, OnlyTask DEF others
  <1>5. ThingsOK'
    <2>1. CASE Relate(x, y)
      <3>1. Exists(x) /\ Exists(y) /\ relates' = relates \cup {<<x, y>>}
          BY <2>1 DEF Relate
      <3>2. thing' \in [Tids -> Thing \cup {None, Gone}] /\ about' = about /\ about' \subseteq Rids \X Tids
            /\ relates' \subseteq Tids \X Tids
          BY <1>1, <3>1 DEF ThingsOK
      <3>3. \A z \in Tids : Exists(z) => Exists(z)'
          BY <1>1 DEF Exists
      <3> QED BY <1>4, <3>1, <3>2, <3>3, ThingsGrow
    <2>2. CASE Unrelate(x, y)
        BY <1>1, <1>4, <2>2, LinksGo DEF Unrelate
    <2> QED BY <2>1, <2>2
  <1> QED BY <1>1, <1>4, <1>5 DEF others

\* A proposed merge is a proposal.
LEMMA MergePendingIn ==
    ASSUME NEW a \in Actors \cup {None}, NEW keep \in Tids, NEW drop \in Tids
    PROVE  MergePending(a, keep, drop) \in Proposal
  <1>1. Root \in Homes
      BY TreeAssumption DEF Homes
  <1> QED BY <1>1 DEF MergePending, Proposal, Statuses

\* Two things are merged, or proposed to be (Merge),
LEMMA MergeStep ==
    ASSUME EntriesOK, ThingsOK, NEW keep \in Tids, NEW drop \in Tids, NEW propose \in BOOLEAN, Merge(Worker, keep, drop, propose)
    PROVE  EntryCalm /\ ThingsOK' /\ UNCHANGED <<shareVars, needVars>>
  <1>1. UNCHANGED <<row, due>> /\ UNCHANGED others /\ UNCHANGED thingVars
      BY DEF Merge
  <1>2. QuotaOK'
      BY SpendKeeps DEF Merge, EntriesOK, Counted
  <1>3. TasksOK' /\ TaskCalm /\ PendingOK' /\ PendingCalm
    <2>1. CASE propose
      <3>1. Queue(MergePending(Worker, keep, drop)) /\ UNCHANGED task
          BY <2>1 DEF Merge
      <3>2. MergePending(Worker, keep, drop) \in Proposal
          BY MergePendingIn DEF Actors
      <3> QED BY <3>1, <3>2, QueueOK, TasksStay DEF EntriesOK
    <2>2. CASE ~propose
      <3> DEFINE w == MergeTask(keep, drop, None)
      <3>1. HasTask /\ Begin(FreeTask, w) /\ UNCHANGED pending
          BY <2>2 DEF Merge
      <3>2. Shape(w) /\ AfterOf(w) = None /\ w.kind \in Plain
          BY MergeTaskOK DEF After, Plain
      <3> HIDE DEF w
      <3> QED BY <3>1, <3>2, BeginNew, PendingStays DEF EntriesOK
    <2> QED BY <2>1, <2>2
  <1>4. EntryCalm /\ RowsCalm
      BY <1>1, <1>2, <1>3, EntriesFrom DEF others
  <1>5. ThingsOK'
      BY <1>1, <1>4, ThingsStay DEF thingVars
  <1> QED BY <1>1, <1>4, <1>5 DEF others

\* ... and two entries folded (Fold).
LEMMA FoldStep ==
    ASSUME EntriesOK, ThingsOK, NEW keep \in Rids, NEW drop \in Rids, NEW propose \in BOOLEAN, Fold(keep, drop, propose)
    PROVE  EntryCalm /\ ThingsOK' /\ UNCHANGED <<shareVars, needVars>>
  <1>1. UNCHANGED <<row, due>> /\ UNCHANGED others /\ UNCHANGED thingVars
      BY DEF Fold
  <1>2. QuotaOK'
      BY SpendKeeps DEF Fold, EntriesOK, Counted
  <1>3. TasksOK' /\ TaskCalm /\ PendingOK' /\ PendingCalm
    <2>1. CASE propose \/ row[keep].home # row[drop].home
      <3> DEFINE new == RefPending("fold", Worker, keep, drop)
      <3>1. Queue(new) /\ UNCHANGED task
          BY <2>1 DEF Fold
      <3>2. new \in Proposal
        <4>1. Root \in Homes
            BY TreeAssumption DEF Homes
        <4> QED BY <4>1 DEF RefPending, Proposal, Statuses, Actors
      <3> HIDE DEF new
      <3> QED BY <3>1, <3>2, QueueOK, TasksStay DEF EntriesOK
    <2>2. CASE ~(propose \/ row[keep].home # row[drop].home)
      <3> DEFINE w == FoldTask(keep, drop, None)
      <3>1. HasTask /\ Begin(FreeTask, w) /\ UNCHANGED pending
          BY <2>2 DEF Fold
      <3>2. Shape(w) /\ AfterOf(w) = None /\ w.kind \in Plain
          BY FoldTaskOK DEF After, Plain
      <3> HIDE DEF w
      <3> QED BY <3>1, <3>2, BeginNew, PendingStays DEF EntriesOK
    <2> QED BY <2>1, <2>2
  <1>4. EntryCalm /\ RowsCalm
      BY <1>1, <1>2, <1>3, EntriesFrom DEF others
  <1>5. ThingsOK'
      BY <1>1, <1>4, ThingsStay DEF thingVars
  <1> QED BY <1>1, <1>4, <1>5 DEF others

\* The call that deletes an entry is of its kind.
LEMMA DeleteIs ==
    ASSUME NEW drop \in Rids, NEW after \in After, NEW w, w = [kind |-> "delete", drop |-> drop, after |-> after]
    PROVE  Shape(w) /\ AfterOf(w) = after /\ w.kind \in Plain
  <1>1. w \in DeleteRec /\ w.kind = "delete" /\ w.after = after
      BY DEF DeleteRec
  <1> QED BY <1>1 DEF Shape, AfterOf, Plain

\* A worker deletes an entry, or proposes to (WorkerDelete),
LEMMA WorkerDeleteStep ==
    ASSUME EntriesOK, ThingsOK, NEW r \in Rids, NEW propose \in BOOLEAN, WorkerDelete(r, propose)
    PROVE  EntryCalm /\ ThingsOK' /\ UNCHANGED <<shareVars, needVars>>
  <1>1. UNCHANGED <<row, due>> /\ UNCHANGED others /\ UNCHANGED thingVars
      BY DEF WorkerDelete
  <1>2. QuotaOK'
      BY SpendKeeps DEF WorkerDelete, EntriesOK, Counted
  <1>3. TasksOK' /\ TaskCalm /\ PendingOK' /\ PendingCalm
    <2>1. CASE propose \/ ThingsOf(r) # {}
      <3> DEFINE new == RefPending("delete", Worker, None, r)
      <3>1. Queue(new) /\ UNCHANGED task
          BY <2>1 DEF WorkerDelete
      <3>2. new \in Proposal
        <4>1. Root \in Homes
            BY TreeAssumption DEF Homes
        <4> QED BY <4>1 DEF RefPending, Proposal, Statuses, Actors
      <3> HIDE DEF new
      <3> QED BY <3>1, <3>2, QueueOK, TasksStay DEF EntriesOK
    <2>2. CASE ~(propose \/ ThingsOf(r) # {})
      <3> DEFINE w == [kind |-> "delete", drop |-> r, after |-> None]
      <3>1. HasTask /\ Begin(FreeTask, w) /\ UNCHANGED pending
          BY <2>2 DEF WorkerDelete
      <3>2. None \in After
          BY DEF After
      <3>3. Shape(w) /\ AfterOf(w) = None /\ w.kind \in Plain
          BY <3>2, DeleteIs
      <3> HIDE DEF w
      <3> QED BY <3>1, <3>3, BeginNew, PendingStays DEF EntriesOK
    <2> QED BY <2>1, <2>2
  <1>4. EntryCalm /\ RowsCalm
      BY <1>1, <1>2, <1>3, EntriesFrom DEF others
  <1>5. ThingsOK'
      BY <1>1, <1>4, ThingsStay DEF thingVars
  <1> QED BY <1>1, <1>4, <1>5 DEF others

\* ... and a person does (deleteEntry).
LEMMA DeleteEntryStep ==
    ASSUME EntriesOK, ThingsOK, NEW r \in Rids, DeleteEntry(r)
    PROVE  EntryCalm /\ ThingsOK' /\ UNCHANGED <<shareVars, needVars>>
  <1>1. /\ row[r] # None /\ HasTask /\ Removed(r) /\ Begin(FreeTask, Refreshing) /\ UNCHANGED <<marks, pending>>
        /\ UNCHANGED <<shareVars, needVars>> /\ about' = WithoutEntry(about, r) /\ UNCHANGED <<thing, relates>>
      BY DEF DeleteEntry, Delete
  <1>2. QuotaOK'
      BY SpendKeeps DEF DeleteEntry, Delete, EntriesOK, Counted
  <1>3. RowsOK' /\ DueOK' /\ ThingsOK'
      BY <1>1, EntryGoes
  <1>4. TasksOK' /\ TaskCalm
      BY <1>1, BeginRefresh DEF EntriesOK
  <1>5. MarksOK' /\ PendingOK' /\ PendingCalm
      BY <1>1, PendingStays DEF EntriesOK, MarksOK
  <1> QED BY <1>1, <1>2, <1>3, <1>4, <1>5 DEF EntryCalm, EntriesOK

--------------------------------------------------------------------------
(* Calls at work on things                                                 *)

\* Where a thing was seen from is read (SeenRead),
LEMMA SeenReadStep ==
    ASSUME EntriesOK, ThingsOK, NEW t \in Tasks, SeenRead(t)
    PROVE  EntryCalm /\ ThingsOK' /\ UNCHANGED <<shareVars, needVars>>
  <1> DEFINE v == task[t]
  <1>1. v.kind = "seen" /\ UNCHANGED <<row, pending, due, quota>> /\ UNCHANGED others /\ UNCHANGED thingVars
      BY DEF SeenRead
  <1>2. PICK x \in v.todo :
          Begin(t, IF Exists(x) THEN [v EXCEPT !.x = x, !.got = thing[x].homes] ELSE Seen(v.todo \ {x}, v.home, v.then))
      BY DEF SeenRead
  <1>3. v \in SeenRec
      BY <1>1 DEF EntriesOK, TasksOK, Shape
  <1>4. v.todo \in SUBSET Tids /\ x \in Tids /\ v.home \in Homes /\ v.then \in Rests
      BY <1>3 DEF SeenRec
  <1>5. AfterOf(v) = AfterOf(v.then) /\ v.kind \notin Makers
      BY <1>1, <1>4, RestIs DEF AfterOf, Makers
  <1>6. TasksOK' /\ TaskCalm
    <2>1. CASE Exists(x)
      <3> DEFINE w == [v EXCEPT !.x = x, !.got = thing[x].homes]
      <3>1. thing[x].homes \in SUBSET Homes
          BY <1>4, <2>1, ThereIs DEF Thing
      <3>2. w \in SeenRec /\ w.kind = "seen" /\ w.then = v.then
          BY <1>3, <1>4, <3>1 DEF SeenRec
      <3>3. Begin(t, w)
          BY <1>2, <2>1
      <3> HIDE DEF w
      <3>4. Shape(w) /\ AfterOf(w) = AfterOf(v) /\ w.kind \in Plain
          BY <1>1, <3>2 DEF Shape, AfterOf, Plain
      <3> QED BY <1>1, <1>5, <3>3, <3>4, BeginPlain DEF EntriesOK
    <2>2. CASE ~Exists(x)
      <3>1. Begin(t, Seen(v.todo \ {x}, v.home, v.then)) /\ v.todo \ {x} \in SUBSET Tids
          BY <1>2, <1>4, <2>2
      <3> QED BY <1>1, <1>4, <1>5, <3>1, BeginSeen DEF EntriesOK
    <2> QED BY <2>1, <2>2
  <1>7. EntryCalm /\ RowsCalm
      BY <1>1, <1>6, OnlyTask, SameQuota DEF others, EntriesOK
  <1>8. ThingsOK'
      BY <1>1, <1>7, ThingsStay DEF thingVars
  <1> QED BY <1>1, <1>7, <1>8 DEF others

\* ... and written down with one home more (SeenWrite).
LEMMA SeenWriteStep ==
    ASSUME EntriesOK, ThingsOK, NEW t \in Tasks, SeenWrite(t)
    PROVE  EntryCalm /\ ThingsOK' /\ UNCHANGED <<shareVars, needVars>>
  <1> DEFINE v == task[t]
  <1> DEFINE x == v.x
  <1>1. /\ v.kind = "seen" /\ x # None /\ UNCHANGED <<row, pending, due, quota>> /\ UNCHANGED others /\ UNCHANGED <<about, relates>>
        /\ Begin(t, Seen(v.todo \ {x}, v.home, v.then))
        /\ UNCHANGED thing \/ (Exists(x) /\ thing' = [thing EXCEPT ![x].homes = v.got \cup {v.home}])
      BY DEF SeenWrite
  <1>2. v \in SeenRec
      BY <1>1 DEF EntriesOK, TasksOK, Shape
  <1>3. v.todo \ {x} \in SUBSET Tids /\ x \in Tids /\ v.home \in Homes /\ v.then \in Rests /\ v.got \in SUBSET Homes
      BY <1>1, <1>2 DEF SeenRec
  <1>4. AfterOf(v) = AfterOf(v.then) /\ v.kind \notin Makers
      BY <1>1, <1>3, RestIs DEF AfterOf, Makers
  <1>5. TasksOK' /\ TaskCalm
      BY <1>1, <1>3, <1>4, BeginSeen DEF EntriesOK
  <1>6. EntryCalm /\ RowsCalm
      BY <1>1, <1>5, OnlyTask, SameQuota DEF others, EntriesOK
  <1>7. ThingsOK'
    <2>1. CASE UNCHANGED thing
        BY <1>1, <1>6, <2>1, ThingsStay
    <2>2. CASE Exists(x) /\ thing' = [thing EXCEPT ![x].homes = v.got \cup {v.home}]
      <3> DEFINE old == thing[x]
      <3> DEFINE homes == v.got \cup {v.home}
      <3> DEFINE new == [old EXCEPT !.homes = homes]
      <3>1. old \in Thing /\ homes \in SUBSET Homes /\ thing' = [thing EXCEPT ![x] = new]
          BY <1>3, <2>2, ThereIs
      <3> HIDE DEF old, homes
      <3>2. new \in Thing
          BY <3>1 DEF Thing
      <3> HIDE DEF new, x
      <3> QED BY <1>1, <1>3, <1>6, <3>1, <3>2, ThingWritten
    <2> QED BY <1>1, <2>1, <2>2
  <1> QED BY <1>1, <1>6, <1>7 DEF others

\* ... or one of them is let go of (SeenFails).
LEMMA SeenFailsStep ==
    ASSUME EntriesOK, ThingsOK, NEW t \in Tasks, SeenFails(t)
    PROVE  EntryCalm /\ ThingsOK' /\ UNCHANGED <<shareVars, needVars>>
  <1> DEFINE v == task[t]
  <1>1. /\ v.kind = "seen" /\ UNCHANGED <<row, pending, due, quota>> /\ UNCHANGED others /\ UNCHANGED <<thing, about, relates>>
      BY DEF SeenFails
  <1>2. PICK x \in v.todo : Begin(t, Seen(v.todo \ {x}, v.home, v.then))
      BY DEF SeenFails
  <1>3. v \in SeenRec
      BY <1>1 DEF EntriesOK, TasksOK, Shape
  <1>4. v.todo \ {x} \in SUBSET Tids /\ v.home \in Homes /\ v.then \in Rests
      BY <1>3 DEF SeenRec
  <1>5. AfterOf(v) = AfterOf(v.then) /\ v.kind \notin Makers
      BY <1>1, <1>4, RestIs DEF AfterOf, Makers
  <1>6. TasksOK' /\ TaskCalm
      BY <1>1, <1>2, <1>4, <1>5, BeginSeen DEF EntriesOK
  <1>7. EntryCalm /\ RowsCalm
      BY <1>1, <1>6, OnlyTask, SameQuota DEF others, EntriesOK
  <1>8. ThingsOK'
      BY <1>1, <1>7, ThingsStay
  <1> QED BY <1>1, <1>7, <1>8 DEF others

\* What is left of a linking, and the edge that one of its names gets.
LEMMA OnwardIs ==
    ASSUME NEW l \in LinkRec, NEW n \in Nouns, NEW x \in Tids, NEW w, w = Onward(l, n)
    PROVE  /\ w \in {Idle} \cup LinkRec /\ Shape(w) /\ w.kind \in Plain /\ AfterOf(w) = None
           /\ AboutTask(l, n, x) \in AboutRec
  <1>1. w \in {Idle} \cup LinkRec
      BY DEF Onward, LinkRec
  <1>2. ASSUME w = Idle PROVE Shape(w) /\ w.kind \in Plain /\ AfterOf(w) = None
      BY <1>2 DEF Idle, Shape, Plain, AfterOf
  <1>3. ASSUME w \in LinkRec PROVE Shape(w) /\ w.kind \in Plain /\ AfterOf(w) = None
    <2>1. w.kind = "link"
        BY <1>3 DEF LinkRec
    <2> QED BY <1>3, <2>1 DEF Shape, Plain, AfterOf
  <1>4. AboutTask(l, n, x) = [kind |-> "about", rid |-> l.rid, home |-> l.home, x |-> x, next |-> w]
      BY DEF AboutTask
  <1>5. AboutTask(l, n, x) \in AboutRec
      BY <1>1, <1>4 DEF AboutRec, LinkRec
  <1> QED BY <1>1, <1>2, <1>3, <1>5

\* To link an entry to a thing, once that is seen from its home, keeps the types.
LEMMA BeginAbout ==
    ASSUME TasksOK, NEW t \in Tasks, task[t].kind # "close", NEW l \in LinkRec, NEW n \in Nouns, NEW x \in Tids,
           Begin(t, Seen({x}, l.home, AboutTask(l, n, x)))
    PROVE  TasksOK' /\ TaskCalm
  <1> DEFINE next == AboutTask(l, n, x)
  <1>1. next \in AboutRec /\ l.home \in Homes /\ {x} \in SUBSET Tids
      BY OnwardIs DEF LinkRec
  <1>2. Begin(t, Seen({x}, l.home, next))
      OBVIOUS
  <1> HIDE DEF next
  <1>3. next \in Rests /\ next.kind = "about"
      BY <1>1 DEF Rests, AboutRec
  <1>4. AfterOf(next) = None
      BY <1>3 DEF AfterOf
  <1> QED BY <1>1, <1>2, <1>3, <1>4, BeginSeen

\* The next name an entry mentions is linked (LinkStep),
LEMMA LinkStepOK ==
    ASSUME EntriesOK, ThingsOK, NEW t \in Tasks, LinkStep(t)
    PROVE  EntryCalm /\ ThingsOK' /\ UNCHANGED <<shareVars, needVars>>
  <1> DEFINE l == task[t]
  <1>1. PICK n \in l.todo : LinkMatch(t, n)
      BY DEF LinkStep
  <1>2. l.kind = "link" /\ UNCHANGED <<row, pending, due, quota>> /\ UNCHANGED others /\ UNCHANGED <<about, relates>>
      BY <1>1 DEF LinkStep, LinkMatch
  <1>3. l \in LinkRec
      BY <1>2 DEF EntriesOK, TasksOK, Shape
  <1>4. n \in Nouns /\ l.home \in Homes
      BY <1>3 DEF LinkRec
  <1>5. \/ \E x \in Called(n) : Begin(t, Seen({x}, l.home, AboutTask(l, n, x))) /\ UNCHANGED thing
        \/ Begin(t, Onward(l, n)) /\ UNCHANGED thing
        \/ \E x \in Tids : /\ Exists(x) /\ thing' = [thing EXCEPT ![x].names = @ \cup {n}]
                           /\ Begin(t, Seen({x}, l.home, AboutTask(l, n, x)))
        \/ /\ UNCHANGED thing
           /\ \E maybe \in {None} \cup Tids : Begin(t, [kind |-> "make", l |-> l, n |-> n, maybe |-> maybe])
      BY <1>1 DEF LinkMatch
  <1>6. TasksOK' /\ TaskCalm
    <2>1. CASE \E x \in Tids : Begin(t, Seen({x}, l.home, AboutTask(l, n, x)))
        BY <1>2, <1>3, <1>4, <2>1, BeginAbout DEF EntriesOK
    <2>2. CASE Begin(t, Onward(l, n))
      <3> DEFINE w == Onward(l, n)
      <3>1. Shape(w) /\ w.kind \in Plain /\ AfterOf(w) = None
        <4>1. CASE \E x \in Tids : TRUE
            BY <1>3, <1>4, <4>1, OnwardIs
        <4>2. CASE ~\E x \in Tids : TRUE
          <5>1. w \in {Idle} \cup LinkRec
              BY <1>3, <1>4 DEF Onward, LinkRec
          <5>2. CASE w = Idle
              BY <5>2 DEF Idle, Shape, Plain, AfterOf
          <5>3. CASE w \in LinkRec
            <6>1. w.kind = "link"
                BY <5>3 DEF LinkRec
            <6> HIDE DEF w
            <6> QED BY <5>3, <6>1 DEF Shape, Plain, AfterOf
          <5> QED BY <5>1, <5>2, <5>3
        <4> QED BY <4>1, <4>2
      <3>2. Begin(t, w)
          BY <2>2
      <3> HIDE DEF w
      <3> QED BY <1>2, <3>1, <3>2, BeginPlain DEF EntriesOK
    <2>3. CASE \E maybe \in {None} \cup Tids : Begin(t, [kind |-> "make", l |-> l, n |-> n, maybe |-> maybe])
      <3>1. PICK maybe \in {None} \cup Tids : Begin(t, [kind |-> "make", l |-> l, n |-> n, maybe |-> maybe])
          BY <2>3
      <3> DEFINE w == [kind |-> "make", l |-> l, n |-> n, maybe |-> maybe]
      <3>2. w \in MakeRec /\ w.kind = "make"
          BY <1>3, <1>4 DEF MakeRec
      <3>3. Begin(t, w)
          BY <3>1
      <3> HIDE DEF w
      <3>4. Shape(w) /\ w.kind \in Plain /\ AfterOf(w) = None
          BY <3>2 DEF Shape, Plain, AfterOf
      <3> QED BY <1>2, <3>3, <3>4, BeginPlain DEF EntriesOK
    <2>4. \A x \in Called(n) : x \in Tids
        BY DEF Called
    <2> QED BY <1>5, <2>1, <2>2, <2>3, <2>4
  <1>7. EntryCalm /\ RowsCalm
      BY <1>2, <1>6, OnlyTask, SameQuota DEF others, EntriesOK
  <1>8. ThingsOK'
    <2>1. CASE UNCHANGED thing
        BY <1>2, <1>7, <2>1, ThingsStay
    <2>2. ASSUME NEW x \in Tids, Exists(x), thing' = [thing EXCEPT ![x].names = @ \cup {n}] PROVE ThingsOK'
      <3> DEFINE old == thing[x]
      <3> DEFINE names == old.names \cup {n}
      <3> DEFINE new == [old EXCEPT !.names = names]
      <3>1. old \in Thing /\ thing' = [thing EXCEPT ![x] = new]
          BY <2>2, ThereIs
      <3>2. names \in (SUBSET Nouns) \ {{}}
          BY <1>4, <3>1 DEF Thing
      <3> HIDE DEF old, names
      <3>3. new \in Thing
          BY <3>1, <3>2 DEF Thing
      <3> HIDE DEF new
      <3> QED BY <1>2, <1>7, <3>1, <3>3, ThingWritten
    <2> QED BY <1>5, <2>1, <2>2
  <1> QED BY <1>2, <1>7, <1>8 DEF others

\* ... with a thing made for it where there is none (MakeThing),
LEMMA MakeThingStep ==
    ASSUME EntriesOK, ThingsOK, NEW t \in Tasks, MakeThing(t)
    PROVE  EntryCalm /\ ThingsOK' /\ UNCHANGED <<shareVars, needVars>>
  <1> DEFINE m == task[t]
  <1>1. m.kind = "make" /\ UNCHANGED <<row, due, quota>> /\ UNCHANGED others /\ UNCHANGED <<about, relates>>
      BY DEF MakeThing
  <1>2. m \in MakeRec
      BY <1>1 DEF EntriesOK, TasksOK, Shape
  <1>3. m.l \in LinkRec /\ m.n \in Nouns /\ m.maybe \in Tids \cup {None} /\ m.l.home \in Homes
      BY <1>2 DEF MakeRec, LinkRec
  <1>4. PICK x \in Tids, keyed \in BOOLEAN :
         /\ thing' = [thing EXCEPT ![x] = [names |-> {m.n}, homes |-> {m.l.home}, keyed |-> keyed]]
         /\ Begin(t, Seen({x}, m.l.home, AboutTask(m.l, m.n, x)))
         /\ IF m.maybe = None THEN UNCHANGED pending ELSE Queue(MergePending(None, m.maybe, x))
      BY DEF MakeThing
  <1>5. TasksOK' /\ TaskCalm
      BY <1>1, <1>3, <1>4, BeginAbout DEF EntriesOK
  <1>6. PendingOK' /\ PendingCalm
    <2>1. CASE m.maybe = None
        BY <1>4, <2>1, PendingStays DEF EntriesOK
    <2>2. CASE m.maybe # None
      <3>1. Queue(MergePending(None, m.maybe, x))
          BY <1>4, <2>2
      <3>2. MergePending(None, m.maybe, x) \in Proposal
          BY <1>3, <2>2, MergePendingIn
      <3> QED BY <3>1, <3>2, QueueOK DEF EntriesOK
    <2> QED BY <2>1, <2>2
  <1>7. EntryCalm /\ RowsCalm
      BY <1>1, <1>5, <1>6, EntriesFrom, SameQuota DEF others, EntriesOK
  <1>8. [names |-> {m.n}, homes |-> {m.l.home}, keyed |-> keyed] \in Thing
      BY <1>3 DEF Thing
  <1>9. ThingsOK'
      BY <1>1, <1>4, <1>7, <1>8, ThingWritten
  <1> QED BY <1>1, <1>7, <1>9 DEF others

\* ... and the link made once, if both are still there (aboutOnce).
LEMMA AboutOnceStep ==
    ASSUME EntriesOK, ThingsOK, NEW t \in Tasks, AboutOnce(t)
    PROVE  EntryCalm /\ ThingsOK' /\ UNCHANGED <<shareVars, needVars>>
  <1> DEFINE a == task[t]
  <1>1. a.kind = "about" /\ UNCHANGED <<row, pending, due, quota>> /\ UNCHANGED others /\ UNCHANGED <<thing, relates>>
      BY DEF AboutOnce
  <1>2. a \in AboutRec
      BY <1>1 DEF EntriesOK, TasksOK, Shape
  <1>3. a.rid \in Rids /\ a.x \in Tids /\ a.next \in {Idle} \cup LinkRec
      BY <1>2 DEF AboutRec
  <1>4. PICK w \in {Idle} \cup LinkRec : Begin(t, w)
      BY <1>3 DEF AboutOnce
  <1>5. Shape(w) /\ w.kind \in Plain /\ AfterOf(w) = None
    <2>1. CASE w = Idle
        BY <2>1 DEF Idle, Shape, Plain, AfterOf
    <2>2. CASE w \in LinkRec
      <3>1. w.kind = "link"
          BY <2>2 DEF LinkRec
      <3> QED BY <2>2, <3>1 DEF Shape, Plain, AfterOf
    <2> QED BY <2>1, <2>2
  <1>6. TasksOK' /\ TaskCalm
      BY <1>1, <1>4, <1>5, BeginPlain DEF EntriesOK
  <1>7. EntryCalm /\ RowsCalm
      BY <1>1, <1>6, OnlyTask, SameQuota DEF others, EntriesOK
  <1>8. ThingsOK'
    <2>1. CASE row[a.rid] # None /\ Exists(a.x)
      <3>0. PICK r \in Rids, y \in Tids : r = a.rid /\ y = a.x
          BY <1>3
      <3>1. about' = about \cup {<<r, y>>}
          BY <2>1, <3>0 DEF AboutOnce
      <3>2. row'[r] # None /\ Exists(y)'
          BY <1>1, <2>1, <3>0 DEF Exists
      <3>3. \A x \in Tids : Exists(x) => Exists(x)'
          BY <1>1 DEF Exists
      <3>4. thing' \in [Tids -> Thing \cup {None, Gone}] /\ relates' = relates /\ relates' \subseteq Tids \X Tids
          BY <1>1 DEF ThingsOK
      <3>5. about' \subseteq Rids \X Tids
          BY <1>3, <3>1 DEF ThingsOK
      <3>6. \A p \in about' : p \in about \/ (row'[p[1]] # None /\ Exists(p[2])')
          BY <3>1, <3>2
      <3> QED BY <1>7, <3>3, <3>4, <3>5, <3>6, ThingsGrow
    <2>2. CASE ~(row[a.rid] # None /\ Exists(a.x))
        BY <1>1, <1>7, <2>2, ThingsStay DEF AboutOnce
    <2> QED BY <2>1, <2>2
  <1> QED BY <1>1, <1>7, <1>8 DEF others

\* A thing nothing is about is counted, then deleted (StrayCount, StrayDelete).
LEMMA StrayStep ==
    ASSUME EntriesOK, ThingsOK, NEW t \in Tasks, StrayCount(t) \/ StrayDelete(t)
    PROVE  EntryCalm /\ ThingsOK' /\ UNCHANGED <<shareVars, needVars>>
  <1> DEFINE v == task[t]
  <1>1. v.kind = "stray" /\ UNCHANGED <<row, pending, due, quota>> /\ UNCHANGED others
      BY DEF StrayCount, StrayDelete
  <1>2. v \in StrayRec
      BY <1>1 DEF EntriesOK, TasksOK, Shape
  <1>3. v.x \in Tids
      BY <1>2 DEF StrayRec
  <1> DEFINE w == [v EXCEPT !.counted = TRUE]
  <1>4. Begin(t, Idle) \/ Begin(t, w)
      BY DEF StrayCount, StrayDelete
  <1>5. TasksOK' /\ TaskCalm
    <2>1. CASE Begin(t, Idle)
        BY <1>1, <2>1, BeginIdle DEF EntriesOK
    <2>2. CASE Begin(t, w)
      <3>1. w \in StrayRec /\ w.kind = "stray"
          BY <1>2 DEF StrayRec
      <3>2. Begin(t, w)
          BY <2>2
      <3> HIDE DEF w
      <3>3. Shape(w) /\ w.kind \in Plain /\ AfterOf(w) = None
          BY <3>1 DEF Shape, Plain, AfterOf
      <3> QED BY <1>1, <3>2, <3>3, BeginPlain DEF EntriesOK
    <2> QED BY <1>4, <2>1, <2>2
  <1>6. EntryCalm /\ RowsCalm
      BY <1>1, <1>5, OnlyTask, SameQuota DEF others, EntriesOK
  <1>7. ThingsOK'
    <2>1. CASE StrayCount(t)
        BY <1>6, <2>1, ThingsStay DEF StrayCount, thingVars
    <2>2. CASE StrayDelete(t)
        BY <1>3, <1>6, <2>2, ThingGoes DEF StrayDelete
    <2> QED BY <2>1, <2>2
  <1> QED BY <1>1, <1>6, <1>7 DEF others

\* A new name is written down (RenameWrite).
LEMMA RenameWriteStep ==
    ASSUME EntriesOK, ThingsOK, NEW t \in Tasks, RenameWrite(t)
    PROVE  EntryCalm /\ ThingsOK' /\ UNCHANGED <<shareVars, needVars>>
  <1> DEFINE c == task[t]
  <1>1. c.kind = "rename" /\ Begin(t, Idle) /\ UNCHANGED <<row, pending, due, quota>> /\ UNCHANGED others /\ UNCHANGED <<about, relates>>
      BY DEF RenameWrite
  <1>2. c \in RenameRec
      BY <1>1 DEF EntriesOK, TasksOK, Shape
  <1>3. TasksOK' /\ TaskCalm
      BY <1>1, BeginIdle DEF EntriesOK
  <1>4. EntryCalm /\ RowsCalm
      BY <1>1, <1>3, OnlyTask, SameQuota DEF others, EntriesOK
  <1>5. ThingsOK'
    <2>1. CASE Exists(c.x)
      <3> DEFINE x == c.x
      <3> DEFINE names == c.names
      <3> DEFINE old == thing[x]
      <3> DEFINE new == [old EXCEPT !.names = names]
      <3>1. x \in Tids /\ names \in (SUBSET Nouns) \ {{}}
          BY <1>2 DEF RenameRec
      <3>2. old \in Thing /\ thing' = [thing EXCEPT ![x] = new]
          BY <2>1, <3>1, ThereIs DEF RenameWrite
      <3> HIDE DEF old, names
      <3>3. new \in Thing
          BY <3>1, <3>2 DEF Thing
      <3> HIDE DEF new, x
      <3> QED BY <1>1, <1>4, <3>1, <3>2, <3>3, ThingWritten
    <2>2. CASE ~Exists(c.x)
        BY <1>1, <1>4, <2>2, ThingsStay DEF RenameWrite
    <2> QED BY <2>1, <2>2
  <1> QED BY <1>1, <1>4, <1>5 DEF others

\* A merge's record, and the proposal it settles.
LEMMA MergeIs ==
    ASSUME TasksOK, NEW t \in Tasks, task[t].kind = "merge"
    PROVE  /\ task[t] \in MergeRec /\ AfterOf(task[t]) = task[t].after /\ task[t].after \in After /\ task[t].kind \notin Makers
           /\ task[t].keep \in Tids /\ task[t].drop \in Tids /\ task[t].from \subseteq Rids /\ task[t].homes \subseteq Homes
           /\ task[t].names \subseteq Nouns /\ (task[t].step # "read" => task[t].names # {})
  <1>1. task[t] \in MergeRec /\ (task[t].step # "read" => task[t].names # {})
      BY DEF TasksOK, Shape
  <1> QED BY <1>1 DEF MergeRec, AfterOf, Makers

\* A merge that goes on is one still.
LEMMA MergeGoesOn ==
    ASSUME TasksOK, NEW t \in Tasks, task[t].kind = "merge", NEW w \in MergeRec, w.after = task[t].after, w.names # {}, Begin(t, w)
    PROVE  TasksOK' /\ TaskCalm
  <1>1. w.kind = "merge"
      BY DEF MergeRec
  <1>2. Shape(w) /\ w.kind \in Plain /\ AfterOf(w) = w.after
      BY <1>1 DEF Shape, Plain, AfterOf
  <1> QED BY <1>2, MergeIs, BeginPlain

\* A merge reads both things (mergeThings),
LEMMA MergeReadStep ==
    ASSUME EntriesOK, ThingsOK, NEW t \in Tasks, MergeRead(t)
    PROVE  EntryCalm /\ ThingsOK' /\ UNCHANGED <<shareVars, needVars>>
  <1> DEFINE m == task[t]
  <1>1. m.kind = "merge" /\ UNCHANGED <<row, pending, due, quota>> /\ UNCHANGED others /\ UNCHANGED thingVars
      BY DEF MergeRead
  <1>2. m \in MergeRec /\ AfterOf(m) = m.after /\ m.after \in After /\ m.keep \in Tids /\ m.drop \in Tids
      BY <1>1, MergeIs DEF EntriesOK
  <1>3. TasksOK' /\ TaskCalm
    <2>1. CASE Exists(m.keep) /\ Exists(m.drop)
      <3> DEFINE read(from) == [m EXCEPT !.step = "move", !.from = from,
                                         !.names = thing[m.keep].names \cup thing[m.drop].names,
                                         !.homes = thing[m.keep].homes \cup thing[m.drop].homes]
      <3>0. PICK from \in {EntriesOn(m.drop), {}} : Begin(t, read(from))
          BY <2>1 DEF MergeRead
      <3> DEFINE names == thing[m.keep].names \cup thing[m.drop].names
      <3> DEFINE homes == thing[m.keep].homes \cup thing[m.drop].homes
      <3> DEFINE w == [m EXCEPT !.step = "move", !.from = from, !.names = names, !.homes = homes]
      <3>1. Begin(t, w)
          BY <3>0
      <3>2. thing[m.keep] \in Thing /\ thing[m.drop] \in Thing
          BY <1>2, <2>1, ThereIs
      <3>3. names \in SUBSET Nouns /\ names # {} /\ homes \in SUBSET Homes /\ from \in SUBSET Rids
          BY <3>2 DEF Thing, EntriesOn
      <3> HIDE DEF names, homes, read
      <3>4. w \in MergeRec /\ w.after = m.after /\ w.names # {}
          BY <1>2, <3>3 DEF MergeRec
      <3> HIDE DEF w
      <3> QED BY <1>1, <3>1, <3>4, MergeGoesOn DEF EntriesOK
    <2>2. CASE ~(Exists(m.keep) /\ Exists(m.drop))
      <3>1. Begin(t, Settling(m.after, FALSE, Idle)) /\ FALSE \in BOOLEAN /\ m.after \in {None, AfterOf(m)} /\ AfterOf(m) \in After
          BY <1>2, <2>2 DEF MergeRead, Failed
      <3> QED BY <1>1, <3>1, BeginEnd DEF EntriesOK
    <2> QED BY <2>1, <2>2
  <1>4. EntryCalm /\ RowsCalm
      BY <1>1, <1>3, OnlyTask, SameQuota DEF others, EntriesOK
  <1>5. ThingsOK'
      BY <1>1, <1>4, ThingsStay DEF thingVars
  <1> QED BY <1>1, <1>4, <1>5 DEF others

\* Links are made between what is there.
LEMMA LinksGrow ==
    ASSUME ThingsOK, RowsCalm, UNCHANGED <<row, thing, relates>>, NEW new \in SUBSET (Rids \X Tids), about' = about \cup new,
           \A p \in new : row[p[1]] # None /\ Exists(p[2])
    PROVE  ThingsOK'
  <1>1. \A x \in Tids : Exists(x) => Exists(x)'
      BY DEF Exists
  <1>2. thing' \in [Tids -> Thing \cup {None, Gone}] /\ about' \subseteq Rids \X Tids /\ relates' = relates /\ relates' \subseteq Tids \X Tids
      BY DEF ThingsOK
  <1>3. \A p \in new : row'[p[1]] # None /\ Exists(p[2])'
    <2> TAKE p \in new
    <2>1. p[1] \in Rids /\ p[2] \in Tids /\ row[p[1]] # None /\ Exists(p[2])
        OBVIOUS
    <2> QED BY <1>1, <2>1
  <1>4. \A p \in about' : p \in about \/ (row'[p[1]] # None /\ Exists(p[2])')
      BY <1>3
  <1> QED BY <1>1, <1>2, <1>4, ThingsGrow

\* ... moves the links of one,
LEMMA MergeMoveStep ==
    ASSUME EntriesOK, ThingsOK, NEW t \in Tasks, MergeMove(t)
    PROVE  EntryCalm /\ ThingsOK' /\ UNCHANGED <<shareVars, needVars>>
  <1> DEFINE m == task[t]
  <1> DEFINE there == {r \in m.from : row[r] # None}
  <1>1. m.kind = "merge" /\ m.step = "move" /\ UNCHANGED <<row, pending, due, quota>> /\ UNCHANGED others /\ UNCHANGED <<thing, relates>>
      BY DEF MergeMove
  <1>2. /\ m \in MergeRec /\ AfterOf(m) = m.after /\ m.after \in After /\ m.keep \in Tids /\ m.drop \in Tids /\ m.from \subseteq Rids
        /\ m.names # {}
      BY <1>1, MergeIs DEF EntriesOK
  <1> DEFINE w == [m EXCEPT !.step = "homes"]
  <1>3. \/ Begin(t, w) /\ about' = about \cup MovedTo(m.from, m.keep) /\ (m.from = {} \/ (Exists(m.keep) /\ there = m.from))
        \/ /\ Begin(t, Failed(m.after))
           /\ \E some \in SUBSET there : about' = IF Exists(m.keep) THEN about \cup MovedTo(some, m.keep) ELSE about
      BY DEF MergeMove
  <1>4. TasksOK' /\ TaskCalm
    <2>1. CASE Begin(t, w)
      <3>1. w \in MergeRec /\ w.after = m.after /\ w.names # {}
          BY <1>2 DEF MergeRec
      <3>2. Begin(t, w)
          BY <2>1
      <3> HIDE DEF w
      <3> QED BY <1>1, <3>1, <3>2, MergeGoesOn DEF EntriesOK
    <2>2. CASE Begin(t, Failed(m.after))
      <3>1. Begin(t, Settling(m.after, FALSE, Idle)) /\ FALSE \in BOOLEAN /\ m.after \in {None, AfterOf(m)} /\ AfterOf(m) \in After
          BY <1>2, <2>2 DEF Failed
      <3> QED BY <1>1, <3>1, BeginEnd DEF EntriesOK
    <2> QED BY <1>3, <2>1, <2>2
  <1>5. EntryCalm /\ RowsCalm
      BY <1>1, <1>4, OnlyTask, SameQuota DEF others, EntriesOK
  <1>6. PICK x \in Tids : x = m.keep
      BY <1>2
  <1>7. PICK some \in SUBSET there : about' = about \cup MovedTo(some, x) /\ (some = {} \/ Exists(x))
    <2>1. CASE about' = about \cup MovedTo(m.from, m.keep) /\ m.from = {}
        BY <1>6, <2>1
    <2>2. CASE about' = about \cup MovedTo(m.from, m.keep) /\ Exists(m.keep) /\ there = m.from
        BY <1>6, <2>2
    <2>3. CASE \E some \in SUBSET there : about' = IF Exists(m.keep) THEN about \cup MovedTo(some, m.keep) ELSE about
      <3>1. CASE Exists(m.keep)
          BY <1>6, <2>3, <3>1
      <3>2. CASE ~Exists(m.keep)
        <4>1. MovedTo({}, x) = {} /\ {} \in SUBSET there
            BY DEF MovedTo
        <4>2. about' = about \cup MovedTo({}, x)
            BY <2>3, <3>2, <4>1
        <4> QED BY <4>1, <4>2
      <3> QED BY <3>1, <3>2
    <2> QED BY <1>3, <2>1, <2>2, <2>3
  <1> DEFINE new == MovedTo(some, x)
  <1>8. some \subseteq Rids /\ \A r \in some : row[r] # None
      BY <1>2
  <1>9. new \in SUBSET (Rids \X Tids) /\ \A p \in new : row[p[1]] # None /\ Exists(p[2])
      BY <1>7, <1>8 DEF MovedTo
  <1> HIDE DEF new, there
  <1>10. ThingsOK'
      BY <1>1, <1>5, <1>7, <1>9, LinksGrow DEF new
  <1> QED BY <1>1, <1>5, <1>10 DEF others

\* ... lets the other be seen from where it was,
LEMMA MergeHomesStep ==
    ASSUME EntriesOK, ThingsOK, NEW t \in Tasks, MergeHomes(t)
    PROVE  EntryCalm /\ ThingsOK' /\ UNCHANGED <<shareVars, needVars>>
  <1> DEFINE m == task[t]
  <1> DEFINE w == [m EXCEPT !.step = "delete"]
  <1>1. /\ m.kind = "merge" /\ m.step = "homes" /\ UNCHANGED <<row, pending, due, quota>> /\ UNCHANGED others
        /\ UNCHANGED <<about, relates>> /\ Begin(t, w)
      BY DEF MergeHomes
  <1>2. m \in MergeRec /\ m.keep \in Tids /\ m.homes \subseteq Homes /\ m.names \subseteq Nouns /\ m.names # {}
      BY <1>1, MergeIs DEF EntriesOK
  <1>3. w \in MergeRec /\ w.after = m.after /\ w.names # {}
      BY <1>2 DEF MergeRec
  <1> HIDE DEF w
  <1>4. TasksOK' /\ TaskCalm
      BY <1>1, <1>3, MergeGoesOn DEF EntriesOK
  <1>5. EntryCalm /\ RowsCalm
      BY <1>1, <1>4, OnlyTask, SameQuota DEF others, EntriesOK
  <1>6. ThingsOK'
    <2>1. CASE Exists(m.keep)
      <3> DEFINE x == m.keep
      <3> DEFINE names == m.names
      <3> DEFINE homes == m.homes
      <3> DEFINE old == thing[x]
      <3> DEFINE new == [old EXCEPT !.homes = homes, !.names = names]
      <3>1. old \in Thing /\ x \in Tids /\ names \in (SUBSET Nouns) \ {{}} /\ homes \in SUBSET Homes
          BY <1>2, <2>1, ThereIs
      <3>2. thing' = [thing EXCEPT ![x].homes = homes, ![x].names = names]
          BY <2>1 DEF MergeHomes, HomesOfBoth
      <3> HIDE DEF names, homes, x
      <3>3. thing' = [thing EXCEPT ![x] = new]
          BY <3>1, <3>2 DEF ThingsOK
      <3> HIDE DEF old
      <3>4. new \in Thing
          BY <3>1 DEF Thing
      <3> HIDE DEF new
      <3> QED BY <1>1, <1>5, <3>1, <3>3, <3>4, ThingWritten
    <2>2. CASE ~Exists(m.keep)
        BY <1>1, <1>5, <2>2, ThingsStay DEF MergeHomes
    <2> QED BY <2>1, <2>2
  <1> QED BY <1>1, <1>5, <1>6 DEF others

\* ... and deletes it.
LEMMA MergeDeleteStep ==
    ASSUME EntriesOK, ThingsOK, NEW t \in Tasks, MergeDelete(t)
    PROVE  EntryCalm /\ ThingsOK' /\ UNCHANGED <<shareVars, needVars>>
  <1> DEFINE m == task[t]
  <1>1. /\ m.kind = "merge" /\ UNCHANGED <<row, pending, due, quota>> /\ UNCHANGED others
        /\ thing' = [thing EXCEPT ![m.drop] = Gone]
        /\ about' = WithoutThing(about, m.drop) /\ relates' = Unrelated(m.drop) /\ Begin(t, Ended(m.after))
      BY DEF MergeDelete
  <1>2. m \in MergeRec /\ AfterOf(m) = m.after /\ m.after \in After /\ m.drop \in Tids
      BY <1>1, MergeIs DEF EntriesOK
  <1>3. Begin(t, Settling(m.after, TRUE, Idle)) /\ TRUE \in BOOLEAN /\ m.after \in {None, AfterOf(m)} /\ AfterOf(m) \in After
      BY <1>1, <1>2 DEF Ended
  <1>4. TasksOK' /\ TaskCalm
      BY <1>1, <1>3, BeginEnd DEF EntriesOK
  <1>5. EntryCalm /\ RowsCalm
      BY <1>1, <1>4, OnlyTask, SameQuota DEF others, EntriesOK
  <1>6. ThingsOK'
      BY <1>1, <1>2, <1>5, ThingGoes
  <1> QED BY <1>1, <1>5, <1>6 DEF others

\* A fold's record, and the proposal it settles.
LEMMA FoldIs ==
    ASSUME TasksOK, NEW t \in Tasks, task[t].kind = "fold"
    PROVE  /\ task[t] \in FoldRec /\ AfterOf(task[t]) = task[t].after /\ task[t].after \in After /\ task[t].kind \notin Makers
           /\ task[t].keep \in Rids /\ task[t].drop \in Rids /\ task[t].xs \subseteq Tids
           /\ (task[t].step = "move" => task[t].home \in Homes)
  <1>1. task[t] \in FoldRec /\ (task[t].step = "move" => task[t].home \in Homes)
      BY DEF TasksOK, Shape
  <1> QED BY <1>1 DEF FoldRec, AfterOf, Makers

\* A fold reads both entries (foldEntry),
LEMMA FoldReadStep ==
    ASSUME EntriesOK, ThingsOK, NEW t \in Tasks, FoldRead(t)
    PROVE  EntryCalm /\ ThingsOK' /\ UNCHANGED <<shareVars, needVars>>
  <1> DEFINE f == task[t]
  <1>1. f.kind = "fold" /\ UNCHANGED <<row, pending, due, quota>> /\ UNCHANGED others /\ UNCHANGED thingVars
      BY DEF FoldRead
  <1>2. f \in FoldRec /\ AfterOf(f) = f.after /\ f.after \in After /\ f.keep \in Rids /\ f.drop \in Rids /\ f.kind \notin Makers
      BY <1>1, FoldIs DEF EntriesOK
  <1>3. TasksOK' /\ TaskCalm
    <2>1. CASE row[f.keep] = None \/ row[f.drop] = None
      <3>1. Begin(t, Settling(f.after, FALSE, Idle)) /\ FALSE \in BOOLEAN /\ f.after \in {None, AfterOf(f)} /\ AfterOf(f) \in After
          BY <1>2, <2>1 DEF FoldRead, Failed
      <3> QED BY <1>1, <3>1, BeginEnd DEF EntriesOK
    <2>2. CASE ~(row[f.keep] = None \/ row[f.drop] = None)
      <3> DEFINE home == row[f.keep].home
      <3>0. PICK xs \in {ThingsOf(f.drop), {}} : Begin(t, [f EXCEPT !.step = "move", !.home = home, !.xs = xs])
          BY <2>2 DEF FoldRead
      <3> DEFINE w == [f EXCEPT !.step = "move", !.home = home, !.xs = xs]
      <3>1. Begin(t, w)
          BY <3>0
      <3>2. home \in Homes /\ xs \in SUBSET Tids
          BY <1>2, <2>2, RowIs DEF EntriesOK, ThingsOf
      <3> HIDE DEF home
      <3>3. w \in FoldRec /\ w.kind = "fold" /\ w.after = f.after /\ w.home \in Homes
          BY <1>2, <3>2 DEF FoldRec
      <3> HIDE DEF w
      <3>4. Shape(w) /\ w.kind \in Plain /\ AfterOf(w) = f.after
          BY <3>3 DEF Shape, Plain, AfterOf
      <3> QED BY <1>1, <1>2, <3>1, <3>4, BeginPlain DEF EntriesOK
    <2> QED BY <2>1, <2>2
  <1>4. EntryCalm /\ RowsCalm
      BY <1>1, <1>3, OnlyTask, SameQuota DEF others, EntriesOK
  <1>5. ThingsOK'
      BY <1>1, <1>4, ThingsStay DEF thingVars
  <1> QED BY <1>1, <1>4, <1>5 DEF others

\* ... moves the links of one,
LEMMA FoldMoveStep ==
    ASSUME EntriesOK, ThingsOK, NEW t \in Tasks, FoldMove(t)
    PROVE  EntryCalm /\ ThingsOK' /\ UNCHANGED <<shareVars, needVars>>
  <1> DEFINE f == task[t]
  <1> DEFINE there == {x \in f.xs : row[f.keep] # None /\ Exists(x)}
  <1> DEFINE then(moved) == IF moved = f.xs THEN [f EXCEPT !.step = "delete"] ELSE Failed(f.after)
  <1>1. /\ f.kind = "fold" /\ f.step = "move" /\ UNCHANGED <<row, pending, due, quota>> /\ UNCHANGED others /\ UNCHANGED <<thing, relates>>
      BY DEF FoldMove
  <1>2. /\ f \in FoldRec /\ AfterOf(f) = f.after /\ f.after \in After /\ f.keep \in Rids /\ f.xs \subseteq Tids /\ f.home \in Homes
        /\ f.kind \notin Makers
      BY <1>1, FoldIs DEF EntriesOK
  <1>3. PICK moved \in IF there = f.xs THEN {f.xs} ELSE SUBSET there :
         /\ about' = about \cup {<<f.keep, x>> : x \in moved}
         /\ Begin(t, Seen(moved, f.home, then(moved)))
      BY DEF FoldMove
  <1>4. moved \subseteq there /\ moved \in SUBSET Tids
      BY <1>2, <1>3
  <1> DEFINE w == [f EXCEPT !.step = "delete"]
  <1>5. w \in Rests /\ AfterOf(w) = f.after
    <2>1. w \in FoldRec /\ w.kind = "fold" /\ w.step = "delete" /\ w.after = f.after
        BY <1>2 DEF FoldRec
    <2> HIDE DEF w
    <2> QED BY <2>1 DEF Rests, AfterOf
  <1>6. Failed(f.after) \in Rests /\ AfterOf(Failed(f.after)) = f.after
    <2>1. FALSE \in BOOLEAN
        OBVIOUS
    <2> QED BY <1>2, <2>1, EndIs DEF Failed
  <1>7. TasksOK' /\ TaskCalm
    <2> DEFINE next == then(moved)
    <2>1. next \in Rests /\ AfterOf(next) = f.after
      <3> HIDE DEF w
      <3> QED BY <1>5, <1>6 DEF w
    <2>2. Begin(t, Seen(moved, f.home, next))
        BY <1>3
    <2> HIDE DEF next, there
    <2> QED BY <1>1, <1>2, <1>4, <2>1, <2>2, BeginSeen DEF EntriesOK
  <1>8. EntryCalm /\ RowsCalm
      BY <1>1, <1>7, OnlyTask, SameQuota DEF others, EntriesOK
  <1>9. PICK r \in Rids : r = f.keep
      BY <1>2
  <1> DEFINE new == {<<r, x>> : x \in moved}
  <1>10. new \in SUBSET (Rids \X Tids) /\ \A p \in new : row[p[1]] # None /\ Exists(p[2])
      BY <1>4, <1>9
  <1>11. about' = about \cup new
      BY <1>3, <1>9
  <1> HIDE DEF new, there, then
  <1>12. ThingsOK'
      BY <1>1, <1>8, <1>10, <1>11, LinksGrow
  <1> QED BY <1>1, <1>8, <1>12 DEF others

\* A call ends in a refresh, which settles its proposal.
LEMMA BeginRefreshed ==
    ASSUME TasksOK, NEW t \in Tasks, task[t].kind # "close", AfterOf(task[t]) \in After, Begin(t, Refresh(AfterOf(task[t]), Idle))
    PROVE  TasksOK' /\ TaskCalm
  <1> DEFINE w == Refresh(AfterOf(task[t]), Idle)
  <1>1. Idle \in Later
      BY DEF Later
  <1>2. Shape(w) /\ AfterOf(w) = AfterOf(task[t]) /\ w.kind = "refresh" /\ w.then = Idle /\ w.seen = None
      BY <1>1, RefreshIs
  <1>3. Begin(t, w)
      OBVIOUS
  <1> HIDE DEF w
  <1>4. ShareCalm(task[t], w) /\ NeedCalm(task[t], w)
      BY <1>2 DEF ShareCalm, NeedCalm, Resolution, Makers, Concerns, Opens, Late, Idle
  <1> QED BY <1>2, <1>3, <1>4, BeginCalm

\* A deleted entry takes its links with it.
LEMMA EntryDeleted ==
    ASSUME EntriesOK, ThingsOK, NEW r \in Rids, row[r] # None, Deleted(r), UNCHANGED <<pending, quota, thing, relates>>, UNCHANGED others,
           TasksOK', TaskCalm
    PROVE  EntryCalm /\ ThingsOK'
  <1>1. RowsOK' /\ DueOK' /\ ThingsOK'
      BY EntryGoes DEF Deleted
  <1>2. MarksOK' /\ PendingOK' /\ PendingCalm /\ QuotaOK'
      BY PendingStays, SameQuota DEF EntriesOK, MarksOK, others
  <1> QED BY <1>1, <1>2 DEF EntryCalm, EntriesOK

\* ... and deletes it (foldEntry).
LEMMA FoldDeleteStep ==
    ASSUME EntriesOK, ThingsOK, NEW t \in Tasks, FoldDelete(t)
    PROVE  EntryCalm /\ ThingsOK' /\ UNCHANGED <<shareVars, needVars>>
  <1> DEFINE f == task[t]
  <1>1. f.kind = "fold" /\ UNCHANGED <<pending, quota, thing, relates>> /\ UNCHANGED others /\ Begin(t, Refresh(f.after, Idle))
      BY DEF FoldDelete
  <1>2. AfterOf(f) = f.after /\ f.after \in After /\ f.drop \in Rids
      BY <1>1, FoldIs DEF EntriesOK
  <1>3. TasksOK' /\ TaskCalm
      BY <1>1, <1>2, BeginRefreshed DEF EntriesOK
  <1>4. CASE row[f.drop] # None
      BY <1>1, <1>2, <1>3, <1>4, EntryDeleted DEF FoldDelete, others
  <1>5. CASE row[f.drop] = None
    <2>1. UNCHANGED <<row, due, about>>
        BY <1>5 DEF FoldDelete
    <2>2. EntryCalm /\ RowsCalm
        BY <1>1, <1>3, <2>1, OnlyTask, SameQuota DEF others, EntriesOK
    <2> QED BY <1>1, <2>1, <2>2, ThingsStay DEF others
  <1> QED BY <1>4, <1>5

\* An entry whose deletion was approved is deleted (deleteEntry).
LEMMA DeleteTaskStep ==
    ASSUME EntriesOK, ThingsOK, NEW t \in Tasks, DeleteTask(t)
    PROVE  EntryCalm /\ ThingsOK' /\ UNCHANGED <<shareVars, needVars>>
  <1> DEFINE d == task[t]
  <1>1. d.kind = "delete" /\ UNCHANGED <<pending, quota, thing, relates>> /\ UNCHANGED others
      BY DEF DeleteTask
  <1>2. d \in DeleteRec
      BY <1>1 DEF EntriesOK, TasksOK, Shape
  <1>3. AfterOf(d) = d.after /\ d.after \in After /\ d.drop \in Rids
      BY <1>1, <1>2 DEF DeleteRec, AfterOf
  <1>4. CASE row[d.drop] # None
    <2>1. Deleted(d.drop) /\ Begin(t, Refresh(d.after, Idle))
        BY <1>4 DEF DeleteTask
    <2>2. TasksOK' /\ TaskCalm
        BY <1>1, <1>3, <2>1, BeginRefreshed DEF EntriesOK
    <2> QED BY <1>1, <1>3, <1>4, <2>1, <2>2, EntryDeleted DEF others
  <1>5. CASE row[d.drop] = None
    <2>1. UNCHANGED <<row, due, about>>
        BY <1>5 DEF DeleteTask
    <2>2. Begin(t, Settling(d.after, FALSE, Idle)) /\ FALSE \in BOOLEAN /\ d.after \in {None, AfterOf(d)} /\ AfterOf(d) \in After
        BY <1>3, <1>5 DEF DeleteTask, Failed
    <2>3. TasksOK' /\ TaskCalm
        BY <1>1, <2>2, BeginEnd DEF EntriesOK
    <2>4. EntryCalm /\ RowsCalm
        BY <1>1, <2>1, <2>3, OnlyTask, SameQuota DEF others, EntriesOK
    <2> QED BY <1>1, <2>1, <2>4, ThingsStay DEF others
  <1> QED BY <1>4, <1>5

--------------------------------------------------------------------------
(* Every step                                                              *)

\* Every step of a call on things is calm and keeps their types (ThingTask),
LEMMA ThingTaskStep ==
    ASSUME EntriesOK, ThingsOK, NEW t \in Tasks, ThingTask(t)
    PROVE  EntryCalm /\ ThingsOK' /\ UNCHANGED <<shareVars, needVars>>
  <1>1. CASE SeenRead(t) \/ SeenWrite(t) \/ SeenFails(t)
      BY <1>1, SeenReadStep, SeenWriteStep, SeenFailsStep
  <1>2. CASE LinkStep(t) \/ MakeThing(t) \/ AboutOnce(t)
      BY <1>2, LinkStepOK, MakeThingStep, AboutOnceStep
  <1>3. CASE StrayCount(t) \/ StrayDelete(t) \/ RenameWrite(t)
      BY <1>3, StrayStep, RenameWriteStep
  <1>4. CASE MergeRead(t) \/ MergeMove(t) \/ MergeHomes(t) \/ MergeDelete(t)
      BY <1>4, MergeReadStep, MergeMoveStep, MergeHomesStep, MergeDeleteStep
  <1>5. CASE FoldRead(t) \/ FoldMove(t) \/ FoldDelete(t) \/ DeleteTask(t)
      BY <1>5, FoldReadStep, FoldMoveStep, FoldDeleteStep, DeleteTaskStep
  <1> QED BY <1>1, <1>2, <1>3, <1>4, <1>5 DEF ThingTask

\* ... and so is every call on them but a restart (ThingCall).
LEMMA ThingCalls ==
    ASSUME EntriesOK, ThingsOK, ThingCall, ~RestartThings
    PROVE  EntryCalm /\ ThingsOK' /\ UNCHANGED <<shareVars, needVars>>
  <1>1. CASE \E r \in Rids, ns \in SUBSET Nouns, asks \in quota.asks : ns # {} /\ Link(r, ns, asks)
    <2>1. PICK r \in Rids, ns \in SUBSET Nouns, asks \in quota.asks : ns # {} /\ Link(r, ns, asks)
        BY <1>1
    <2>2. asks \in BOOLEAN
        BY CallersAre DEF EntriesOK
    <2> QED BY <2>1, <2>2, LinkCallStep
  <1>2. CASE \E r \in Rids, n \in Nouns, x \in Tids : Unlink(r, n, x)
      BY <1>2, UnlinkStep
  <1>3. CASE \E x \in Tids, n \in Nouns : DeleteThing(n, x) \/ Rename(x, n)
      BY <1>3, DeleteThingStep, RenameStep
  <1>4. CASE \E r \in Rids : DeleteEntry(r)
      BY <1>4, DeleteEntryStep
  <1>5. CASE \E x, y \in Tids : Relate(x, y) \/ Unrelate(x, y) \/ \E propose \in BOOLEAN : Merge(Worker, x, y, propose)
    <2>1. PICK x \in Tids, y \in Tids : Relate(x, y) \/ Unrelate(x, y) \/ \E propose \in BOOLEAN : Merge(Worker, x, y, propose)
        BY <1>5
    <2>2. CASE Relate(x, y) \/ Unrelate(x, y)
        BY <2>2, RelateStep
    <2>3. CASE \E propose \in BOOLEAN : Merge(Worker, x, y, propose)
        BY <2>3, MergeStep
    <2> QED BY <2>1, <2>2, <2>3
  <1>6. CASE \E keep, drop \in Rids, propose \in BOOLEAN : Fold(keep, drop, propose)
      BY <1>6, FoldStep
  <1>7. CASE \E r \in Rids, propose \in BOOLEAN : WorkerDelete(r, propose)
      BY <1>7, WorkerDeleteStep
  <1> QED BY <1>1, <1>2, <1>3, <1>4, <1>5, <1>6, <1>7 DEF ThingCall

\* The inductive invariant.
Inv == TypeInv /\ SharedInv /\ QuestionInv

\* A step that keeps shares, questions and things keeps the invariant,
LEMMA KeptInv ==
    ASSUME Inv, Kept, NeedsOK', UNCHANGED thingVars
    PROVE  Inv'
  <1>1. EntriesOK' /\ GrantsOK' /\ RowsCalm /\ SharedInv' /\ QuestionInv'
      BY DEF Kept
  <1>2. ThingsOK'
      BY <1>1, ThingsStay DEF Inv, TypeInv, thingVars
  <1> QED BY <1>1, <1>2 DEF Inv, TypeInv

\* ... as does a calm one on things,
LEMMA SafeInv ==
    ASSUME Inv, EntryCalm, ThingsOK', UNCHANGED shareVars, UNCHANGED needVars
    PROVE  Inv'
  <1>1. EntriesOK /\ GrantsOK /\ NeedsOK /\ SharedInv /\ QuestionInv
      BY DEF Inv, TypeInv
  <1>2. Safe /\ NeedsOK'
      BY <1>1, ThingSafe, NeedsStay
  <1> QED BY <1>2 DEF Safe, Inv, TypeInv

\* ... one on entries,
LEMMA EntryInv ==
    ASSUME Inv, EntryCalm, RowsCalm, UNCHANGED <<shareVars, needVars, thingVars>>
    PROVE  Inv'
  <1>1. UNCHANGED shareVars /\ UNCHANGED needVars /\ UNCHANGED thingVars
      OBVIOUS
  <1>2. ThingsOK'
      BY <1>1, ThingsStay DEF Inv, TypeInv, thingVars
  <1> QED BY <1>1, <1>2, SafeInv

\* ... one on shares that takes up none,
LEMMA CalmInv ==
    ASSUME Inv, Calmly, UNCHANGED <<needVars, thingVars>>
    PROVE  Inv'
  <1>1. EntriesOK /\ GrantsOK /\ NeedsOK /\ SharedInv /\ QuestionInv
      BY DEF Inv, TypeInv
  <1>2. UNCHANGED <<need, crossed>> /\ UNCHANGED needVars /\ UNCHANGED thingVars
      BY DEF needVars
  <1> QED BY <1>1, <1>2, CalmKept, NeedsStay, KeptInv

\* ... and one on shares that does.
LEMMA ShareInvStep ==
    ASSUME Inv, Kept, UNCHANGED <<needVars, thingVars>>
    PROVE  Inv'
  <1>1. UNCHANGED needVars /\ UNCHANGED thingVars
      OBVIOUS
  <1> QED BY <1>1, NeedsStay, KeptInv DEF Inv, TypeInv

\* Every call on shares takes up none (ShareCall, RefreshTick),
LEMMA ShareCallStep ==
    ASSUME EntriesOK, GrantsOK, ShareCall \/ RefreshTick
    PROVE  Calmly
  BY RevokeStep, ReadGrantedStep, GrantAccessStep, GrantWaitingStep, RefreshTickStep DEF ShareCall

\* ... and every step of such a call keeps what makes a share once (ShareTask).
LEMMA ShareTaskStep ==
    ASSUME EntriesOK, GrantsOK, SharedInv, QuestionInv, NEW t \in Tasks, ShareTask(t), UNCHANGED <<need, crossed>>
    PROVE  Kept
  <1>1. CASE RefreshRead(t) \/ RefreshSweep(t) \/ ResolveRead(t)
      BY <1>1, RefreshReadStep, RefreshSweepStep, ResolveReadStep, CalmKept
  <1>2. CASE StoreGrant(t) \/ ConfirmWrite(t) \/ ResolveStep(t)
      BY <1>2, StoreGrantStep, ConfirmWriteStep, ResolveStepOK
  <1> QED BY <1>1, <1>2 DEF ShareTask

\* What a person does keeps the invariant (PersonCall),
LEMMA PersonStep ==
    ASSUME Inv, NEW p \in quota.callers \cap People, PersonCall(p)
    PROVE  Inv'
  <1>1. EntriesOK /\ GrantsOK /\ NeedsOK /\ SharedInv /\ QuestionInv
      BY DEF Inv, TypeInv
  <1>2. CASE (\E q \in Pendings : ConfirmRead(p, q) \/ Decline(p, q)) /\ UNCHANGED <<needVars, thingVars>>
    <2>1. PICK q \in Pendings : ConfirmRead(p, q) \/ Decline(p, q)
        BY <1>2
    <2>2. UNCHANGED <<need, crossed>> /\ UNCHANGED <<needVars, thingVars>>
        BY <1>2 DEF needVars
    <2>3. CASE ConfirmRead(p, q)
        BY <1>1, <2>2, <2>3, ConfirmReadStep, CalmInv
    <2>4. CASE Decline(p, q)
        BY <1>1, <2>2, <2>4, DeclineStep, ShareInvStep
    <2> QED BY <2>1, <2>3, <2>4
  <1>3. CASE (\E q \in Asked : ConfirmAsk(p, q) \/ Withdraw(p, q) \/ Dismiss(p, q)) /\ UNCHANGED thingVars
    <2>1. Kept /\ NeedsOK'
        BY <1>1, <1>3, ConfirmAskStep, WithdrawStep, DismissStep
    <2> QED BY <1>3, <2>1, KeptInv
  <1>4. CASE (\E x \in near : Answer(p, x)) /\ UNCHANGED thingVars
    <2>1. Kept /\ NeedsOK'
        BY <1>1, <1>4, AnswerStep, CalmKept
    <2> QED BY <1>4, <2>1, KeptInv
  <1> QED BY <1>2, <1>3, <1>4 DEF PersonCall

\* ... as does a decision on the queue (QueueCall),
LEMMA QueueStep ==
    ASSUME Inv, NEW a \in quota.approvers, NEW q \in Pendings, QueueCall(a, q)
    PROVE  Inv'
  <1>1. EntriesOK /\ GrantsOK /\ NeedsOK /\ SharedInv /\ QuestionInv
      BY DEF Inv, TypeInv
  <1>2. CASE (Approve(a, q) \/ Reject(a, q)) /\ UNCHANGED <<shareVars, needVars, thingVars>>
    <2>1. UNCHANGED <<shareVars, need, crossed>> /\ UNCHANGED <<needVars, thingVars>>
        BY <1>2 DEF needVars
    <2> QED BY <1>1, <1>2, <2>1, ApproveStep, RejectStep, ShareInvStep
  <1>3. CASE ApproveShare(a, q) /\ UNCHANGED <<needVars, thingVars>>
    <2>1. UNCHANGED <<need, crossed>> /\ UNCHANGED <<needVars, thingVars>>
        BY <1>3 DEF needVars
    <2> QED BY <1>1, <1>3, <2>1, ApproveShareStep, ShareInvStep
  <1>4. CASE ApproveThing(a, q)
    <2>1. UNCHANGED <<needVars, thingVars>>
        BY <1>4 DEF ApproveThing, others
    <2> QED BY <1>1, <1>4, <2>1, ApproveThingStep, ShareInvStep
  <1> QED BY <1>2, <1>3, <1>4 DEF QueueCall

\* ... a step of any call,
LEMMA TaskInv ==
    ASSUME Inv, NEW t \in Tasks, TaskStep(t)
    PROVE  Inv'
  <1>1. EntriesOK /\ GrantsOK /\ NeedsOK /\ ThingsOK /\ SharedInv /\ QuestionInv
      BY DEF Inv, TypeInv
  <1>2. CASE EntryTask(t) /\ UNCHANGED <<shareVars, needVars, thingVars>>
    <2>1. CASE EntryCalm /\ RowsCalm
        BY <1>2, <2>1, EntryInv
    <2>2. CASE Settle(t, AfterSettle(t))
      <3>1. UNCHANGED <<shareVars, need, crossed>> /\ UNCHANGED <<needVars, thingVars>>
          BY <1>2 DEF needVars
      <3> QED BY <1>1, <2>2, <3>1, SettleStep, ShareInvStep
    <2> QED BY <1>1, <1>2, <2>1, <2>2, EntryTaskStep
  <1>3. CASE ShareTask(t) /\ UNCHANGED <<needVars, thingVars>>
    <2>1. UNCHANGED <<need, crossed>>
        BY <1>3 DEF needVars
    <2> QED BY <1>1, <1>3, <2>1, ShareTaskStep, ShareInvStep
  <1>4. CASE NeedTask(t) /\ UNCHANGED thingVars
      BY <1>1, <1>4, NeedTaskStep, KeptInv
  <1>5. CASE ThingTask(t)
      BY <1>1, <1>5, ThingTaskStep, SafeInv
  <1> QED BY <1>2, <1>3, <1>4, <1>5 DEF TaskStep

\* ... a restart, which breaks every call off,
LEMMA RestartInv ==
    ASSUME Inv, RestartThings
    PROVE  Inv'
  <1>1. EntriesOK /\ GrantsOK /\ NeedsOK /\ ThingsOK /\ SharedInv /\ QuestionInv
      BY DEF Inv, TypeInv
  <1>2. Kept
      BY <1>1, RestartStep
  <1>3. NeedsOK'
      BY <1>1 DEF NeedsOK, RestartThings
  <1>4. ThingsOK'
      BY <1>1, <1>2, ThingsStay DEF Kept, RestartThings
  <1> QED BY <1>2, <1>3, <1>4 DEF Kept, Inv, TypeInv

\* ... and no step at all.
LEMMA StaysInv ==
    ASSUME Inv, UNCHANGED vars
    PROVE  Inv'
  <1>1. UNCHANGED entryVars /\ UNCHANGED shareVars /\ UNCHANGED needVars /\ UNCHANGED thingVars
      BY DEF vars
  <1>2. UNCHANGED <<row, marks, due>> /\ UNCHANGED pending /\ UNCHANGED task /\ UNCHANGED quota
      BY <1>1 DEF entryVars
  <1>3. EntryCalm /\ RowsCalm
      BY <1>2, TasksStay, OnlyTask, SameQuota DEF Inv, TypeInv, EntriesOK
  <1> QED BY <1>1, <1>3, EntryInv

\* It holds at first,
LEMMA InitInv == Init => Inv
  <1> SUFFICES ASSUME Init PROVE Inv
    OBVIOUS
  <1>1. quota \in Use /\ quota \in Quotas
      BY KnowledgeAssumption DEF Init, EntriesInit
  <1>2. /\ row = quota.rows /\ marks = [a \in Actors |-> {}]
        /\ pending = [q \in Pendings |-> None] /\ task = [t \in Tasks |-> Idle]
        /\ due = [e \in Entries |-> Everyone]
      BY DEF Init, EntriesInit
  <1>3. Shape(Idle) /\ AfterOf(Idle) = None /\ Resolution(Idle) = Idle /\ Idle.kind = "idle"
      BY DEF Shape, AfterOf, Resolution, Idle, Makers
  <1>4. EntriesOK
    <2>1. row \in [Rids -> Row \cup {None}]
        BY <1>1, <1>2 DEF Use
    <2>2. Everyone \in Homes
        BY DEF Homes
    <2> QED BY <1>1, <1>2, <1>3, <2>1, <2>2 DEF EntriesOK, RowsOK, MarksOK, PendingOK, TasksOK, DueOK, QuotaOK
  <1>5. grant = [g \in Grants |-> None] /\ cache = {} /\ refused = {}
      BY DEF Init, SharesInit
  <1>6. GrantsOK
      BY <1>2, <1>3, <1>5 DEF GrantsOK
  <1>7. need = [q \in Asked |-> [status |-> "none", asker |-> None, home |-> None, dismissed |-> {}]] /\ near = {} /\ crossed = {}
      BY DEF Init, QuestionsInit
  <1>8. NeedsOK
      BY <1>7 DEF NeedsOK, NeedRec, NeedStatuses
  <1>9. /\ thing = [x \in Tids |-> IF x \in DOMAIN quota.things THEN quota.things[x] ELSE None]
        /\ about = quota.links /\ relates = {}
      BY DEF Init, ThingsInit
  <1>10. ThingsOK
    <2> DEFINE things == quota.things
    <2>1. quota.things \in UNION {[xs -> Thing] : xs \in SUBSET Tids} /\ quota.links \subseteq Rids \X Tids
        BY <1>1 DEF Use
    <2>2. DOMAIN quota.things \subseteq Tids /\ \A x \in DOMAIN quota.things : quota.things[x] \in Thing
        BY <2>1
    <2>3. thing \in [Tids -> Thing \cup {None, Gone}]
        BY <1>9, <2>2
    <2>4. \A p \in about : row[p[1]] # None /\ Exists(p[2])
      <3> TAKE p \in about
      <3>1. p \in quota.links /\ p[2] \in Tids
          BY <1>9, <2>1
      <3>2. quota.rows[p[1]] # None /\ p[2] \in DOMAIN quota.things
          BY <1>1, <3>1, KnowledgeAssumption
      <3>3. thing[p[2]] \in Thing
          BY <1>9, <2>2, <3>1, <3>2
      <3> QED BY <1>2, <3>2, <3>3, ThingIs DEF Exists
    <2> QED BY <1>9, <2>1, <2>3, <2>4 DEF ThingsOK
  <1>11. SharedInv
    <2>1. \A t \in Tasks : \A q \in Pendings : ~Claims(task[t], q) /\ ~Resolves(task[t], q) /\ ~InRows(task[t], q)
        BY <1>2, <1>3, NoneAfter DEF Claims, Resolves, InRows, HasRead
    <2>2. \A q : ~Made(q)
        BY <1>5 DEF Made
    <2>3. \A t \in Tasks : task[t].kind # "confirm"
        BY <1>2, <1>3
    <2> QED BY <1>5, <2>1, <2>2, <2>3 DEF SharedInv, OneHolds, Holding, ClaimedIsSpent, ResolvedRan, ReadStillWaits, MadeIsSpent,
                                         MadeOnce, RefusedStays, ConfirmedAsRead
  <1>12. QuestionInv
    <2>1. \A t \in Tasks : \A q \in Asked : ~Concerns(task[t], q) /\ ~Late(task[t], q)
        BY <1>2, <1>3 DEF Concerns, Opens, Late, Makers
    <2> QED BY <1>5, <1>7, <2>1 DEF QuestionInv, LeftAlone, ShownIsOpened, ClosedIsHidden
  <1> QED BY <1>4, <1>6, <1>8, <1>10, <1>11, <1>12 DEF Inv, TypeInv

\* ... is kept by every step,
LEMMA NextInv == Inv /\ [Next]_vars => Inv'
  <1> SUFFICES ASSUME Inv, [Next]_vars PROVE Inv'
    OBVIOUS
  <1>1. EntriesOK /\ GrantsOK /\ NeedsOK /\ ThingsOK /\ SharedInv /\ QuestionInv
      BY DEF Inv, TypeInv
  <1>2. CASE EntryCall /\ UNCHANGED <<shareVars, needVars, thingVars>>
      BY <1>1, <1>2, EntryCallStep, EntryInv
  <1>3. CASE (ShareCall \/ RefreshTick) /\ UNCHANGED <<needVars, thingVars>>
      BY <1>1, <1>3, ShareCallStep, CalmInv
  <1>4. CASE NeedCall /\ UNCHANGED thingVars
      BY <1>1, <1>4, NeedCallStep, KeptInv
  <1>5. CASE \E p \in quota.callers \cap People : PersonCall(p)
      BY <1>5, PersonStep
  <1>6. CASE \E a \in quota.approvers, q \in Pendings : QueueCall(a, q)
      BY <1>6, QueueStep
  <1>7. CASE ThingCall
    <2>1. CASE RestartThings
        BY <2>1, RestartInv
    <2>2. CASE ~RestartThings
      <3>1. EntryCalm /\ ThingsOK' /\ UNCHANGED shareVars /\ UNCHANGED needVars
          BY <1>1, <1>7, <2>2, ThingCalls
      <3> QED BY <3>1, SafeInv
    <2> QED BY <2>1, <2>2
  <1>8. CASE \E t \in Tasks : TaskStep(t)
      BY <1>8, TaskInv
  <1>9. CASE UNCHANGED vars
      BY <1>9, StaysInv
  <1> QED BY <1>2, <1>3, <1>4, <1>5, <1>6, <1>7, <1>8, <1>9 DEF Next

--------------------------------------------------------------------------
(* What holds always                                                       *)

\* ... and so holds always.
LEMMA Always == Spec => []Inv
  BY InitInv, NextInv, PTL DEF Spec

\* Every record the calls write and carry is of its kind: proposals, grants, entries and things are
\* whole however calls overlap, and no link is to an entry or a thing that is gone (deleteEntry,
\* mergeThings, foldEntries, aboutOnce).
THEOREM TypesHold == Spec => []TypeOK
  <1>1. Inv => TypeOK
    <2> SUFFICES ASSUME Inv PROVE TypeOK
      OBVIOUS
    <2>1. (\A r \in Rids : row[r] \in Row \cup {None}) /\ (\A a \in Actors : marks[a] \subseteq Homes)
          /\ (\A q \in Pendings : pending[q] \in Proposal \cup {None}) /\ (\A e \in Entries : due[e] \in Homes)
        BY DEF Inv, TypeInv, EntriesOK, RowsOK, MarksOK, PendingOK, DueOK
    <2>2. (\A g \in Grants : grant[g] \in Granted \cup {None}) /\ cache \subseteq {g \in Grants : grant[g] # None}
        BY DEF Inv, TypeInv, GrantsOK, IsGrant
    <2>3. \A q \in Asked : need[q].status \in NeedStatuses
        BY DEF Inv, TypeInv, NeedsOK, NeedRec
    <2>4. (\A x \in Tids : thing[x] \in Thing \cup {Gone, None})
          /\ (\A p \in about : row[p[1]] # None /\ Exists(p[2])) /\ (\A p \in relates : Exists(p[1]) /\ Exists(p[2]))
        BY DEF Inv, TypeInv, ThingsOK
    <2> QED BY <2>1, <2>2, <2>3, <2>4 DEF TypeOK
  <1> QED BY <1>1, Always, PTL

\* A share is made at most once, whoever confirms, approves or resolves it and however these and a
\* restart overlap, and one its person declined in time is never made (confirmProposal,
\* declineProposal, approvePending, resolveWaitingShares).
THEOREM SharesMadeOnce == Spec => []SharedOnce
  <1>1. Inv => SharedOnce
    <2> SUFFICES ASSUME Inv, NEW g \in Grants, grant[g] # None
                 PROVE  /\ grant[g].from \notin refused
                        /\ \A h \in Grants \ {g} : grant[h] # None /\ grant[g].from # None => grant[h].from # grant[g].from
        BY DEF SharedOnce
    <2>1. Made(grant[g].from)
        BY DEF Made
    <2>2. grant[g].from \notin refused
        BY <2>1 DEF Inv, SharedInv, RefusedStays
    <2> QED BY <2>2 DEF Inv, SharedInv, MadeOnce
  <1> QED BY <1>1, Always, PTL

\* A question that was closed is shown by no active grant once its closing is through, unless it was
\* closed while a call was still at work on it, or a restart broke its closing off (closeNeed,
\* expireRequests, openNeed, meetAssertion, shareNeed).
THEOREM ClosedAreHidden == Spec => []ClosedIsHidden
  <1>1. Inv => ClosedIsHidden
      BY DEF Inv, QuestionInv
  <1> QED BY <1>1, Always, PTL

--------------------------------------------------------------------------
(* What was read bounds where an entry is                                  *)

\* An entry is stored once; one that is not stored is due nothing; and one is homed at or above what it is due,
\* and will be by whatever it is graded where it awaits that.
OneRow == \A r, s \in Rids : row[r] # None /\ row[s] # None /\ row[r].e = row[s].e => r = s
GoneOwesNothing == \A e \in Entries : ~Stored(e) => due[e] = Everyone
KeptAbove(x, owed) ==
    /\ x.home \in AtOrAbove(owed)
    /\ x.ungraded # None => \A verdict \in Verdicts(Origin[x.e]) \ {Out} :
          Place(Origin[x.e], verdict, None, x.ungraded.floor).home \in AtOrAbove(owed)
RowsKept == \A r \in Rids : row[r] # None /\ row[r].e \notin excused => KeptAbove(row[r], due[row[r].e])
FloorInv == OneRow /\ GoneOwesNothing /\ RowsKept

\* The steps that store, grade or move an entry, or change what it is due.
Stores(t) == WriteStore(t) \/ TypedApply(t) \/ MoveFollowed(t) \/ RegradeStep(t)
EntriesSame == UNCHANGED <<row, due, excused>>
EntryGone == \E r \in Rids : row[r] # None /\ Removed(r) /\ UNCHANGED excused
EntryKept == EntriesSame \/ EntryGone \/ \E t \in Tasks : Stores(t)

\* A call that begins changes no entry,
LEMMA CallsKeep ==
    ASSUME Next, \A t \in Tasks : ~TaskStep(t)
    PROVE  EntriesSame \/ EntryGone
  <1>1. CASE EntryCall
      BY <1>1 DEF EntryCall, Read, MarksLapse, Write, WorkerWrite, WorkerUpdate, TypedUpdate, SetHome, RegradeRead, EntriesSame
  <1>2. CASE ShareCall \/ RefreshTick
      BY <1>2 DEF ShareCall, RefreshTick, Revoke, ReadGranted, GrantAccess, GrantWaiting, EntriesSame
  <1>3. CASE NeedCall
      BY <1>3 DEF NeedCall, Ask, Meet, ExpireAsk, rest, EntriesSame
  <1>4. CASE \E p \in quota.callers \cap People : PersonCall(p)
      BY <1>4 DEF PersonCall, ConfirmRead, Decline, ConfirmAsk, Withdraw, Dismiss, Answer, rest, EntriesSame
  <1>5. CASE \E a \in quota.approvers, q \in Pendings : QueueCall(a, q)
      BY <1>5 DEF QueueCall, Approve, Reject, ApproveShare, ApproveThing, others, EntriesSame
  <1>6. CASE ThingCall
    <2>1. CASE \E r \in Rids : DeleteEntry(r)
        BY <2>1 DEF DeleteEntry, Delete, EntryGone
    <2>2. CASE RestartThings
        BY <2>2 DEF RestartThings, Restart, EntriesSame
    <2>3. CASE ~((\E r \in Rids : DeleteEntry(r)) \/ RestartThings)
        BY <1>6, <2>3 DEF ThingCall, Link, Unlink, DeleteThing, Rename, Relate, Unrelate, Merge, Fold, WorkerDelete, others, EntriesSame
    <2> QED BY <2>1, <2>2, <2>3
  <1> QED BY <1>1, <1>2, <1>3, <1>4, <1>5, <1>6 DEF Next

\* ... and one that goes on stores or moves one, deletes one, or changes none.
LEMMA TasksKeep ==
    ASSUME TypeInv, NEW t \in Tasks, TaskStep(t)
    PROVE  EntryKept
  <1>1. CASE EntryTask(t)
      BY <1>1 DEF EntryTask, WriteAsk, WriteAskLost, MoveCheck, Settle, RegradeOut, Stores, EntriesSame, EntryKept
  <1>2. CASE ShareTask(t)
      BY <1>2 DEF ShareTask, RefreshRead, RefreshSweep, StoreGrant, ConfirmWrite, ResolveRead, ResolveStep, ResolveOne,
                  EntriesSame, EntryKept
  <1>3. CASE NeedTask(t)
      BY <1>3 DEF NeedTask, OpenJoin, OpenGrade, OpenNow, OpenMatch, Show, ShowTo, ShowDone, MeetWrite, CloseRevoke, rest,
                  EntriesSame, EntryKept
  <1>4. CASE ThingTask(t)
    <2>1. ASSUME FoldDelete(t) PROVE EntriesSame \/ EntryGone
      <3>1. task[t].drop \in Rids
          BY <2>1 DEF FoldDelete, TypeInv, EntriesOK, TasksOK, Shape, FoldRec
      <3> QED BY <2>1, <3>1 DEF FoldDelete, Deleted, others, EntriesSame, EntryGone
    <2>2. ASSUME DeleteTask(t) PROVE EntriesSame \/ EntryGone
      <3>1. task[t].drop \in Rids
          BY <2>2 DEF DeleteTask, TypeInv, EntriesOK, TasksOK, Shape, DeleteRec
      <3> QED BY <2>2, <3>1 DEF DeleteTask, Deleted, others, EntriesSame, EntryGone
    <2>3. ASSUME SeenRead(t) \/ SeenWrite(t) \/ SeenFails(t) \/ LinkStep(t) \/ MakeThing(t) \/ AboutOnce(t) PROVE EntriesSame
        BY <2>3 DEF SeenRead, SeenWrite, SeenFails, LinkStep, LinkMatch, MakeThing, AboutOnce, others, EntriesSame
    <2>4. ASSUME StrayCount(t) \/ StrayDelete(t) \/ RenameWrite(t) \/ MergeRead(t) \/ MergeMove(t) \/ MergeHomes(t) \/ MergeDelete(t)
                 \/ FoldRead(t) \/ FoldMove(t)
          PROVE  EntriesSame
        BY <2>4 DEF StrayCount, StrayDelete, RenameWrite, MergeRead, MergeMove, MergeHomes, MergeDelete, FoldRead, FoldMove,
                    others, EntriesSame
    <2> QED BY <1>4, <2>1, <2>2, <2>3, <2>4 DEF ThingTask, EntryKept
  <1> QED BY <1>1, <1>2, <1>3, <1>4 DEF TaskStep

\* Only these steps change an entry, or what it is due.
LEMMA StepKeeps ==
    ASSUME TypeInv, [Next]_vars
    PROVE  EntryKept
  <1>1. CASE \E t \in Tasks : TaskStep(t)
      BY <1>1, TasksKeep
  <1>2. CASE Next /\ \A t \in Tasks : ~TaskStep(t)
      BY <1>2, CallsKeep DEF EntryKept
  <1>3. CASE UNCHANGED vars
      BY <1>3 DEF vars, entryVars, EntriesSame, EntryKept
  <1> QED BY <1>1, <1>2, <1>3 DEF Next

\* Where nothing changed, all stays above what it is due.
LEMMA SameFloors ==
    ASSUME FloorInv, EntriesSame
    PROVE  FloorInv'
  BY DEF FloorInv, EntriesSame, OneRow, GoneOwesNothing, RowsKept, Stored, RidsOf

\* An entry that goes is due nothing.
LEMMA GoneFloors ==
    ASSUME TypeInv, FloorInv, EntryGone
    PROVE  FloorInv'
  <1>1. PICK r \in Rids : row[r] # None /\ Removed(r) /\ UNCHANGED excused
      BY DEF EntryGone
  <1> DEFINE e == row[r].e
  <1>2. row[r].e \in Entries /\ RowsOK /\ DueOK
      BY <1>1, RowIs DEF TypeInv, EntriesOK
  <1>3. /\ row'[r] = None /\ \A s \in Rids \ {r} : row'[s] = row[s]
        /\ due'[e] = Everyone /\ \A f \in Entries \ {e} : due'[f] = due[f]
      BY <1>1, <1>2 DEF Removed, RowsOK, DueOK
  <1>4. OneRow'
      BY <1>3 DEF FloorInv, OneRow
  <1>5. GoneOwesNothing'
    <2> SUFFICES ASSUME NEW f \in Entries, ~Stored(f)' PROVE due'[f] = Everyone
      BY DEF GoneOwesNothing
    <2>1. \A s \in Rids : ~(row'[s] # None /\ row'[s].e = f)
        BY DEF Stored, RidsOf
    <2>2. CASE f # e
      <3>1. ~Stored(f)
          BY <1>3, <2>1, <2>2 DEF Stored, RidsOf
      <3> QED BY <1>3, <2>2, <3>1 DEF FloorInv, GoneOwesNothing
    <2> QED BY <1>3, <2>2
  <1>6. RowsKept'
    <2> SUFFICES ASSUME NEW s \in Rids, row'[s] # None, row'[s].e \notin excused' PROVE KeptAbove(row'[s], due'[row'[s].e])
      BY Zenon DEF RowsKept, KeptAbove
    <2>1. s # r /\ row'[s] = row[s]
        BY <1>3
    <2>2. row[s].e # e
        BY <1>1, <2>1 DEF FloorInv, OneRow
    <2>3. row[s].e \in Entries
        BY <1>2, <2>1, RowIs
    <2> QED BY <1>1, <1>3, <2>1, <2>2, <2>3 DEF FloorInv, RowsKept
  <1> QED BY <1>4, <1>5, <1>6 DEF FloorInv

\* An entry is stored, at or above what it is then due, or excused.
LEMMA StoredFloors ==
    ASSUME TypeInv, FloorInv, NEW r \in Rids, NEW new, new # None, NEW e \in Entries, new.e = e,
           row[r] # None => row[r].e = e, row[r] = None => ~Stored(e), row' = [row EXCEPT ![r] = new],
           NEW owed, due' = [due EXCEPT ![e] = owed],
           excused \subseteq excused', \A f \in Entries \ {e} : f \in excused' => f \in excused,
           e \notin excused' => KeptAbove(new, owed)
    PROVE  FloorInv'
  <1>2. RowsOK /\ DueOK
      BY DEF TypeInv, EntriesOK
  <1>3. /\ row'[r] = new /\ \A s \in Rids \ {r} : row'[s] = row[s]
        /\ due'[e] = owed /\ \A f \in Entries \ {e} : due'[f] = due[f]
      BY <1>2 DEF RowsOK, DueOK
  <1>0. \A s \in Rids \ {r} : row[s] # None => row[s].e # e
      BY DEF Stored, RidsOf, FloorInv, OneRow
  <1>4. OneRow'
      BY <1>0, <1>3 DEF FloorInv, OneRow
  <1>5. GoneOwesNothing'
    <2> SUFFICES ASSUME NEW f \in Entries, ~Stored(f)' PROVE due'[f] = Everyone
      BY DEF GoneOwesNothing
    <2>1. \A s \in Rids : ~(row'[s] # None /\ row'[s].e = f)
        BY DEF Stored, RidsOf
    <2>2. f # e
        BY <1>3, <2>1
    <2>3. ~Stored(f)
        BY <1>3, <2>1, <2>2 DEF Stored, RidsOf
    <2> QED BY <1>3, <2>2, <2>3 DEF FloorInv, GoneOwesNothing
  <1>6. RowsKept'
    <2> SUFFICES ASSUME NEW s \in Rids, row'[s] # None, row'[s].e \notin excused' PROVE KeptAbove(row'[s], due'[row'[s].e])
      BY Zenon DEF RowsKept, KeptAbove
    <2>1. CASE s = r
        BY <1>3, <2>1
    <2>2. CASE s # r
      <3>1. row'[s] = row[s] /\ row[s].e \in Entries /\ row[s].e # e /\ row[s].e \notin excused
          BY <1>0, <1>2, <1>3, <2>2, RowIs
      <3> QED BY <1>3, <3>1 DEF FloorInv, RowsKept
    <2> QED BY <2>1, <2>2
  <1> QED BY <1>4, <1>5, <1>6 DEF FloorInv

\* What is at or above what an entry was due, and above what a write's floor adds, is above what it is due then.
LEMMA DueBounds ==
    ASSUME DueOK, NEW e \in Entries, NEW floor \in Homes, NEW lives, NEW home \in Homes, home \in AtOrAbove(due[e]),
           floor # Origin[e] => home \in AtOrAbove(floor)
    PROVE  home \in AtOrAbove(DueWith(e, floor, lives))
  <1>1. due[e] \in Homes
      BY DEF DueOK
  <1>2. CASE floor \in {Origin[e], lives}
      BY <1>2 DEF DueWith
  <1>3. CASE floor \notin {Origin[e], lives}
    <2> DEFINE hs == {due[e], floor}
    <2>1. hs \in SUBSET Homes /\ hs # {} /\ \A h \in hs : home \in AtOrAbove(h)
        BY <1>1, <1>3
    <2>2. DueWith(e, floor, lives) = CommonAncestor(hs)
        BY <1>3 DEF DueWith
    <2> HIDE DEF hs
    <2> QED BY <2>1, <2>2, CommonIs
  <1> QED BY <1>2, <1>3

\* A write is stored at or above what its entry is due by it, or the entry is excused (WriteStore).
LEMMA WriteFloors ==
    ASSUME TypeInv, FloorInv, NEW t \in Tasks, WriteStore(t)
    PROVE  FloorInv'
  <1> DEFINE w == task[t]
  <1>1. w.kind = "write" /\ w \in WriteRec /\ (w.worker \/ w.floor \in AtOrAbove(Origin[w.e])) /\ HasRid(w.e)
      BY DEF WriteStore, TypeInv, EntriesOK, TasksOK, Shape
  <1> DEFINE e == w.e
  <1> DEFINE floor == w.floor
  <1> DEFINE o == Origin[w.e]
  <1>2. e \in Entries /\ floor \in Homes /\ o \in Homes /\ RowsOK /\ DueOK /\ w.worker \in BOOLEAN
      BY <1>1, EntriesAssumption DEF WriteRec, TypeInv, EntriesOK
  <1> DEFINE r == RidFor(w.e)
  <1> DEFINE was == row[r]
  <1>3. r \in Rids /\ was \in Row \cup {None} /\ (was # None => Stored(e) /\ r = RidOf(e) /\ was.e = e) /\ (was = None => ~Stored(e))
      BY <1>1, <1>2, RidForIs, RidOfIs DEF RowsOK
  <1>4. PICK verdict \in Verdicts(o) :
           LET p == Placed(w, verdict)
           IN /\ row' = [row EXCEPT ![r] =
                   [e |-> w.e, home |-> p.home, placed |-> was # None /\ was.placed,
                    by |-> IF was # None /\ was.by # None THEN was.by ELSE w.by,
                    ungraded |-> UngradedAfter(w, verdict, p)]]
              /\ due' = [due EXCEPT ![w.e] = DueWith(w.e, w.floor, IF w.worker /\ was # None THEN was.home ELSE Origin[w.e])]
              /\ excused' = IF Loses(w, was, w.worker /\ p.restricted) THEN excused \cup {w.e} ELSE excused
      BY DEF WriteStore
  <1> DEFINE p == Placed(w, verdict)
  <1> DEFINE new == [e |-> w.e, home |-> p.home, placed |-> was # None /\ was.placed,
                     by |-> IF was # None /\ was.by # None THEN was.by ELSE w.by,
                     ungraded |-> UngradedAfter(w, verdict, p)]
  <1> DEFINE lives == IF w.worker /\ was # None THEN was.home ELSE Origin[w.e]
  <1> DEFINE owed == DueWith(w.e, w.floor, lives)
  <1>5. /\ row' = [row EXCEPT ![r] = new] /\ due' = [due EXCEPT ![e] = owed]
        /\ excused \subseteq excused' /\ \A f \in Entries \ {e} : f \in excused' => f \in excused
      BY <1>4
  <1>6. new # None /\ new.e = e
    <2>1. new \in Row
      <3>5. p \in Placement
          BY <1>1, PlacedIn
      <3>6. UngradedAfter(w, verdict, p) \in Awaiting \cup {None}
        <4>1. Stored(w.e) => row[RidOf(w.e)].ungraded \in Awaiting \cup {None}
            BY <1>2, RidOfIs, RowIs
        <4>2. [held |-> p.home, floor |-> w.floor] \in Awaiting
            BY <1>2, <3>5 DEF Awaiting, Placement
        <4> HIDE DEF p
        <4> QED BY <4>1, <4>2 DEF UngradedAfter
      <3>7. w.by \in By
          BY <1>1 DEF WriteRec
      <3> DEFINE placed == was # None /\ was.placed
      <3> DEFINE by == IF was # None /\ was.by # None THEN was.by ELSE w.by
      <3> DEFINE ungraded == UngradedAfter(w, verdict, p)
      <3>8. placed \in BOOLEAN /\ by \in By /\ ungraded \in Awaiting \cup {None} /\ p.home \in Homes
          BY <1>3, <3>5, <3>6, <3>7 DEF Row, By, Placement
      <3>9. new = [e |-> w.e, home |-> p.home, placed |-> placed, by |-> by, ungraded |-> ungraded]
          OBVIOUS
      <3> HIDE DEF placed, by, ungraded, p, new
      <3> QED BY <1>2, <3>8, <3>9 DEF Row, By
    <2> QED BY <2>1, KnowledgeAssumption
  <1>7. ASSUME e \notin excused' PROVE KeptAbove(new, owed)
    <2> DEFINE at == IF was = None THEN Origin[w.e] ELSE was.home
    <2> DEFINE kept == KeptHome(w.old, verdict)
    <2> DEFINE place == Place(o, verdict, kept, floor)
    <2>1. /\ w.old = was /\ ~(w.worker /\ p.restricted) /\ (was # None => was.ungraded = None)
          /\ at \in AtOrAbove(floor) \/ floor \in AtOrAbove(at)
          /\ e \notin excused
        BY <1>4, <1>7 DEF Loses
    <2>2. kept = (IF was = None THEN None ELSE was.home) /\ None \notin Homes
        BY <2>1, TreeAssumption DEF KeptHome, Homes
    <2>3. kept \in Homes \cup {None} /\ at = (IF kept = None THEN o ELSE kept)
        BY <1>3, <2>2 DEF Row
    <2>4. p = place
      <3>1. p.restricted = place.restricted
          BY DEF Placed
      <3>2. p = IF w.worker /\ place.restricted THEN [place EXCEPT !.home = w.old.home] ELSE place
          BY DEF Placed
      <3> QED BY <2>1, <3>1, <3>2
    <2> HIDE DEF kept, p, at
    <2>5. /\ p.home \in AtOrAbove(at)
          /\ floor # o => p.home \in AtOrAbove(floor)
          /\ p.ungraded => verdict = Out /\ kept = None
      <3>1. p.restricted => floor \in AtOrAbove(o)
          BY <1>1, <2>1
      <3> HIDE DEF floor, o
      <3> QED BY <1>2, <2>1, <2>3, <2>4, <3>1, PlaceAbove
    <2>6. due[e] \in Homes /\ at \in Homes /\ at \in AtOrAbove(due[e])
      <3>1. due[e] \in Homes
          BY <1>2 DEF DueOK
      <3>2. CASE was = None
        <4>1. due[e] = Everyone
            BY <1>2, <1>3, <3>2 DEF FloorInv, GoneOwesNothing
        <4>2. at = o
            BY <3>2 DEF at
        <4> QED BY <1>2, <3>1, <4>1, <4>2, AboveEveryone
      <3>3. CASE was # None
          BY <1>2, <1>3, <2>1, <3>1, <3>3, RowIs DEF at, FloorInv, RowsKept, KeptAbove
      <3> QED BY <3>1, <3>2, <3>3
    <2>7. p.home \in Homes /\ p.home \in AtOrAbove(due[e])
        BY <2>5, <2>6, AboveTrans
    <2>8. p.home \in AtOrAbove(owed)
        BY <1>2, <2>5, <2>7, DueBounds
    <2>9. ASSUME UngradedAfter(w, verdict, p) # None, NEW v \in Verdicts(o) \ {Out}
          PROVE  Place(o, v, None, UngradedAfter(w, verdict, p).floor).home \in AtOrAbove(owed)
      <3>1. p.ungraded
        <4>1. Stored(w.e) => row[RidOf(w.e)] = was /\ was # None
            BY <1>3
        <4> QED BY <2>1, <2>9, <4>1 DEF UngradedAfter
      <3>2. UngradedAfter(w, verdict, p).floor = floor /\ kept = None /\ at = o /\ was = None
          BY <1>3, <2>2, <2>3, <2>5, <3>1, TreeAssumption DEF UngradedAfter, Row, Homes
      <3> DEFINE q == Place(o, v, None, floor)
      <3>3. q \in Placement /\ (q.restricted => None # None)
          BY <1>2, PlaceIn
      <3>4. q.home \in Homes /\ ~q.restricted
          BY <3>3 DEF Placement
      <3>5. floor # o => q.home \in AtOrAbove(floor)
        <4>1. v \in Verdicts(o)
            OBVIOUS
        <4>2. o \in AtOrAbove(floor) \/ floor \in AtOrAbove(o)
            BY <2>1, <3>2 DEF at
        <4> DEFINE none == None
        <4>3. none \in Homes \cup {None} /\ o = IF none = None THEN o ELSE none
            OBVIOUS
        <4> HIDE DEF q, o, floor, none
        <4>4. q = Place(o, v, none, floor)
            BY DEF q, none
        <4> QED BY <1>2, <3>4, <4>1, <4>2, <4>3, <4>4, PlaceAbove
      <3>6. q.home \in AtOrAbove(due[e])
          BY <1>2, <1>3, <3>2, <3>4, AboveEveryone DEF FloorInv, GoneOwesNothing
      <3> HIDE DEF q
      <3>7. q.home \in AtOrAbove(owed)
          BY <1>2, <3>4, <3>5, <3>6, DueBounds
      <3> QED BY <3>2, <3>7 DEF q
    <2> QED BY <2>8, <2>9 DEF KeptAbove
  <1> HIDE DEF new, owed, r
  <1>8. row[r] # None => row[r].e = e
      BY <1>3
  <1> QED BY <1>2, <1>3, <1>5, <1>6, <1>7, <1>8, StoredFloors

\* A correction changes nothing an entry is due, or the entry is excused (TypedApply).
LEMMA TypedFloors ==
    ASSUME TypeInv, FloorInv, NEW t \in Tasks, TypedApply(t)
    PROVE  FloorInv'
  <1> DEFINE c == task[t]
  <1> DEFINE now == row[c.rid]
  <1>1. c.kind = "typed" /\ c \in TypedRec /\ (c.after = None => Corrects(c)) /\ RowsOK /\ DueOK
      BY DEF TypedApply, TypeInv, EntriesOK, TasksOK, Shape
  <1>2. c.rid \in Rids
      BY <1>1 DEF TypedRec
  <1>3. UNCHANGED row
      BY DEF TypedApply
  <1>4. CASE now = None \/ c.after # None \/ now.e \notin excused'
    <2>1. due' = due
      <3>1. CASE now = None \/ c.after # None
          BY <3>1 DEF TypedApply
      <3>2. CASE now # None /\ c.after = None /\ now.e \notin excused'
        <4>1. due' = [due EXCEPT ![now.e] = DueWith(now.e, c.floor, c.read.home)] /\ now = c.read /\ now.home # Everyone
            BY <3>2 DEF TypedApply
        <4>2. c.floor = c.read.home
            BY <1>1, <3>2, <4>1 DEF Corrects
        <4>3. DueWith(now.e, c.floor, c.read.home) = due[now.e] /\ now.e \in Entries
            BY <1>1, <1>2, <3>2, <4>2, RowIs DEF DueWith
        <4> QED BY <1>1, <4>1, <4>3 DEF DueOK
      <3> QED BY <1>4, <3>1, <3>2
    <2>2. excused \subseteq excused'
        BY DEF TypedApply
    <2> QED BY <1>3, <2>1, <2>2 DEF FloorInv, OneRow, GoneOwesNothing, RowsKept, Stored, RidsOf
  <1>5. CASE now # None /\ c.after = None /\ now.e \in excused'
    <2> DEFINE e == now.e
    <2> DEFINE owed == DueWith(now.e, c.floor, c.read.home)
    <2>1. due' = [due EXCEPT ![e] = owed] /\ excused \subseteq excused'
        BY <1>5 DEF TypedApply
    <2>2. e \in Entries /\ Stored(e)
        BY <1>1, <1>2, <1>5, RowIs DEF Stored, RidsOf
    <2> HIDE DEF owed
    <2>3. \A f \in Entries \ {e} : due'[f] = due[f]
        BY <1>1, <2>1 DEF DueOK
    <2>4. e \in excused' /\ OneRow' /\ (\A f \in Entries : Stored(f)' = Stored(f))
        BY <1>3, <1>5 DEF FloorInv, OneRow, Stored, RidsOf
    <2> HIDE DEF e
    <2>5. GoneOwesNothing'
        BY <2>2, <2>3, <2>4 DEF FloorInv, GoneOwesNothing
    <2>6. RowsKept'
      <3> SUFFICES ASSUME NEW s \in Rids, row[s] # None, row[s].e \notin excused' PROVE KeptAbove(row[s], due'[row[s].e])
        BY <1>3, Zenon DEF RowsKept, KeptAbove
      <3>1. row[s].e \in Entries \ {e} /\ row[s].e \notin excused
          BY <1>1, <2>1, <2>4, RowIs
      <3> QED BY <2>3, <3>1 DEF FloorInv, RowsKept
    <2> QED BY <2>4, <2>5, <2>6 DEF FloorInv
  <1> QED BY <1>4, <1>5

\* What is graded anew is homed somewhere.
LEMMA GradedIn ==
    ASSUME NEW origin \in Homes, NEW verdict \in Verdicts(origin), NEW floor \in Homes
    PROVE  Place(origin, verdict, None, floor).home \in Homes
  <1> DEFINE none == None
  <1>1. none \in Homes \cup {None}
      OBVIOUS
  <1> HIDE DEF none
  <1>2. Place(origin, verdict, none, floor) \in Placement
      BY <1>1, PlaceIn
  <1>3. Place(origin, verdict, none, floor).home \in Homes
      BY <1>2 DEF Placement
  <1> QED BY <1>3 DEF none

\* A move that was approved leaves its entry due nothing, and another is up from where it was (MoveApply).
LEMMA MoveFloors ==
    ASSUME TypeInv, FloorInv, NEW t \in Tasks, MoveFollowed(t)
    PROVE  FloorInv'
  <1> DEFINE m == task[t]
  <1> DEFINE now == row[m.rid]
  <1>1. /\ m.kind = "move" /\ m \in MoveRec /\ RowsOK /\ DueOK
        /\ m.after = None => m.to \in AtOrAbove(m.from)
        /\ m.read # None => m.read.e = m.e /\ m.read.home = m.from
      BY DEF MoveFollowed, TypeInv, EntriesOK, TasksOK, Shape, MovesUp
  <1>2. m.rid \in Rids /\ m.to \in Homes /\ m.person \in BOOLEAN
      BY <1>1 DEF MoveRec
  <1>3. MoveApply(t, Follow(m.rid, m.to, Ended(m.after))) /\ m.read # None
      BY DEF MoveFollowed, MoveApply
  <1>4. CASE now = None
      BY <1>3, <1>4, SameFloors DEF MoveApply, EntriesSame
  <1>5. CASE now # None
    <2> DEFINE e == now.e
    <2> DEFINE new == [now EXCEPT !.home = m.to, !.placed = @ \/ m.person]
    <2> DEFINE owed == IF m.after # None THEN Everyone ELSE due[e]
    <2>1. /\ now \in Row /\ e \in Entries /\ due[e] \in Homes /\ now.placed \in BOOLEAN
        BY <1>1, <1>2, <1>5, RowIs DEF DueOK
    <2>2. /\ row' = [row EXCEPT ![m.rid] = new]
          /\ due' = [due EXCEPT ![e] = owed]
          /\ excused' = IF now # m.read \/ (now.placed /\ ~m.placed) THEN excused \cup {e} ELSE excused
        BY <1>1, <1>3, <1>5, <2>1 DEF MoveApply, RowsOK, DueOK
    <2>3. new # None /\ new.e = e /\ new.home = m.to /\ new.ungraded = now.ungraded
      <3> DEFINE placed == now.placed \/ m.person
      <3>1. placed \in BOOLEAN /\ new = [now EXCEPT !.home = m.to, !.placed = placed]
          BY <1>2, <2>1 DEF Row
      <3> HIDE DEF placed
      <3>2. new \in Row /\ new.e = e /\ new.home = m.to /\ new.ungraded = now.ungraded
          BY <1>2, <2>1, <3>1 DEF Row
      <3> QED BY <3>2, KnowledgeAssumption
    <2>4. ASSUME e \notin excused' PROVE KeptAbove(new, owed)
      <3>1. now = m.read /\ e \notin excused /\ KeptAbove(now, due[e])
          BY <1>2, <1>5, <2>2, <2>4 DEF FloorInv, RowsKept
      <3>2. CASE m.after # None
        <4>1. owed = Everyone
            BY <3>2
        <4>2. ASSUME now.ungraded # None, NEW v \in Verdicts(Origin[e]) \ {Out}
              PROVE  Place(Origin[e], v, None, now.ungraded.floor).home \in Homes
          <5>1. now.ungraded.floor \in Homes /\ Origin[e] \in Homes /\ v \in Verdicts(Origin[e])
              BY <2>1, <4>2, EntriesAssumption DEF Row, Awaiting
          <5> QED BY <5>1, GradedIn
        <4> HIDE DEF new, owed
        <4> QED BY <1>2, <2>3, <4>1, <4>2, AboveEveryone DEF KeptAbove
      <3>3. CASE m.after = None
        <4>1. owed = due[e] /\ m.to \in AtOrAbove(now.home) /\ now.home \in AtOrAbove(due[e])
            BY <1>1, <1>3, <3>1, <3>3 DEF KeptAbove
        <4>2. m.to \in AtOrAbove(owed)
            BY <2>1, <4>1, AboveTrans
        <4> HIDE DEF new, owed
        <4> QED BY <2>3, <3>1, <4>1, <4>2 DEF KeptAbove
      <3> QED BY <3>2, <3>3
    <2>5. excused \subseteq excused' /\ \A f \in Entries \ {e} : f \in excused' => f \in excused
        BY <2>2
    <2>6. (now # None => now.e = e) /\ (now = None => ~Stored(e))
        BY <1>5
    <2> HIDE DEF new, owed, e
    <2> QED BY <1>2, <2>1, <2>2, <2>3, <2>4, <2>5, <2>6, StoredFloors
  <1> QED BY <1>4, <1>5

\* What awaited its grading settles at or above what it is due (RegradeStep).
LEMMA RegradeFloors ==
    ASSUME TypeInv, FloorInv, NEW t \in Tasks, RegradeStep(t)
    PROVE  FloorInv'
  <1>1. task[t].kind = "regrade" /\ task[t] \in RegradeRec /\ RowsOK /\ DueOK
      BY DEF RegradeStep, TypeInv, EntriesOK, TasksOK, Shape
  <1>2. PICK r \in DOMAIN task[t].rows : Regrade(t, r, [h \in Homes |-> Follow(r, h, Others(t, r))])
      BY DEF RegradeStep
  <1> DEFINE x == task[t].rows[r]
  <1> DEFINE now == row[r]
  <1>3. r \in Rids /\ x \in Waiting
    <2>1. task[t].rows \in Some(Rids, Waiting)
        BY <1>1 DEF RegradeRec
    <2> QED BY <1>2, <2>1, SomeIs
  <1>4. x \in Row /\ x.ungraded # None /\ x.ungraded.floor \in Homes /\ Origin[x.e] \in Homes
      BY <1>3, EntriesAssumption DEF Waiting, Row, Awaiting
  <1>5. CASE now = None
      BY <1>2, <1>5, SameFloors DEF Regrade, EntriesSame
  <1>6. ASSUME now # None, NEW new, new # None, new.e = now.e, row' = [row EXCEPT ![r] = new],
               due' = due, excused \subseteq excused', \A f \in Entries \ {now.e} : f \in excused' => f \in excused,
               now.e \notin excused' => KeptAbove(new, due[now.e])
        PROVE  FloorInv'
    <2> DEFINE e == now.e
    <2> DEFINE owed == due[e]
    <2>1. e \in Entries /\ due' = [due EXCEPT ![e] = owed]
        BY <1>1, <1>3, <1>6, RowIs DEF DueOK
    <2>2. (now # None => now.e = e) /\ (now = None => ~Stored(e)) /\ new.e = e
        BY <1>6
    <2> HIDE DEF e
    <2>3. /\ \A f \in Entries \ {e} : f \in excused' => f \in excused
          /\ e \notin excused' => KeptAbove(new, owed)
        BY <1>6 DEF e
    <2> HIDE DEF owed
    <2> QED BY <1>3, <1>6, <2>1, <2>2, <2>3, StoredFloors
  <1>7. CASE now # None /\ Moved(x)
    <2> DEFINE new == [now EXCEPT !.ungraded = None]
    <2>1. row' = [row EXCEPT ![r] = new] /\ due' = due /\ excused' = excused
        BY <1>1, <1>2, <1>3, <1>7 DEF Regrade, RowsOK
    <2>2. now \in Row
        BY <1>1, <1>3, <1>7, RowIs
    <2>3. new \in Row /\ new.e = now.e /\ new.home = now.home /\ new.ungraded = None
        BY <2>2 DEF Row
    <2>4. new # None
        BY <2>3, KnowledgeAssumption
    <2>5. now.e \notin excused' => KeptAbove(new, due[now.e])
        BY <1>3, <1>7, <2>1, <2>3 DEF FloorInv, RowsKept, KeptAbove
    <2> HIDE DEF new
    <2> QED BY <1>6, <1>7, <2>1, <2>3, <2>4, <2>5
  <1>8. CASE now # None /\ ~Moved(x)
    <2>1. PICK verdict \in Verdicts(Origin[x.e]) \ {Out} :
             row' = [row EXCEPT ![r].home = Place(Origin[x.e], verdict, None, x.ungraded.floor).home, ![r].ungraded = None]
        BY <1>2, <1>8 DEF Regrade
    <2> DEFINE p == Place(Origin[x.e], verdict, None, x.ungraded.floor)
    <2> DEFINE home == p.home
    <2> DEFINE new == [now EXCEPT !.home = home, !.ungraded = None]
    <2>2. due' = due /\ excused' = IF now # x \/ (x.placed /\ x.home = x.ungraded.held) THEN excused \cup {now.e} ELSE excused
        BY <1>2, <1>8 DEF Regrade
    <2>3. home \in Homes
        BY <1>4, GradedIn
    <2>4. now \in Row
        BY <1>1, <1>3, <1>8, RowIs
    <2>5. row' = [row EXCEPT ![r] = new]
        BY <1>1, <1>3, <2>1 DEF RowsOK
    <2>6. now.e \notin excused' => home \in AtOrAbove(due[now.e])
      <3>1. ASSUME now.e \notin excused' PROVE now = x /\ now.e \notin excused
          BY <2>2, <3>1
      <3> QED BY <1>3, <1>4, <1>8, <2>1, <3>1 DEF FloorInv, RowsKept, KeptAbove
    <2> HIDE DEF home, p
    <2>7. new \in Row /\ new.e = now.e /\ new.home = home /\ new.ungraded = None
        BY <2>3, <2>4 DEF Row
    <2>8. new # None
        BY <2>7, KnowledgeAssumption
    <2> HIDE DEF new
    <2>9. now.e \notin excused' => KeptAbove(new, due[now.e])
        BY <2>6, <2>7 DEF KeptAbove
    <2>10. excused \subseteq excused' /\ \A f \in Entries \ {now.e} : f \in excused' => f \in excused
        BY <2>2
    <2> QED BY <1>6, <1>8, <2>2, <2>5, <2>7, <2>8, <2>9, <2>10
  <1> QED BY <1>5, <1>7, <1>8

\* Nothing is stored twice, due anything or excused at the start.
LEMMA FloorInit == Init => FloorInv
  <1> SUFFICES ASSUME Init PROVE FloorInv
    OBVIOUS
  <1>1. /\ quota \in Quotas /\ row = quota.rows /\ due = [e \in Entries |-> Everyone]
      BY DEF Init, EntriesInit
  <1>2. OneRow
      BY <1>1, KnowledgeAssumption DEF OneRow
  <1>3. GoneOwesNothing
      BY <1>1 DEF GoneOwesNothing
  <1>4. RowsKept
    <2> SUFFICES ASSUME NEW r \in Rids, row[r] # None PROVE KeptAbove(row[r], due[row[r].e])
      BY DEF RowsKept
    <2>1. RowsOK
        BY InitInv DEF Inv, TypeInv, EntriesOK
    <2> DEFINE x == row[r]
    <2> DEFINE owed == due[row[r].e]
    <2>2. x \in Row /\ x.home \in Homes /\ owed = Everyone
        BY <1>1, <2>1, RowIs
    <2>3. ASSUME x.ungraded # None, NEW v \in Verdicts(Origin[x.e]) \ {Out}
          PROVE  Place(Origin[x.e], v, None, x.ungraded.floor).home \in Homes
        BY <2>2, <2>3, EntriesAssumption, GradedIn DEF Row, Awaiting
    <2> HIDE DEF x, owed
    <2>4. KeptAbove(x, owed)
        BY <2>2, <2>3, AboveEveryone DEF KeptAbove
    <2> QED BY <2>4 DEF x, owed
  <1> QED BY <1>2, <1>3, <1>4 DEF FloorInv

\* ... and no step breaks it.
LEMMA FloorNext == TypeInv /\ FloorInv /\ [Next]_vars => FloorInv'
  <1> SUFFICES ASSUME TypeInv, FloorInv, [Next]_vars PROVE FloorInv'
    OBVIOUS
  <1>1. EntryKept
      BY StepKeeps
  <1>2. CASE EntriesSame
      BY <1>2, SameFloors
  <1>3. CASE EntryGone
      BY <1>3, GoneFloors
  <1>4. ASSUME NEW t \in Tasks, Stores(t) PROVE FloorInv'
      BY <1>4, WriteFloors, TypedFloors, MoveFloors, RegradeFloors DEF Stores
  <1> QED BY <1>1, <1>2, <1>3, <1>4 DEF EntryKept

\* Derived data stays where its writer's sources are seen: an entry is homed at or above what was read for what
\* it says, and will be when it is graded, unless someone decided otherwise or a known race stored over it
\* (derivedFloor, applyFloor).
THEOREM FloorsKept == Spec => []FloorKept
  <1>1. Init => Inv /\ FloorInv
      BY InitInv, FloorInit
  <1>2. Inv /\ FloorInv /\ [Next]_vars => Inv' /\ FloorInv'
      BY NextInv, FloorNext DEF Inv
  <1>3. Inv /\ FloorInv => FloorKept
      BY DEF FloorInv, RowsKept, KeptAbove, FloorKept
  <1> QED BY <1>1, <1>2, <1>3, PTL DEF Spec

--------------------------------------------------------------------------
(* What moves an entry                                                     *)

\* Where no entry changed, each stands.
LEMMA SameStands ==
    ASSUME UNCHANGED row, NEW r \in Rids
    PROVE  Stands(r)
  BY DEF Stands

\* An entry that goes moves none.
LEMMA GoneStands ==
    ASSUME TypeInv, EntryGone, NEW r \in Rids
    PROVE  Stands(r)
  BY DEF Stands, EntryGone, Removed, TypeInv, EntriesOK, RowsOK

\* A call that ends, or goes on as another, has acted.
LEMMA ActedOn ==
    ASSUME TasksOK, NEW t \in Tasks, NEW w, w.kind # task[t].kind, task' = [task EXCEPT ![t] = w]
    PROVE  task'[t] # task[t]
  BY DEF TasksOK

\* What is written over is of the same entry, and moves up (WriteStore).
LEMMA WriteUp ==
    ASSUME TypeInv, NEW t \in Tasks, WriteStore(t)
    PROVE  LET s == RidFor(task[t].e) IN
           /\ s \in Rids /\ row'[s].e = task[t].e /\ (row[s] # None => row[s].e = task[t].e)
           /\ excused \subseteq excused' /\ \A r \in Rids \ {s} : row'[r] = row[r]
           /\ row[s] # None /\ row[s].e \notin excused' => row'[s].home \in AtOrAbove(row[s].home)
  <1> DEFINE w == task[t]
  <1>1. w.kind = "write" /\ w \in WriteRec /\ HasRid(w.e) /\ RowsOK /\ TasksOK
      BY DEF WriteStore, TypeInv, EntriesOK, TasksOK, Shape
  <1>2. w.e \in Entries /\ w.floor \in Homes /\ Origin[w.e] \in Homes /\ w.after \in After
      BY <1>1, EntriesAssumption DEF WriteRec
  <1> DEFINE s == RidFor(w.e)
  <1> DEFINE was == row[s]
  <1>3. s \in Rids /\ was \in Row \cup {None} /\ (was # None => was.e = w.e)
      BY <1>1, <1>2, RidForIs, RidOfIs DEF RowsOK
  <1>4. PICK verdict \in Verdicts(Origin[w.e]) :
           LET p == Placed(w, verdict)
           IN /\ row' = [row EXCEPT ![s] =
                   [e |-> w.e, home |-> p.home, placed |-> was # None /\ was.placed,
                    by |-> IF was # None /\ was.by # None THEN was.by ELSE w.by,
                    ungraded |-> UngradedAfter(w, verdict, p)]]
              /\ excused' = IF Loses(w, was, w.worker /\ p.restricted) THEN excused \cup {w.e} ELSE excused
              /\ task' = [task EXCEPT ![t] =
                   IF p.ask = None THEN Ended(w.after)
                   ELSE [kind |-> "ask", e |-> w.e, from |-> p.home, to |-> p.ask, after |-> w.after]]
      BY DEF WriteStore
  <1> DEFINE p == Placed(w, verdict)
  <1>5. row'[s].home = p.home /\ row'[s].e = w.e
      BY <1>1, <1>3, <1>4 DEF RowsOK
  <1>6. \A r \in Rids \ {s} : row'[r] = row[r]
      BY <1>1, <1>3, <1>4 DEF RowsOK
  <1>7. ASSUME was # None, was.e \notin excused' PROVE p.home \in AtOrAbove(was.home)
    <2>1. w.old = was /\ ~(w.worker /\ p.restricted) /\ was.ungraded = None
        BY <1>3, <1>4, <1>7 DEF Loses
    <2> DEFINE o == Origin[w.e]
    <2> DEFINE kept == KeptHome(w.old, verdict)
    <2> DEFINE floor == w.floor
    <2> DEFINE place == Place(o, verdict, kept, floor)
    <2>2. kept = was.home /\ was.home \in Homes /\ None \notin Homes
        BY <1>3, <1>7, <2>1, TreeAssumption DEF KeptHome, Row, Homes
    <2>3. p = place
      <3>1. p.restricted = place.restricted
          BY DEF Placed
      <3>2. p = IF w.worker /\ place.restricted THEN [place EXCEPT !.home = w.old.home] ELSE place
          BY DEF Placed
      <3> QED BY <2>1, <3>1, <3>2
    <2>4. kept \in Homes \cup {None} /\ kept = IF kept = None THEN o ELSE kept
        BY <2>2
    <2> HIDE DEF kept, p, o, floor
    <2>5. verdict \in Verdicts(o) /\ o \in Homes /\ floor \in Homes
        BY <1>2 DEF o, floor
    <2>6. p.home \in AtOrAbove(kept)
        BY <2>3, <2>4, <2>5, PlaceAbove
    <2> QED BY <2>2, <2>6
  <1>8. excused \subseteq excused'
      BY <1>4
  <1> HIDE DEF p
  <1> QED BY <1>3, <1>5, <1>6, <1>7, <1>8

\* What is written over moves up, by its write (WriteStore).
LEMMA WriteStands ==
    ASSUME TypeInv, NEW t \in Tasks, WriteStore(t), NEW r \in Rids
    PROVE  Stands(r)
  <1> DEFINE w == task[t]
  <1>1. w.kind = "write" /\ w \in WriteRec /\ HasRid(w.e) /\ RowsOK /\ TasksOK
      BY DEF WriteStore, TypeInv, EntriesOK, TasksOK, Shape
  <1>2. w.e \in Entries /\ w.floor \in Homes /\ Origin[w.e] \in Homes /\ w.after \in After
      BY <1>1, EntriesAssumption DEF WriteRec
  <1> DEFINE s == RidFor(w.e)
  <1> DEFINE was == row[s]
  <1>3. s \in Rids /\ was \in Row \cup {None} /\ (was # None => was.e = w.e)
      BY <1>1, <1>2, RidForIs, RidOfIs DEF RowsOK
  <1>4. PICK verdict \in Verdicts(Origin[w.e]) :
           LET p == Placed(w, verdict)
           IN /\ row' = [row EXCEPT ![s] =
                   [e |-> w.e, home |-> p.home, placed |-> was # None /\ was.placed,
                    by |-> IF was # None /\ was.by # None THEN was.by ELSE w.by,
                    ungraded |-> UngradedAfter(w, verdict, p)]]
              /\ excused' = IF Loses(w, was, w.worker /\ p.restricted) THEN excused \cup {w.e} ELSE excused
              /\ task' = [task EXCEPT ![t] =
                   IF p.ask = None THEN Ended(w.after)
                   ELSE [kind |-> "ask", e |-> w.e, from |-> p.home, to |-> p.ask, after |-> w.after]]
      BY DEF WriteStore
  <1> DEFINE p == Placed(w, verdict)
  <1>5. task'[t] # task[t]
    <2>1. Ended(w.after).kind # "write"
        BY DEF Ended, Settling, Idle
    <2> DEFINE v == IF p.ask = None THEN Ended(w.after)
                    ELSE [kind |-> "ask", e |-> w.e, from |-> p.home, to |-> p.ask, after |-> w.after]
    <2>2. v.kind # w.kind /\ task' = [task EXCEPT ![t] = v]
        BY <1>1, <1>4, <2>1
    <2> HIDE DEF v
    <2> QED BY <1>1, <2>2, ActedOn
  <1>6. /\ \A u \in Rids \ {s} : row'[u] = row[u]
        /\ was # None /\ was.e \notin excused' => row'[s].home \in AtOrAbove(was.home)
      BY WriteUp
  <1>7. CASE r # s
      BY <1>6, <1>7 DEF Stands
  <1>8. CASE r = s
    <2>1. w.kind = "write" /\ (was # None => w.e = was.e)
        BY <1>1, <1>3
    <2> HIDE DEF p
    <2> QED BY <1>5, <1>6, <1>8, <2>1 DEF Stands
  <1> QED BY <1>7, <1>8

\* What is moved is moved by an approval, or up, and by a person if one placed it (MoveApply).
LEMMA MoveStands ==
    ASSUME TypeInv, NEW t \in Tasks, MoveFollowed(t), NEW r \in Rids
    PROVE  Stands(r)
  <1> DEFINE m == task[t]
  <1> DEFINE now == row[m.rid]
  <1>1. /\ m.kind = "move" /\ m \in MoveRec /\ RowsOK /\ TasksOK
        /\ m.after = None => m.to \in AtOrAbove(m.from) /\ (m.placed => m.person)
        /\ m.read # None => m.read.e = m.e /\ m.read.home = m.from
      BY DEF MoveFollowed, TypeInv, EntriesOK, TasksOK, Shape, MovesUp
  <1>2. m.rid \in Rids /\ m.to \in Homes /\ m.after \in After
      BY <1>1 DEF MoveRec
  <1> DEFINE follow == Follow(m.rid, m.to, Ended(m.after))
  <1>3. MoveApply(t, follow) /\ m.read # None
      BY DEF MoveFollowed, MoveApply
  <1>4. CASE now = None
      BY <1>3, <1>4, SameStands DEF MoveApply
  <1>5. CASE now # None
    <2>1. /\ row' = [row EXCEPT ![m.rid].home = m.to, ![m.rid].placed = @ \/ m.person]
          /\ task' = [task EXCEPT ![t] = follow]
          /\ excused' = IF now # m.read \/ (now.placed /\ ~m.placed) THEN excused \cup {now.e} ELSE excused
        BY <1>3, <1>5 DEF MoveApply
    <2>2. task'[t] # task[t]
      <3>1. follow.kind # m.kind
          BY <1>1 DEF Follow, Seen, Ended, Settling, Idle
      <3> HIDE DEF follow
      <3> QED BY <1>1, <2>1, <3>1, ActedOn
    <2>3. CASE r # m.rid
        BY <1>1, <1>2, <2>1, <2>3 DEF Stands, RowsOK
    <2>4. CASE r = m.rid
      <3>1. row'[r].home = m.to /\ now.placed \in BOOLEAN
          BY <1>1, <1>2, <1>5, <2>1, <2>4, RowIs DEF RowsOK, Row
      <3>2. ASSUME now.e \notin excused', m.after = None PROVE m.to \in AtOrAbove(now.home) /\ (now.placed => m.person)
          BY <1>1, <1>3, <2>1, <3>2
      <3> QED BY <1>1, <2>2, <2>4, <3>1, <3>2 DEF Stands
    <2> QED BY <2>3, <2>4
  <1> QED BY <1>4, <1>5

\* What is graded where it waited had not been placed by a person (RegradeStep).
LEMMA RegradeStands ==
    ASSUME TypeInv, NEW t \in Tasks, RegradeStep(t), NEW r \in Rids
    PROVE  Stands(r)
  <1>1. task[t].kind = "regrade" /\ task[t] \in RegradeRec /\ RowsOK
      BY DEF RegradeStep, TypeInv, EntriesOK, TasksOK, Shape
  <1>2. PICK s \in DOMAIN task[t].rows : Regrade(t, s, [h \in Homes |-> Follow(s, h, Others(t, s))])
      BY DEF RegradeStep
  <1> DEFINE x == task[t].rows[s]
  <1> DEFINE now == row[s]
  <1>3. s \in Rids /\ x \in Waiting
    <2>1. task[t].rows \in Some(Rids, Waiting)
        BY <1>1 DEF RegradeRec
    <2> QED BY <1>2, <2>1, SomeIs
  <1>4. CASE now = None
      BY <1>2, <1>4, SameStands DEF Regrade
  <1>5. CASE now # None /\ Moved(x)
    <2>1. row' = [row EXCEPT ![s].ungraded = None]
        BY <1>2, <1>5 DEF Regrade
    <2>2. row[s] \in Row
        BY <1>1, <1>3, <1>5, RowIs
    <2>3. row'[s].home = now.home /\ \A u \in Rids \ {s} : row'[u] = row[u]
        BY <1>1, <1>3, <2>1, <2>2 DEF RowsOK, Row
    <2> QED BY <2>3 DEF Stands
  <1>6. CASE now # None /\ ~Moved(x)
    <2>1. \E home : row' = [row EXCEPT ![s].home = home, ![s].ungraded = None]
        BY <1>2, <1>6 DEF Regrade
    <2>2. \A u \in Rids \ {s} : row'[u] = row[u]
        BY <1>1, <2>1 DEF RowsOK
    <2>3. excused' = IF now # x \/ (x.placed /\ x.home = x.ungraded.held) THEN excused \cup {now.e} ELSE excused
        BY <1>2, <1>6 DEF Regrade
    <2>4. now.e \notin excused' => now.ungraded # None /\ ~now.placed
        BY <1>3, <1>6, <2>3 DEF Moved, Waiting
    <2> QED BY <2>2, <2>4 DEF Stands
  <1> QED BY <1>4, <1>5, <1>6

\* More people come to see an entry only by an approved move or when its first grading settles where it was held,
\* and what a person placed is moved by a person, by an approval, or up by what is written next (setHome,
\* applyRehome, regradeTick, upsertEntities), short of the races that excuse an entry.
THEOREM PlacementsStand == Spec => PlacementStands
  <1>1. ASSUME TypeInv, [Next]_vars PROVE \A r \in Rids : Stands(r)
    <2>1. EntryKept
        BY <1>1, StepKeeps
    <2>2. CASE EntriesSame
        BY <2>2, SameStands DEF EntriesSame
    <2>3. CASE EntryGone
        BY <1>1, <2>3, GoneStands
    <2>4. ASSUME NEW t \in Tasks, Stores(t) PROVE \A r \in Rids : Stands(r)
      <3>1. TypedApply(t) => UNCHANGED row
          BY DEF TypedApply
      <3> QED BY <1>1, <2>4, <3>1, WriteStands, MoveStands, RegradeStands, SameStands DEF Stores
    <2> QED BY <2>1, <2>2, <2>3, <2>4 DEF EntryKept
  <1>2. Inv /\ [Next]_vars => [\A r \in Rids : Stands(r)]_vars
      BY <1>1 DEF Inv
  <1> QED BY <1>2, Always, PTL DEF Spec, PlacementStands

====
