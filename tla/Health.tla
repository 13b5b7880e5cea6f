---- MODULE Health ----
(***************************************************************************)
(* What graph-rag depends on (graph-rag/src/health.js createHealth, and      *)
(* modelPost of server.js): a model route that is out is paused, longer each *)
(* time, and its work put off.  All of it is in memory.                      *)
(*                                                                          *)
(* A call is served when it is made and answered later, so the answers of    *)
(* calls made at the same time arrive in any order.                          *)
(***************************************************************************)
EXTENDS Naturals, FiniteSets

CONSTANTS
    Deps,       \* the model routes and the decision API
    MaxPause,   \* the longest pause: the first is 1, in minutes 1 and 15
    MaxOther,   \* bound: calls by others (searches, writes) at once
    None,
    Quotas      \* bounds: what happens, and how often; one is drawn at the start

ASSUME HealthAssumption == MaxPause \in Nat \ {0} /\ MaxOther \in Nat /\ IsFiniteSet(Deps)

VARIABLES
    out,      \* the dependencies that do not answer now
    dep,      \* health: how long each was last paused (0: it is well), and whether it still is
    other,    \* calls by others that await an answer
    quota     \* what may still happen

healthVars == <<out, dep, other>>
Others == 1 .. MaxOther

Well == [pause |-> 0, paused |-> FALSE]

HealthInit ==
    /\ quota \in Quotas
    /\ out = {} /\ dep = [d \in Deps |-> Well] /\ other = [o \in Others |-> None]

Spend(what) == quota[what] > 0 /\ quota' = [quota EXCEPT ![what] = @ - 1]

Down(d) == dep[d].paused

\* health.ok: it is well again, whatever was heard of it since the call was made.
Ok(d) == [dep EXCEPT ![d] = Well]

\* health.fail on an outage: paused, twice as long as last time.
Longer(pause) == IF pause = 0 THEN 1 ELSE IF 2 * pause > MaxPause THEN MaxPause ELSE 2 * pause
Fail(d) == [dep EXCEPT ![d] = [pause |-> Longer(@.pause), paused |-> TRUE]]

\* What a call made now will be answered: an outage, or its answer; a wrong request while faults last.
Served(d) == IF d \in out THEN {"outage"} ELSE {"ok"} \cup IF quota.bad > 0 THEN {"bad"} ELSE {}
Charge(answer) == quota' = IF answer = "bad" THEN [quota EXCEPT !.bad = @ - 1] ELSE quota

\* What the answer does to the dependency.
Heard(d, answer) ==
    CASE answer = "ok" -> Ok(d)
      [] answer = "outage" -> Fail(d)
      [] OTHER -> dep

--------------------------------------------------------------------------
\* A search or a write calls a model, unless it is paused; its work is its own.
OtherCall(o, d) ==
    /\ Spend("other") /\ other[o] = None /\ ~Down(d)
    /\ other' = [other EXCEPT ![o] = [dep |-> d, answer |-> IF d \in out THEN "outage" ELSE "ok"]]
    /\ UNCHANGED <<out, dep>>

OtherAnswered(o) ==
    /\ other[o] # None
    /\ dep' = Heard(other[o].dep, other[o].answer)
    /\ other' = [other EXCEPT ![o] = None]
    /\ UNCHANGED <<out, quota>>

\* The pause is over: whoever calls next finds out.
PauseEnds(d) ==
    /\ dep[d].paused /\ dep' = [dep EXCEPT ![d].paused = FALSE]
    /\ UNCHANGED <<out, other, quota>>

GoesOut(d) == Spend("outage") /\ d \notin out /\ out' = out \cup {d} /\ UNCHANGED <<dep, other>>
ComesBack(d) == d \in out /\ out' = out \ {d} /\ UNCHANGED <<dep, other, quota>>

\* A restart of graph-rag forgets it all.
HealthRestart ==
    /\ dep' = [d \in Deps |-> Well] /\ other' = [o \in Others |-> None]
    /\ UNCHANGED out

====
