---- MODULE ThreadQueue ----
(***************************************************************************)
(* What graph-rag's queue of worker threads promises the workspace and the  *)
(* operator, without its rows, handlers and awaits: a thread is handed out  *)
(* on a lease while it is queued, a lease ends once (reported, given back,  *)
(* lost), one report lands once, leases expire, and a thread fails only     *)
(* after MaxTries counted tries.  ReviewThreads implements it.              *)
(***************************************************************************)
EXTENDS Naturals

CONSTANTS Threads, Leases, MaxTries, NoThread

VARIABLES
    place,      \* where a thread is
    lease,      \* the thread a live lease is of
    reports,    \* reports taken and not landed yet, per thread
    tries       \* tries counted against a thread

vars == <<place, lease, reports, tries>>

Places == {"queued", "held", "idle", "failed", "closed"}

TypeOK ==
    /\ place \in [Threads -> Places] /\ lease \in [Leases -> Threads \cup {NoThread}]
    /\ reports \in [Threads -> Nat] /\ tries \in [Threads -> Nat]

Init ==
    /\ place = [t \in Threads |-> "queued"]
    /\ lease = [l \in Leases |-> NoThread]
    /\ reports = [t \in Threads |-> 0] /\ tries = [t \in Threads |-> 0]

\* Only a queued thread is handed out.
Take(t, l) ==
    /\ place[t] = "queued" /\ lease[l] = NoThread
    /\ place' = [place EXCEPT ![t] = "held"] /\ lease' = [lease EXCEPT ![l] = t]
    /\ UNCHANGED <<reports, tries>>

\* A lease ends: nothing is left to work on and the thread is settled, wherever it
\* is by then; or it is given back, lost, or reported.
Skip(l) ==
    /\ lease[l] # NoThread /\ lease' = [lease EXCEPT ![l] = NoThread]
    /\ place' = [place EXCEPT ![lease[l]] = "idle"]
    /\ UNCHANGED <<reports, tries>>

GiveBack(l) ==
    LET t == lease[l] IN
    /\ t # NoThread /\ lease' = [lease EXCEPT ![l] = NoThread]
    /\ place' = [place EXCEPT ![t] = IF @ = "held" THEN "queued" ELSE @]
    /\ UNCHANGED <<reports, tries>>

Lose(l) ==
    /\ lease[l] # NoThread /\ lease' = [lease EXCEPT ![l] = NoThread]
    /\ UNCHANGED <<place, reports, tries>>

Report(l) ==
    /\ lease[l] # NoThread /\ lease' = [lease EXCEPT ![l] = NoThread]
    /\ reports' = [reports EXCEPT ![lease[l]] = @ + 1]
    /\ UNCHANGED <<place, tries>>

Fewer(t) == reports[t] > 0 /\ reports' = [reports EXCEPT ![t] = @ - 1]

\* A report lands, however late: the turn is over, or was put off.
LandDone(t) ==
    /\ Fewer(t)
    /\ \E p \in {"queued", "idle"} : place' = [place EXCEPT ![t] = p]
    /\ UNCHANGED <<lease, tries>>

\* The try failed: the thread has another, or has had MaxTries.
LandFailed(t) ==
    /\ Fewer(t) /\ tries' = [tries EXCEPT ![t] = @ + 1]
    /\ \/ place' = [place EXCEPT ![t] = "queued"]
       \/ tries[t] + 1 >= MaxTries /\ place' = [place EXCEPT ![t] = "failed"]
    /\ UNCHANGED lease

\* The queue restarts: reports not landed yet and leases being handed out are lost.
Restart ==
    /\ reports' = [t \in Threads |-> 0]
    /\ \E ls \in SUBSET Leases : lease' = [l \in Leases |-> IF l \in ls THEN NoThread ELSE lease[l]]
    /\ UNCHANGED <<place, tries>>

\* Leases of held threads expire, each a try.
Expire(ts) ==
    /\ \A t \in ts : place[t] = "held"
    /\ tries' = [t \in Threads |-> IF t \in ts THEN tries[t] + 1 ELSE tries[t]]
    /\ \E p \in {"queued", "failed"} :
          /\ p = "failed" => \A t \in ts : tries[t] + 1 >= MaxTries
          /\ place' = [t \in Threads |-> IF t \in ts THEN p ELSE place[t]]
    /\ UNCHANGED <<lease, reports>>

\* A decision, or the timer, wakes an idle thread; the master closes one.
Wake(t) == place[t] = "idle" /\ place' = [place EXCEPT ![t] = "queued"] /\ UNCHANGED <<lease, reports, tries>>
Close(t) == place' = [place EXCEPT ![t] = "closed"] /\ UNCHANGED <<lease, reports, tries>>

Next ==
    \/ \E t \in Threads : \/ (\E l \in Leases : Take(t, l)) \/ LandDone(t) \/ LandFailed(t)
                          \/ Wake(t) \/ Close(t)
    \/ \E l \in Leases : Skip(l) \/ GiveBack(l) \/ Lose(l) \/ Report(l)
    \/ Restart \/ \E ts \in SUBSET Threads : Expire(ts)

Spec == Init /\ [][Next]_vars

====
