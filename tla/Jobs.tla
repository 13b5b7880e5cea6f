---- MODULE Jobs ----
(***************************************************************************)
(* graph-rag's own jobs (graph-rag/src/server.js: enqueue, workerTick,       *)
(* jobMentions, intakeWithTriage): each entry written is read by a model for *)
(* the things it is about, and goes on to the master or to a thread.         *)
(*                                                                          *)
(* One tick runs at a time and works a few jobs in turn; everyone enqueues   *)
(* meanwhile.  Entries are known by how often they were written.             *)
(***************************************************************************)
EXTENDS Health

CONSTANTS
    Notes,         \* entries
    Linker, Embedder, Decider,   \* the worker's model, the embedder, the decision API
    GiveUp,        \* the attempts a job has: 5
    DailyCalls,    \* WORKER_DAILY_CALLS
    MaxText,       \* bound: writes of an entry
    MaxJobs,       \* bound: rows of the queue
    MaxQueueing    \* bound: enqueues at once

ASSUME JobsAssumption ==
    /\ {Linker, Embedder, Decider} \subseteq Deps
    /\ GiveUp \in Nat \ {0} /\ DailyCalls \in Nat \ {0}
    /\ MaxText \in Nat /\ MaxJobs \in Nat /\ MaxQueueing \in Nat

JobIds == 1 .. MaxJobs
Queueings == 1 .. MaxQueueing

VARIABLES
    text,      \* the database's entries: how often a text of each was stored
    bare,      \* those that have a row and no text: their embedding failed
    linked,    \* the writing its links were last made from (_mentions_at: none if 0)
    handed,    \* the writing the master, or a thread, was last to look at, or need not
    job,       \* Job
    queueing,  \* calls of enqueue between their look and their insert
    tick,      \* workerTicking, and where the tick is
    calls,     \* workerUsage: model calls today
    lost       \* history: entries whose last writing no job was queued for, or that an enqueue which
               \* failed was for

jobVars == <<text, bare, linked, handed, job, queueing, tick, calls, lost>>

Resting == [due |-> {}, at |-> None, step |-> "rest", seen |-> 0, answer |-> None]
Ticking == tick.step # "rest"

JobsInit ==
    /\ text = [e \in Notes |-> 0] /\ bare = {} /\ linked = [e \in Notes |-> 0] /\ handed = [e \in Notes |-> 0]
    /\ job = [j \in JobIds |-> None] /\ queueing = [n \in Queueings |-> None]
    /\ tick = Resting /\ calls = 0 /\ lost = {}

--------------------------------------------------------------------------
(* enqueue: look for an open job of the entry, then insert one.              *)

Asked(kind, e, intake, high) == [kind |-> kind, e |-> e, intake |-> intake, high |-> high]
NewJob(q) == [kind |-> q.kind, e |-> q.e, intake |-> q.intake, high |-> q.high,
              status |-> "pending", attempts |-> 0, due |-> TRUE]
FreeJob == CHOOSE j \in JobIds : job[j] = None /\ \A i \in 1 .. (j - 1) : job[i] # None
HasJob == \E j \in JobIds : job[j] = None

\* (faulty variant: one that is done is open, too)
OpenOrDone(j, q) == job[j] # None /\ job[j].kind = q.kind /\ job[j].e = q.e

OpenFor(j, q) == job[j] # None /\ job[j].kind = q.kind /\ job[j].e = q.e /\ job[j].status \in {"pending", "running"}

\* An open job is reused as it is, its priority apart: also one that is running and has read the
\* entry, and one that was queued for less.
Reused(j, q) == IF q.high /\ job[j].status = "pending" THEN [job EXCEPT ![j].high = TRUE] ELSE job
Swallows(j, q) ==
    /\ q.kind = "mentions"
    /\ \/ tick.at = j /\ tick.step # "read" /\ tick.seen < text[q.e]
       \/ q.intake /\ ~job[j].intake

\* What the write of an entry queues: its links, and with a master that it be handed over.
Queue(q) ==
    \E n \in Queueings : /\ queueing[n] = None /\ \A m \in 1 .. (n - 1) : queueing[m] # None
                         /\ queueing' = [queueing EXCEPT ![n] = [q |-> q, looked |-> FALSE]]

\* Its row is there first, its text once that is embedded; the writer is told of a failure.
WriteNote(e) ==
    /\ Spend("write") /\ text[e] < MaxText
    /\ \/ /\ ~Down(Embedder) /\ Embedder \notin out /\ dep' = Ok(Embedder)
          /\ text' = [text EXCEPT ![e] = @ + 1] /\ bare' = bare \ {e}
          /\ Queue(Asked("mentions", e, quota.onward = "intake", FALSE))
       \/ /\ Down(Embedder) \/ Embedder \in out
          /\ dep' = IF Down(Embedder) THEN dep ELSE Fail(Embedder)
          /\ bare' = IF text[e] = 0 THEN bare \cup {e} ELSE bare
          /\ UNCHANGED <<text, queueing>>
    /\ UNCHANGED <<linked, handed, job, tick, calls, lost, out, other>>

\* backfillIdentity: a row without text is given one, and no job.
Backfill(e) ==
    /\ e \in bare /\ ~Down(Embedder) /\ Embedder \notin out
    /\ text' = [text EXCEPT ![e] = @ + 1] /\ bare' = bare \ {e} /\ lost' = lost \cup {e}
    /\ dep' = Ok(Embedder)
    /\ UNCHANGED <<linked, handed, job, queueing, tick, calls, quota, out, other>>

\* A search that finds an entry never linked queues it first, for its links only.
Found(e) ==
    /\ Spend("find") /\ text[e] > 0 /\ linked[e] = 0
    /\ Queue(Asked("mentions", e, FALSE, TRUE))
    /\ UNCHANGED <<text, bare, linked, handed, job, tick, calls, lost>>

\* A look that fails finds none.
EnqueueLook(n) ==
    LET q == queueing[n].q IN
    /\ queueing[n] # None /\ ~queueing[n].looked
    /\ \/ \E j \in JobIds :
           /\ OpenFor(j, q)
           /\ job' = Reused(j, q)
           /\ lost' = IF Swallows(j, q) THEN lost \cup {q.e} ELSE lost
           /\ queueing' = [queueing EXCEPT ![n] = None]
       \/ queueing' = [queueing EXCEPT ![n].looked = TRUE] /\ UNCHANGED <<job, lost>>
    /\ UNCHANGED <<text, bare, linked, handed, tick, calls, quota>>

EnqueueInsert(n) ==
    LET q == queueing[n].q IN
    /\ queueing[n] # None /\ queueing[n].looked /\ HasJob
    /\ job' = [job EXCEPT ![FreeJob] = NewJob(q)]
    /\ queueing' = [queueing EXCEPT ![n] = None]
    /\ lost' = IF q.intake \/ quota.onward # "intake" THEN lost \ {q.e} ELSE lost
    /\ UNCHANGED <<text, bare, linked, handed, tick, calls, quota>>

\* The insert, or the search for the record before it, fails: that is let go of (`.catch`), and its text has no job.
EnqueueFails(n) ==
    /\ queueing[n] # None
    /\ queueing' = [queueing EXCEPT ![n] = None] /\ lost' = lost \cup {queueing[n].q.e}
    /\ UNCHANGED <<text, bare, linked, handed, job, tick, calls, quota>>

--------------------------------------------------------------------------
(* workerTick.                                                               *)

Mine(j) == job[j] # None /\ job[j].kind = "mentions"

\* Not while it runs, nor while one of the models it needs is paused.  (Three jobs at most: the bound.)
TickBegin ==
    LET due == {j \in JobIds : Mine(j) /\ job[j].status = "pending" /\ job[j].due} IN
    /\ ~Ticking /\ ~Down(Linker) /\ ~Down(Embedder) /\ due # {}
    /\ tick' = [Resting EXCEPT !.due = due, !.step = "claim"]
    /\ UNCHANGED <<text, bare, linked, handed, job, queueing, calls, lost, quota, healthVars>>

\* Highest priority first, then the oldest.
Sooner(i, j) == (job[i].high /\ ~job[j].high) \/ (job[i].high = job[j].high /\ i <= j)
First(js) == CHOOSE j \in js : \A i \in js : Sooner(j, i)

\* Claimed if nobody else took it (an admin's clearing, say).
TickClaim ==
    LET j == First(tick.due) IN
    /\ tick.step = "claim" /\ tick.due # {}
    /\ job' = [job EXCEPT ![j].status = "running"]
    /\ tick' = [tick EXCEPT !.due = @ \ {j}, !.at = j, !.step = "read"]
    /\ UNCHANGED <<text, bare, linked, handed, queueing, calls, lost, quota, healthVars>>

TickEnds ==
    /\ tick.step = "claim" /\ tick.due = {}
    /\ tick' = Resting
    /\ UNCHANGED <<text, bare, linked, handed, job, queueing, calls, lost, quota, healthVars>>

At == job[tick.at]
Goes(step) == tick' = [tick EXCEPT !.step = step, !.answer = None]
Finished == job' = [job EXCEPT ![tick.at].status = "done"] /\ tick' = [tick EXCEPT !.at = None, !.step = "claim", !.answer = None]

\* (faulty variant: it gives up an attempt late)
GivesUpLate(attempts) == attempts > GiveUp

GivesUp(attempts) == attempts >= GiveUp

\* The job failed, and runs again after a while, or gives up.
Failed ==
    /\ job' = [job EXCEPT ![tick.at].attempts = @ + 1, ![tick.at].due = FALSE,
                          ![tick.at].status = IF GivesUp(job[tick.at].attempts + 1) THEN "failed" ELSE "pending"]
    /\ tick' = [tick EXCEPT !.at = None, !.step = "claim", !.answer = None]

\* (faulty variant: the job is left as it is)
LeftRunning(j) == job

\* It is put off for what it needs, its attempts kept ...
PutOff(j) == [job EXCEPT ![j].status = "pending", ![j].due = FALSE]

\* ... and the tick stops.
Later == job' = PutOff(tick.at) /\ tick' = Resting

\* A model call on the job's behalf: put off at once if it is paused.
Calls(d) ==
    /\ tick.answer = None
    /\ IF Down(d) THEN Later /\ UNCHANGED quota
       ELSE /\ UNCHANGED job
            /\ \E answer \in Served(d) : tick' = [tick EXCEPT !.answer = answer] /\ Charge(answer)

\* Its answer: on with the job, or it failed, or it is put off.
Answered(d, onward) ==
    /\ tick.answer # None /\ dep' = Heard(d, tick.answer) /\ UNCHANGED <<out, other>>
    /\ CASE tick.answer = "ok" -> onward
         [] tick.answer = "bad" -> Failed
         [] OTHER -> Later

JobRead ==
    /\ tick.step = "read" /\ tick' = [tick EXCEPT !.seen = text[At.e], !.step = "mentions"]
    /\ UNCHANGED <<text, bare, linked, handed, job, queueing, calls, lost, quota, healthVars>>

\* workerCall: within the day's budget, an hour later otherwise.
JobCall ==
    /\ tick.step = "mentions" /\ tick.answer = None
    /\ IF calls >= DailyCalls THEN Later /\ UNCHANGED <<calls, quota>>
       ELSE calls' = calls + 1 /\ Calls(Linker)
    /\ UNCHANGED <<text, bare, linked, handed, queueing, lost, healthVars>>

\* What it mentions, if anything, is embedded to be matched with the things there are.
JobMentions ==
    /\ tick.step = "mentions"
    /\ Answered(Linker, UNCHANGED job /\ \E step \in {"embed", "link"} : Goes(step))
    /\ UNCHANGED <<text, bare, linked, handed, queueing, calls, lost, quota>>

\* "fresh": once triage found nothing for a worker, new names become things.
JobEmbed ==
    /\ tick.step \in {"embed", "fresh"} /\ Calls(Embedder)
    /\ UNCHANGED <<text, bare, linked, handed, queueing, calls, lost, healthVars>>

JobEmbedded ==
    \/ /\ tick.step = "embed" /\ Answered(Embedder, UNCHANGED job /\ Goes("link"))
       /\ UNCHANGED <<text, bare, linked, handed, queueing, calls, lost, quota>>
    \/ /\ tick.step = "fresh" /\ Answered(Embedder, Finished)
       /\ handed' = IF tick.answer = "ok" THEN [handed EXCEPT ![At.e] = tick.seen] ELSE handed
       /\ UNCHANGED <<text, bare, linked, queueing, calls, lost, quota>>

\* The links are made; then it is triaged, handed over, or sorted, as the pool is set.
JobLink ==
    /\ tick.step = "link"
    /\ linked' = [linked EXCEPT ![At.e] = tick.seen]
    /\ CASE At.intake -> UNCHANGED job /\ Goes(IF quota.triage THEN "triage" ELSE "look")
         [] ~At.intake /\ quota.onward = "review" -> \/ UNCHANGED job /\ Goes("look")
                                                     \/ Finished
         [] OTHER -> Finished
    /\ UNCHANGED <<text, bare, handed, queueing, calls, lost, quota, healthVars>>

\* intakeWithTriage: the decision model, unless it is paused; untriaged it goes on as it is.
JobTriage ==
    /\ tick.step = "triage" /\ tick.answer = None
    /\ IF Down(Decider) THEN Goes("look") /\ UNCHANGED quota
       ELSE \E answer \in Served(Decider) : tick' = [tick EXCEPT !.answer = answer] /\ Charge(answer)
    /\ UNCHANGED <<text, bare, linked, handed, job, queueing, calls, lost, healthVars>>

JobTriaged ==
    /\ tick.step = "triage" /\ tick.answer # None
    /\ dep' = Heard(Decider, tick.answer)
    /\ \/ Goes("look") /\ UNCHANGED <<job, handed>>
       \/ tick.answer = "ok" /\ Goes("fresh") /\ UNCHANGED <<job, handed>>
       \/ tick.answer = "ok" /\ Finished /\ handed' = [handed EXCEPT ![At.e] = tick.seen]
    /\ UNCHANGED <<text, bare, linked, queueing, calls, lost, quota, out, other>>

\* Onward: the same look, which may fail, and insert, for the master's batch or a thread.
Onward == Asked(IF At.intake THEN "intake" ELSE "review", At.e, FALSE, FALSE)

JobLook ==
    /\ tick.step = "look"
    /\ \/ /\ \E j \in JobIds : OpenFor(j, Onward)
          /\ Finished /\ handed' = [handed EXCEPT ![At.e] = tick.seen]
       \/ Goes("insert") /\ UNCHANGED <<job, handed>>
    /\ UNCHANGED <<text, bare, linked, queueing, calls, lost, quota, healthVars>>

JobInsert ==
    /\ tick.step = "insert" /\ HasJob
    /\ job' = [job EXCEPT ![FreeJob] = NewJob(Onward), ![tick.at].status = "done"]
    /\ handed' = [handed EXCEPT ![At.e] = tick.seen]
    /\ tick' = [tick EXCEPT !.at = None, !.step = "claim"]
    /\ UNCHANGED <<text, bare, linked, queueing, calls, lost, quota, healthVars>>

TickStep ==
    \/ TickBegin \/ TickClaim \/ TickEnds
    \/ JobRead \/ JobCall \/ JobMentions \/ JobEmbed \/ JobEmbedded \/ JobLink
    \/ JobTriage \/ JobTriaged \/ JobLook \/ JobInsert

--------------------------------------------------------------------------
\* The wait of a failed, or a put-off, job is over.
RunAfter(j) ==
    /\ Mine(j) /\ job[j].status = "pending" /\ ~job[j].due /\ job' = [job EXCEPT ![j].due = TRUE]
    /\ UNCHANGED <<text, bare, linked, handed, queueing, tick, calls, lost, quota>>

\* A new day: the budget is counted anew.
NewDay ==
    /\ calls >= DailyCalls /\ calls' = 0
    /\ UNCHANGED <<text, bare, linked, handed, job, queueing, tick, lost, quota>>

\* The master's batch, or the pool, takes an entry it was handed.
TakenOn(j) ==
    /\ job[j] # None /\ job[j].kind # "mentions" /\ job[j].status = "pending"
    /\ job' = [job EXCEPT ![j].status = "done"]
    /\ UNCHANGED <<text, bare, linked, handed, queueing, tick, calls, lost, quota>>

\* ensureWorkerSchema: what a restart left running runs again.
Rerun == [j \in JobIds |-> IF Mine(j) /\ job[j].status = "running" THEN [job[j] EXCEPT !.status = "pending"] ELSE job[j]]

\* The enqueues at work are gone, and what they were for with them.
JobsRestart ==
    /\ job' = Rerun /\ tick' = Resting /\ calls' = 0
    /\ queueing' = [n \in Queueings |-> None]
    /\ lost' = lost \cup {queueing[n].q.e : n \in {m \in Queueings : queueing[m] # None}}
    /\ UNCHANGED <<text, bare, linked, handed>>

====
