---- MODULE MasterInbox ----
(***************************************************************************)
(* graph-rag's side of the master agent (graph-rag/src/server.js): the      *)
(* intake of saved entries, the batches and signals the master is woken     *)
(* with, and the handlers that settle with the operator what the master     *)
(* cannot decide.                                                           *)
(*                                                                          *)
(* As in ReviewThreads, a handler of a request is a sequence of steps, one  *)
(* for each database command that matters here, and others run between.     *)
(* What a decision does to a thread's rows is ReviewThreads' subject: here  *)
(* a thread is its status alone.                                            *)
(***************************************************************************)
EXTENDS Integers, Sequences, FiniteSets

CONSTANTS
    Jobs,            \* the master's workers: Job rows of kind review
    Handlers,        \* Job rows of kind handler
    MaxEntries,      \* Job rows of kind intake, numbered by created_at (a bound)
    BatchSize,       \* worker.pool.batchSize
    MaxHandlers,     \* worker.pool.maxHandlers
    Calls,           \* requests in flight at once (a bound)
    Passes,          \* passes of batchTick in flight at once (a bound; its interval has no guard)
    None

Entries == 1 .. MaxEntries

ASSUME InboxAssumption ==
    /\ MaxEntries \in Nat /\ BatchSize \in Nat \ {0} /\ MaxHandlers \in Nat \ {0}
    /\ None \notin Jobs \cup Handlers

VARIABLES
    intake,      \* intake rows: "unsaved" until linking queued them, then pending, then done
    gone,        \* entries deleted from the graph since they were saved
    inbox,       \* Signal rows, by created_at
    handler,     \* handler rows
    thread,      \* the workers' status
    call,        \* startHandler and handlerDecide calls in flight
    pass,        \* batchTick passes in flight
    excused,     \* history: entries two passes read at once, or a restart left untaken
    missed,      \* history: entries a pass took for gone since their lookup failed
    raced,       \* history: whether two startHandler calls counted before either inserted, or the
                 \* count of one failed
    decisions,   \* history: how often a handler's decision was signalled
    crossed      \* history: handlers two decisions of which were in flight at once

inboxVars == <<intake, gone, inbox, handler, thread, call, pass, excused, missed, raced, decisions, crossed>>
inboxHistory == <<excused, missed, raced, decisions, crossed>>

ThreadStatuses == {"pending", "running", "waiting", "done", "failed", "closed"}
Signal == [kind: {"batch", "done", "stopped", "resolved"}, entries: SUBSET Entries,
           job: Jobs \cup {None}, status: {"new", "delivered"}]
HandlerRow == [job: Jobs \cup {None}, status: {"none", "pending", "running", "waiting", "done"}]
CallRec == [pc: {"idle", "countHandlers", "insertHandler", "resume", "close", "signal"},
            job: Jobs \cup {None}, handler: Handlers \cup {None}]
\* rows: the intake rows still to look up, found: those with an entry, taken: those looked up
PassRec == [pc: {"idle", "countIntake", "readRows", "lookUp", "emit", "take"}, halted: BOOLEAN,
            rows: SUBSET Entries, found: SUBSET Entries, taken: SUBSET Entries]

IdleCall == [pc |-> "idle", job |-> None, handler |-> None]
IdlePass == [pc |-> "idle", halted |-> FALSE, rows |-> {}, found |-> {}, taken |-> {}]

\* waits: the workers that wait when the behaviour begins
InboxInit(waits) ==
    /\ intake = [e \in Entries |-> "unsaved"] /\ gone = {}
    /\ inbox = <<>>
    /\ handler = [h \in Handlers |-> [job |-> None, status |-> "none"]]
    /\ thread = [j \in Jobs |-> IF j \in waits THEN "waiting" ELSE "pending"]
    /\ call = [c \in Calls |-> IdleCall]
    /\ pass = [p \in Passes |-> IdlePass]
    /\ excused = {} /\ missed = {} /\ raced = FALSE
    /\ decisions = [h \in Handlers |-> 0] /\ crossed = {}

--------------------------------------------------------------------------
(* Signals                                                                 *)

NewSignal(kind, entries, j) == [kind |-> kind, entries |-> entries, job |-> j, status |-> "new"]

\* emitSignal
Emit(s) == inbox' = Append(inbox, s)

\* GET /api/worker/signals
NewSignals == {i \in DOMAIN inbox : inbox[i].status = "new"}

\* (faulty variant: whatever is new when the acknowledgement arrives)
AcknowledgedNew(ids) == [i \in DOMAIN inbox |-> [inbox[i] EXCEPT !.status = "delivered"]]

\* POST /api/worker/signals/ack: one UPDATE for each id.
Acknowledged(ids) ==
    [i \in DOMAIN inbox |-> IF i \in ids THEN [inbox[i] EXCEPT !.status = "delivered"] ELSE inbox[i]]

--------------------------------------------------------------------------
(* Intake and batches                                                      *)

\* intakeWithTriage queues a saved entry; an entry may be deleted at any time.
Save(e) ==
    /\ intake[e] = "unsaved" /\ \A d \in 1 .. (e - 1) : intake[d] # "unsaved"
    /\ intake' = [intake EXCEPT ![e] = "pending"]
    /\ UNCHANGED <<gone, inbox, handler, thread, call, pass, inboxHistory>>

Delete(e) ==
    /\ intake[e] # "unsaved" /\ e \notin gone
    /\ gone' = gone \cup {e}
    /\ UNCHANGED <<intake, inbox, handler, thread, call, pass, inboxHistory>>

\* (faulty variant: the SELECT without its status)
SavedRows == {e \in Entries : intake[e] # "unsaved"}
Pending == {e \in Entries : intake[e] = "pending"}

OpenHandlers == {h \in Handlers : handler[h].status \in {"pending", "running", "waiting"}}

\* masterStatus().halted
Halted == Cardinality(OpenHandlers) >= MaxHandlers

PassTo(p, r) == pass' = [pass EXCEPT ![p] = r]

\* batchTick begins with masterStatus, which counts the handlers (none, if that fails) and then
\* the intake.
PassBegin(p) ==
    /\ pass[p].pc = "idle" /\ \E e \in Entries : intake[e] = "pending"
    /\ \E halted \in {Halted, FALSE} : PassTo(p, [IdlePass EXCEPT !.pc = "countIntake", !.halted = halted])
    /\ UNCHANGED <<intake, gone, inbox, handler, thread, call, inboxHistory>>

PassCountIntake(p) ==
    /\ pass[p].pc = "countIntake"
    /\ PassTo(p, IF pass[p].halted \/ {e \in Entries : intake[e] = "pending"} = {}
                 THEN IdlePass ELSE [pass[p] EXCEPT !.pc = "readRows"])
    /\ UNCHANGED <<intake, gone, inbox, handler, thread, call, inboxHistory>>

\* The oldest BatchSize of them; fewer make a batch only once the oldest has waited batchMinutes.
PassReadRows(p) ==
    LET rows == {e \in Pending : Cardinality({d \in Pending : d < e}) < BatchSize}
        others == UNION {pass[q].rows \cup pass[q].taken : q \in Passes \ {p}}
    IN
    /\ pass[p].pc = "readRows"
    /\ \/ /\ rows # {}
          /\ PassTo(p, [pass[p] EXCEPT !.pc = "lookUp", !.rows = rows])
          /\ excused' = excused \cup (rows \cap others)
       \/ /\ Cardinality(rows) < BatchSize
          /\ PassTo(p, IdlePass)
          /\ UNCHANGED excused
    /\ UNCHANGED <<intake, gone, inbox, handler, thread, call, missed, raced, decisions, crossed>>

\* The row a pass looks up next, and what it goes on to when it finds the entry, or not.
LookUpNext(p) == CHOOSE x \in pass[p].rows : \A y \in pass[p].rows : x <= y

LookedUp(p, here) ==
    LET e == LookUpNext(p)
        found == pass[p].found \cup ({e} \cap here)
        next == IF pass[p].rows # {e} THEN "lookUp" ELSE IF found = {} THEN "take" ELSE "emit"
    IN PassTo(p, [pass[p] EXCEPT !.pc = next, !.rows = @ \ {e}, !.found = found, !.taken = @ \cup {e}])

\* Each row's entry is looked up in turn: it may be gone since it was saved.
PassLookUp(p) ==
    /\ pass[p].pc = "lookUp"
    /\ LookedUp(p, Entries \ gone)
    /\ UNCHANGED <<intake, gone, inbox, handler, thread, call, inboxHistory>>

\* A lookup that fails finds nothing: the pass goes on as if the entry were gone.
PassMisses(p) ==
    /\ pass[p].pc = "lookUp"
    /\ LookedUp(p, {})
    /\ missed' = missed \cup {LookUpNext(p)}
    /\ UNCHANGED <<intake, gone, inbox, handler, thread, call, excused, raced, decisions, crossed>>

\* "the batch and its signal first": WorkBatch, which nothing reads, and Signal.
PassEmit(p) ==
    /\ pass[p].pc = "emit"
    /\ Emit(NewSignal("batch", pass[p].found, None))
    /\ PassTo(p, [pass[p] EXCEPT !.pc = "take"])
    /\ UNCHANGED <<intake, gone, handler, thread, call, inboxHistory>>

\* The rows leave the intake one by one.
Takes(p) == {CHOOSE x \in pass[p].taken : \A y \in pass[p].taken : x <= y}

PassTake(p) ==
    /\ pass[p].pc = "take"
    /\ intake' = [e \in Entries |-> IF e \in Takes(p) /\ intake[e] = "pending" THEN "done" ELSE intake[e]]
    /\ PassTo(p, IF pass[p].taken \subseteq Takes(p) THEN IdlePass ELSE [pass[p] EXCEPT !.taken = @ \ Takes(p)])
    /\ UNCHANGED <<gone, inbox, handler, thread, call, inboxHistory>>

\* A command fails midway, other than a lookup: the next pass begins anew.
PassFails(p) ==
    /\ pass[p].pc \notin {"idle", "lookUp"}
    /\ PassTo(p, IdlePass)
    /\ excused' = IF pass[p].pc = "take" THEN excused \cup pass[p].taken ELSE excused
    /\ UNCHANGED <<intake, gone, inbox, handler, thread, call, missed, raced, decisions, crossed>>

PassStep(p) ==
    PassCountIntake(p) \/ PassReadRows(p) \/ PassLookUp(p) \/ PassEmit(p) \/ PassTake(p)

--------------------------------------------------------------------------
(* Handlers                                                                *)

\* resumeThread, as far as a status tells: a running or pending thread queues the message.
Resumed(j) == [thread EXCEPT ![j] = IF @ \in {"waiting", "done"} THEN "pending" ELSE @]

CallTo(c, r) == call' = [call EXCEPT ![c] = r]

\* startHandler: the worker must be waiting; then masterStatus counts, then the row is inserted.
StartHandler(j, c) ==
    /\ call[c].pc = "idle" /\ thread[j] = "waiting"
    /\ CallTo(c, [IdleCall EXCEPT !.pc = "countHandlers", !.job = j])
    /\ UNCHANGED <<intake, gone, inbox, handler, thread, pass, inboxHistory>>

CountHandlers(c) ==
    /\ call[c].pc = "countHandlers"
    /\ CallTo(c, IF Halted THEN IdleCall ELSE [call[c] EXCEPT !.pc = "insertHandler"])
    /\ raced' = (raced \/ (~Halted /\ \E d \in Calls : call[d].pc = "insertHandler"))
    /\ UNCHANGED <<intake, gone, inbox, handler, thread, pass, excused, missed, decisions, crossed>>

\* openHandlers() fails: that counts as none.
CountFails(c) ==
    /\ call[c].pc = "countHandlers"
    /\ CallTo(c, [call[c] EXCEPT !.pc = "insertHandler"])
    /\ raced' = TRUE
    /\ UNCHANGED <<intake, gone, inbox, handler, thread, pass, excused, missed, decisions, crossed>>

InsertHandler(c) ==
    LET free == {x \in Handlers : handler[x].status = "none"}
        h == CHOOSE x \in free : TRUE
    IN
    /\ call[c].pc = "insertHandler" /\ free # {}
    /\ handler' = [handler EXCEPT ![h] = [job |-> call[c].job, status |-> "pending"]]
    /\ CallTo(c, IdleCall)
    /\ UNCHANGED <<intake, gone, inbox, thread, pass, inboxHistory>>

\* POST /api/worker/handlers/claim hands out every pending handler.
PendingHandlers == {h \in Handlers : handler[h].status = "pending"}
HandlersClaimed == [h \in Handlers |-> IF h \in PendingHandlers THEN [handler[h] EXCEPT !.status = "running"]
                                                                 ELSE handler[h]]

\* (faulty variant: the UPDATE without its statuses)
SetWaiting(h) == [handler EXCEPT ![h].status = "waiting"]

\* POST /api/worker/handlers/:id/waiting
HandlerWaits(h) ==
    [handler EXCEPT ![h].status = IF @ \in {"running", "pending"} THEN "waiting" ELSE @]

\* (faulty variant: no check that it was not decided yet)
Decidable(h) == TRUE

\* handlerDecide's check
Undecided(h) == handler[h].status # "done"

\* The handler's agent records the operator's decision.  What it approves,
\* rejects and answers is checked first (or nothing is recorded), then applied.
Decide(h, c) ==
    /\ call[c].pc = "idle" /\ Undecided(h)
    /\ CallTo(c, [pc |-> "resume", job |-> handler[h].job, handler |-> h])
    /\ crossed' = IF \E d \in Calls : call[d].handler = h THEN crossed \cup {h} ELSE crossed
    /\ UNCHANGED <<intake, gone, inbox, handler, thread, pass, excused, missed, raced, decisions>>

DecideResume(c) ==
    /\ call[c].pc = "resume"
    /\ thread' = Resumed(call[c].job)
    /\ CallTo(c, [call[c] EXCEPT !.pc = "close"])
    /\ UNCHANGED <<intake, gone, inbox, handler, pass, inboxHistory>>

DecideClose(c) ==
    /\ call[c].pc = "close"
    /\ handler' = [handler EXCEPT ![call[c].handler].status = "done"]
    /\ CallTo(c, [call[c] EXCEPT !.pc = "signal"])
    /\ UNCHANGED <<intake, gone, inbox, thread, pass, inboxHistory>>

DecideSignal(c) ==
    /\ call[c].pc = "signal"
    /\ Emit(NewSignal("resolved", {}, call[c].job))
    /\ decisions' = [decisions EXCEPT ![call[c].handler] = @ + 1]
    /\ CallTo(c, IdleCall)
    /\ UNCHANGED <<intake, gone, handler, thread, pass, excused, missed, raced, crossed>>

\* answerWorker and closeWorker: the master settles a stop itself.
AnswerWorker(j) ==
    /\ thread[j] \in {"waiting", "done"} /\ thread' = Resumed(j)
    /\ UNCHANGED <<intake, gone, inbox, handler, call, pass, inboxHistory>>

CloseWorker(j) ==
    /\ thread[j] # "closed" /\ thread' = [thread EXCEPT ![j] = "closed"]
    /\ UNCHANGED <<intake, gone, inbox, handler, call, pass, inboxHistory>>

CallStep(c) ==
    \/ CountHandlers(c) \/ InsertHandler(c)
    \/ DecideResume(c) \/ DecideClose(c) \/ DecideSignal(c)

--------------------------------------------------------------------------
(* The threads' side of it: finishThread and expireLeases, one step each   *)
(* (ReviewThreads takes them apart).                                       *)

\* How finishThread leaves a thread, by its turn's outcome; a done one may have a message queued.
Finished(outcome) ==
    CASE outcome = "done" -> {"done", "waiting", "pending"}
      [] outcome = "failed" -> {"pending", "failed"}
      [] outcome = "outage" -> {"pending"}

FinishThread(j, status) ==
    /\ thread' = [thread EXCEPT ![j] = status]
    /\ IF status = "pending" THEN UNCHANGED inbox
       ELSE Emit(NewSignal(IF status = "done" THEN "done" ELSE "stopped", {}, j))

ThreadsClaimed(js) == [j \in Jobs |-> IF j \in js THEN "running" ELSE thread[j]]

\* At its start graph-rag makes every running row pending that is no thread's.
Rerun == [h \in Handlers |-> IF handler[h].status = "running" THEN [handler[h] EXCEPT !.status = "pending"]
                                                             ELSE handler[h]]

\* graph-rag restarts: requests and passes in flight are gone, the rows stay; the UPDATE
\* of its start may fail.
InboxRestart ==
    /\ call' = [c \in Calls |-> IdleCall] /\ pass' = [p \in Passes |-> IdlePass]
    /\ handler' \in {Rerun, handler}
    /\ excused' = excused \cup UNION {pass[p].taken : p \in {q \in Passes : pass[q].pc = "take"}}
    /\ UNCHANGED <<intake, gone, inbox, thread, missed, raced, decisions, crossed>>

InboxTypeOK ==
    /\ intake \in [Entries -> {"unsaved", "pending", "done"}] /\ gone \subseteq Entries
    /\ inbox \in Seq(Signal) /\ handler \in [Handlers -> HandlerRow]
    /\ thread \in [Jobs -> ThreadStatuses]
    /\ call \in [Calls -> CallRec] /\ pass \in [Passes -> PassRec]
    /\ excused \subseteq Entries /\ missed \subseteq Entries /\ raced \in BOOLEAN
    /\ decisions \in [Handlers -> Nat] /\ crossed \subseteq Handlers

====
