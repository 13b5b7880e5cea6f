---- MODULE ReviewThreads ----
(***************************************************************************)
(* graph-rag's queue of worker threads (graph-rag/src/server.js): review    *)
(* jobs that the admin's workspace claims, runs one turn at a time and      *)
(* reports on, and the questions and proposals a thread stops on.           *)
(*                                                                          *)
(* graph-rag is one Node process over ArcadeDB.  A handler runs until its   *)
(* next await, and each SQL command is atomic, so a handler is a sequence   *)
(* of steps, one per command, and other handlers run between them: a call   *)
(* in flight is a record in `call` whose pc names its next command and      *)
(* whose other fields are the values it has read.                           *)
(***************************************************************************)
EXTENDS Integers, Sequences, FiniteSets

CONSTANTS
    Jobs,            \* review jobs (Job rows of kind 'review')
    MasterJobs,      \* those the master started (payload.parent = MASTER)
    Questions,       \* WorkerQuestion rows a thread may raise
    Proposals,       \* PendingWrite rows a thread may queue
    Calls,           \* handlers graph-rag has in flight at once (a bound)
    Timer,           \* the slot of the 60 s interval: expireLeases, then wakeIdleWaiting
    None,
    MaxTurns,        \* turns the workspace claims in all (a bound)
    MaxResumes,      \* next_resume keeps this many messages (5 in the code)
    MaxOutages,      \* MAX_OUTAGE_DEFERRALS (6 in the code)
    MaxOpen,         \* open questions a thread may have (3 in the code)
    MaxCrashes,      \* restarts of graph-rag (a bound)
    MaxRequests      \* requests of the operator and the master (a bound)

Slots == Calls \cup {Timer}
Turns == 1 .. MaxTurns
\* A resume message carries the answer to a question or the decision on a
\* proposal, or is a word with neither (answerWorker's and wakeIdleWaiting's).
Word == "word"
Decisions == Questions \cup Proposals
Messages == Decisions \cup {Word}
MaybeMessage == Messages \cup {None}

ASSUME ThreadsAssumption ==
    /\ Jobs # {}
    /\ MasterJobs \subseteq Jobs
    /\ IsFiniteSet(Calls) /\ Timer \notin Calls
    /\ MaxTurns \in Nat /\ MaxResumes \in Nat /\ MaxOutages \in Nat /\ MaxOpen \in Nat
    /\ MaxCrashes \in Nat /\ MaxRequests \in Nat
    /\ Questions \cap Proposals = {}
    /\ None \notin Messages /\ None \notin Jobs

VARIABLES
    job,         \* the Job rows: status, attempts and the payload's resume, next_resume, outages
    question,    \* the WorkerQuestion rows
    proposal,    \* the PendingWrite rows
    lapsed,      \* jobs whose lease_until is before the now of the timer's pass
    signals,     \* Signal rows: what the master is told of a worker
    call,        \* graph-rag's handlers in flight
    turn,        \* the workspace's turns (GraphPool.run), claimed and not yet reported
    owed,        \* history: decisions resumeThread accepted and no agent was prompted with yet
    failures,    \* history: tries counted against a job
    expired,     \* history: jobs whose lease expireLeases ended
    executed,    \* history: how often a proposal was executed
    crashes,     \* history: restarts of graph-rag
    requests     \* history: requests of the operator and the master

vars == <<job, question, proposal, lapsed, signals, call, turn,
          owed, failures, expired, executed, crashes, requests>>
history == <<owed, failures, expired, executed, crashes, requests>>
rows == <<job, question, proposal, signals>>

Statuses == {"pending", "running", "waiting", "done", "failed", "closed"}
JobRow == [status: Statuses, attempts: Nat, resume: MaybeMessage,
           next: Seq(Messages), outages: Nat]
NewJob == [status |-> "pending", attempts |-> 0, resume |-> None,
           next |-> <<>>, outages |-> 0]

QuestionRow == [job: Jobs, status: {"none", "open", "answered", "dismissed"}]
ProposalRow == [job: Jobs,
                status: {"none", "pending", "executing", "approved", "failed", "rejected"}]

Outcomes == {"done", "failed", "outage"}
Verbs == {"answer", "quiet", "dismiss", "decide", "wake"}
CallSteps == {"idle",
    "finishJob", "finishQuestions", "finishProposals", "finishWrite", "finishSignal",
    "askQuestions", "askProposals", "askLimit", "askInsert", "proposeInsert",
    "checkQuestion", "writeQuestion", "countLeft", "endWait",
    "claimProposal", "executeProposal", "settleApproved", "settleFailed",
    "rejectProposal", "closeJob", "readQuestions", "readProposals",
    "resumeRead", "resumeWrite",
    "requeueExpired", "wakeQuestions", "wakeProposals"}
\* qs and ps: the questions and proposals still to settle; item: the one being settled;
\* row: the job as this call read it; open: whether it saw an open question or proposal.
CallRec == [pc: CallSteps, job: Jobs, qs: SUBSET Questions, ps: SUBSET Proposals,
            verb: Verbs, item: Questions \cup Proposals \cup {None}, row: JobRow,
            open: BOOLEAN, outcome: Outcomes]
Idle == [pc |-> "idle", job |-> CHOOSE j \in Jobs : TRUE, qs |-> {}, ps |-> {},
         verb |-> "answer", item |-> None, row |-> NewJob, open |-> FALSE,
         outcome |-> "done"]

\* A turn is first a claim in flight: of a job claimThreads has set to running (claimed)
\* and whose entry it then may find gone.
InClaim == {"claimed", "gone"}
TurnRow == [stage: InClaim \cup {"unused", "held", "prompted", "over"}, job: Jobs,
            message: MaybeMessage]

Init ==
    /\ job = [j \in Jobs |-> NewJob]
    /\ question = [q \in Questions |-> [job |-> Idle.job, status |-> "none"]]
    /\ proposal = [p \in Proposals |-> [job |-> Idle.job, status |-> "none"]]
    /\ lapsed = {} /\ signals = {}
    /\ call = [c \in Slots |-> Idle]
    /\ turn = [t \in Turns |-> [stage |-> "unused", job |-> Idle.job, message |-> None]]
    /\ owed = {} /\ expired = {}
    /\ failures = [j \in Jobs |-> 0]
    /\ executed = [p \in Proposals |-> 0]
    /\ crashes = 0 /\ requests = 0

OpenQuestions(j) == {q \in Questions : question[q].job = j /\ question[q].status = "open"}
OpenProposals(j) == {p \in Proposals : proposal[p].job = j /\ proposal[p].status = "pending"}
NothingOpen(j) == OpenQuestions(j) = {} /\ OpenProposals(j) = {}

\* A handler begins in a free slot, moves to its next step, or returns.
Begin(c, rec) == call[c].pc = "idle" /\ call' = [call EXCEPT ![c] = rec]
At(c, step) == call[c].pc = step
Go(c, step) == call' = [call EXCEPT ![c].pc = step]
Return(c) == call' = [call EXCEPT ![c] = Idle]

--------------------------------------------------------------------------
(* The workspace's side: GraphPool claims a thread, prompts its agent and  *)
(* reports the turn (packages/server/src/agents/graph-pool.ts).            *)

\* (faulty variant: the claim's UPDATE without its AND status = 'pending')
ClaimableTwice(j) == job[j].status \in {"pending", "running"}

\* A claim's UPDATE takes a job only while it is pending.
Claimable(j) == job[j].status = "pending"

\* claimThreads sets a pending thread to running; its resume message is the turn's.
Claim(j, t) ==
    /\ Claimable(j)
    /\ turn[t].stage = "unused" /\ \A u \in 1 .. (t - 1) : turn[u].stage # "unused"
    /\ job' = [job EXCEPT ![j].status = "running"]
    /\ lapsed' = lapsed \ {j}
    /\ turn' = [turn EXCEPT ![t] = [stage |-> "claimed", job |-> j, message |-> job[j].resume]]
    /\ UNCHANGED <<question, proposal, signals, call, history>>

\* entryForBrief answers: the thread is handed out, or its entry is gone.
BriefRead(t) ==
    /\ turn[t].stage = "claimed"
    /\ \E found \in BOOLEAN :
          turn' = [turn EXCEPT ![t].stage = IF found THEN "held" ELSE "gone"]
    /\ UNCHANGED <<rows, lapsed, call, history>>

\* A job whose entry is gone is done: the write names it by its id alone.
ClaimGone(t) ==
    /\ turn[t].stage = "gone"
    /\ turn' = [turn EXCEPT ![t].stage = "over", ![t].message = None]
    /\ job' = [job EXCEPT ![turn[t].job].status = "done"]
    /\ UNCHANGED <<question, proposal, lapsed, signals, call, history>>

\* The agent takes the prompt: it has seen the resume message.
Prompt(t) ==
    /\ turn[t].stage = "held"
    /\ turn' = [turn EXCEPT ![t].stage = "prompted", ![t].message = None]
    /\ owed' = owed \ {turn[t].message}
    /\ UNCHANGED <<rows, lapsed, call, failures, expired, executed, crashes, requests>>

\* The thread's model is at its limit: run() gives it back before anything else.
Release(t) ==
    /\ turn[t].stage = "held"
    /\ turn' = [turn EXCEPT ![t].stage = "over", ![t].message = None]
    /\ IF job[turn[t].job].status = "running"
       THEN /\ job' = [job EXCEPT ![turn[t].job].status = "pending"]
            /\ lapsed' = lapsed \ {turn[t].job}
       ELSE UNCHANGED <<job, lapsed>>
    /\ UNCHANGED <<question, proposal, signals, call, history>>

\* The workspace restarts, the claim breaks off or its answer is lost: nobody reports the turn.
LoseTurn(t) ==
    /\ turn[t].stage \in InClaim \cup {"held", "prompted"}
    /\ turn' = [turn EXCEPT ![t].stage = "over", ![t].message = None]
    /\ UNCHANGED <<rows, lapsed, call, history>>

\* run() posts the turn's end: an agent that never took its prompt can only have failed.
Report(t, outcome, c) ==
    /\ turn[t].stage = "prompted" \/ (turn[t].stage = "held" /\ outcome = "failed")
    /\ turn' = [turn EXCEPT ![t].stage = "over", ![t].message = None]
    /\ Begin(c, [Idle EXCEPT !.pc = "finishJob", !.job = turn[t].job, !.outcome = outcome])
    /\ UNCHANGED <<rows, lapsed, history>>

\* graph-rag restarts: handlers in flight, claims too, and the pass of its timer are gone,
\* the rows stay.
Crash ==
    /\ \/ \E c \in Slots : ~At(c, "idle")
       \/ \E t \in Turns : turn[t].stage \in InClaim
    /\ call' = [c \in Slots |-> Idle] /\ lapsed' = {}
    /\ turn' = [t \in Turns |-> IF turn[t].stage \in InClaim
                                THEN [turn[t] EXCEPT !.stage = "over", !.message = None]
                                ELSE turn[t]]
    /\ crashes < MaxCrashes /\ crashes' = crashes + 1
    /\ UNCHANGED <<rows, owed, failures, expired, executed, requests>>

--------------------------------------------------------------------------
(* finishThread: reads the job, counts what is open, then writes the whole *)
(* payload back; the write names the job by its id alone.                  *)

FinishReadJob(c) ==
    /\ At(c, "finishJob")
    /\ call' = [call EXCEPT ![c].pc = "finishQuestions", ![c].row = job[call[c].job]]
    /\ UNCHANGED <<rows, lapsed, turn, history>>

FinishCountQuestions(c) ==
    /\ At(c, "finishQuestions")
    /\ call' = [call EXCEPT ![c].pc = "finishProposals",
                            ![c].open = OpenQuestions(call[c].job) # {}]
    /\ UNCHANGED <<rows, lapsed, turn, history>>

FinishCountProposals(c) ==
    /\ At(c, "finishProposals")
    /\ call' = [call EXCEPT ![c].pc = "finishWrite",
                            ![c].open = @ \/ OpenProposals(call[c].job) # {}]
    /\ UNCHANGED <<rows, lapsed, turn, history>>

\* The model was out and the thread may still be put off.
PutOff(c) == call[c].outcome = "outage" /\ call[c].row.outages < MaxOutages

FinishOutage(c) ==
    /\ At(c, "finishWrite") /\ PutOff(c)
    /\ job' = [job EXCEPT ![call[c].job] =
                 [call[c].row EXCEPT !.status = "pending", !.attempts = job[call[c].job].attempts,
                                     !.outages = @ + 1]]
    /\ Return(c)
    /\ UNCHANGED <<question, proposal, lapsed, signals, turn, history>>

\* (faulty variant: every turn counts as a try)
TriesOfTurns(c) == call[c].row.attempts + 1

\* The tries the job has had, a failed turn included.
Tries(c) == call[c].row.attempts + (IF call[c].outcome = "done" THEN 0 ELSE 1)

\* The row finishThread writes, from the row it read.
FinishedRow(c) ==
    LET row == call[c].row
        failed == call[c].outcome # "done"
        queued == ~failed /\ row.next # <<>>
        tries == Tries(c)
    IN  [status   |-> CASE failed /\ tries >= 3 -> "failed"
                        [] failed /\ tries < 3  -> "pending"
                        [] ~failed /\ queued -> "pending"
                        [] ~failed /\ ~queued -> IF call[c].open THEN "waiting" ELSE "done",
         attempts |-> tries,
         resume   |-> IF queued THEN Head(row.next) ELSE None,
         next     |-> IF queued THEN Tail(row.next) ELSE row.next,
         outages  |-> IF failed THEN row.outages ELSE 0]

Settles(status) == status \in {"done", "waiting", "failed"}

FinishWrite(c) ==
    /\ At(c, "finishWrite") /\ ~PutOff(c)
    /\ job' = [job EXCEPT ![call[c].job] = FinishedRow(c)]
    /\ failures' = [failures EXCEPT ![call[c].job] = @ + (IF call[c].outcome = "done" THEN 0 ELSE 1)]
    /\ IF call[c].job \in MasterJobs /\ Settles(FinishedRow(c).status)
       THEN call' = [call EXCEPT ![c].pc = "finishSignal", ![c].row = FinishedRow(c)]
       ELSE Return(c)
    /\ UNCHANGED <<question, proposal, lapsed, signals, turn, owed, expired, executed, crashes, requests>>

\* The master hears how its worker ended: done, or stopped.
FinishSignal(c) ==
    /\ At(c, "finishSignal")
    /\ signals' = signals \cup {[job |-> call[c].job,
                    kind |-> IF call[c].row.status = "done" THEN "done" ELSE "stopped"]}
    /\ Return(c)
    /\ UNCHANGED <<job, question, proposal, lapsed, turn, history>>

--------------------------------------------------------------------------
(* The agent stops on a question (raiseQuestion) or on proposals (a write  *)
(* tool called with propose: assertNotWaiting, then queueWrite for each).  *)

Ask(t, q, c) ==
    /\ turn[t].stage = "prompted" /\ question[q].status = "none"
    /\ Begin(c, [Idle EXCEPT !.pc = "askQuestions", !.job = turn[t].job, !.qs = {q}])
    /\ UNCHANGED <<rows, lapsed, turn, history>>

Propose(t, ps, c) ==
    /\ turn[t].stage = "prompted" /\ ps # {} /\ \A p \in ps : proposal[p].status = "none"
    /\ Begin(c, [Idle EXCEPT !.pc = "askQuestions", !.job = turn[t].job, !.ps = ps])
    /\ UNCHANGED <<rows, lapsed, turn, history>>

\* assertNotWaiting counts the questions, then the proposals; with either open it throws.
AssertNoQuestions(c) ==
    /\ At(c, "askQuestions")
    /\ call' = [call EXCEPT ![c].pc = "askProposals",
                            ![c].open = OpenQuestions(call[c].job) # {}]
    /\ UNCHANGED <<rows, lapsed, turn, history>>

AssertNotWaiting(c) ==
    /\ At(c, "askProposals")
    /\ IF call[c].open \/ OpenProposals(call[c].job) # {}
       THEN Return(c)
       ELSE Go(c, IF call[c].qs # {} THEN "askLimit" ELSE "proposeInsert")
    /\ UNCHANGED <<rows, lapsed, turn, history>>

AskLimit(c) ==
    /\ At(c, "askLimit")
    /\ IF Cardinality(OpenQuestions(call[c].job)) >= MaxOpen THEN Return(c) ELSE Go(c, "askInsert")
    /\ UNCHANGED <<rows, lapsed, turn, history>>

AskInsert(c) ==
    /\ At(c, "askInsert")
    /\ \E q \in call[c].qs :
         IF question[q].status = "none"
         THEN question' = [question EXCEPT ![q] = [job |-> call[c].job, status |-> "open"]]
         ELSE UNCHANGED question       \* the id is taken: another call's row
    /\ Return(c)
    /\ UNCHANGED <<job, proposal, lapsed, signals, turn, history>>

\* queueWrite inserts one pending write; a tool may queue several.
QueueWrite(c) ==
    /\ At(c, "proposeInsert")
    /\ \E p \in call[c].ps :
         /\ IF proposal[p].status = "none"
            THEN proposal' = [proposal EXCEPT ![p] = [job |-> call[c].job, status |-> "pending"]]
            ELSE UNCHANGED proposal
         /\ IF call[c].ps = {p} THEN Return(c) ELSE call' = [call EXCEPT ![c].ps = @ \ {p}]
    /\ UNCHANGED <<job, question, lapsed, signals, turn, history>>

--------------------------------------------------------------------------
(* resumeThread: reads the payload and status, then writes the payload.    *)

\* (faulty variant: the old list not spread into the new one)
Append5Nested(s, m) == <<s, m>>

\* next_resume with one more message: the last MaxResumes of them.
Append5(s, m) == IF Len(s) < MaxResumes THEN Append(s, m) ELSE Tail(Append(s, m))

Message(rec) == IF rec.verb \in {"quiet", "wake"} THEN Word ELSE rec.item

\* What is left to do once a question or a proposal of this call is settled.
Onward(rec) ==
    CASE rec.qs # {} -> "checkQuestion"
      [] rec.qs = {} /\ rec.ps # {} -> "rejectProposal"
      [] rec.qs = {} /\ rec.ps = {} /\ rec.verb = "quiet" -> "resumeRead"
      [] OTHER -> "idle"
GoOn(c, rec) == call' = [call EXCEPT ![c] =
    IF Onward(rec) = "idle" THEN Idle ELSE [rec EXCEPT !.pc = Onward(rec)]]

ResumeRead(c) ==
    /\ At(c, "resumeRead")
    /\ call' = [call EXCEPT ![c].pc = "resumeWrite", ![c].row = job[call[c].job]]
    /\ UNCHANGED <<rows, lapsed, turn, history>>

\* (faulty variants: a wake that takes any thread that is not at work, or only finished ones)
WakeableAnyway(j) == job[j].status \notin {"pending", "running"}
WakeableDone(j) == job[j].status = "done"

\* The wake's UPDATE takes a job only from these statuses.
Wakeable(j) == job[j].status \in {"waiting", "done"}

\* The whole payload is written back as it was read, with the message.
ResumeWrite(c) ==
    LET j == call[c].job   m == Message(call[c])   row == call[c].row
        payload == [row EXCEPT !.status = job[j].status, !.attempts = job[j].attempts]
        queues == row.status \in {"running", "pending"}
    IN
    /\ At(c, "resumeWrite")
    /\ job' = [job EXCEPT ![j] =
                 CASE queues -> [payload EXCEPT !.next = Append5(@, m)]
                   [] ~queues /\ Wakeable(j) -> [payload EXCEPT !.resume = m, !.status = "pending"]
                   [] ~queues /\ ~Wakeable(j) -> @]
    /\ owed' = owed \cup (IF queues \/ Wakeable(j) THEN {m} \cap Decisions ELSE {})
    /\ IF call[c].verb = "dismiss" THEN GoOn(c, [call[c] EXCEPT !.row = NewJob]) ELSE Return(c)
    /\ UNCHANGED <<question, proposal, lapsed, signals, turn, failures, expired, executed, crashes, requests>>

--------------------------------------------------------------------------
(* The operator, the liaison or the master decides.                        *)

Asked == requests < MaxRequests /\ requests' = requests + 1

\* POST /api/worker/questions/answer, one question: answered or dismissed.
Answer(q, verb, c) ==
    /\ question[q].status = "open" /\ verb \in {"answer", "dismiss"}
    /\ Asked
    /\ Begin(c, [Idle EXCEPT !.pc = "checkQuestion", !.job = question[q].job, !.qs = {q}, !.verb = verb])
    /\ UNCHANGED <<rows, lapsed, turn, owed, failures, expired, executed, crashes>>

\* answerWorker: every open question of a stopped worker is answered, then it resumes.
AnswerWorker(j, c) ==
    /\ Asked
    /\ Begin(c, [Idle EXCEPT !.pc = "readQuestions", !.job = j, !.verb = "quiet"])
    /\ UNCHANGED <<rows, lapsed, turn, owed, failures, expired, executed, crashes>>

\* closeWorker: the job is closed, then its questions are dismissed and its proposals rejected.
CloseWorker(j, c) ==
    /\ Asked
    /\ Begin(c, [Idle EXCEPT !.pc = "closeJob", !.job = j, !.verb = "dismiss"])
    /\ UNCHANGED <<rows, lapsed, turn, owed, failures, expired, executed, crashes>>

CloseJob(c) ==
    /\ At(c, "closeJob")
    /\ job' = [job EXCEPT ![call[c].job].status = "closed"]
    /\ Go(c, "readQuestions")
    /\ UNCHANGED <<question, proposal, lapsed, signals, turn, history>>

\* openItems; only a close goes on to the proposals.
ReadQuestions(c) ==
    /\ At(c, "readQuestions")
    /\ call' = [call EXCEPT ![c].pc = "readProposals", ![c].qs = OpenQuestions(call[c].job)]
    /\ UNCHANGED <<rows, lapsed, turn, history>>

ReadProposals(c) ==
    /\ At(c, "readProposals")
    /\ GoOn(c, [call[c] EXCEPT !.ps = IF call[c].verb = "dismiss" THEN OpenProposals(call[c].job)
                                                                  ELSE {}])
    /\ UNCHANGED <<rows, lapsed, turn, history>>

\* answerQuestions skips a question that is no longer open.
CheckQuestion(c) ==
    /\ At(c, "checkQuestion")
    /\ \E q \in call[c].qs :
         LET rest == [call[c] EXCEPT !.qs = @ \ {q}, !.item = q] IN
         IF question[q].status = "open"
         THEN call' = [call EXCEPT ![c] = [rest EXCEPT !.pc = "writeQuestion"]]
         ELSE GoOn(c, rest)
    /\ UNCHANGED <<rows, lapsed, turn, history>>

WriteQuestion(c) ==
    /\ At(c, "writeQuestion")
    /\ question' = [question EXCEPT ![call[c].item].status =
                      IF call[c].verb = "dismiss" THEN "dismissed" ELSE "answered"]
    /\ Go(c, "countLeft")
    /\ UNCHANGED <<job, proposal, lapsed, signals, turn, history>>

\* An answer resumes the thread; the last question dismissed ends its wait.
CountLeft(c) ==
    /\ At(c, "countLeft")
    /\ LET last == OpenQuestions(call[c].job) = {} IN
       \/ call[c].verb = "answer" /\ Go(c, "resumeRead")
       \/ call[c].verb = "dismiss" /\ last /\ Go(c, "endWait")
       \/ call[c].verb # "answer" /\ ~(call[c].verb = "dismiss" /\ last) /\ GoOn(c, call[c])
    /\ UNCHANGED <<rows, lapsed, turn, history>>

EndWait(c) ==
    /\ At(c, "endWait")
    /\ job' = [job EXCEPT ![call[c].job].status = IF @ = "waiting" THEN "done" ELSE @]
    /\ GoOn(c, call[c])
    /\ UNCHANGED <<question, proposal, lapsed, signals, turn, history>>

--------------------------------------------------------------------------
(* approvePending and rejectPending: a proposal is decided.                *)

Decide(p, step, c) ==
    /\ proposal[p].status = "pending" /\ step \in {"claimProposal", "rejectProposal"}
    /\ Asked
    /\ Begin(c, [Idle EXCEPT !.pc = step, !.job = proposal[p].job, !.ps = {p}, !.verb = "decide"])
    /\ UNCHANGED <<rows, lapsed, turn, owed, failures, expired, executed, crashes>>

\* (faulty variant: the UPDATE that claims a write does not check it is still pending)
UndecidedAnyway(p) == proposal[p].status \in {"pending", "executing", "rejected"}

\* The UPDATE that claims or rejects a write takes it only while it is pending.
Undecided(p) == proposal[p].status = "pending"

ClaimProposal(c) ==
    /\ At(c, "claimProposal")
    /\ \E p \in call[c].ps :
         IF Undecided(p)
         THEN /\ proposal' = [proposal EXCEPT ![p].status = "executing"]
              /\ call' = [call EXCEPT ![c].pc = "executeProposal", ![c].item = p, ![c].ps = {}]
         ELSE Return(c) /\ UNCHANGED proposal
    /\ UNCHANGED <<job, question, lapsed, signals, turn, history>>

\* executePending: the write is applied, or throws.
ExecuteProposal(c) ==
    /\ At(c, "executeProposal")
    /\ \/ /\ executed' = [executed EXCEPT ![call[c].item] = @ + 1]
          /\ Go(c, "settleApproved")
       \/ Go(c, "settleFailed") /\ UNCHANGED executed
    /\ UNCHANGED <<rows, lapsed, turn, owed, failures, expired, crashes, requests>>

SettleProposal(c) ==
    /\ At(c, "settleApproved") \/ At(c, "settleFailed")
    /\ proposal' = [proposal EXCEPT ![call[c].item].status =
                      IF At(c, "settleApproved") THEN "approved" ELSE "failed"]
    /\ Go(c, "resumeRead")
    /\ UNCHANGED <<job, question, lapsed, signals, turn, history>>

RejectProposal(c) ==
    /\ At(c, "rejectProposal")
    /\ \E p \in call[c].ps :
         LET rest == [call[c] EXCEPT !.ps = @ \ {p}, !.item = p] IN
         IF Undecided(p)
         THEN /\ proposal' = [proposal EXCEPT ![p].status = "rejected"]
              /\ call' = [call EXCEPT ![c] = [rest EXCEPT !.pc = "resumeRead"]]
         ELSE GoOn(c, rest) /\ UNCHANGED proposal
    /\ UNCHANGED <<job, question, lapsed, signals, turn, history>>

--------------------------------------------------------------------------
(* The timer: expireLeases, then wakeIdleWaiting.                          *)

\* (faulty variant: an UPDATE for retried jobs beside the one for last tries, none for first tries)
LapsedRetried(j) == job[j].status = "running" /\ j \in lapsed /\ job[j].attempts = 1

\* (faulty variant: the second UPDATE does not ask whether the thread is still running)
LapsedAny(j) == job[j].status # "failed" /\ j \in lapsed

\* The second UPDATE's WHERE.
Lapsed(j) == job[j].status = "running" /\ j \in lapsed

\* Of the running jobs whose lease has ended (late), those on their last of
\* three tries fail; the master is not told.
Expire(late) ==
    LET last == {j \in late : job[j].attempts >= 2} IN
    /\ late # {} /\ \A j \in late : job[j].status = "running"
    /\ Begin(Timer, [Idle EXCEPT !.pc = "requeueExpired"])
    /\ lapsed' = late
    /\ job' = [j \in Jobs |-> IF j \in last THEN [job[j] EXCEPT !.status = "failed"] ELSE job[j]]
    /\ failures' = [j \in Jobs |-> IF j \in last THEN failures[j] + 1 ELSE failures[j]]
    /\ expired' = expired \cup last
    /\ UNCHANGED <<question, proposal, signals, turn, owed, executed, crashes, requests>>

Requeued(row) == [row EXCEPT !.status = "pending", !.attempts = @ + 1]

\* The others go back to the queue.
ExpireRequeue ==
    LET late == {j \in Jobs : Lapsed(j)} IN
    /\ At(Timer, "requeueExpired")
    /\ Return(Timer)
    /\ lapsed' = {}
    /\ job' = [j \in Jobs |-> IF j \in late THEN Requeued(job[j]) ELSE job[j]]
    /\ failures' = [j \in Jobs |-> IF j \in late THEN failures[j] + 1 ELSE failures[j]]
    /\ expired' = expired \cup late
    /\ UNCHANGED <<question, proposal, signals, turn, owed, executed, crashes, requests>>

\* wakeIdleWaiting finds a job that has waited ten minutes, then looks for what it waits on.
WakeIdle(j) ==
    /\ job[j].status = "waiting"
    /\ Begin(Timer, [Idle EXCEPT !.pc = "wakeQuestions", !.job = j, !.verb = "wake"])
    /\ UNCHANGED <<rows, lapsed, turn, history>>

WakeQuestions ==
    /\ At(Timer, "wakeQuestions")
    /\ call' = [call EXCEPT ![Timer].pc = "wakeProposals",
                            ![Timer].open = OpenQuestions(call[Timer].job) # {}]
    /\ UNCHANGED <<rows, lapsed, turn, history>>

WakeProposals ==
    /\ At(Timer, "wakeProposals")
    /\ IF call[Timer].open \/ OpenProposals(call[Timer].job) # {}
       THEN Return(Timer) ELSE Go(Timer, "resumeRead")
    /\ UNCHANGED <<rows, lapsed, turn, history>>

--------------------------------------------------------------------------
\* A handler in flight runs its next command.
Step(c) ==
    \/ FinishReadJob(c) \/ FinishCountQuestions(c) \/ FinishCountProposals(c)
    \/ FinishOutage(c) \/ FinishWrite(c) \/ FinishSignal(c)
    \/ AssertNoQuestions(c) \/ AssertNotWaiting(c) \/ AskLimit(c) \/ AskInsert(c) \/ QueueWrite(c)
    \/ ResumeRead(c) \/ ResumeWrite(c)
    \/ CloseJob(c) \/ ReadQuestions(c) \/ ReadProposals(c)
    \/ CheckQuestion(c) \/ WriteQuestion(c) \/ CountLeft(c) \/ EndWait(c)
    \/ ClaimProposal(c) \/ ExecuteProposal(c) \/ SettleProposal(c) \/ RejectProposal(c)

TimerStep == ExpireRequeue \/ WakeQuestions \/ WakeProposals \/ Step(Timer)

\* A request arrives in a free slot.
Request(c) ==
    \/ \E t \in Turns, o \in Outcomes : Report(t, o, c)
    \/ \E t \in Turns, q \in Questions : Ask(t, q, c)
    \/ \E t \in Turns, ps \in SUBSET Proposals : Propose(t, ps, c)
    \/ \E q \in Questions, v \in Verbs : Answer(q, v, c)
    \/ \E p \in Proposals, s \in CallSteps : Decide(p, s, c)
    \/ \E j \in Jobs : AnswerWorker(j, c) \/ CloseWorker(j, c)

Workspace ==
    \/ \E j \in Jobs, t \in Turns : Claim(j, t)
    \/ \E t \in Turns : BriefRead(t) \/ ClaimGone(t) \/ Prompt(t) \/ Release(t) \/ LoseTurn(t)

Next ==
    \/ Workspace \/ Crash
    \/ \E late \in SUBSET Jobs : Expire(late)
    \/ \E j \in Jobs : WakeIdle(j)
    \/ \E c \in Calls : Request(c) \/ Step(c)
    \/ TimerStep

Spec == Init /\ [][Next]_vars

\* The 60 s timer keeps firing, and every pass covers each job whose lease has
\* ended or that has waited ten minutes: a job that is there pass after pass is
\* handled, and the pass ends unless graph-rag restarts.  Nothing is assumed of
\* the workspace, the agents, the operator or the other handlers.
Fairness ==
    /\ \A j \in Jobs : SF_vars(WakeIdle(j))
                     /\ SF_vars(\E late \in SUBSET Jobs : j \in late /\ Expire(late))
    /\ WF_vars(TimerStep)

FairSpec == Spec /\ Fairness

--------------------------------------------------------------------------
(* Properties                                                              *)

\* Every variable keeps its type: rows as the schema has them, calls and turns well formed.
TypeOK ==
    /\ job \in [Jobs -> JobRow]
    /\ question \in [Questions -> QuestionRow]
    /\ proposal \in [Proposals -> ProposalRow]
    /\ lapsed \subseteq Jobs
    /\ signals \subseteq [job: Jobs, kind: {"done", "stopped"}]
    /\ call \in [Slots -> CallRec]
    /\ turn \in [Turns -> TurnRow]
    /\ owed \subseteq Decisions
    /\ failures \in [Jobs -> Nat] /\ expired \subseteq Jobs
    /\ executed \in [Proposals -> Nat] /\ crashes \in Nat /\ requests \in Nat

\* A proposal is applied at most once, and never one that is undecided or was
\* rejected, however many approvals, rejections and closes race for it
\* (approvePending: "a write runs once, even with two approvals racing").
WriteRunsOnce ==
    \A p \in Proposals :
        /\ executed[p] <= 1
        /\ executed[p] = 1 => proposal[p].status \in {"executing", "approved"}

\* A thread is given up on only after three tries were counted against it, and
\* its attempts never run ahead of the tries counted, although finishThread
\* writes back an attempts it read three commands earlier while expireLeases
\* counts a lapsed try in between.
TriesEarned ==
    \A j \in Jobs :
        /\ job[j].attempts <= failures[j]
        /\ job[j].status = "failed" => failures[j] >= 3

\* A turn has its thread from the claim's UPDATE on.
Live(t) == turn[t].stage \in InClaim \cup {"held", "prompted"}

\* Two turns of one thread run at once only after expireLeases took the thread
\* from the first: claims, releases, reports, answers, wakes and restarts of
\* graph-rag, in any order, never hand a thread out twice by themselves.
OneTurnUnlessExpired ==
    \A t, u \in Turns :
        (t # u /\ Live(t) /\ Live(u) /\ turn[t].job = turn[u].job) => turn[t].job \in expired

\* Once the master has closed a worker, no answer, decision, wake, release or lease
\* brings it back (closeWorker: "no resume"); only what was under way with the
\* thread when it was closed does: the report of a turn of it, or a claim of it that
\* finds its entry gone.
ClosedStaysClosedButForTurns ==
    [][\A j \in Jobs :
        (job[j].status = "closed" /\ job'[j].status # "closed") =>
            \/ \E c \in Calls : call[c].job = j /\ (FinishWrite(c) \/ FinishOutage(c))
            \/ \E t \in Turns : turn[t].job = j /\ ClaimGone(t)]_vars

\* A thread moves on.  It never stays running on a turn nobody will report: the
\* lease gives it back although the workspace restarted or the claim's answer was
\* lost.  And it never waits for ever on nothing: when a decision raced with its
\* report, or the restart of graph-rag lost the wake, wakeIdleWaiting wakes it.
ThreadsMoveOn ==
    \A j \in Jobs :
        /\ (job[j].status = "running") ~> (job[j].status # "running")
        /\ (job[j].status = "waiting" /\ NothingOpen(j))
                ~> ~(job[j].status = "waiting" /\ NothingOpen(j))

--------------------------------------------------------------------------
(* The rows and handlers, as the promise of the queue (ThreadQueue) sees them. *)

PlaceOf(status) ==
    CASE status = "pending" -> "queued"
      [] status = "running" -> "held"
      [] status \in {"waiting", "done"} -> "idle"
      [] OTHER -> status

\* finishThread has taken a report and not written the job yet.
Reporting == {"finishJob", "finishQuestions", "finishProposals", "finishWrite"}
ReportsOf(j) == {c \in Slots : call[c].job = j /\ call[c].pc \in Reporting}

Places == [j \in Jobs |-> PlaceOf(job[j].status)]
Leased == [t \in Turns |-> IF Live(t) THEN turn[t].job ELSE None]
Reports == [j \in Jobs |-> Cardinality(ReportsOf(j))]

Queue == INSTANCE ThreadQueue WITH
    Threads <- Jobs, Leases <- Turns, MaxTries <- 3, NoThread <- None,
    place <- Places, lease <- Leased, reports <- Reports, tries <- failures

\* Every step of the rows, handlers, turns and timer is a step of ThreadQueue or
\* changes nothing there: a thread is handed out only while it is queued, each
\* report lands once, and only MaxTries counted tries fail a thread.
QueuePromise == Queue!Spec

--------------------------------------------------------------------------
(* What the comments of the code promise and its interleavings break.      *)

Carried(j) == {job[j].resume} \cup {job[j].next[i] : i \in DOMAIN job[j].next}

\* "answer (or dismiss) questions; each one's thread resumes with the answer":
\* an answer or decision resumeThread took stays with its thread until its agent is prompted with it.
AnswerKept ==
    \A m \in owed : \E j \in Jobs : m \in Carried(j)

\* "the master closes a worker it won't pursue: ... no resume": it stays closed.
ClosedStaysClosed ==
    [][\A j \in Jobs : job[j].status = "closed" => job'[j].status = "closed"]_vars

\* "the master hears how its worker ended: done, or stopped (waiting on a
\* decision, or failed for good)": a failed worker is signalled, or about to be.
FailureHeard ==
    \A j \in MasterJobs : job[j].status = "failed" =>
        \/ \E s \in signals : s.job = j /\ s.kind = "stopped"
        \/ \E c \in Slots : call[c].job = j /\ At(c, "finishSignal")

====
