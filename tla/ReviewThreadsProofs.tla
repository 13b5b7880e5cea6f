---- MODULE ReviewThreadsProofs ----
(***************************************************************************)
(* Proofs about ReviewThreads, for any jobs, questions, proposals, handlers *)
(* and bounds: its types, and each safety property from an inductive        *)
(* invariant over the rows and the handlers in flight: a proposal is        *)
(* written once, tries are earned, no thread is handed out twice, a closed  *)
(* one stays closed, and every step of the rows and handlers is a step of   *)
(* ThreadQueue or none.                                                     *)
(***************************************************************************)
EXTENDS ReviewThreads, SequenceTheorems, FiniteSetTheorems, TLAPS

--------------------------------------------------------------------------
(* What the helpers return                                                 *)

LEMMA NewJobType == NewJob \in JobRow
BY EmptySeq DEF NewJob, JobRow, Statuses, MaybeMessage

LEMMA IdleType == Idle \in CallRec /\ Idle.job \in Jobs
BY NewJobType, ThreadsAssumption DEF Idle, CallRec, CallSteps, Verbs, Outcomes

\* next_resume takes another message and stays a sequence of messages.
LEMMA Append5Type ==
    ASSUME NEW s \in Seq(Messages), NEW m \in Messages
    PROVE  Append5(s, m) \in Seq(Messages)
<1>1. Append(s, m) \in Seq(Messages) /\ Append(s, m) # <<>>
  BY AppendProperties
<1>2. Tail(Append(s, m)) \in Seq(Messages)
  BY <1>1, HeadTailProperties
<1> QED
  BY <1>1, <1>2 DEF Append5

\* The row finishThread writes is a job row.
LEMMA FinishedRowType ==
    ASSUME NEW c \in Slots, call[c] \in CallRec
    PROVE  FinishedRow(c) \in JobRow /\ Tries(c) \in Nat
<1> DEFINE row == call[c].row
<1>1. /\ row \in JobRow /\ row.next \in Seq(Messages)
      /\ row.next # <<>> => Head(row.next) \in Messages /\ Tail(row.next) \in Seq(Messages)
  BY HeadTailProperties DEF CallRec, JobRow
<1>2. Tries(c) \in Nat
  BY <1>1 DEF Tries, JobRow
<1> QED
  BY <1>1, <1>2 DEF FinishedRow, JobRow, Statuses, MaybeMessage

--------------------------------------------------------------------------
(* Type correctness                                                        *)

\* A call that settles a decision carries it: the message that resumeThread
\* queues for it is a message.
Carries(rec) ==
    /\ rec.pc \in {"writeQuestion", "countLeft"} => rec.item \in Questions
    /\ rec.pc \in {"executeProposal", "settleApproved", "settleFailed"} => rec.item \in Proposals
    /\ rec.pc \in {"resumeRead", "resumeWrite"} =>
          rec.verb \in {"quiet", "wake"} \/ rec.item \in Decisions
    /\ rec.pc \in {"wakeQuestions", "wakeProposals"} => rec.verb = "wake"

CallsOK == call \in [Slots -> CallRec] /\ \A c \in Slots : Carries(call[c])

TypeInv == TypeOK /\ CallsOK

LEMMA IdleCarries == Carries(Idle)
BY DEF Carries, Idle

LEMMA CallFields ==
    ASSUME CallsOK, NEW c \in Slots
    PROVE  /\ call[c] \in CallRec /\ Carries(call[c])
           /\ call[c].job \in Jobs /\ call[c].row \in JobRow
           /\ call[c].qs \subseteq Questions /\ call[c].ps \subseteq Proposals
           /\ call[c].outcome \in Outcomes /\ call[c].verb \in Verbs
           /\ call[c].item \in Questions \cup Proposals \cup {None}
BY DEF CallsOK, CallRec

LEMMA RecFields ==
    ASSUME NEW rec \in CallRec
    PROVE  /\ \A s \in CallSteps : [rec EXCEPT !.pc = s] \in CallRec
           /\ \A s \in CallSteps, r \in JobRow : [rec EXCEPT !.pc = s, !.row = r] \in CallRec
           /\ \A s \in CallSteps, b \in BOOLEAN : [rec EXCEPT !.pc = s, !.open = b] \in CallRec
           /\ \A s \in CallSteps, q \in SUBSET Questions : [rec EXCEPT !.pc = s, !.qs = q] \in CallRec
           /\ \A p \in SUBSET Proposals : [rec EXCEPT !.ps = p] \in CallRec
           /\ \A r \in JobRow : [rec EXCEPT !.row = r] \in CallRec
BY DEF CallRec

LEMMA CallSet ==
    ASSUME CallsOK, NEW c \in Slots, NEW rec \in CallRec, Carries(rec),
           call' = [call EXCEPT ![c] = rec]
    PROVE  CallsOK'
BY DEF CallsOK, Carries

\* Most steps lead to one that needs no decision at hand.
LEMMA PlainOK ==
    ASSUME CallsOK, NEW c \in Slots, NEW rec \in CallRec, call' = [call EXCEPT ![c] = rec],
           rec.pc \notin {"writeQuestion", "countLeft", "executeProposal", "settleApproved",
                          "settleFailed", "resumeRead", "resumeWrite", "wakeQuestions",
                          "wakeProposals"}
    PROVE  CallsOK'
BY CallSet DEF Carries

LEMMA ReturnOK ==
    ASSUME CallsOK, NEW c \in Slots, Return(c)
    PROVE  CallsOK'
BY IdleType, IdleCarries, CallSet DEF Return

LEMMA GoOK ==
    ASSUME CallsOK, NEW c \in Slots, NEW step \in CallSteps, Go(c, step),
           Carries([call[c] EXCEPT !.pc = step])
    PROVE  CallsOK'
<1>1. call' = [call EXCEPT ![c] = [call[c] EXCEPT !.pc = step]]
  BY CallFields DEF Go, CallsOK
<1> QED
  BY <1>1, CallFields, RecFields, CallSet

LEMMA GoOnOK ==
    ASSUME CallsOK, NEW c \in Slots, NEW rec \in CallRec, GoOn(c, rec)
    PROVE  CallsOK'
<1>1. CASE Onward(rec) = "idle"
  BY <1>1, IdleType, IdleCarries, CallSet DEF GoOn
<1>2. CASE Onward(rec) # "idle"
  <2>1. /\ Onward(rec) \in {"checkQuestion", "rejectProposal", "resumeRead"}
        /\ Onward(rec) = "resumeRead" => rec.verb = "quiet"
    BY <1>2 DEF Onward
  <2>2. [rec EXCEPT !.pc = Onward(rec)] \in CallRec
    BY <2>1, RecFields DEF CallSteps
  <2>3. Carries([rec EXCEPT !.pc = Onward(rec)])
    BY <2>1 DEF Carries, CallRec
  <2> QED
    BY <1>2, <2>2, <2>3, CallSet DEF GoOn
<1> QED
  BY <1>1, <1>2

LEMMA BeginOK ==
    ASSUME CallsOK, NEW c \in Slots, NEW rec \in CallRec, Begin(c, rec), Carries(rec)
    PROVE  CallsOK'
BY CallSet DEF Begin

\* A job row with a field or two replaced is a job row.
LEMMA RowFields ==
    ASSUME NEW row \in JobRow, NEW s \in Statuses, NEW m \in MaybeMessage, NEW n \in Nat,
           NEW q \in Seq(Messages)
    PROVE  /\ [row EXCEPT !.status = s] \in JobRow
           /\ [row EXCEPT !.resume = m, !.status = s] \in JobRow
           /\ [row EXCEPT !.status = s, !.attempts = n] \in JobRow
           /\ [row EXCEPT !.status = s, !.attempts = n, !.outages = @ + 1] \in JobRow
           /\ [row EXCEPT !.next = q] \in JobRow
           /\ Requeued(row) \in JobRow
<1>1. row.attempts + 1 \in Nat /\ row.outages + 1 \in Nat /\ "pending" \in Statuses
  BY DEF JobRow, Statuses
<1>2. [row EXCEPT !.status = "pending", !.attempts = row.attempts + 1] \in JobRow
  BY <1>1 DEF JobRow
<1>3. [row EXCEPT !.status = s, !.attempts = n, !.outages = row.outages + 1] \in JobRow
  BY <1>1 DEF JobRow
<1>4. /\ [row EXCEPT !.status = s] \in JobRow
      /\ [row EXCEPT !.resume = m, !.status = s] \in JobRow
      /\ [row EXCEPT !.status = s, !.attempts = n] \in JobRow
      /\ [row EXCEPT !.next = q] \in JobRow
  BY DEF JobRow
<1> QED
  BY <1>2, <1>3, <1>4 DEF Requeued

LEMMA JobFields ==
    ASSUME TypeOK, NEW j \in Jobs
    PROVE  /\ job[j] \in JobRow /\ job[j].status \in Statuses /\ job[j].attempts \in Nat
           /\ failures[j] \in Nat
BY DEF TypeOK, JobRow

LEMMA JobSet ==
    ASSUME TypeOK, NEW j \in Jobs, NEW row \in JobRow, job' = [job EXCEPT ![j] = row]
    PROVE  job' \in [Jobs -> JobRow]
BY DEF TypeOK

LEMMA TurnFields ==
    ASSUME TypeOK, NEW t \in Turns
    PROVE  turn[t] \in TurnRow /\ turn[t].job \in Jobs
BY DEF TypeOK, TurnRow

THEOREM InitTypeInv == Init => TypeInv
<1> SUFFICES ASSUME Init PROVE TypeInv
  OBVIOUS
<1>1. job \in [Jobs -> JobRow]
  BY NewJobType DEF Init
<1>2. question \in [Questions -> QuestionRow] /\ proposal \in [Proposals -> ProposalRow]
  BY IdleType DEF Init, QuestionRow, ProposalRow
<1>3. CallsOK
  BY IdleType, IdleCarries DEF Init, CallsOK
<1>4. turn \in [Turns -> TurnRow]
  BY IdleType DEF Init, TurnRow, MaybeMessage
<1> QED
  BY <1>1, <1>2, <1>3, <1>4 DEF Init, TypeInv, TypeOK, CallsOK


LEMMA WorkspaceType ==
    ASSUME TypeInv, Workspace
    PROVE  TypeInv'
<1> USE DEF TypeInv
<1>1. ASSUME NEW j \in Jobs, NEW t \in Turns, Claim(j, t) PROVE TypeInv'
  <2>1. job' \in [Jobs -> JobRow]
    BY <1>1 DEF Claim, TypeOK, JobRow, Statuses
  <2>2. turn' \in [Turns -> TurnRow]
    BY <1>1, JobFields DEF Claim, TypeOK, TurnRow, InClaim, JobRow
  <2> QED
    BY <1>1, <2>1, <2>2 DEF Claim, TypeOK, CallsOK, history
<1>2. ASSUME NEW t \in Turns, ClaimGone(t) PROVE TypeInv'
  <2>1. turn' \in [Turns -> TurnRow]
    BY <1>2 DEF ClaimGone, TypeOK, TurnRow, MaybeMessage
  <2>2. turn[t].job \in Jobs
    BY TurnFields
  <2>3. job' \in [Jobs -> JobRow]
    BY <1>2, <2>2 DEF ClaimGone, TypeOK, JobRow, Statuses
  <2> QED
    BY <1>2, <2>1, <2>3 DEF ClaimGone, TypeOK, CallsOK, history
<1>3. ASSUME NEW t \in Turns, Prompt(t) PROVE TypeInv'
  BY <1>3 DEF Prompt, TypeOK, CallsOK, TurnRow, MaybeMessage, rows
<1>4. ASSUME NEW t \in Turns, Release(t) PROVE TypeInv'
  <2>1. turn' \in [Turns -> TurnRow]
    BY <1>4 DEF Release, TypeOK, TurnRow, MaybeMessage
  <2>2. job' \in [Jobs -> JobRow] /\ lapsed' \subseteq Jobs
    <3> DEFINE j == turn[t].job
    <3>1. j \in Jobs
      BY TurnFields
    <3>2. CASE job[j].status = "running"
      <4>1. job' = [job EXCEPT ![j] = [job[j] EXCEPT !.status = "pending"]]
        BY <1>4, <3>1, <3>2 DEF Release, TypeOK
      <4> HIDE DEF j
      <4>2. [job[j] EXCEPT !.status = "pending"] \in JobRow
        BY <3>1 DEF TypeOK, JobRow, Statuses
      <4> QED
        BY <1>4, <3>1, <3>2, <4>1, <4>2, JobSet DEF Release, TypeOK, j
    <3>3. CASE job[j].status # "running"
      BY <1>4, <3>3 DEF Release, TypeOK
    <3> QED
      BY <3>2, <3>3
  <2> QED
    BY <1>4, <2>1, <2>2 DEF Release, TypeOK, CallsOK, history
<1>5. ASSUME NEW t \in Turns, LoseTurn(t) PROVE TypeInv'
  BY <1>5 DEF LoseTurn, TypeOK, CallsOK, TurnRow, MaybeMessage, rows, history
<1>6. ASSUME NEW t \in Turns, BriefRead(t) PROVE TypeInv'
  <2>1. turn' \in [Turns -> TurnRow]
    BY <1>6 DEF BriefRead, TypeOK, TurnRow, InClaim
  <2> QED
    BY <1>6, <2>1 DEF BriefRead, TypeOK, CallsOK, rows, history
<1> QED
  BY <1>1, <1>2, <1>3, <1>4, <1>5, <1>6 DEF Workspace

LEMMA CrashType ==
    ASSUME TypeInv, Crash
    PROVE  TypeInv'
<1>1. turn' \in [Turns -> TurnRow]
  BY DEF TypeInv, TypeOK, Crash, TurnRow, MaybeMessage
<1>2. /\ call' = [c \in Slots |-> Idle] /\ lapsed' = {} /\ crashes' = crashes + 1
      /\ UNCHANGED <<rows, owed, failures, expired, executed, requests>>
  BY DEF Crash
<1> QED
  BY <1>1, <1>2, IdleType, IdleCarries DEF TypeInv, TypeOK, CallsOK, rows

\* A crash ends the claims under way, and no other turn.
LEMMA CrashTurns ==
    ASSUME TypeInv, Crash, NEW t \in Turns
    PROVE  /\ turn[t].stage \in InClaim => turn'[t].stage = "over"
           /\ turn[t].stage \notin InClaim => turn'[t] = turn[t]
           /\ turn'[t].job = turn[t].job
<1>1. turn'[t] = IF turn[t].stage \in InClaim THEN [turn[t] EXCEPT !.stage = "over", !.message = None]
                                             ELSE turn[t]
  BY DEF Crash
<1>2. turn[t] \in TurnRow
  BY DEF TypeInv, TypeOK
<1>3. CASE turn[t].stage \in InClaim
  BY <1>1, <1>2, <1>3 DEF TurnRow
<1> QED
  BY <1>1, <1>3

\* What a call leaves alone when it changes no row, or one kind of row only.
Quiet == UNCHANGED <<rows, lapsed, turn, history>>

LEMMA QuietType ==
    ASSUME TypeInv, Quiet, CallsOK'
    PROVE  TypeInv'
BY DEF TypeInv, TypeOK, CallsOK, Quiet, rows, history

LEMMA FinishType ==
    ASSUME TypeInv, NEW c \in Slots,
           \/ FinishReadJob(c) \/ FinishCountQuestions(c) \/ FinishCountProposals(c)
           \/ FinishOutage(c) \/ FinishWrite(c) \/ FinishSignal(c)
    PROVE  TypeInv'
<1> DEFINE rec == call[c]  j == call[c].job
<1> USE DEF TypeInv
<1>0. rec \in CallRec /\ Carries(rec) /\ j \in Jobs /\ rec.row \in JobRow /\ job[j] \in JobRow
  BY CallFields, JobFields
<1>1. CASE FinishReadJob(c)
  <2> DEFINE new == [rec EXCEPT !.pc = "finishQuestions", !.row = job[j]]
  <2>1. new \in CallRec /\ new.pc = "finishQuestions"
    BY <1>0 DEF CallSteps, CallRec
  <2>2. call' = [call EXCEPT ![c] = new]
    BY <1>1 DEF FinishReadJob, CallsOK
  <2>3. CallsOK'
    BY <2>1, <2>2, PlainOK
  <2> QED
    BY <1>1, <2>3, QuietType DEF FinishReadJob, Quiet
<1>2. CASE FinishCountQuestions(c)
  <2> DEFINE new == [rec EXCEPT !.pc = "finishProposals", !.open = OpenQuestions(j) # {}]
  <2>1. new \in CallRec /\ new.pc = "finishProposals"
    BY <1>0 DEF CallSteps, CallRec
  <2>2. call' = [call EXCEPT ![c] = new]
    BY <1>2 DEF FinishCountQuestions, CallsOK
  <2>3. CallsOK'
    BY <2>1, <2>2, PlainOK
  <2> QED
    BY <1>2, <2>3, QuietType DEF FinishCountQuestions, Quiet
<1>3. CASE FinishCountProposals(c)
  <2> DEFINE new == [rec EXCEPT !.pc = "finishWrite", !.open = @ \/ OpenProposals(j) # {}]
  <2>1. new \in CallRec /\ new.pc = "finishWrite"
    BY <1>0 DEF CallSteps, CallRec
  <2>2. call' = [call EXCEPT ![c] = new]
    BY <1>3 DEF FinishCountProposals, CallsOK
  <2>3. CallsOK'
    BY <2>1, <2>2, PlainOK
  <2> QED
    BY <1>3, <2>3, QuietType DEF FinishCountProposals, Quiet
<1>4. CASE FinishOutage(c)
  <2> DEFINE row == [rec.row EXCEPT !.status = "pending", !.attempts = job[j].attempts,
                                    !.outages = @ + 1]
  <2>1. row \in JobRow
    <3>1. rec.row.outages + 1 \in Nat /\ job[j].attempts \in Nat
      BY <1>0 DEF JobRow
    <3> HIDE DEF rec, j
    <3> QED
      BY <1>0, <3>1 DEF JobRow, Statuses
  <2>2. job' \in [Jobs -> JobRow]
    BY <1>0, <1>4, <2>1, JobSet DEF FinishOutage
  <2>3. CallsOK'
    BY <1>4, ReturnOK DEF FinishOutage
  <2> QED
    BY <1>4, <2>2, <2>3 DEF FinishOutage, TypeOK, CallsOK, history
<1>5. CASE FinishWrite(c)
  <2>1. FinishedRow(c) \in JobRow
    BY <1>0, FinishedRowType
  <2>2. job' \in [Jobs -> JobRow]
    BY <1>0, <1>5, <2>1, JobSet DEF FinishWrite
  <2>3. failures' \in [Jobs -> Nat]
    <3>1. failures' = [failures EXCEPT ![j] = failures[j] + (IF rec.outcome = "done" THEN 0 ELSE 1)]
      BY <1>5 DEF FinishWrite
    <3>2. failures[j] \in Nat /\ failures[j] + 1 \in Nat /\ failures[j] + 0 \in Nat
      BY <1>0, JobFields
    <3> HIDE DEF rec, j
    <3> QED
      BY <3>1, <3>2 DEF TypeOK
  <2>4. CallsOK'
    <3> DEFINE new == [rec EXCEPT !.pc = "finishSignal", !.row = FinishedRow(c)]
    <3>1. new \in CallRec /\ new.pc = "finishSignal"
      BY <1>0, <2>1 DEF CallSteps, CallRec
    <3>2. call' = [call EXCEPT ![c] = new] \/ Return(c)
      BY <1>5 DEF FinishWrite, CallsOK
    <3> QED
      BY <3>1, <3>2, PlainOK, ReturnOK
  <2> QED
    BY <1>5, <2>2, <2>3, <2>4 DEF FinishWrite, TypeOK, CallsOK
<1>6. CASE FinishSignal(c)
  BY <1>6, <1>0, ReturnOK DEF FinishSignal, TypeOK, CallsOK, history
<1> QED
  BY <1>1, <1>2, <1>3, <1>4, <1>5, <1>6

LEMMA AskType ==
    ASSUME TypeInv, NEW c \in Slots,
           AssertNoQuestions(c) \/ AssertNotWaiting(c) \/ AskLimit(c) \/ AskInsert(c) \/ QueueWrite(c)
    PROVE  TypeInv'
<1> DEFINE rec == call[c]  j == call[c].job
<1> USE DEF TypeInv
<1>0. rec \in CallRec /\ Carries(rec) /\ j \in Jobs /\ rec.qs \subseteq Questions /\ rec.ps \subseteq Proposals
  BY CallFields
<1>1. CASE AssertNoQuestions(c)
  <2> DEFINE new == [rec EXCEPT !.pc = "askProposals", !.open = OpenQuestions(j) # {}]
  <2>1. new \in CallRec /\ new.pc = "askProposals"
    BY <1>0 DEF CallSteps, CallRec
  <2>2. call' = [call EXCEPT ![c] = new]
    BY <1>1 DEF AssertNoQuestions, CallsOK
  <2>3. CallsOK'
    BY <2>1, <2>2, PlainOK
  <2> QED
    BY <1>1, <2>3, QuietType DEF AssertNoQuestions, Quiet
<1>2. ASSUME NEW step \in {"askLimit", "askInsert", "proposeInsert"}, Go(c, step) PROVE CallsOK'
  <2> DEFINE new == [rec EXCEPT !.pc = step]
  <2>1. new \in CallRec /\ new.pc = step
    BY <1>0 DEF CallSteps, CallRec
  <2>2. call' = [call EXCEPT ![c] = new]
    BY <1>2 DEF Go, CallsOK
  <2> QED
    BY <2>1, <2>2, PlainOK
<1>3. CASE AssertNotWaiting(c) \/ AskLimit(c)
  <2>1. CallsOK'
    BY <1>2, <1>3, ReturnOK DEF AssertNotWaiting, AskLimit
  <2> QED
    BY <1>3, <2>1, QuietType DEF AssertNotWaiting, AskLimit, Quiet
<1>4. CASE AskInsert(c)
  <2>1. question' \in [Questions -> QuestionRow]
    BY <1>0, <1>4 DEF AskInsert, TypeOK, QuestionRow
  <2>2. CallsOK'
    BY <1>4, ReturnOK DEF AskInsert
  <2> QED
    BY <1>4, <2>1, <2>2 DEF AskInsert, TypeOK, CallsOK, history
<1>5. CASE QueueWrite(c)
  <2>1. proposal' \in [Proposals -> ProposalRow]
    BY <1>0, <1>5 DEF QueueWrite, TypeOK, ProposalRow
  <2>2. CallsOK'
    <3>1. PICK p \in rec.ps : Return(c) \/ call' = [call EXCEPT ![c].ps = @ \ {p}]
      BY <1>5 DEF QueueWrite
    <3> DEFINE new == [rec EXCEPT !.ps = @ \ {p}]
    <3>2. new \in CallRec /\ new.pc = "proposeInsert"
      BY <1>0, <1>5 DEF CallRec, QueueWrite, At
    <3>3. Return(c) \/ call' = [call EXCEPT ![c] = new]
      BY <3>1 DEF CallsOK
    <3> QED
      BY <3>2, <3>3, PlainOK, ReturnOK
  <2> QED
    BY <1>5, <2>1, <2>2 DEF QueueWrite, TypeOK, CallsOK, history
<1> QED
  BY <1>1, <1>3, <1>4, <1>5

LEMMA ResumeType ==
    ASSUME TypeInv, NEW c \in Slots, ResumeRead(c) \/ ResumeWrite(c)
    PROVE  TypeInv'
<1> DEFINE rec == call[c]  j == call[c].job  m == Message(call[c])
<1> USE DEF TypeInv
<1>0. rec \in CallRec /\ Carries(rec) /\ j \in Jobs /\ rec.row \in JobRow /\ job[j] \in JobRow
  BY CallFields, JobFields
<1>1. CASE ResumeRead(c)
  <2> DEFINE new == [rec EXCEPT !.pc = "resumeWrite", !.row = job[j]]
  <2>1. new \in CallRec /\ new.pc = "resumeWrite" /\ new.verb = rec.verb /\ new.item = rec.item
    BY <1>0 DEF CallSteps, CallRec
  <2>2. Carries(new)
    BY <1>0, <1>1, <2>1 DEF Carries, ResumeRead, At
  <2>3. call' = [call EXCEPT ![c] = new]
    BY <1>1 DEF ResumeRead, CallsOK
  <2>4. CallsOK'
    BY <2>1, <2>2, <2>3, CallSet
  <2> QED
    BY <1>1, <2>4, QuietType DEF ResumeRead, Quiet
<1>2. CASE ResumeWrite(c)
  <2>1. m \in Messages
    BY <1>0, <1>2 DEF ResumeWrite, At, Carries, Message, Messages, Decisions
  <2> DEFINE payload == [rec.row EXCEPT !.status = job[j].status, !.attempts = job[j].attempts]
             queued == [payload EXCEPT !.next = Append5(@, m)]
             woken == [payload EXCEPT !.resume = m, !.status = "pending"]
  <2>2. payload \in JobRow
    BY <1>0 DEF JobRow
  <2>3. queued \in JobRow
    <3>1. payload.next \in Seq(Messages)
      BY <2>2 DEF JobRow
    <3>2. Append5(payload.next, m) \in Seq(Messages)
      BY <2>1, <3>1, Append5Type
    <3> HIDE DEF payload, m
    <3> QED
      BY <2>2, <3>2 DEF JobRow
  <2>4. woken \in JobRow
    <3> HIDE DEF payload, m
    <3> QED
      BY <2>1, <2>2 DEF JobRow, Statuses, MaybeMessage
  <2>5. \/ job' = [job EXCEPT ![j] = queued]
        \/ job' = [job EXCEPT ![j] = woken]
        \/ job' = job
    BY <1>2, <1>0 DEF ResumeWrite, TypeOK
  <2>6. job' \in [Jobs -> JobRow]
    <3> HIDE DEF queued, woken, j
    <3> QED
      BY <1>0, <2>3, <2>4, <2>5, JobSet DEF TypeOK
  <2>7. CallsOK'
    <3> DEFINE new == [rec EXCEPT !.row = NewJob]
    <3>1. new \in CallRec
      BY <1>0, NewJobType DEF CallRec
    <3>2. GoOn(c, new) \/ Return(c)
      BY <1>2 DEF ResumeWrite
    <3> QED
      BY <3>1, <3>2, GoOnOK, ReturnOK
  <2> QED
    BY <1>2, <2>6, <2>7 DEF ResumeWrite, TypeOK, CallsOK, Decisions
<1> QED
  BY <1>1, <1>2

LEMMA DecideType ==
    ASSUME TypeInv, NEW c \in Slots,
           \/ CloseJob(c) \/ ReadQuestions(c) \/ ReadProposals(c)
           \/ CheckQuestion(c) \/ WriteQuestion(c) \/ CountLeft(c) \/ EndWait(c)
    PROVE  TypeInv'
<1> DEFINE rec == call[c]  j == call[c].job
<1> USE DEF TypeInv
<1>0. /\ rec \in CallRec /\ Carries(rec) /\ j \in Jobs /\ job[j] \in JobRow
      /\ rec.qs \subseteq Questions /\ rec.ps \subseteq Proposals
  BY CallFields, JobFields
<1>1. CASE CloseJob(c)
  <2>1. job' \in [Jobs -> JobRow]
    BY <1>1 DEF CloseJob, TypeOK, JobRow, Statuses
  <2> DEFINE new == [rec EXCEPT !.pc = "readQuestions"]
  <2>2. new \in CallRec /\ new.pc = "readQuestions"
    BY <1>0 DEF CallSteps, CallRec
  <2>3. call' = [call EXCEPT ![c] = new]
    BY <1>1 DEF CloseJob, Go, CallsOK
  <2>4. CallsOK'
    BY <2>2, <2>3, PlainOK
  <2> QED
    BY <1>1, <2>1, <2>4 DEF CloseJob, TypeOK, CallsOK, history
<1>2. CASE ReadQuestions(c)
  <2> DEFINE new == [rec EXCEPT !.pc = "readProposals", !.qs = OpenQuestions(j)]
  <2>1. new \in CallRec /\ new.pc = "readProposals"
    BY <1>0 DEF CallSteps, CallRec, OpenQuestions
  <2>2. call' = [call EXCEPT ![c] = new]
    BY <1>2 DEF ReadQuestions, CallsOK
  <2>3. CallsOK'
    BY <2>1, <2>2, PlainOK
  <2> QED
    BY <1>2, <2>3, QuietType DEF ReadQuestions, Quiet
<1>3. CASE ReadProposals(c)
  <2> DEFINE new == [rec EXCEPT !.ps = IF rec.verb = "dismiss" THEN OpenProposals(j) ELSE {}]
  <2>1. new \in CallRec
    BY <1>0 DEF CallRec, OpenProposals
  <2>2. CallsOK'
    BY <1>3, <2>1, GoOnOK DEF ReadProposals
  <2> QED
    BY <1>3, <2>2, QuietType DEF ReadProposals, Quiet
<1>4. CASE CheckQuestion(c)
  <2>1. PICK q \in rec.qs :
           LET rest == [rec EXCEPT !.qs = @ \ {q}, !.item = q] IN
           call' = [call EXCEPT ![c] = [rest EXCEPT !.pc = "writeQuestion"]] \/ GoOn(c, rest)
    BY <1>4 DEF CheckQuestion
  <2> DEFINE rest == [rec EXCEPT !.qs = @ \ {q}, !.item = q]
             new == [rest EXCEPT !.pc = "writeQuestion"]
  <2>2. rest \in CallRec /\ rest.item \in Questions
    BY <1>0 DEF CallRec
  <2>3. new \in CallRec /\ new.pc = "writeQuestion" /\ new.item \in Questions
    <3> HIDE DEF rest
    <3> QED
      BY <2>2 DEF CallSteps, CallRec
  <2>4. Carries(new)
    BY <2>3 DEF Carries
  <2>5. CallsOK'
    BY <2>1, <2>2, <2>3, <2>4, CallSet, GoOnOK
  <2> QED
    BY <1>4, <2>5, QuietType DEF CheckQuestion, Quiet
<1>5. CASE WriteQuestion(c)
  <2>1. question' \in [Questions -> QuestionRow]
    BY <1>5 DEF WriteQuestion, TypeOK, QuestionRow
  <2> DEFINE new == [rec EXCEPT !.pc = "countLeft"]
  <2>2. new \in CallRec /\ new.pc = "countLeft" /\ new.item = rec.item
    BY <1>0 DEF CallSteps, CallRec
  <2>3. Carries(new)
    BY <1>0, <1>5, <2>2 DEF Carries, WriteQuestion, At
  <2>4. call' = [call EXCEPT ![c] = new]
    BY <1>5 DEF WriteQuestion, Go, CallsOK
  <2>5. CallsOK'
    BY <2>2, <2>3, <2>4, CallSet
  <2> QED
    BY <1>5, <2>1, <2>5 DEF WriteQuestion, TypeOK, CallsOK, history
<1>6. CASE CountLeft(c)
  <2>1. ASSUME Go(c, "resumeRead") PROVE CallsOK'
    <3> DEFINE new == [rec EXCEPT !.pc = "resumeRead"]
    <3>1. new \in CallRec /\ new.pc = "resumeRead" /\ new.item = rec.item
      BY <1>0 DEF CallSteps, CallRec
    <3>2. Carries(new)
      BY <1>0, <1>6, <3>1 DEF Carries, CountLeft, At, Decisions
    <3>3. call' = [call EXCEPT ![c] = new]
      BY <2>1 DEF Go, CallsOK
    <3> QED
      BY <3>1, <3>2, <3>3, CallSet
  <2>2. ASSUME Go(c, "endWait") PROVE CallsOK'
    <3> DEFINE new == [rec EXCEPT !.pc = "endWait"]
    <3>1. new \in CallRec /\ new.pc = "endWait"
      BY <1>0 DEF CallSteps, CallRec
    <3>2. Carries(new)
      BY <3>1 DEF Carries
    <3>3. call' = [call EXCEPT ![c] = new]
      BY <2>2 DEF Go, CallsOK
    <3> QED
      BY <3>1, <3>2, <3>3, CallSet
  <2>3. ASSUME GoOn(c, rec) PROVE CallsOK'
    BY <1>0, <2>3, GoOnOK
  <2>4. CallsOK'
    BY <1>6, <2>1, <2>2, <2>3 DEF CountLeft
  <2> QED
    BY <1>6, <2>4, QuietType DEF CountLeft, Quiet
<1>7. CASE EndWait(c)
  <2> DEFINE row == [job[j] EXCEPT !.status = IF @ = "waiting" THEN "done" ELSE @]
  <2>1. row \in JobRow
    BY <1>0 DEF JobRow, Statuses
  <2>2. job' = [job EXCEPT ![j] = row]
    BY <1>7 DEF EndWait
  <2>3. job' \in [Jobs -> JobRow]
    BY <1>0, <2>1, <2>2, JobSet
  <2>4. CallsOK'
    BY <1>0, <1>7, GoOnOK DEF EndWait
  <2> QED
    BY <1>7, <2>3, <2>4 DEF EndWait, TypeOK, CallsOK, history
<1> QED
  BY <1>1, <1>2, <1>3, <1>4, <1>5, <1>6, <1>7

LEMMA ProposalType ==
    ASSUME TypeInv, NEW c \in Slots,
           ClaimProposal(c) \/ ExecuteProposal(c) \/ SettleProposal(c) \/ RejectProposal(c)
    PROVE  TypeInv'
<1> DEFINE rec == call[c]
<1> USE DEF TypeInv
<1>0. rec \in CallRec /\ Carries(rec) /\ rec.ps \subseteq Proposals
  BY CallFields
<1>1. CASE ClaimProposal(c)
  <2>1. PICK p \in rec.ps :
           \/ /\ proposal' = [proposal EXCEPT ![p].status = "executing"]
              /\ call' = [call EXCEPT ![c].pc = "executeProposal", ![c].item = p, ![c].ps = {}]
           \/ Return(c) /\ UNCHANGED proposal
    BY <1>1 DEF ClaimProposal
  <2>2. proposal' \in [Proposals -> ProposalRow]
    BY <2>1 DEF TypeOK, ProposalRow
  <2> DEFINE new == [rec EXCEPT !.pc = "executeProposal", !.item = p, !.ps = {}]
  <2>3. new \in CallRec /\ new.pc = "executeProposal" /\ new.item \in Proposals
    BY <1>0 DEF CallSteps, CallRec
  <2>4. Carries(new)
    BY <2>3 DEF Carries
  <2>5. Return(c) \/ call' = [call EXCEPT ![c] = new]
    BY <2>1 DEF CallsOK
  <2>6. CallsOK'
    BY <2>3, <2>4, <2>5, CallSet, ReturnOK
  <2> QED
    BY <1>1, <2>2, <2>6 DEF ClaimProposal, TypeOK, CallsOK, history
<1>2. ASSUME NEW step \in {"settleApproved", "settleFailed", "resumeRead"}, Go(c, step),
             rec.pc \in {"executeProposal", "settleApproved", "settleFailed"}
      PROVE  CallsOK'
  <2> DEFINE new == [rec EXCEPT !.pc = step]
  <2>1. new \in CallRec /\ new.pc = step /\ new.item = rec.item
    BY <1>0 DEF CallSteps, CallRec
  <2>2. Carries(new)
    BY <1>0, <1>2, <2>1 DEF Carries, Decisions
  <2> QED
    BY <1>2, <2>2, GoOK DEF CallSteps
<1>3. CASE ExecuteProposal(c)
  <2>1. CallsOK'
    BY <1>2, <1>3 DEF ExecuteProposal, At
  <2>2. executed' \in [Proposals -> Nat]
    BY <1>3 DEF ExecuteProposal, TypeOK
  <2> QED
    BY <1>3, <2>1, <2>2 DEF ExecuteProposal, TypeOK, CallsOK, rows
<1>4. CASE SettleProposal(c)
  <2>1. CallsOK'
    BY <1>2, <1>4 DEF SettleProposal, At
  <2>2. proposal' \in [Proposals -> ProposalRow]
    BY <1>4 DEF SettleProposal, TypeOK, ProposalRow
  <2> QED
    BY <1>4, <2>1, <2>2 DEF SettleProposal, TypeOK, CallsOK, history
<1>5. CASE RejectProposal(c)
  <2>1. PICK p \in rec.ps :
           LET rest == [rec EXCEPT !.ps = @ \ {p}, !.item = p] IN
           \/ /\ proposal' = [proposal EXCEPT ![p].status = "rejected"]
              /\ call' = [call EXCEPT ![c] = [rest EXCEPT !.pc = "resumeRead"]]
           \/ GoOn(c, rest) /\ UNCHANGED proposal
    BY <1>5 DEF RejectProposal
  <2> DEFINE rest == [rec EXCEPT !.ps = @ \ {p}, !.item = p]
             new == [rest EXCEPT !.pc = "resumeRead"]
  <2>2. rest \in CallRec /\ rest.item \in Proposals
    BY <1>0 DEF CallRec
  <2>3. new \in CallRec /\ new.pc = "resumeRead" /\ new.item \in Proposals
    <3> HIDE DEF rest
    <3> QED
      BY <2>2 DEF CallSteps, CallRec
  <2>4. Carries(new)
    BY <2>3 DEF Carries, Decisions
  <2>5. CallsOK'
    BY <2>1, <2>2, <2>3, <2>4, CallSet, GoOnOK
  <2>6. proposal' \in [Proposals -> ProposalRow]
    BY <2>1 DEF TypeOK, ProposalRow
  <2> QED
    BY <1>5, <2>5, <2>6 DEF RejectProposal, TypeOK, CallsOK, history
<1> QED
  BY <1>1, <1>3, <1>4, <1>5

LEMMA StepType ==
    ASSUME TypeInv, NEW c \in Slots, Step(c)
    PROVE  TypeInv'
BY FinishType, AskType, ResumeType, DecideType, ProposalType DEF Step

LEMMA TimerType ==
    ASSUME TypeInv,
           \/ \E late \in SUBSET Jobs : Expire(late)
           \/ ExpireRequeue \/ WakeQuestions \/ WakeProposals
           \/ \E j \in Jobs : WakeIdle(j)
    PROVE  TypeInv'
<1> USE DEF TypeInv
<1> DEFINE rec == call[Timer]
<1>0. Timer \in Slots /\ rec \in CallRec /\ Carries(rec)
  BY CallFields DEF Slots
<1>1. ASSUME NEW late \in SUBSET Jobs, Expire(late) PROVE TypeInv'
  <2> DEFINE last == {j \in late : job[j].attempts >= 2}
  <2>1. \A j \in Jobs : [job[j] EXCEPT !.status = "failed"] \in JobRow
    BY DEF TypeOK, JobRow, Statuses
  <2>2. job' \in [Jobs -> JobRow]
    BY <1>1, <2>1 DEF Expire, TypeOK
  <2>3. failures' \in [Jobs -> Nat]
    <3>1. \A j \in Jobs : failures[j] \in Nat /\ failures[j] + 1 \in Nat
      BY JobFields
    <3>2. failures' = [j \in Jobs |-> IF j \in last THEN failures[j] + 1 ELSE failures[j]]
      BY <1>1 DEF Expire
    <3> HIDE DEF last
    <3> QED
      BY <3>1, <3>2
  <2> DEFINE new == [Idle EXCEPT !.pc = "requeueExpired"]
  <2>4. new \in CallRec /\ new.pc = "requeueExpired"
    BY IdleType DEF CallSteps, CallRec
  <2>5. CallsOK'
    BY <1>0, <1>1, <2>4, PlainOK DEF Expire, Begin
  <2> QED
    BY <1>1, <2>2, <2>3, <2>5 DEF Expire, TypeOK, CallsOK
<1>2. CASE ExpireRequeue
  <2> DEFINE late == {j \in Jobs : Lapsed(j)}
  <2>1. \A j \in Jobs : Requeued(job[j]) \in JobRow
    <3> SUFFICES ASSUME NEW j \in Jobs PROVE Requeued(job[j]) \in JobRow
      OBVIOUS
    <3>1. job[j] \in JobRow /\ job[j].attempts + 1 \in Nat
      BY JobFields
    <3> QED
      BY <3>1 DEF Requeued, JobRow, Statuses
  <2>2. job' \in [Jobs -> JobRow]
    <3>1. job' = [j \in Jobs |-> IF j \in late THEN Requeued(job[j]) ELSE job[j]]
      BY <1>2 DEF ExpireRequeue
    <3> HIDE DEF late
    <3> QED
      BY <2>1, <3>1 DEF TypeOK
  <2>3. failures' \in [Jobs -> Nat]
    <3>1. \A j \in Jobs : failures[j] \in Nat /\ failures[j] + 1 \in Nat
      BY JobFields
    <3>2. failures' = [j \in Jobs |-> IF j \in late THEN failures[j] + 1 ELSE failures[j]]
      BY <1>2 DEF ExpireRequeue
    <3> HIDE DEF late
    <3> QED
      BY <3>1, <3>2
  <2>4. CallsOK'
    BY <1>0, <1>2, ReturnOK DEF ExpireRequeue
  <2> QED
    BY <1>2, <2>2, <2>3, <2>4 DEF ExpireRequeue, TypeOK, CallsOK
<1>3. CASE WakeQuestions
  <2> DEFINE new == [rec EXCEPT !.pc = "wakeProposals", !.open = OpenQuestions(rec.job) # {}]
  <2>1. new \in CallRec /\ new.pc = "wakeProposals" /\ new.verb = rec.verb
    BY <1>0 DEF CallSteps, CallRec
  <2>2. Carries(new)
    BY <1>0, <1>3, <2>1 DEF Carries, WakeQuestions, At
  <2>3. call' = [call EXCEPT ![Timer] = new]
    BY <1>0, <1>3 DEF WakeQuestions, CallsOK
  <2>4. CallsOK'
    BY <1>0, <2>1, <2>2, <2>3, CallSet
  <2> QED
    BY <1>3, <2>4, QuietType DEF WakeQuestions, Quiet
<1>4. CASE WakeProposals
  <2>1. ASSUME Go(Timer, "resumeRead") PROVE CallsOK'
    <3> DEFINE new == [rec EXCEPT !.pc = "resumeRead"]
    <3>1. new \in CallRec /\ new.pc = "resumeRead" /\ new.verb = rec.verb /\ new.item = rec.item
      BY <1>0 DEF CallSteps, CallRec
    <3>2. Carries(new)
      BY <1>0, <1>4, <3>1 DEF Carries, WakeProposals, At
    <3>3. call' = [call EXCEPT ![Timer] = new]
      BY <2>1 DEF Go, CallsOK
    <3> QED
      BY <1>0, <3>1, <3>2, <3>3, CallSet
  <2>2. CallsOK'
    BY <1>0, <1>4, <2>1, ReturnOK DEF WakeProposals
  <2> QED
    BY <1>4, <2>2, QuietType DEF WakeProposals, Quiet
<1>5. ASSUME NEW j \in Jobs, WakeIdle(j) PROVE TypeInv'
  <2> DEFINE new == [Idle EXCEPT !.pc = "wakeQuestions", !.job = j, !.verb = "wake"]
  <2>1. new \in CallRec /\ new.pc = "wakeQuestions" /\ new.verb = "wake"
    BY IdleType DEF CallSteps, CallRec, Verbs
  <2>2. Carries(new)
    BY <2>1 DEF Carries
  <2>3. CallsOK'
    BY <1>0, <1>5, <2>1, <2>2, BeginOK DEF WakeIdle
  <2> QED
    BY <1>5, <2>3, QuietType DEF WakeIdle, Quiet
<1> QED
  BY <1>1, <1>2, <1>3, <1>4, <1>5

LEMMA RequestType ==
    ASSUME TypeInv, NEW c \in Calls, Request(c)
    PROVE  TypeInv'
<1> USE DEF TypeInv
<1>0. c \in Slots
  BY DEF Slots
<1>1. ASSUME NEW t \in Turns, NEW o \in Outcomes, Report(t, o, c) PROVE TypeInv'
  <2> DEFINE new == [Idle EXCEPT !.pc = "finishJob", !.job = turn[t].job, !.outcome = o]
  <2>1. new \in CallRec /\ new.pc = "finishJob"
    BY IdleType, TurnFields DEF CallSteps, CallRec
  <2>2. CallsOK'
    BY <1>0, <1>1, <2>1, PlainOK DEF Report, Begin
  <2>3. turn' \in [Turns -> TurnRow]
    BY <1>1 DEF Report, TypeOK, TurnRow, MaybeMessage
  <2> QED
    BY <1>1, <2>2, <2>3 DEF Report, TypeOK, CallsOK, rows, history
<1>2. ASSUME NEW t \in Turns, NEW q \in Questions, Ask(t, q, c) PROVE TypeInv'
  <2> DEFINE new == [Idle EXCEPT !.pc = "askQuestions", !.job = turn[t].job, !.qs = {q}]
  <2>1. new \in CallRec /\ new.pc = "askQuestions"
    BY IdleType, TurnFields DEF CallSteps, CallRec
  <2>2. CallsOK'
    BY <1>0, <1>2, <2>1, PlainOK DEF Ask, Begin
  <2> QED
    BY <1>2, <2>2, QuietType DEF Ask, Quiet
<1>3. ASSUME NEW t \in Turns, NEW ps \in SUBSET Proposals, Propose(t, ps, c) PROVE TypeInv'
  <2> DEFINE new == [Idle EXCEPT !.pc = "askQuestions", !.job = turn[t].job, !.ps = ps]
  <2>1. new \in CallRec /\ new.pc = "askQuestions"
    BY IdleType, TurnFields DEF CallSteps, CallRec
  <2>2. CallsOK'
    BY <1>0, <1>3, <2>1, PlainOK DEF Propose, Begin
  <2> QED
    BY <1>3, <2>2, QuietType DEF Propose, Quiet
<1>4. ASSUME CallsOK', requests' = requests + 1,
             UNCHANGED <<rows, lapsed, turn, owed, failures, expired, executed, crashes>>
      PROVE  TypeInv'
  <2>1. requests' \in Nat
    BY <1>4 DEF TypeOK
  <2> QED
    BY <1>4, <2>1 DEF TypeOK, CallsOK, rows
<1>5. ASSUME NEW q \in Questions, NEW v \in Verbs, Answer(q, v, c) PROVE TypeInv'
  <2> DEFINE new == [Idle EXCEPT !.pc = "checkQuestion", !.job = question[q].job, !.qs = {q}, !.verb = v]
  <2>1. question[q].job \in Jobs
    BY DEF TypeOK, QuestionRow
  <2>2. new \in CallRec /\ new.pc = "checkQuestion"
    BY <2>1, IdleType DEF CallSteps, CallRec
  <2>3. CallsOK'
    BY <1>0, <1>5, <2>2, PlainOK DEF Answer, Begin
  <2> QED
    BY <1>4, <1>5, <2>3 DEF Answer, Asked
<1>6. ASSUME NEW p \in Proposals, NEW s \in CallSteps, Decide(p, s, c) PROVE TypeInv'
  <2> DEFINE new == [Idle EXCEPT !.pc = s, !.job = proposal[p].job, !.ps = {p}, !.verb = "decide"]
  <2>1. proposal[p].job \in Jobs
    BY DEF TypeOK, ProposalRow
  <2>2. new \in CallRec /\ new.pc \in {"claimProposal", "rejectProposal"}
    BY <1>6, <2>1, IdleType DEF Decide, CallSteps, CallRec, Verbs
  <2>3. CallsOK'
    BY <1>0, <1>6, <2>2, PlainOK DEF Decide, Begin
  <2> QED
    BY <1>4, <1>6, <2>3 DEF Decide, Asked
<1>7. ASSUME NEW j \in Jobs, AnswerWorker(j, c) PROVE TypeInv'
  <2> DEFINE new == [Idle EXCEPT !.pc = "readQuestions", !.job = j, !.verb = "quiet"]
  <2>1. new \in CallRec /\ new.pc = "readQuestions"
    BY IdleType DEF CallSteps, CallRec, Verbs
  <2>2. CallsOK'
    BY <1>0, <1>7, <2>1, PlainOK DEF AnswerWorker, Begin
  <2> QED
    BY <1>4, <1>7, <2>2 DEF AnswerWorker, Asked
<1>8. ASSUME NEW j \in Jobs, CloseWorker(j, c) PROVE TypeInv'
  <2> DEFINE new == [Idle EXCEPT !.pc = "closeJob", !.job = j, !.verb = "dismiss"]
  <2>1. new \in CallRec /\ new.pc = "closeJob"
    BY IdleType DEF CallSteps, CallRec, Verbs
  <2>2. CallsOK'
    BY <1>0, <1>8, <2>1, PlainOK DEF CloseWorker, Begin
  <2> QED
    BY <1>4, <1>8, <2>2 DEF CloseWorker, Asked
<1> QED
  BY <1>1, <1>2, <1>3, <1>5, <1>6, <1>7, <1>8 DEF Request

THEOREM TypeStep ==
    ASSUME TypeInv, [Next]_vars
    PROVE  TypeInv'
<1>1. CASE UNCHANGED vars
  BY <1>1 DEF vars, TypeInv, TypeOK, CallsOK
<1>2. CASE Next
  <2>1. Calls \subseteq Slots /\ Timer \in Slots
    BY DEF Slots
  <2> QED
    BY <1>2, <2>1, WorkspaceType, CrashType, RequestType, StepType, TimerType DEF Next, TimerStep
<1> QED
  BY <1>1, <1>2

\* Every reachable state is well typed (and every call that is to resume a
\* thread with a decision has that decision at hand).
THEOREM TypeCorrect == Spec => []TypeOK
<1>1. TypeInv => TypeOK
  BY DEF TypeInv
<1> QED
  BY <1>1, InitTypeInv, TypeStep, PTL DEF Spec

--------------------------------------------------------------------------
(* Where a step leads                                                      *)

\* approvePending has claimed a proposal and not settled it.
Executing == {"executeProposal", "settleApproved", "settleFailed"}

\* A step of call c moves no other call, and only these steps lead into Executing or Reporting.
Moves(c) ==
    /\ \A d \in Slots \ {c} : call'[d] = call[d]
    /\ call'[c].pc \in Executing => ClaimProposal(c) \/ ExecuteProposal(c)
    /\ call'[c].pc \in Reporting =>
          FinishReadJob(c) \/ FinishCountQuestions(c) \/ FinishCountProposals(c)

LEMMA MovesTo ==
    ASSUME CallsOK, NEW c \in Slots, NEW rec, rec.pc \notin Executing \cup Reporting,
           call' = [call EXCEPT ![c] = rec]
    PROVE  Moves(c)
BY DEF Moves, CallsOK

LEMMA ReturnMoves ==
    ASSUME CallsOK, NEW c \in Slots, Return(c)
    PROVE  Moves(c)
BY DEF Moves, CallsOK, Return, Idle, Executing, Reporting

LEMMA GoMoves ==
    ASSUME CallsOK, NEW c \in Slots, NEW step, Go(c, step), step \notin Executing \cup Reporting
    PROVE  Moves(c)
<1>1. call[c] \in CallRec
  BY CallFields
<1>2. [call[c] EXCEPT !.pc = step].pc = step
  BY <1>1 DEF CallRec
<1>3. call' = [call EXCEPT ![c] = [call[c] EXCEPT !.pc = step]]
  BY DEF Go, CallsOK
<1> QED
  BY <1>2, <1>3, MovesTo

LEMMA GoOnMoves ==
    ASSUME CallsOK, NEW c \in Slots, NEW rec \in CallRec, GoOn(c, rec)
    PROVE  Moves(c)
<1>1. Onward(rec) \in {"checkQuestion", "rejectProposal", "resumeRead", "idle"}
  BY DEF Onward
<1>2. [rec EXCEPT !.pc = Onward(rec)].pc = Onward(rec) /\ Idle.pc = "idle"
  BY DEF CallRec, Idle
<1> QED
  BY <1>1, <1>2, MovesTo DEF GoOn, Executing, Reporting

LEMMA StepMoves ==
    ASSUME CallsOK, NEW c \in Slots, Step(c)
    PROVE  Moves(c)
<1> DEFINE rec == call[c]
<1>0. rec \in CallRec
  BY CallFields
<1>1. CASE FinishReadJob(c)
  BY <1>0, <1>1 DEF FinishReadJob, Moves, CallsOK, CallRec, Executing
<1>2. CASE FinishCountQuestions(c)
  BY <1>0, <1>2 DEF FinishCountQuestions, Moves, CallsOK, CallRec, Executing
<1>3. CASE FinishCountProposals(c)
  BY <1>0, <1>3 DEF FinishCountProposals, Moves, CallsOK, CallRec, Executing
<1>4. CASE FinishOutage(c) \/ FinishSignal(c) 
  BY <1>4, ReturnMoves DEF FinishOutage, FinishSignal
<1>5. CASE FinishWrite(c)
  BY <1>0, <1>5, ReturnMoves DEF FinishWrite, Moves, CallsOK, CallRec, Executing, Reporting
<1>6. CASE AssertNoQuestions(c)
  BY <1>0, <1>6 DEF AssertNoQuestions, Moves, CallsOK, CallRec, Executing, Reporting
<1>7. CASE AssertNotWaiting(c) \/ AskLimit(c) \/ AskInsert(c)
  BY <1>7, ReturnMoves, GoMoves DEF AssertNotWaiting, AskLimit, AskInsert, Executing, Reporting
<1>8. CASE QueueWrite(c)
  BY <1>0, <1>8, ReturnMoves DEF QueueWrite, Moves, At, CallsOK, CallRec, Executing, Reporting
<1>9. CASE ResumeRead(c)
  BY <1>0, <1>9 DEF ResumeRead, Moves, CallsOK, CallRec, Executing, Reporting
<1>10. CASE ResumeWrite(c)
  <2>1. [rec EXCEPT !.row = NewJob] \in CallRec
    BY <1>0, NewJobType DEF CallRec
  <2> QED
    BY <1>10, <2>1, ReturnMoves, GoOnMoves DEF ResumeWrite
<1>11. CASE CloseJob(c) \/ WriteQuestion(c)
  BY <1>11, GoMoves DEF CloseJob, WriteQuestion, Executing, Reporting
<1>12. CASE ReadQuestions(c)
  BY <1>0, <1>12 DEF ReadQuestions, Moves, CallsOK, CallRec, Executing, Reporting
<1>13. CASE ReadProposals(c)
  <2>1. [rec EXCEPT !.ps = IF rec.verb = "dismiss" THEN OpenProposals(rec.job) ELSE {}] \in CallRec
    BY <1>0 DEF CallRec, OpenProposals
  <2> QED
    BY <1>13, <2>1, GoOnMoves DEF ReadProposals
<1>14. CASE CheckQuestion(c)
  <2>1. PICK q \in rec.qs :
           LET rest == [rec EXCEPT !.qs = @ \ {q}, !.item = q] IN
           call' = [call EXCEPT ![c] = [rest EXCEPT !.pc = "writeQuestion"]] \/ GoOn(c, rest)
    BY <1>14 DEF CheckQuestion
  <2> DEFINE rest == [rec EXCEPT !.qs = @ \ {q}, !.item = q]
  <2>2. rest \in CallRec
    BY <1>0 DEF CallRec
  <2>3. [rest EXCEPT !.pc = "writeQuestion"].pc = "writeQuestion"
    BY <2>2 DEF CallRec
  <2> HIDE DEF rest
  <2> QED
    BY <2>1, <2>2, <2>3, MovesTo, GoOnMoves DEF rest, Executing, Reporting
<1>15. CASE CountLeft(c)
  BY <1>0, <1>15, GoMoves, GoOnMoves DEF CountLeft, Executing, Reporting
<1>16. CASE EndWait(c)
  BY <1>0, <1>16, GoOnMoves DEF EndWait
<1>17. CASE ClaimProposal(c)
  <2>1. CASE Return(c)
    BY <2>1, ReturnMoves
  <2>2. CASE \E p \in rec.ps :
                call' = [call EXCEPT ![c].pc = "executeProposal", ![c].item = p, ![c].ps = {}]
    <3>1. PICK p \in rec.ps :
             call' = [call EXCEPT ![c] = [rec EXCEPT !.pc = "executeProposal", !.item = p, !.ps = {}]]
      BY <2>2 DEF CallsOK
    <3> QED
      BY <1>0, <1>17, <3>1 DEF Moves, CallsOK, CallRec, Reporting
  <2> QED
    BY <1>17, <2>1, <2>2 DEF ClaimProposal
<1>18. CASE ExecuteProposal(c)
  BY <1>0, <1>18 DEF ExecuteProposal, Go, Moves, CallsOK, CallRec, Executing, Reporting
<1>19. CASE SettleProposal(c)
  BY <1>19, GoMoves DEF SettleProposal, Executing, Reporting
<1>20. CASE RejectProposal(c)
  <2>1. PICK p \in rec.ps :
           LET rest == [rec EXCEPT !.ps = @ \ {p}, !.item = p] IN
           call' = [call EXCEPT ![c] = [rest EXCEPT !.pc = "resumeRead"]] \/ GoOn(c, rest)
    BY <1>20 DEF RejectProposal
  <2> DEFINE rest == [rec EXCEPT !.ps = @ \ {p}, !.item = p]
  <2>2. rest \in CallRec
    BY <1>0 DEF CallRec
  <2>3. [rest EXCEPT !.pc = "resumeRead"].pc = "resumeRead"
    BY <2>2 DEF CallRec
  <2> HIDE DEF rest
  <2> QED
    BY <2>1, <2>2, <2>3, MovesTo, GoOnMoves DEF rest, Executing, Reporting
<1> QED
  BY <1>1, <1>2, <1>3, <1>4, <1>5, <1>6, <1>7, <1>8, <1>9, <1>10, <1>11, <1>12, <1>13,
     <1>14, <1>15, <1>16, <1>17, <1>18, <1>19, <1>20 DEF Step

--------------------------------------------------------------------------
(* A write runs once                                                       *)

\* A proposal being executed is claimed, by one call, and has not run before.
OnceInv ==
    /\ WriteRunsOnce
    /\ \A c \in Slots : call[c].pc \in Executing =>
          /\ call[c].item \in Proposals
          /\ proposal[call[c].item].status = "executing"
          /\ call[c].pc # "settleApproved" => executed[call[c].item] = 0
    /\ \A c, d \in Slots :
          (c # d /\ call[c].pc \in Executing /\ call[d].pc \in Executing) => call[c].item # call[d].item

\* Most steps: no proposal is decided, and no call begins or goes on executing.
ProposalFrame ==
    /\ UNCHANGED executed
    /\ \A p \in Proposals : proposal'[p].status = proposal[p].status
                            \/ (proposal[p].status = "none" /\ proposal'[p].status = "pending")
    /\ \A d \in Slots : call'[d].pc \in Executing => call'[d] = call[d]

LEMMA ProposalFrameKeeps ==
    ASSUME TypeInv, OnceInv, ProposalFrame
    PROVE  OnceInv'
<1>1. WriteRunsOnce'
  <2> SUFFICES ASSUME NEW p \in Proposals
               PROVE  executed'[p] <= 1 /\ (executed'[p] = 1 => proposal'[p].status \in {"executing", "approved"})
    BY DEF WriteRunsOnce
  <2> QED
    BY DEF OnceInv, WriteRunsOnce, ProposalFrame
<1>2. ASSUME NEW c \in Slots, call'[c].pc \in Executing
      PROVE  /\ call'[c].item \in Proposals
             /\ proposal'[call'[c].item].status = "executing"
             /\ call'[c].pc # "settleApproved" => executed'[call'[c].item] = 0
  BY <1>2 DEF OnceInv, ProposalFrame
<1>3. ASSUME NEW c \in Slots, NEW d \in Slots, c # d, call'[c].pc \in Executing, call'[d].pc \in Executing
      PROVE  call'[c].item # call'[d].item
  BY <1>3 DEF OnceInv, ProposalFrame
<1> QED
  BY <1>1, <1>2, <1>3 DEF OnceInv

LEMMA InitOnce == Init => OnceInv
BY DEF Init, OnceInv, WriteRunsOnce, Executing, Idle

LEMMA ClaimProposalOnce ==
    ASSUME TypeInv, OnceInv, NEW c \in Slots, ClaimProposal(c)
    PROVE  OnceInv'
<1> DEFINE rec == call[c]
<1>0. rec \in CallRec /\ rec.ps \subseteq Proposals /\ CallsOK
  BY CallFields DEF TypeInv
<1>1. CASE Return(c) /\ UNCHANGED proposal
  BY <1>0, <1>1, ReturnMoves, ProposalFrameKeeps DEF ProposalFrame, Moves, ClaimProposal, history, CallsOK, Return, Idle, Executing
<1>2. ASSUME NEW p \in rec.ps, Undecided(p), proposal' = [proposal EXCEPT ![p].status = "executing"],
             call' = [call EXCEPT ![c].pc = "executeProposal", ![c].item = p, ![c].ps = {}]
      PROVE  OnceInv'
  <2>1. p \in Proposals /\ proposal[p].status = "pending" /\ executed' = executed
    BY <1>0, <1>2 DEF Undecided, ClaimProposal, history
  <2>2. /\ proposal'[p].status = "executing"
        /\ \A q \in Proposals \ {p} : proposal'[q] = proposal[q]
    BY <1>2, <2>1 DEF TypeInv, TypeOK, ProposalRow
  <2>3. /\ call'[c].pc = "executeProposal" /\ call'[c].item = p
        /\ \A d \in Slots \ {c} : call'[d] = call[d]
    BY <1>0, <1>2 DEF CallsOK, CallRec
  <2>4. executed[p] \in Nat /\ executed[p] = 0
    BY <2>1 DEF OnceInv, WriteRunsOnce, TypeInv, TypeOK
  <2>5. WriteRunsOnce'
    BY <2>1, <2>2, <2>4 DEF OnceInv, WriteRunsOnce
  <2>6. \A d \in Slots \ {c} : call[d].pc \in Executing => call[d].item # p
    BY <2>1 DEF OnceInv
  <2>7. ASSUME NEW d \in Slots, call'[d].pc \in Executing
        PROVE  /\ call'[d].item \in Proposals
               /\ proposal'[call'[d].item].status = "executing"
               /\ call'[d].pc # "settleApproved" => executed'[call'[d].item] = 0
    <3>1. CASE d = c
      BY <2>1, <2>2, <2>3, <2>4, <3>1
    <3>2. CASE d # c
      BY <2>1, <2>2, <2>3, <2>6, <2>7, <3>2 DEF OnceInv
    <3> QED
      BY <3>1, <3>2
  <2>8. ASSUME NEW d \in Slots, NEW e \in Slots, d # e, call'[d].pc \in Executing, call'[e].pc \in Executing
        PROVE  call'[d].item # call'[e].item
    BY <2>3, <2>6, <2>8 DEF OnceInv
  <2> QED
    BY <2>5, <2>7, <2>8 DEF OnceInv
<1> QED
  BY <1>1, <1>2 DEF ClaimProposal

LEMMA ExecuteProposalOnce ==
    ASSUME TypeInv, OnceInv, NEW c \in Slots, ExecuteProposal(c)
    PROVE  OnceInv'
<1> DEFINE rec == call[c]  p == call[c].item
<1>0. rec \in CallRec /\ CallsOK /\ At(c, "executeProposal") /\ proposal' = proposal
  BY CallFields DEF TypeInv, ExecuteProposal, rows
<1>1. p \in Proposals /\ proposal[p].status = "executing" /\ executed[p] = 0
  BY <1>0 DEF OnceInv, At, Executing
<1>2. \A d \in Slots \ {c} : call'[d] = call[d] /\ (call[d].pc \in Executing => call[d].item # p)
  BY <1>0 DEF ExecuteProposal, Go, CallsOK, OnceInv, At, Executing
<1>3. call'[c].item = p /\ call'[c].pc \in {"settleApproved", "settleFailed"}
  BY <1>0 DEF ExecuteProposal, Go, CallsOK, CallRec
<1>4. /\ \A q \in Proposals \ {p} : executed'[q] = executed[q]
      /\ executed'[p] \in {0, 1}
      /\ call'[c].pc = "settleFailed" => executed'[p] = 0
  <2>1. CASE executed' = [executed EXCEPT ![p] = @ + 1] /\ Go(c, "settleApproved")
    <3>1. call'[c].pc = "settleApproved"
      BY <1>0, <2>1 DEF Go, CallsOK, CallRec
    <3>2. executed' = [executed EXCEPT ![p] = 1]
      BY <1>1, <2>1
    <3> QED
      BY <1>1, <3>1, <3>2 DEF TypeInv, TypeOK
  <2>2. CASE UNCHANGED executed
    BY <1>1, <2>2
  <2> QED
    BY <2>1, <2>2 DEF ExecuteProposal
<1>5. WriteRunsOnce'
  BY <1>0, <1>1, <1>4 DEF OnceInv, WriteRunsOnce
<1>6. ASSUME NEW d \in Slots, call'[d].pc \in Executing
      PROVE  /\ call'[d].item \in Proposals
             /\ proposal'[call'[d].item].status = "executing"
             /\ call'[d].pc # "settleApproved" => executed'[call'[d].item] = 0
  <2>1. CASE d = c
    BY <1>0, <1>1, <1>3, <1>4, <2>1
  <2>2. CASE d # c
    BY <1>0, <1>2, <1>4, <1>6, <2>2 DEF OnceInv
  <2> QED
    BY <2>1, <2>2
<1>7. ASSUME NEW d \in Slots, NEW e \in Slots, d # e, call'[d].pc \in Executing, call'[e].pc \in Executing
      PROVE  call'[d].item # call'[e].item
  BY <1>2, <1>3, <1>7 DEF OnceInv
<1> QED
  BY <1>5, <1>6, <1>7 DEF OnceInv

LEMMA SettleProposalOnce ==
    ASSUME TypeInv, OnceInv, NEW c \in Slots, SettleProposal(c)
    PROVE  OnceInv'
<1> DEFINE p == call[c].item  status == IF At(c, "settleApproved") THEN "approved" ELSE "failed"
<1>0. /\ CallsOK /\ executed' = executed
      /\ call[c].pc \in {"settleApproved", "settleFailed"} /\ Go(c, "resumeRead")
      /\ proposal' = [proposal EXCEPT ![p].status = status]
  BY DEF TypeInv, SettleProposal, At, history
<1>1. p \in Proposals /\ (call[c].pc = "settleFailed" => executed[p] = 0)
  BY <1>0 DEF OnceInv, Executing
<1>2. proposal'[p].status = status /\ \A q \in Proposals \ {p} : proposal'[q] = proposal[q]
  BY <1>0, <1>1 DEF TypeInv, TypeOK, ProposalRow
<1>3. /\ call'[c].pc \notin Executing
      /\ \A d \in Slots \ {c} : call'[d] = call[d] /\ (call[d].pc \in Executing => call[d].item # p)
  BY <1>0 DEF Go, CallsOK, CallRec, OnceInv, Executing
<1>4. WriteRunsOnce'
  BY <1>0, <1>1, <1>2 DEF OnceInv, WriteRunsOnce, At
<1>5. ASSUME NEW d \in Slots, call'[d].pc \in Executing
      PROVE  /\ call'[d].item \in Proposals
             /\ proposal'[call'[d].item].status = "executing"
             /\ call'[d].pc # "settleApproved" => executed'[call'[d].item] = 0
  BY <1>0, <1>2, <1>3, <1>5 DEF OnceInv
<1>6. ASSUME NEW d \in Slots, NEW e \in Slots, d # e, call'[d].pc \in Executing, call'[e].pc \in Executing
      PROVE  call'[d].item # call'[e].item
  BY <1>3, <1>6 DEF OnceInv
<1> QED
  BY <1>4, <1>5, <1>6 DEF OnceInv

LEMMA RejectProposalOnce ==
    ASSUME TypeInv, OnceInv, NEW c \in Slots, RejectProposal(c)
    PROVE  OnceInv'
<1>0. CallsOK /\ executed' = executed /\ Moves(c) /\ call[c].ps \subseteq Proposals
  BY StepMoves, CallFields DEF TypeInv, RejectProposal, Step, history
<1>1. /\ call'[c].pc \notin Executing
      /\ \A d \in Slots \ {c} : call'[d] = call[d]
  BY <1>0 DEF Moves, RejectProposal, ClaimProposal, ExecuteProposal, At
<1>2. CASE UNCHANGED proposal
  BY <1>0, <1>1, <1>2, ProposalFrameKeeps DEF ProposalFrame
<1>3. ASSUME NEW p \in call[c].ps, Undecided(p), proposal' = [proposal EXCEPT ![p].status = "rejected"]
      PROVE  OnceInv'
  <2>1. p \in Proposals /\ proposal[p].status = "pending" /\ executed[p] # 1
    BY <1>0, <1>3 DEF Undecided, OnceInv, WriteRunsOnce
  <2>2. \A q \in Proposals \ {p} : proposal'[q] = proposal[q]
    BY <1>3 DEF TypeInv, TypeOK
  <2>3. WriteRunsOnce'
    BY <1>0, <2>1, <2>2 DEF OnceInv, WriteRunsOnce
  <2>4. ASSUME NEW d \in Slots, call'[d].pc \in Executing
        PROVE  /\ call'[d].item \in Proposals
               /\ proposal'[call'[d].item].status = "executing"
               /\ call'[d].pc # "settleApproved" => executed'[call'[d].item] = 0
    BY <1>0, <1>1, <2>1, <2>2, <2>4 DEF OnceInv
  <2>5. ASSUME NEW d \in Slots, NEW e \in Slots, d # e, call'[d].pc \in Executing, call'[e].pc \in Executing
        PROVE  call'[d].item # call'[e].item
    BY <1>1, <2>5 DEF OnceInv
  <2> QED
    BY <2>3, <2>4, <2>5 DEF OnceInv
<1> QED
  BY <1>2, <1>3 DEF RejectProposal

LEMMA OtherStepOnce ==
    ASSUME TypeInv, OnceInv, NEW c \in Slots, Step(c),
           ~ClaimProposal(c), ~ExecuteProposal(c), ~SettleProposal(c), ~RejectProposal(c)
    PROVE  OnceInv'
<1>1. \A d \in Slots : call'[d].pc \in Executing => call'[d] = call[d]
  BY StepMoves DEF TypeInv, Moves
<1>2. executed' = executed
  BY DEF Step, FinishReadJob, FinishCountQuestions, FinishCountProposals, FinishOutage, FinishWrite,
         FinishSignal, AssertNoQuestions, AssertNotWaiting, AskLimit, AskInsert, QueueWrite,
         ResumeRead, ResumeWrite, CloseJob, ReadQuestions, ReadProposals, CheckQuestion,
         WriteQuestion, CountLeft, EndWait, history
<1>3. CASE QueueWrite(c)
  <2>1. ASSUME NEW p \in Proposals
        PROVE  \/ proposal'[p].status = proposal[p].status
               \/ proposal[p].status = "none" /\ proposal'[p].status = "pending"
    BY <1>3 DEF QueueWrite, TypeInv, TypeOK, ProposalRow
  <2> QED
    BY <1>1, <1>2, <2>1, ProposalFrameKeeps DEF ProposalFrame
<1>4. CASE ~QueueWrite(c)
  <2>1. proposal' = proposal
    BY <1>4 DEF Step, FinishReadJob, FinishCountQuestions, FinishCountProposals, FinishOutage, FinishWrite,
         FinishSignal, AssertNoQuestions, AssertNotWaiting, AskLimit, AskInsert,
         ResumeRead, ResumeWrite, CloseJob, ReadQuestions, ReadProposals, CheckQuestion,
         WriteQuestion, CountLeft, EndWait, rows
  <2> QED
    BY <1>1, <1>2, <2>1, ProposalFrameKeeps DEF ProposalFrame
<1> QED
  BY <1>3, <1>4

\* Where a call begins: at finishJob for a report, elsewhere short of executing.
LEMMA RequestBegins ==
    ASSUME CallsOK, NEW c \in Calls, Request(c)
    PROVE  /\ call[c].pc = "idle" /\ c \in Slots
           /\ \A d \in Slots \ {c} : call'[d] = call[d]
           /\ call'[c].pc \notin Executing
           /\ UNCHANGED <<rows, lapsed, failures, expired, executed>>
           /\ call'[c].pc \in Reporting =>
                 \E t \in Turns, o \in Outcomes :
                    Report(t, o, c) /\ call'[c].pc = "finishJob" /\ call'[c].job = turn[t].job
           /\ turn' = turn \/ \E t \in Turns, o \in Outcomes : Report(t, o, c)
<1> USE DEF Begin, CallsOK, Executing, Reporting, Idle, Slots
<1>1. CASE \E t \in Turns, o \in Outcomes : Report(t, o, c)
  <2>1. PICK t \in Turns, o \in Outcomes : Report(t, o, c)
    BY <1>1
  <2> DEFINE new == [Idle EXCEPT !.pc = "finishJob", !.job = turn[t].job, !.outcome = o]
  <2>2. call' = [call EXCEPT ![c] = new] /\ call[c].pc = "idle"
    BY <2>1 DEF Report
  <2>3. new.pc = "finishJob" /\ new.job = turn[t].job
    OBVIOUS
  <2>4. call'[c] = new /\ \A d \in Slots \ {c} : call'[d] = call[d]
    BY <2>2
  <2> HIDE DEF new
  <2> QED
    BY <2>1, <2>2, <2>3, <2>4 DEF Report, history
<1>2. CASE \E t \in Turns, q \in Questions : Ask(t, q, c)
  BY <1>2 DEF Ask, history
<1>3. CASE \E t \in Turns, ps \in SUBSET Proposals : Propose(t, ps, c)
  BY <1>3 DEF Propose, history
<1>4. CASE \E q \in Questions, v \in Verbs : Answer(q, v, c)
  BY <1>4 DEF Answer
<1>5. CASE \E p \in Proposals, s \in CallSteps : Decide(p, s, c)
  BY <1>5 DEF Decide
<1>6. CASE \E j \in Jobs : AnswerWorker(j, c)
  BY <1>6 DEF AnswerWorker
<1>7. CASE \E j \in Jobs : CloseWorker(j, c)
  BY <1>7 DEF CloseWorker
<1> QED
  BY <1>1, <1>2, <1>3, <1>4, <1>5, <1>6, <1>7 DEF Request

\* The timer's own steps move only its slot, and to none of those steps.
LEMMA TimerMoves ==
    ASSUME CallsOK,
           \/ \E late \in SUBSET Jobs : Expire(late)
           \/ ExpireRequeue \/ WakeQuestions \/ WakeProposals
           \/ \E j \in Jobs : WakeIdle(j)
    PROVE  /\ \A d \in Slots \ {Timer} : call'[d] = call[d]
           /\ call'[Timer].pc \notin Executing \cup Reporting
           /\ UNCHANGED <<proposal, executed, turn>>
<1>0. Timer \in Slots /\ call[Timer] \in CallRec
  BY CallFields DEF Slots
<1> USE DEF Begin, Go, Return, At, CallsOK, Executing, Reporting, Idle, rows, history
<1>1. CASE \E late \in SUBSET Jobs : Expire(late)
  BY <1>0, <1>1 DEF Expire
<1>2. CASE ExpireRequeue
  BY <1>0, <1>2 DEF ExpireRequeue
<1>3. CASE WakeQuestions
  BY <1>0, <1>3 DEF WakeQuestions, CallRec
<1>4. CASE WakeProposals
  BY <1>0, <1>4 DEF WakeProposals, CallRec
<1>5. CASE \E j \in Jobs : WakeIdle(j)
  <2>1. PICK j \in Jobs : WakeIdle(j)
    BY <1>5
  <2> DEFINE new == [Idle EXCEPT !.pc = "wakeQuestions", !.job = j, !.verb = "wake"]
  <2>2. call' = [call EXCEPT ![Timer] = new] /\ new.pc = "wakeQuestions"
    BY <2>1 DEF WakeIdle
  <2> HIDE DEF new
  <2> QED
    BY <1>0, <2>1, <2>2 DEF WakeIdle
<1> QED
  BY <1>1, <1>2, <1>3, <1>4, <1>5

LEMMA OnceStep ==
    ASSUME TypeInv, OnceInv, [Next]_vars
    PROVE  OnceInv'
<1> USE DEF ProposalFrame
<1>1. CASE UNCHANGED vars
  BY <1>1, ProposalFrameKeeps DEF vars
<1>2. CASE Workspace
  BY <1>2, ProposalFrameKeeps DEF Workspace, Claim, BriefRead, ClaimGone, Prompt, Release, LoseTurn, rows, history
<1>3. CASE Crash
  BY <1>3, ProposalFrameKeeps DEF Crash, Executing, Idle, rows
<1>4. ASSUME NEW c \in Calls, Request(c) PROVE OnceInv'
  BY <1>4, RequestBegins, ProposalFrameKeeps DEF TypeInv, rows
<1>5. ASSUME NEW c \in Slots, Step(c) PROVE OnceInv'
  BY <1>5, ClaimProposalOnce, ExecuteProposalOnce, SettleProposalOnce, RejectProposalOnce, OtherStepOnce
<1>6. CASE \/ \E late \in SUBSET Jobs : Expire(late)
           \/ ExpireRequeue \/ WakeQuestions \/ WakeProposals
           \/ \E j \in Jobs : WakeIdle(j)
  BY <1>6, TimerMoves, ProposalFrameKeeps DEF TypeInv
<1>7. Calls \subseteq Slots /\ Timer \in Slots
  BY DEF Slots
<1> QED
  BY <1>1, <1>2, <1>3, <1>4, <1>5, <1>6, <1>7 DEF Next, TimerStep

\* A proposal is applied at most once, and never after it was rejected,
\* however many approvals, rejections and closes race for it.
THEOREM WritesRunOnce == Spec => []WriteRunsOnce
<1>1. Init => TypeInv /\ OnceInv
  BY InitTypeInv, InitOnce
<1>2. TypeInv /\ OnceInv /\ [Next]_vars => TypeInv' /\ OnceInv'
  BY TypeStep, OnceStep
<1>3. OnceInv => WriteRunsOnce
  BY DEF OnceInv
<1> QED
  BY <1>1, <1>2, <1>3, PTL DEF Spec

--------------------------------------------------------------------------
(* Tries and turns                                                         *)

\* A row of job j keeps its tries, fails only if it had, and does not leave work.
Tame(j) ==
    /\ job'[j].attempts = job[j].attempts
    /\ job'[j].status = "failed" => job[j].status = "failed"
    /\ job[j].status \in {"running", "closed"} => job'[j].status \in {"running", "closed"}
    /\ job[j].status = "closed" => job'[j].status = "closed"

\* Only finishThread's writes, among the steps of a call, are not tame.
LEMMA StepTame ==
    ASSUME TypeInv, NEW c \in Slots, Step(c), ~FinishOutage(c), ~FinishWrite(c)
    PROVE  /\ UNCHANGED <<turn, failures, expired>>
           /\ \A j \in Jobs : Tame(j)
<1>0. call[c].job \in Jobs /\ job \in [Jobs -> JobRow] /\ call[c].row \in JobRow
  BY CallFields DEF TypeInv, TypeOK
<1>1. CASE ResumeWrite(c)
  <2> DEFINE k == call[c].job  m == Message(call[c])  row == call[c].row
             payload == [row EXCEPT !.status = job[k].status, !.attempts = job[k].attempts]
             queued == [payload EXCEPT !.next = Append5(@, m)]
             woken == [payload EXCEPT !.resume = m, !.status = "pending"]
  <2>1. /\ payload.status = job[k].status /\ payload.attempts = job[k].attempts
        /\ queued.status = job[k].status /\ queued.attempts = job[k].attempts
        /\ woken.status = "pending" /\ woken.attempts = job[k].attempts
    BY <1>0 DEF JobRow
  <2>2. \/ job' = [job EXCEPT ![k] = queued]
        \/ Wakeable(k) /\ job' = [job EXCEPT ![k] = woken]
        \/ job' = job
    BY <1>0, <1>1 DEF ResumeWrite
  <2>3. \A j \in Jobs : Tame(j)
    <3> HIDE DEF queued, woken, k
    <3> QED
      BY <1>0, <2>1, <2>2 DEF Tame, Wakeable, k
  <2> QED
    BY <1>1, <2>3 DEF ResumeWrite
<1>2. CASE CloseJob(c)
  BY <1>0, <1>2 DEF CloseJob, Tame, JobRow, history
<1>3. CASE EndWait(c)
  <2> DEFINE k == call[c].job
  <2>1. job' = [job EXCEPT ![k].status = IF @ = "waiting" THEN "done" ELSE @]
    BY <1>3 DEF EndWait
  <2>2. \A j \in Jobs : Tame(j)
    BY <1>0, <2>1 DEF Tame, JobRow
  <2> QED
    BY <1>3, <2>2 DEF EndWait, history
<1>4. CASE ~ResumeWrite(c) /\ ~CloseJob(c) /\ ~EndWait(c)
  <2>1. UNCHANGED <<job, turn, failures, expired>>
    BY <1>4 DEF Step, FinishReadJob, FinishCountQuestions, FinishCountProposals, FinishSignal,
         AssertNoQuestions, AssertNotWaiting, AskLimit, AskInsert, QueueWrite, ResumeRead,
         ReadQuestions, ReadProposals, CheckQuestion, WriteQuestion, CountLeft,
         ClaimProposal, ExecuteProposal, SettleProposal, RejectProposal, rows, history
  <2> QED
    BY <2>1 DEF Tame
<1> QED
  BY <1>1, <1>2, <1>3, <1>4

\* A finish that has read the job has read no more tries than were counted.
Read == {"finishQuestions", "finishProposals", "finishWrite"}
TriesInv ==
    /\ TriesEarned
    /\ \A c \in Slots : call[c].pc \in Read => call[c].row.attempts <= failures[call[c].job]

LEMMA InitTries == Init => TriesInv
BY DEF Init, TriesInv, TriesEarned, NewJob, Read, Idle

TriesFrame ==
    /\ \A j \in Jobs : failures'[j] \in Nat /\ failures[j] <= failures'[j]
    /\ \A j \in Jobs : \/ Tame(j)
                       \/ /\ job'[j].attempts <= failures'[j]
                          /\ job'[j].status = "failed" => failures'[j] >= 3
    /\ \A d \in Slots : call'[d].pc \in Read =>
          \/ call[d].pc \in Read /\ call'[d].row = call[d].row /\ call'[d].job = call[d].job
          \/ call'[d].job \in Jobs /\ call'[d].row = job[call'[d].job]

LEMMA TriesFrameKeeps ==
    ASSUME TypeInv, TriesInv, TriesFrame
    PROVE  TriesInv'
<1>1. ASSUME NEW j \in Jobs
      PROVE  job'[j].attempts <= failures'[j] /\ (job'[j].status = "failed" => failures'[j] >= 3)
  <2>1. job[j].attempts \in Nat /\ failures[j] \in Nat
    BY JobFields DEF TypeInv
  <2>2. job[j].attempts <= failures[j] /\ (job[j].status = "failed" => failures[j] >= 3)
    BY DEF TriesInv, TriesEarned
  <2>3. failures'[j] \in Nat /\ failures[j] <= failures'[j]
    BY DEF TriesFrame
  <2>4. CASE Tame(j)
    BY <2>1, <2>2, <2>3, <2>4 DEF Tame
  <2> QED
    BY <2>4 DEF TriesFrame
<1>2. ASSUME NEW d \in Slots, call'[d].pc \in Read
      PROVE  call'[d].row.attempts <= failures'[call'[d].job]
  <2> DEFINE k == call'[d].job
  <2>1. CASE call[d].pc \in Read /\ call'[d].row = call[d].row /\ call'[d].job = call[d].job
    <3>1. call[d].row.attempts \in Nat /\ k \in Jobs
      BY <2>1, CallFields DEF TypeInv, JobRow
    <3>2. call[d].row.attempts <= failures[k] /\ failures[k] \in Nat
      BY <2>1, <3>1, JobFields DEF TriesInv, TypeInv
    <3>3. failures[k] <= failures'[k] /\ failures'[k] \in Nat
      BY <3>1 DEF TriesFrame
    <3> QED
      BY <2>1, <3>1, <3>2, <3>3
  <2>2. CASE k \in Jobs /\ call'[d].row = job[k]
    <3>1. job[k].attempts \in Nat /\ failures[k] \in Nat
      BY <2>2, JobFields DEF TypeInv
    <3>2. job[k].attempts <= failures[k] /\ failures[k] <= failures'[k] /\ failures'[k] \in Nat
      BY <2>2 DEF TriesInv, TriesEarned, TriesFrame
    <3> QED
      BY <2>2, <3>1, <3>2
  <2> QED
    BY <1>2, <2>1, <2>2 DEF TriesFrame
<1> QED
  BY <1>1, <1>2 DEF TriesInv, TriesEarned

LEMMA FinishWriteTries ==
    ASSUME TypeInv, TriesInv, NEW c \in Slots, FinishWrite(c)
    PROVE  TriesFrame
<1> DEFINE k == call[c].job  row == call[c].row  inc == IF call[c].outcome = "done" THEN 0 ELSE 1
<1>0. /\ k \in Jobs /\ row.attempts \in Nat /\ failures[k] \in Nat /\ call[c].pc = "finishWrite"
      /\ row.attempts <= failures[k]
  BY CallFields, JobFields DEF TypeInv, JobRow, FinishWrite, At, TriesInv, Read
<1>1. /\ FinishedRow(c).attempts = row.attempts + inc
      /\ FinishedRow(c).status = "failed" => row.attempts + inc >= 3
  <2>1. Tries(c) = row.attempts + inc
    BY DEF Tries
  <2>2. FinishedRow(c).attempts = Tries(c)
    BY DEF FinishedRow
  <2>3. Tries(c) \in Nat
    BY <1>0, <2>1
  <2>4. FinishedRow(c).status = "failed" => Tries(c) >= 3
    BY <2>3 DEF FinishedRow
  <2> QED
    BY <2>1, <2>2, <2>4
<1>2. /\ failures'[k] = failures[k] + inc
      /\ \A j \in Jobs \ {k} : failures'[j] = failures[j] /\ job'[j] = job[j]
      /\ job'[k] = FinishedRow(c)
  BY <1>0 DEF FinishWrite, TypeInv, TypeOK
<1>3. \A j \in Jobs : failures'[j] \in Nat /\ failures[j] <= failures'[j]
  <2> SUFFICES ASSUME NEW j \in Jobs PROVE failures'[j] \in Nat /\ failures[j] <= failures'[j]
    OBVIOUS
  <2>1. failures[j] \in Nat /\ inc \in {0, 1}
    BY JobFields DEF TypeInv
  <2> HIDE DEF inc
  <2> QED
    BY <1>0, <1>2, <2>1
<1>4. job'[k].attempts <= failures'[k] /\ (job'[k].status = "failed" => failures'[k] >= 3)
  <2>1. inc \in {0, 1}
    OBVIOUS
  <2> HIDE DEF inc, row, k
  <2> QED
    BY <1>0, <1>1, <1>2, <2>1
<1>5. \A j \in Jobs \ {k} : Tame(j)
  BY <1>2 DEF Tame
<1>6. ASSUME NEW d \in Slots, call'[d].pc \in Read
      PROVE  call[d].pc \in Read /\ call'[d].row = call[d].row /\ call'[d].job = call[d].job
  <2>1. call'[c].pc \notin Reporting /\ (d # c => call'[d] = call[d])
    BY <1>0, StepMoves DEF TypeInv, Step, Moves, FinishReadJob, FinishCountQuestions, FinishCountProposals, At
  <2> QED
    BY <1>6, <2>1 DEF Read, Reporting
<1> QED
  BY <1>3, <1>4, <1>5, <1>6 DEF TriesFrame

LEMMA StepTries ==
    ASSUME TypeInv, TriesInv, NEW c \in Slots, Step(c)
    PROVE  TriesInv'
<1>0. Moves(c) /\ call[c] \in CallRec /\ call[c].job \in Jobs
  BY StepMoves, CallFields DEF TypeInv
<1>1. \A d \in Slots : call'[d].pc \in Read =>
        \/ call[d].pc \in Read /\ call'[d].row = call[d].row /\ call'[d].job = call[d].job
        \/ call'[d].job \in Jobs /\ call'[d].row = job[call'[d].job]
  <2> SUFFICES ASSUME NEW d \in Slots, call'[d].pc \in Read
               PROVE  \/ call[d].pc \in Read /\ call'[d].row = call[d].row /\ call'[d].job = call[d].job
                      \/ call'[d].job \in Jobs /\ call'[d].row = job[call'[d].job]
    OBVIOUS
  <2>1. CASE d # c
    BY <1>0, <2>1 DEF Moves
  <2>2. CASE d = c /\ FinishReadJob(c)
    BY <1>0, <2>2 DEF FinishReadJob, TypeInv, CallsOK, CallRec
  <2>3. CASE d = c /\ FinishCountQuestions(c)
    BY <1>0, <2>3 DEF FinishCountQuestions, At, TypeInv, CallsOK, CallRec, Read
  <2>4. CASE d = c /\ FinishCountProposals(c)
    BY <1>0, <2>4 DEF FinishCountProposals, At, TypeInv, CallsOK, CallRec, Read
  <2> QED
    BY <1>0, <2>1, <2>2, <2>3, <2>4 DEF Moves, Read, Reporting
<1>2. CASE FinishWrite(c)
  BY <1>2, FinishWriteTries, TriesFrameKeeps
<1>3. CASE FinishOutage(c)
  <2> DEFINE k == call[c].job
  <2>1. /\ failures' = failures
        /\ \A j \in Jobs \ {k} : job'[j] = job[j]
        /\ job'[k].status = "pending" /\ job'[k].attempts = job[k].attempts
    BY <1>0, <1>3, CallFields DEF FinishOutage, history, TypeInv, TypeOK, JobRow
  <2>2. ASSUME NEW j \in Jobs
        PROVE  \/ Tame(j)
               \/ job'[j].attempts <= failures'[j] /\ (job'[j].status = "failed" => failures'[j] >= 3)
    BY <1>0, <2>1 DEF Tame, TriesInv, TriesEarned
  <2>3. \A j \in Jobs : failures'[j] \in Nat /\ failures[j] <= failures'[j]
    BY <2>1, JobFields DEF TypeInv
  <2> QED
    BY <1>1, <2>2, <2>3, TriesFrameKeeps DEF TriesFrame
<1>4. CASE ~FinishWrite(c) /\ ~FinishOutage(c)
  <2>1. UNCHANGED failures /\ \A j \in Jobs : Tame(j)
    BY <1>4, StepTame
  <2>2. \A j \in Jobs : failures'[j] \in Nat /\ failures[j] <= failures'[j]
    BY <2>1, JobFields DEF TypeInv
  <2> QED
    BY <1>1, <2>1, <2>2, TriesFrameKeeps DEF TriesFrame
<1> QED
  BY <1>2, <1>3, <1>4

LEMMA WorkspaceTries ==
    ASSUME TypeInv, TriesInv, Workspace
    PROVE  TriesInv'
<1>1. UNCHANGED <<call, failures>>
  BY DEF Workspace, Claim, BriefRead, ClaimGone, Prompt, Release, LoseTurn, history
<1>2. ASSUME NEW j \in Jobs
      PROVE  job'[j].attempts = job[j].attempts /\ (job'[j].status = "failed" => job[j].status = "failed")
  <2>1. job \in [Jobs -> JobRow]
    BY DEF TypeInv, TypeOK
  <2>2. CASE \E k \in Jobs, t \in Turns : Claim(k, t)
    <3>1. PICK k \in Jobs, t \in Turns : Claim(k, t)
      BY <2>2
    <3>2. job' = [job EXCEPT ![k].status = "running"]
      BY <3>1 DEF Claim
    <3> QED
      BY <2>1, <3>2 DEF JobRow
  <2>3. CASE \E t \in Turns : ClaimGone(t)
    <3>1. PICK k \in Jobs : job' = [job EXCEPT ![k].status = "done"]
      BY <2>3, TurnFields DEF ClaimGone, TypeInv
    <3> QED
      BY <2>1, <3>1 DEF JobRow
  <2>4. CASE \E t \in Turns : Release(t)
    <3>1. PICK t \in Turns : Release(t)
      BY <2>4
    <3>2. job' = [job EXCEPT ![turn[t].job].status = "pending"] \/ job' = job
      BY <3>1 DEF Release
    <3>3. turn[t].job \in Jobs
      BY DEF TypeInv, TypeOK, TurnRow
    <3>4. CASE job' = [job EXCEPT ![turn[t].job].status = "pending"]
      <4>1. job[j] \in JobRow /\ job'[j] \in {job[j], [job[j] EXCEPT !.status = "pending"]}
        BY <2>1, <3>3, <3>4
      <4> QED
        BY <4>1 DEF JobRow
    <3>5. CASE job' = job
      BY <3>5
    <3> QED
      BY <3>2, <3>4, <3>5
  <2>5. CASE \E t \in Turns : BriefRead(t) \/ Prompt(t) \/ LoseTurn(t)
    BY <2>5 DEF BriefRead, Prompt, LoseTurn, rows
  <2> QED
    BY <2>2, <2>3, <2>4, <2>5 DEF Workspace
<1> QED
  BY <1>1, <1>2 DEF TriesInv, TriesEarned

LEMMA TimerTries ==
    ASSUME TypeInv, TriesInv,
           \/ \E late \in SUBSET Jobs : Expire(late)
           \/ ExpireRequeue \/ WakeQuestions \/ WakeProposals
           \/ \E j \in Jobs : WakeIdle(j)
    PROVE  TriesInv'
<1>0. \A d \in Slots : call'[d].pc \in Read => call'[d] = call[d]
  BY TimerMoves DEF TypeInv, Read, Reporting
<1>1. ASSUME NEW late \in SUBSET Jobs, Expire(late) PROVE TriesInv'
  <2> DEFINE last == {j \in late : job[j].attempts >= 2}
  <2>1. ASSUME NEW j \in Jobs
        PROVE  /\ failures'[j] \in Nat /\ failures[j] <= failures'[j]
               /\ \/ Tame(j)
                  \/ job'[j].attempts <= failures'[j] /\ (job'[j].status = "failed" => failures'[j] >= 3)
    <3>1. job[j] \in JobRow /\ job[j].attempts \in Nat /\ failures[j] \in Nat /\ job[j].attempts <= failures[j]
      BY JobFields DEF TypeInv, TriesInv, TriesEarned
    <3>2. CASE j \in last
      <4>1. job'[j] = [job[j] EXCEPT !.status = "failed"] /\ failures'[j] = failures[j] + 1
        BY <1>1, <3>2 DEF Expire
      <4>2. job'[j].attempts = job[j].attempts
        BY <3>1, <4>1 DEF JobRow
      <4>3. job[j].attempts >= 2
        BY <3>2
      <4> QED
        BY <3>1, <4>1, <4>2, <4>3
    <3>3. CASE j \notin last
      <4>1. job'[j] = job[j] /\ failures'[j] = failures[j]
        BY <1>1, <3>3 DEF Expire
      <4> QED
        BY <3>1, <4>1 DEF Tame
    <3> QED
      BY <3>2, <3>3
  <2> QED
    BY <1>0, <2>1, TriesFrameKeeps DEF TriesFrame
<1>2. CASE ExpireRequeue
  <2>1. ASSUME NEW j \in Jobs
        PROVE  /\ failures'[j] \in Nat /\ failures[j] <= failures'[j]
               /\ \/ Tame(j)
                  \/ job'[j].attempts <= failures'[j] /\ (job'[j].status = "failed" => failures'[j] >= 3)
    <3>1. job[j] \in JobRow /\ job[j].attempts \in Nat /\ failures[j] \in Nat /\ job[j].attempts <= failures[j]
      BY JobFields DEF TypeInv, TriesInv, TriesEarned
    <3>2. CASE Lapsed(j)
      <4>1. job'[j] = Requeued(job[j]) /\ failures'[j] = failures[j] + 1
        BY <1>2, <3>2 DEF ExpireRequeue
      <4>2. job'[j].attempts = job[j].attempts + 1 /\ job'[j].status = "pending"
        BY <3>1, <4>1 DEF JobRow, Requeued
      <4> QED
        BY <3>1, <4>1, <4>2
    <3>3. CASE ~Lapsed(j)
      <4>1. job'[j] = job[j] /\ failures'[j] = failures[j]
        BY <1>2, <3>3 DEF ExpireRequeue
      <4> QED
        BY <3>1, <4>1 DEF Tame
    <3> QED
      BY <3>2, <3>3
  <2> QED
    BY <1>0, <2>1, TriesFrameKeeps DEF TriesFrame
<1>3. CASE WakeQuestions \/ WakeProposals \/ \E j \in Jobs : WakeIdle(j)
  <2>1. UNCHANGED <<job, failures>>
    BY <1>3 DEF WakeQuestions, WakeProposals, WakeIdle, rows, history
  <2>2. \A j \in Jobs : failures'[j] \in Nat /\ failures[j] <= failures'[j]
    BY <2>1, JobFields DEF TypeInv
  <2> QED
    BY <1>0, <2>1, <2>2, TriesFrameKeeps DEF TriesFrame, Tame
<1> QED
  BY <1>1, <1>2, <1>3

LEMMA TriesStep ==
    ASSUME TypeInv, TriesInv, [Next]_vars
    PROVE  TriesInv'
<1>1. CASE UNCHANGED vars
  BY <1>1 DEF vars, TriesInv, TriesEarned
<1>2. CASE Workspace
  BY <1>2, WorkspaceTries
<1>3. CASE Crash
  BY <1>3 DEF Crash, TriesInv, TriesEarned, Read, Idle, rows
<1>4. ASSUME NEW c \in Calls, Request(c) PROVE TriesInv'
  <2>1. UNCHANGED <<job, failures>> /\ \A d \in Slots : call'[d].pc \in Read => call'[d] = call[d]
    BY <1>4, RequestBegins DEF TypeInv, rows, Read, Reporting
  <2> QED
    BY <2>1 DEF TriesInv, TriesEarned
<1>5. ASSUME NEW c \in Slots, Step(c) PROVE TriesInv'
  BY <1>5, StepTries
<1>6. CASE \/ \E late \in SUBSET Jobs : Expire(late)
           \/ ExpireRequeue \/ WakeQuestions \/ WakeProposals
           \/ \E j \in Jobs : WakeIdle(j)
  BY <1>6, TimerTries
<1>7. Calls \subseteq Slots /\ Timer \in Slots
  BY DEF Slots
<1> QED
  BY <1>1, <1>2, <1>3, <1>4, <1>5, <1>6, <1>7 DEF Next, TimerStep

\* A thread is given up on only after three tries were counted against it, and
\* its attempts never run ahead of them, although finishThread writes back an
\* attempts it read three commands before.
THEOREM TriesAreEarned == Spec => []TriesEarned
<1>1. Init => TypeInv /\ TriesInv
  BY InitTypeInv, InitTries
<1>2. TypeInv /\ TriesInv /\ [Next]_vars => TypeInv' /\ TriesInv'
  BY TypeStep, TriesStep
<1>3. TriesInv => TriesEarned
  BY DEF TriesInv
<1> QED
  BY <1>1, <1>2, <1>3, PTL DEF Spec

--------------------------------------------------------------------------
(* No thread is handed out twice                                           *)

\* The timer reports nothing.
TimerQuiet == call[Timer].pc \notin Reporting

\* A turn of j is live, or its report has not landed.
TurnOf(t, j) == Live(t) /\ turn[t].job = j
ReportOf(c, j) == call[c].pc \in Reporting /\ call[c].job = j

\* A job whose lease never ended is at work at one place at most, and while it
\* is, nobody can claim it.
TurnsInv ==
    /\ TimerQuiet
    /\ \A j \in Jobs \ expired :
        /\ \A t, u \in Turns : TurnOf(t, j) /\ TurnOf(u, j) => t = u
        /\ \A c, d \in Slots : ReportOf(c, j) /\ ReportOf(d, j) => c = d
        /\ \A t \in Turns, c \in Slots : ~(TurnOf(t, j) /\ ReportOf(c, j))
        /\ (\E t \in Turns : TurnOf(t, j)) \/ (\E c \in Slots : ReportOf(c, j))
                => job[j].status \in {"running", "closed"}

LEMMA InitTurns == Init => TurnsInv
<1> SUFFICES ASSUME Init PROVE TurnsInv
  OBVIOUS
<1>1. \A c \in Slots : call[c].pc \notin Reporting
  BY DEF Init, Idle, Reporting
<1>2. \A t \in Turns : ~Live(t)
  BY DEF Init, Live, InClaim
<1> QED
  BY <1>1, <1>2 DEF TurnsInv, TimerQuiet, TurnOf, ReportOf, Slots

\* Most steps: no turn begins and no report is taken, and a job at work stays at
\* work unless its lease ends now or its last report lands.
TurnsFrame ==
    /\ expired \subseteq expired'
    /\ call'[Timer].pc \notin Reporting
    /\ \A t \in Turns : Live(t)' => Live(t) /\ turn'[t].job = turn[t].job
    /\ \A d \in Slots : call'[d].pc \in Reporting =>
          call[d].pc \in Reporting /\ call'[d].job = call[d].job
    /\ \A j \in Jobs \ expired' :
          \/ job[j].status \in {"running", "closed"} => job'[j].status \in {"running", "closed"}
          \/ /\ \A t \in Turns : ~TurnOf(t, j)'
             /\ \A c \in Slots : ~ReportOf(c, j)'

LEMMA TurnsFrameKeeps ==
    ASSUME TurnsInv, TurnsFrame
    PROVE  TurnsInv'
<1>1. ASSUME NEW j \in Jobs
      PROVE  /\ \A t \in Turns : TurnOf(t, j)' => TurnOf(t, j)
             /\ \A c \in Slots : ReportOf(c, j)' => ReportOf(c, j)
  BY DEF TurnsFrame, TurnOf, ReportOf
<1>2. Jobs \ expired' \subseteq Jobs \ expired
  BY DEF TurnsFrame
<1>3. ASSUME NEW j \in Jobs \ expired'
      PROVE  /\ \A t, u \in Turns : TurnOf(t, j)' /\ TurnOf(u, j)' => t = u
             /\ \A c, d \in Slots : ReportOf(c, j)' /\ ReportOf(d, j)' => c = d
             /\ \A t \in Turns, c \in Slots : ~(TurnOf(t, j)' /\ ReportOf(c, j)')
  BY <1>1, <1>2 DEF TurnsInv
<1>4. ASSUME NEW j \in Jobs \ expired',
             (\E t \in Turns : TurnOf(t, j)') \/ (\E c \in Slots : ReportOf(c, j)')
      PROVE  job'[j].status \in {"running", "closed"}
  <2>1. job[j].status \in {"running", "closed"}
    BY <1>1, <1>2, <1>4 DEF TurnsInv
  <2> QED
    BY <1>4, <2>1 DEF TurnsFrame
<1> QED
  BY <1>3, <1>4 DEF TurnsInv, TurnsFrame, TimerQuiet

LEMMA WorkspaceTurns ==
    ASSUME TypeInv, TurnsInv, Workspace
    PROVE  TurnsInv'
<1>0. /\ call' = call /\ expired' = expired /\ job \in [Jobs -> JobRow] /\ turn \in [Turns -> TurnRow]
  BY DEF Workspace, Claim, BriefRead, ClaimGone, Prompt, Release, LoseTurn, history, TypeInv, TypeOK
<1>1. ASSUME NEW k \in Jobs, NEW u \in Turns, Claim(k, u) PROVE TurnsInv'
  <2>1. /\ job[k].status = "pending" /\ job'[k].status = "running"
        /\ \A j \in Jobs \ {k} : job'[j] = job[j]
    BY <1>0, <1>1 DEF Claim, Claimable, JobRow
  <2>2. turn'[u].job = k /\ \A t \in Turns \ {u} : turn'[t] = turn[t]
    BY <1>0, <1>1 DEF Claim
  <2>3. ASSUME k \notin expired
        PROVE  (\A t \in Turns : ~TurnOf(t, k)) /\ (\A c \in Slots : ~ReportOf(c, k))
    BY <2>1, <2>3 DEF TurnsInv
  <2>4. ASSUME NEW j \in Jobs \ {k}, NEW t \in Turns, TurnOf(t, j)' PROVE TurnOf(t, j)
    BY <2>2, <2>4 DEF TurnOf, Live, InClaim
  <2>5. ASSUME NEW t \in Turns, k \notin expired, TurnOf(t, k)' PROVE t = u
    BY <2>2, <2>3, <2>5 DEF TurnOf, Live, InClaim
  <2>6. \A c \in Slots, j \in Jobs : ReportOf(c, j)' <=> ReportOf(c, j)
    BY <1>0 DEF ReportOf
  <2>7. ASSUME NEW j \in Jobs \ expired
        PROVE  /\ \A t, v \in Turns : TurnOf(t, j)' /\ TurnOf(v, j)' => t = v
               /\ \A c, d \in Slots : ReportOf(c, j)' /\ ReportOf(d, j)' => c = d
               /\ \A t \in Turns, c \in Slots : ~(TurnOf(t, j)' /\ ReportOf(c, j)')
               /\ (\E t \in Turns : TurnOf(t, j)') \/ (\E c \in Slots : ReportOf(c, j)')
                       => job'[j].status \in {"running", "closed"}
    <3>1. CASE j = k
      BY <2>1, <2>3, <2>5, <2>6, <2>7, <3>1
    <3>2. CASE j # k
      BY <2>1, <2>4, <2>6, <2>7, <3>2 DEF TurnsInv
    <3> QED
      BY <3>1, <3>2
  <2> QED
    BY <1>0, <2>7 DEF TurnsInv, TimerQuiet
<1>3. ASSUME NEW u \in Turns, BriefRead(u) \/ Prompt(u) \/ LoseTurn(u) PROVE TurnsInv'
  <2>1. job' = job /\ \A t \in Turns : Live(t)' => Live(t) /\ turn'[t].job = turn[t].job
    BY <1>0, <1>3 DEF BriefRead, Prompt, LoseTurn, rows, Live, InClaim, TurnRow
  <2> QED
    BY <1>0, <2>1, TurnsFrameKeeps DEF TurnsFrame, TurnsInv, TimerQuiet
<1>4. ASSUME NEW u \in Turns, Release(u) \/ ClaimGone(u) PROVE TurnsInv'
  <2>0. PICK k \in Jobs : k = turn[u].job
    BY TurnFields DEF TypeInv
  <2>1. /\ \A t \in Turns : Live(t)' => Live(t) /\ turn'[t].job = turn[t].job /\ t # u
        /\ \A j \in Jobs \ {k} : job'[j] = job[j]
    BY <1>0, <1>4, <2>0 DEF Release, ClaimGone, Live, InClaim, TurnRow
  <2>2. TurnOf(u, k)
    BY <1>4, <2>0 DEF Release, ClaimGone, TurnOf, Live, InClaim
  <2>3. ASSUME k \notin expired
        PROVE  (\A t \in Turns : ~TurnOf(t, k)') /\ (\A c \in Slots : ~ReportOf(c, k)')
    BY <1>0, <2>0, <2>1, <2>2, <2>3 DEF TurnsInv, TurnOf, ReportOf
  <2>4. TurnsFrame
    BY <1>0, <2>1, <2>3 DEF TurnsFrame, TurnsInv, TimerQuiet
  <2> QED
    BY <2>4, TurnsFrameKeeps
<1> QED
  BY <1>1, <1>3, <1>4 DEF Workspace

LEMMA RequestTurns ==
    ASSUME TypeInv, TurnsInv, NEW c \in Calls, Request(c)
    PROVE  TurnsInv'
<1>0. /\ c \in Slots /\ c # Timer /\ Timer \in Slots /\ call[c].pc \notin Reporting
      /\ job' = job /\ expired' = expired
      /\ \A d \in Slots \ {c} : call'[d] = call[d]
  BY RequestBegins, ThreadsAssumption DEF TypeInv, rows, Slots, Reporting
<1>1. CASE \E u \in Turns, o \in Outcomes : Report(u, o, c)
  <2>1. PICK u \in Turns, o \in Outcomes : Report(u, o, c)
    BY <1>1
  <2> DEFINE k == turn[u].job
  <2>2. k \in Jobs /\ TurnOf(u, k)
    BY <2>1, TurnFields DEF TypeInv, Report, TurnOf, Live, InClaim
  <2>3. /\ ~Live(u)'
        /\ \A t \in Turns \ {u} : turn'[t] = turn[t]
    BY <2>1 DEF Report, Live, InClaim, TypeInv, TypeOK, TurnRow
  <2>4. call'[c].job = k
    BY <1>0, <2>1 DEF Report, Begin, TypeInv, CallsOK, Idle
  <2>5. /\ \A t \in Turns, j \in Jobs : TurnOf(t, j)' => TurnOf(t, j) /\ t # u
        /\ \A d \in Slots, j \in Jobs : ReportOf(d, j)' => ReportOf(d, j) \/ (d = c /\ j = k)
    BY <1>0, <2>3, <2>4 DEF TurnOf, ReportOf, Live, InClaim
  <2>6. ASSUME NEW j \in Jobs \ expired
        PROVE  /\ \A t, v \in Turns : TurnOf(t, j)' /\ TurnOf(v, j)' => t = v
               /\ \A d, e \in Slots : ReportOf(d, j)' /\ ReportOf(e, j)' => d = e
               /\ \A t \in Turns, d \in Slots : ~(TurnOf(t, j)' /\ ReportOf(d, j)')
               /\ (\E t \in Turns : TurnOf(t, j)') \/ (\E d \in Slots : ReportOf(d, j)')
                       => job'[j].status \in {"running", "closed"}
    <3>1. CASE j = k
      BY <1>0, <2>2, <2>5, <2>6, <3>1 DEF TurnsInv
    <3>2. CASE j # k
      BY <1>0, <2>5, <2>6, <3>2 DEF TurnsInv
    <3> QED
      BY <3>1, <3>2
  <2> QED
    BY <1>0, <2>6 DEF TurnsInv, TimerQuiet
<1>2. CASE ~\E u \in Turns, o \in Outcomes : Report(u, o, c)
  <2>1. call'[c].pc \notin Reporting /\ turn' = turn
    BY <1>2, RequestBegins DEF TypeInv
  <2>2. TurnsFrame
    BY <1>0, <2>1 DEF TurnsFrame, TurnsInv, TimerQuiet, Live, InClaim
  <2> QED
    BY <2>2, TurnsFrameKeeps
<1> QED
  BY <1>1, <1>2

\* A call stays in the report it is in, or leaves it.
LEMMA StepReports ==
    ASSUME TypeInv, NEW c \in Slots, Step(c)
    PROVE  \A d \in Slots : call'[d].pc \in Reporting =>
              call[d].pc \in Reporting /\ call'[d].job = call[d].job
<1> SUFFICES ASSUME NEW d \in Slots, call'[d].pc \in Reporting
             PROVE  call[d].pc \in Reporting /\ call'[d].job = call[d].job
  OBVIOUS
<1>0. Moves(c) /\ call \in [Slots -> CallRec]
  BY StepMoves DEF TypeInv, CallsOK
<1>1. CASE d # c
  BY <1>0, <1>1 DEF Moves
<1>2. CASE d = c /\ FinishReadJob(c)
  BY <1>0, <1>2 DEF FinishReadJob, At, CallRec, Reporting
<1>3. CASE d = c /\ FinishCountQuestions(c)
  BY <1>0, <1>3 DEF FinishCountQuestions, At, CallRec, Reporting
<1>4. CASE d = c /\ FinishCountProposals(c)
  BY <1>0, <1>4 DEF FinishCountProposals, At, CallRec, Reporting
<1> QED
  BY <1>0, <1>1, <1>2, <1>3, <1>4 DEF Moves

LEMMA StepTurns ==
    ASSUME TypeInv, TurnsInv, NEW c \in Slots, Step(c)
    PROVE  TurnsInv'
<1>0. /\ call[c].job \in Jobs /\ job \in [Jobs -> JobRow] /\ Timer \in Slots
      /\ \A d \in Slots : call'[d].pc \in Reporting => call[d].pc \in Reporting /\ call'[d].job = call[d].job
  BY CallFields, StepReports DEF TypeInv, TypeOK, Slots
<1>1. call'[Timer].pc \notin Reporting
  BY <1>0 DEF TurnsInv, TimerQuiet
<1>2. CASE FinishOutage(c) \/ FinishWrite(c)
  <2>0. PICK k \in Jobs : k = call[c].job
    BY <1>0
  <2>1. /\ turn' = turn /\ expired' = expired
        /\ \A j \in Jobs \ {k} : job'[j] = job[j]
    BY <1>0, <1>2, <2>0 DEF FinishOutage, FinishWrite, history
  <2>2. ReportOf(c, k) /\ call'[c].pc \notin Reporting
    BY <1>2, <2>0, StepMoves DEF Step, FinishOutage, FinishWrite, At, ReportOf, Reporting, Moves, TypeInv,
                           FinishReadJob, FinishCountQuestions, FinishCountProposals
  <2>3. ASSUME k \notin expired
        PROVE  (\A t \in Turns : ~TurnOf(t, k)') /\ (\A d \in Slots : ~ReportOf(d, k)')
    BY <1>0, <2>1, <2>2, <2>3 DEF TurnsInv, TurnOf, ReportOf, Live, InClaim
  <2>4. TurnsFrame
    BY <1>0, <1>1, <2>1, <2>3 DEF TurnsFrame, Live, InClaim
  <2> QED
    BY <2>4, TurnsFrameKeeps
<1>3. CASE ~FinishOutage(c) /\ ~FinishWrite(c)
  <2>1. UNCHANGED <<turn, expired>> /\ \A j \in Jobs : Tame(j)
    BY <1>3, StepTame
  <2>2. TurnsFrame
    BY <1>0, <1>1, <2>1 DEF TurnsFrame, Live, InClaim, Tame
  <2> QED
    BY <2>2, TurnsFrameKeeps
<1> QED
  BY <1>2, <1>3

LEMMA TimerTurns ==
    ASSUME TypeInv, TurnsInv,
           \/ \E late \in SUBSET Jobs : Expire(late)
           \/ ExpireRequeue \/ WakeQuestions \/ WakeProposals
           \/ \E j \in Jobs : WakeIdle(j)
    PROVE  TurnsInv'
<1>0. /\ turn' = turn /\ call'[Timer].pc \notin Reporting
      /\ \A d \in Slots : call'[d].pc \in Reporting => call[d].pc \in Reporting /\ call'[d].job = call[d].job
  BY TimerMoves DEF TypeInv
<1>1. expired \subseteq expired' /\ \A j \in Jobs \ expired' : job'[j] = job[j]
  <2>1. CASE \E late \in SUBSET Jobs : Expire(late)
    BY <2>1 DEF Expire
  <2>2. CASE ExpireRequeue
    BY <2>2 DEF ExpireRequeue
  <2>3. CASE WakeQuestions \/ WakeProposals \/ \E j \in Jobs : WakeIdle(j)
    BY <2>3 DEF WakeQuestions, WakeProposals, WakeIdle, rows, history
  <2> QED
    BY <2>1, <2>2, <2>3
<1>2. TurnsFrame
  BY <1>0, <1>1 DEF TurnsFrame, Live, InClaim
<1> QED
  BY <1>2, TurnsFrameKeeps

LEMMA TurnsStep ==
    ASSUME TypeInv, TurnsInv, [Next]_vars
    PROVE  TurnsInv'
<1>1. CASE UNCHANGED vars
  BY <1>1, TurnsFrameKeeps DEF vars, TurnsFrame, TurnsInv, TimerQuiet, Live, InClaim
<1>2. CASE Workspace
  BY <1>2, WorkspaceTurns
<1>3. CASE Crash
  <2>1. \A c \in Slots : call'[c].pc \notin Reporting
    BY <1>3 DEF Crash, Idle, Reporting
  <2>2. \A t \in Turns : Live(t)' => Live(t) /\ turn'[t].job = turn[t].job
    BY <1>3, CrashTurns DEF Live, InClaim
  <2>3. expired' = expired /\ job' = job /\ Timer \in Slots
    BY <1>3 DEF Crash, rows, Slots
  <2> QED
    BY <2>1, <2>2, <2>3, TurnsFrameKeeps DEF TurnsFrame
<1>4. ASSUME NEW c \in Calls, Request(c) PROVE TurnsInv'
  BY <1>4, RequestTurns
<1>5. ASSUME NEW c \in Slots, Step(c) PROVE TurnsInv'
  BY <1>5, StepTurns
<1>6. CASE \/ \E late \in SUBSET Jobs : Expire(late)
           \/ ExpireRequeue \/ WakeQuestions \/ WakeProposals
           \/ \E j \in Jobs : WakeIdle(j)
  BY <1>6, TimerTurns
<1>7. Calls \subseteq Slots /\ Timer \in Slots
  BY DEF Slots
<1> QED
  BY <1>1, <1>2, <1>3, <1>4, <1>5, <1>6, <1>7 DEF Next, TimerStep

\* Two turns of one thread run at once only after expireLeases took the thread
\* from the first, for any number of turns, handlers, answers and restarts.
THEOREM OneTurn == Spec => []OneTurnUnlessExpired
<1>1. Init => TypeInv /\ TurnsInv
  BY InitTypeInv, InitTurns
<1>2. TypeInv /\ TurnsInv /\ [Next]_vars => TypeInv' /\ TurnsInv'
  BY TypeStep, TurnsStep
<1>3. TypeInv /\ TurnsInv => OneTurnUnlessExpired
  BY TurnFields DEF TypeInv, TurnsInv, OneTurnUnlessExpired, TurnOf
<1> QED
  BY <1>1, <1>2, <1>3, PTL DEF Spec

--------------------------------------------------------------------------
(* A closed worker stays closed, but for what was under way with it        *)

LEMMA ClosedStep ==
    ASSUME TypeInv, TurnsInv, Next, NEW j \in Jobs, job[j].status = "closed", job'[j].status # "closed"
    PROVE  \/ \E c \in Calls : call[c].job = j /\ (FinishWrite(c) \/ FinishOutage(c))
           \/ \E t \in Turns : turn[t].job = j /\ ClaimGone(t)
<1>0. job \in [Jobs -> JobRow]
  BY DEF TypeInv, TypeOK
<1>1. ASSUME NEW c \in Slots, Step(c)
      PROVE  c \in Calls /\ call[c].job = j /\ (FinishWrite(c) \/ FinishOutage(c))
  <2>1. FinishWrite(c) \/ FinishOutage(c)
    BY <1>1, StepTame DEF Tame
  <2>2. call[c].job = j
    BY <1>0, <2>1 DEF FinishWrite, FinishOutage
  <2>3. c # Timer
    BY <2>1 DEF TurnsInv, TimerQuiet, Reporting, FinishWrite, FinishOutage, At
  <2> QED
    BY <2>1, <2>2, <2>3 DEF Slots
<1>2. CASE Workspace
  <2>1. ASSUME NEW k \in Jobs, job[k].status # "closed", \A i \in Jobs \ {k} : job'[i] = job[i] PROVE FALSE
    BY <2>1
  <2>2. ASSUME NEW k \in Jobs, NEW t \in Turns, Claim(k, t) PROVE FALSE
    BY <1>0, <2>1, <2>2 DEF Claim, Claimable
  <2>3. ASSUME NEW t \in Turns, ClaimGone(t) PROVE turn[t].job = j
    BY <1>0, <2>3 DEF ClaimGone
  <2>4. ASSUME NEW t \in Turns, Release(t) PROVE FALSE
    <3>1. turn[t].job \in Jobs
      BY TurnFields DEF TypeInv
    <3> QED
      BY <1>0, <2>1, <2>4, <3>1 DEF Release
  <2>5. ASSUME NEW t \in Turns, BriefRead(t) \/ Prompt(t) \/ LoseTurn(t) PROVE FALSE
    BY <2>5 DEF BriefRead, Prompt, LoseTurn, rows
  <2> QED
    BY <1>2, <2>2, <2>3, <2>4, <2>5 DEF Workspace
<1>3. ~Crash /\ \A c \in Calls : ~Request(c)
  BY RequestBegins DEF Crash, rows, TypeInv
<1>4. CASE \/ \E late \in SUBSET Jobs : Expire(late)
           \/ ExpireRequeue \/ WakeQuestions \/ WakeProposals
           \/ \E k \in Jobs : WakeIdle(k)
  BY <1>4 DEF Expire, ExpireRequeue, Lapsed, WakeQuestions, WakeProposals, WakeIdle, rows
<1>5. Calls \subseteq Slots /\ Timer \in Slots
  BY DEF Slots
<1> QED
  BY <1>1, <1>2, <1>3, <1>4, <1>5 DEF Next, TimerStep

\* No answer, decision, wake, release, lease or restart brings back a worker the
\* master closed: only the report of a turn of it does, or a claim of it that finds
\* its entry gone.
THEOREM NotRevived == Spec => ClosedStaysClosedButForTurns
<1>1. Init => TypeInv /\ TurnsInv
  BY InitTypeInv, InitTurns
<1>2. TypeInv /\ TurnsInv /\ [Next]_vars => TypeInv' /\ TurnsInv'
  BY TypeStep, TurnsStep
<1>3. TypeInv /\ TurnsInv /\ [Next]_vars =>
        [\A j \in Jobs :
            (job[j].status = "closed" /\ job'[j].status # "closed") =>
                \/ \E c \in Calls : call[c].job = j /\ (FinishWrite(c) \/ FinishOutage(c))
                \/ \E t \in Turns : turn[t].job = j /\ ClaimGone(t)]_vars
  BY ClosedStep
<1> QED
  BY <1>1, <1>2, <1>3, PTL DEF Spec, ClosedStaysClosedButForTurns

--------------------------------------------------------------------------
(* Every step is a step of ThreadQueue, or none                            *)

\* The place of a row that changed its status, and of no other.
LEMMA PlacesSet ==
    ASSUME NEW k \in Jobs, \A j \in Jobs \ {k} : job'[j].status = job[j].status
    PROVE  Places' = [Places EXCEPT ![k] = PlaceOf(job'[k].status)]
BY DEF Places

LEMMA PlacesSame ==
    ASSUME \A j \in Jobs : job'[j].status = job[j].status
    PROVE  Places' = Places
BY DEF Places

LEMMA PlaceValues ==
    /\ PlaceOf("pending") = "queued" /\ PlaceOf("running") = "held"
    /\ PlaceOf("waiting") = "idle" /\ PlaceOf("done") = "idle"
    /\ PlaceOf("failed") = "failed" /\ PlaceOf("closed") = "closed"
BY DEF PlaceOf

\* A held thread is one whose job is running.
LEMMA PlaceHeld ==
    ASSUME NEW s \in Statuses
    PROVE  /\ PlaceOf(s) = "held" <=> s = "running"
           /\ PlaceOf(s) = "queued" <=> s = "pending"
BY DEF PlaceOf, Statuses

LEMMA LeasedSame ==
    ASSUME turn' = turn
    PROVE  Leased' = Leased
BY DEF Leased, Live, InClaim

\* A live turn ends.
LEMMA LeasedEnds ==
    ASSUME TypeInv, NEW t \in Turns, Live(t), ~Live(t)', \A u \in Turns \ {t} : turn'[u] = turn[u]
    PROVE  /\ Leased[t] = turn[t].job /\ Leased[t] \in Jobs /\ Leased[t] # None
           /\ Leased' = [Leased EXCEPT ![t] = None]
<1>1. turn[t].job \in Jobs
  BY TurnFields DEF TypeInv
<1>2. Leased' = [Leased EXCEPT ![t] = None]
  BY DEF Leased, Live, InClaim
<1> QED
  BY <1>1, <1>2, ThreadsAssumption DEF Leased

\* The reports of a job in flight are finitely many handlers.
LEMMA ReportsFinite ==
    ASSUME NEW j \in Jobs
    PROVE  IsFiniteSet(ReportsOf(j)) /\ Cardinality(ReportsOf(j)) \in Nat
<1>1. IsFiniteSet(Slots)
  BY FS_AddElement, ThreadsAssumption DEF Slots
<1> QED
  BY <1>1, FS_Subset, FS_CardinalityType DEF ReportsOf

LEMMA ReportsSame ==
    ASSUME \A c \in Slots, j \in Jobs : ReportOf(c, j)' <=> ReportOf(c, j)
    PROVE  Reports' = Reports
<1>1. \A j \in Jobs : ReportsOf(j)' = ReportsOf(j)
  BY DEF ReportsOf, ReportOf
<1> QED
  BY <1>1 DEF Reports

\* One more handler has taken a report.
LEMMA ReportsMore ==
    ASSUME NEW k \in Jobs, NEW c \in Slots, ~ReportOf(c, k),
           \A d \in Slots, j \in Jobs : ReportOf(d, j)' <=> ReportOf(d, j) \/ (d = c /\ j = k)
    PROVE  Reports' = [Reports EXCEPT ![k] = @ + 1]
<1>1. /\ ReportsOf(k)' = ReportsOf(k) \cup {c} /\ c \notin ReportsOf(k)
      /\ \A j \in Jobs \ {k} : ReportsOf(j)' = ReportsOf(j)
  BY DEF ReportsOf, ReportOf
<1>2. Cardinality(ReportsOf(k)') = Cardinality(ReportsOf(k)) + 1
  BY <1>1, ReportsFinite, FS_AddElement
<1> QED
  BY <1>1, <1>2 DEF Reports

\* A handler's report has landed.
LEMMA ReportsFewer ==
    ASSUME NEW k \in Jobs, NEW c \in Slots, ReportOf(c, k),
           \A d \in Slots, j \in Jobs : ReportOf(d, j)' <=> ReportOf(d, j) /\ d # c
    PROVE  Queue!Fewer(k)
<1>1. /\ ReportsOf(k)' = ReportsOf(k) \ {c} /\ c \in ReportsOf(k)
      /\ \A j \in Jobs \ {k} : ReportsOf(j)' = ReportsOf(j)
  BY DEF ReportsOf, ReportOf
<1>2. Cardinality(ReportsOf(k)') = Cardinality(ReportsOf(k)) - 1 /\ Cardinality(ReportsOf(k)) > 0
  BY <1>1, ReportsFinite, FS_RemoveElement, FS_EmptySet
<1> QED
  BY <1>1, <1>2 DEF Reports, Queue!Fewer

LEMMA InitQueue == Init => Queue!Init
<1> SUFFICES ASSUME Init PROVE Queue!Init
  OBVIOUS
<1>1. Places = [j \in Jobs |-> "queued"]
  BY PlaceValues DEF Init, Places, NewJob
<1>2. Leased = [t \in Turns |-> None]
  BY DEF Init, Leased, Live, InClaim
<1>3. \A j \in Jobs : ReportsOf(j) = {}
  BY DEF Init, ReportsOf, Reporting, Idle
<1>4. Reports = [j \in Jobs |-> 0]
  BY <1>3, FS_EmptySet DEF Reports
<1> QED
  BY <1>1, <1>2, <1>4 DEF Init, Queue!Init

\* What a step does that ThreadQueue does not see.
Unseen == UNCHANGED <<Places, Leased, Reports, failures>>

LEMMA WorkspaceQueue ==
    ASSUME TypeInv, Workspace
    PROVE  Queue!Next \/ Unseen
<1>0. /\ job \in [Jobs -> JobRow] /\ turn \in [Turns -> TurnRow]
      /\ call' = call /\ failures' = failures
  BY DEF TypeInv, TypeOK, Workspace, Claim, BriefRead, ClaimGone, Prompt, Release, LoseTurn, history
<1>1. Reports' = Reports
  BY <1>0, ReportsSame DEF ReportOf
<1>2. ASSUME NEW j \in Jobs, NEW t \in Turns, Claim(j, t) PROVE Queue!Take(j, t)
  <2>1. /\ job[j].status = "pending" /\ job'[j].status = "running"
        /\ \A k \in Jobs \ {j} : job'[k] = job[k]
    BY <1>0, <1>2 DEF Claim, Claimable, JobRow
  <2>2. Places' = [Places EXCEPT ![j] = "held"] /\ Places[j] = "queued"
    BY <2>1, PlacesSet, PlaceValues DEF Places
  <2>3. ~Live(t) /\ turn' = [turn EXCEPT ![t] = [stage |-> "claimed", job |-> j, message |-> job[j].resume]]
    BY <1>2 DEF Claim, Live, InClaim
  <2>4. Leased' = [Leased EXCEPT ![t] = j] /\ Leased[t] = None
    BY <1>0, <2>3 DEF Leased, Live, InClaim
  <2> QED
    BY <1>0, <1>1, <2>2, <2>4 DEF Queue!Take
<1>4. ASSUME NEW t \in Turns, BriefRead(t) \/ Prompt(t) PROVE Unseen
  <2>1. Leased' = Leased
    BY <1>0, <1>4 DEF BriefRead, Prompt, Leased, Live, InClaim, TurnRow
  <2> QED
    BY <1>0, <1>1, <1>4, <2>1, PlacesSame DEF BriefRead, Prompt, rows, Unseen
<1>5. ASSUME NEW t \in Turns, ClaimGone(t) \/ Release(t) \/ LoseTurn(t)
      PROVE  /\ Leased[t] = turn[t].job /\ Leased[t] \in Jobs /\ Leased[t] # None
             /\ Leased' = [Leased EXCEPT ![t] = None]
  <2>1. Live(t) /\ ~Live(t)' /\ \A u \in Turns \ {t} : turn'[u] = turn[u]
    BY <1>0, <1>5 DEF ClaimGone, Release, LoseTurn, Live, InClaim, TurnRow
  <2> QED
    BY <2>1, LeasedEnds
<1>3. ASSUME NEW t \in Turns, ClaimGone(t) PROVE Queue!Skip(t)
  <2> DEFINE j == Leased[t]
  <2>1. j \in Jobs /\ j = turn[t].job
    BY <1>5, <1>3
  <2>2. job'[j].status = "done" /\ \A k \in Jobs \ {j} : job'[k] = job[k]
    BY <1>0, <1>3, <2>1 DEF ClaimGone, JobRow
  <2>3. Places' = [Places EXCEPT ![j] = "idle"]
    BY <2>1, <2>2, PlacesSet, PlaceValues
  <2> QED
    BY <1>0, <1>1, <1>5, <1>3, <2>3 DEF Queue!Skip
<1>6. ASSUME NEW t \in Turns, Release(t) PROVE Queue!GiveBack(t)
  <2> DEFINE j == Leased[t]
  <2>1. j \in Jobs /\ j = turn[t].job
    BY <1>5, <1>6
  <2>2. Places' = [Places EXCEPT ![j] = IF @ = "held" THEN "queued" ELSE @]
    <3>1. CASE job[j].status = "running"
      <4>1. job'[j].status = "pending" /\ \A k \in Jobs \ {j} : job'[k] = job[k]
        BY <1>0, <1>6, <2>1, <3>1 DEF Release, JobRow
      <4>2. \A k \in Jobs : Places'[k] = IF k = j THEN "queued" ELSE Places[k]
        BY <4>1, PlaceValues DEF Places
      <4> QED
        BY <2>1, <3>1, <4>2, PlaceValues DEF Places
    <3>2. CASE job[j].status # "running"
      <4>1. Places' = Places
        BY <1>6, <2>1, <3>2 DEF Release, Places
      <4>2. Places[j] # "held"
        BY <1>0, <2>1, <3>2, PlaceHeld DEF Places, JobRow
      <4> QED
        BY <4>1, <4>2 DEF Places
    <3> QED
      BY <3>1, <3>2
  <2> QED
    BY <1>0, <1>1, <1>5, <1>6, <2>2 DEF Queue!GiveBack
<1>7. ASSUME NEW t \in Turns, LoseTurn(t) PROVE Queue!Lose(t)
  BY <1>0, <1>1, <1>5, <1>7, PlacesSame DEF LoseTurn, rows, Queue!Lose
<1> QED
  BY <1>2, <1>3, <1>4, <1>6, <1>7 DEF Workspace, Queue!Next

LEMMA RequestQueue ==
    ASSUME TypeInv, NEW c \in Calls, Request(c)
    PROVE  Queue!Next \/ Unseen
<1>0. /\ c \in Slots /\ call[c].pc \notin Reporting
      /\ job' = job /\ failures' = failures
      /\ \A d \in Slots \ {c} : call'[d] = call[d]
  BY RequestBegins DEF TypeInv, rows, Reporting
<1>1. CASE \E t \in Turns, o \in Outcomes : Report(t, o, c)
  <2>1. PICK t \in Turns, o \in Outcomes : Report(t, o, c)
    BY <1>1
  <2>2. Live(t) /\ ~Live(t)' /\ \A u \in Turns \ {t} : turn'[u] = turn[u]
    BY <2>1 DEF Report, Live, InClaim, TypeInv, TypeOK, TurnRow
  <2>3. PICK k \in Jobs : /\ k = turn[t].job /\ Leased[t] = k /\ Leased[t] # None
                          /\ Leased' = [Leased EXCEPT ![t] = None]
    BY <2>2, LeasedEnds
  <2>4. call'[c].pc = "finishJob" /\ call'[c].job = k
    BY <1>0, <2>1, <2>3 DEF Report, Begin, TypeInv, CallsOK, Idle
  <2>5. /\ ~ReportOf(c, k)
        /\ \A d \in Slots, j \in Jobs : ReportOf(d, j)' <=> ReportOf(d, j) \/ (d = c /\ j = k)
    BY <1>0, <2>4 DEF ReportOf, Reporting
  <2>6. Reports' = [Reports EXCEPT ![k] = @ + 1]
    BY <1>0, <2>5, ReportsMore
  <2>7. Queue!Report(t)
    BY <1>0, <2>3, <2>6, PlacesSame DEF Queue!Report
  <2> QED
    BY <2>7 DEF Queue!Next
<1>2. CASE ~\E t \in Turns, o \in Outcomes : Report(t, o, c)
  <2>1. call'[c].pc \notin Reporting /\ turn' = turn
    BY <1>2, RequestBegins DEF TypeInv
  <2>2. Reports' = Reports
    BY <1>0, <2>1, ReportsSame DEF ReportOf
  <2> QED
    BY <1>0, <2>1, <2>2, PlacesSame, LeasedSame DEF Unseen
<1> QED
  BY <1>1, <1>2

LEMMA FinishQueue ==
    ASSUME TypeInv, TriesInv, NEW c \in Slots, FinishOutage(c) \/ FinishWrite(c)
    PROVE  Queue!Next
<1>0. PICK k \in Jobs : k = call[c].job
  BY CallFields DEF TypeInv
<1>1. /\ job \in [Jobs -> JobRow] /\ failures \in [Jobs -> Nat] /\ turn' = turn
      /\ call[c] \in CallRec /\ call[c].row.attempts \in Nat /\ failures[k] \in Nat
  BY <1>0, CallFields, JobFields DEF TypeInv, TypeOK, JobRow, FinishOutage, FinishWrite, history
<1>2. Leased' = Leased
  BY <1>1, LeasedSame
<1>3. ReportOf(c, k) /\ call'[c].pc \notin Reporting /\ \A d \in Slots \ {c} : call'[d] = call[d]
  BY <1>0, StepMoves DEF TypeInv, Step, FinishOutage, FinishWrite, At, ReportOf, Reporting, Moves,
                         FinishReadJob, FinishCountQuestions, FinishCountProposals
<1>4. \A d \in Slots, j \in Jobs : ReportOf(d, j)' <=> ReportOf(d, j) /\ d # c
  BY <1>3 DEF ReportOf
<1>5. Queue!Fewer(k)
  BY <1>3, <1>4, ReportsFewer
<1>6. CASE FinishOutage(c)
  <2>1. job'[k].status = "pending" /\ \A j \in Jobs \ {k} : job'[j] = job[j]
    BY <1>0, <1>1, <1>6, CallFields DEF FinishOutage, TypeInv, JobRow
  <2>2. Places' = [Places EXCEPT ![k] = "queued"]
    BY <2>1, PlacesSet, PlaceValues
  <2>3. Queue!LandDone(k)
    BY <1>2, <1>5, <1>6, <2>2 DEF FinishOutage, history, Queue!LandDone
  <2> QED
    BY <2>3 DEF Queue!Next
<1>7. CASE FinishWrite(c)
  <2> DEFINE status == FinishedRow(c).status
  <2>1. job' = [job EXCEPT ![k] = FinishedRow(c)]
    BY <1>0, <1>7 DEF FinishWrite
  <2>2. Places' = [Places EXCEPT ![k] = PlaceOf(status)]
    BY <1>1, <2>1, PlacesSet
  <2>3. CASE call[c].outcome = "done"
    <3>1. status \in {"pending", "waiting", "done"}
      BY <2>3 DEF FinishedRow
    <3>2. PlaceOf(status) \in {"queued", "idle"}
      BY <3>1, PlaceValues
    <3>3. failures' = failures
      BY <1>0, <1>1, <1>7, <2>3 DEF FinishWrite
    <3>4. Queue!LandDone(k)
      BY <1>2, <1>5, <2>2, <3>2, <3>3 DEF Queue!LandDone
    <3> QED
      BY <3>4 DEF Queue!Next
  <2>4. CASE call[c].outcome # "done"
    <3>1. /\ Tries(c) = call[c].row.attempts + 1 /\ call[c].row.attempts <= failures[k]
      BY <1>0, <1>7, <2>4 DEF Tries, FinishWrite, At, TriesInv, Read
    <3>2. status = "pending" \/ (status = "failed" /\ failures[k] + 1 >= 3)
      <4>1. Tries(c) \in Nat
        BY <1>1, <3>1
      <4>2. status = "pending" \/ (status = "failed" /\ Tries(c) >= 3)
        BY <2>4, <4>1 DEF FinishedRow
      <4> QED
        BY <1>1, <3>1, <4>2
    <3>3. failures' = [failures EXCEPT ![k] = @ + 1]
      BY <1>0, <1>7, <2>4 DEF FinishWrite
    <3>4. Queue!LandFailed(k)
      BY <1>2, <1>5, <2>2, <3>2, <3>3, PlaceValues DEF Queue!LandFailed
    <3> QED
      BY <3>4 DEF Queue!Next
  <2> QED
    BY <2>3, <2>4
<1> QED
  BY <1>6, <1>7

LEMMA OtherStepQueue ==
    ASSUME TypeInv, NEW c \in Slots, Step(c), ~FinishOutage(c), ~FinishWrite(c)
    PROVE  Queue!Next \/ Unseen
<1>0. PICK k \in Jobs : k = call[c].job
  BY CallFields DEF TypeInv
<1>1. /\ job \in [Jobs -> JobRow] /\ call \in [Slots -> CallRec] /\ turn' = turn /\ failures' = failures
      /\ call[c].row \in JobRow /\ job[k].status \in Statuses
  BY CallFields, StepTame, JobFields DEF TypeInv, TypeOK
<1>2. Reports' = Reports
  <2>1. ASSUME call[c].pc \in Reporting
        PROVE  call'[c].pc \in Reporting /\ call'[c].job = call[c].job
    <3>1. FinishReadJob(c) \/ FinishCountQuestions(c) \/ FinishCountProposals(c)
      BY <2>1 DEF Step, At, Reporting, FinishSignal, AssertNoQuestions, AssertNotWaiting, AskLimit,
           AskInsert, QueueWrite, ResumeRead, ResumeWrite, CloseJob, ReadQuestions, ReadProposals,
           CheckQuestion, WriteQuestion, CountLeft, EndWait, ClaimProposal, ExecuteProposal,
           SettleProposal, RejectProposal
    <3> QED
      BY <1>1, <3>1 DEF FinishReadJob, FinishCountQuestions, FinishCountProposals, CallRec, Reporting
  <2>2. \A d \in Slots \ {c} : call'[d] = call[d]
    BY StepMoves DEF TypeInv, Moves
  <2>3. \A d \in Slots, j \in Jobs : ReportOf(d, j)' <=> ReportOf(d, j)
    BY <2>1, <2>2, StepReports DEF ReportOf
  <2> QED
    BY <2>3, ReportsSame
<1>3. Leased' = Leased
  BY <1>1, LeasedSame
<1>4. CASE ResumeWrite(c)
  <2> DEFINE m == Message(call[c])  row == call[c].row
             payload == [row EXCEPT !.status = job[k].status, !.attempts = job[k].attempts]
             queued == [payload EXCEPT !.next = Append5(@, m)]
             woken == [payload EXCEPT !.resume = m, !.status = "pending"]
  <2>1. queued.status = job[k].status /\ woken.status = "pending"
    BY <1>1 DEF JobRow
  <2>2. \/ job' = [job EXCEPT ![k] = queued] \/ job' = job
        \/ Wakeable(k) /\ job' = [job EXCEPT ![k] = woken]
    BY <1>0, <1>1, <1>4 DEF ResumeWrite
  <2> HIDE DEF queued, woken
  <2>3. CASE job' = [job EXCEPT ![k] = queued] \/ job' = job
    BY <1>1, <1>2, <1>3, <2>1, <2>3, PlacesSame DEF Unseen
  <2>4. CASE Wakeable(k) /\ job' = [job EXCEPT ![k] = woken]
    <3>1. Places' = [Places EXCEPT ![k] = "queued"] /\ Places[k] = "idle"
      BY <1>1, <2>1, <2>4, PlacesSet, PlaceValues DEF Wakeable, Places
    <3>2. Queue!Wake(k)
      BY <1>1, <1>2, <1>3, <3>1 DEF Queue!Wake
    <3> QED
      BY <3>2 DEF Queue!Next
  <2> QED
    BY <2>2, <2>3, <2>4
<1>5. CASE CloseJob(c)
  <2>1. job'[k].status = "closed" /\ \A j \in Jobs \ {k} : job'[j] = job[j]
    BY <1>0, <1>1, <1>5 DEF CloseJob, JobRow
  <2>2. Queue!Close(k)
    BY <1>1, <1>2, <1>3, <2>1, PlacesSet, PlaceValues DEF Queue!Close
  <2> QED
    BY <2>2 DEF Queue!Next
<1>6. CASE EndWait(c)
  <2>1. /\ job'[k].status = IF job[k].status = "waiting" THEN "done" ELSE job[k].status
        /\ \A j \in Jobs \ {k} : job'[j] = job[j]
    BY <1>0, <1>1, <1>6 DEF EndWait, JobRow
  <2>2. PlaceOf(job'[k].status) = PlaceOf(job[k].status)
    BY <2>1, PlaceValues
  <2>3. Places' = Places
    BY <2>1, <2>2 DEF Places
  <2> QED
    BY <1>1, <1>2, <1>3, <2>3 DEF Unseen
<1>7. CASE ~ResumeWrite(c) /\ ~CloseJob(c) /\ ~EndWait(c)
  <2>1. job' = job
    BY <1>7 DEF Step, FinishReadJob, FinishCountQuestions, FinishCountProposals, FinishSignal,
         AssertNoQuestions, AssertNotWaiting, AskLimit, AskInsert, QueueWrite, ResumeRead,
         ReadQuestions, ReadProposals, CheckQuestion, WriteQuestion, CountLeft,
         ClaimProposal, ExecuteProposal, SettleProposal, RejectProposal, rows
  <2> QED
    BY <1>1, <1>2, <1>3, <2>1, PlacesSame DEF Unseen
<1> QED
  BY <1>4, <1>5, <1>6, <1>7

LEMMA TimerQueue ==
    ASSUME TypeInv, TriesInv, TurnsInv,
           \/ \E late \in SUBSET Jobs : Expire(late)
           \/ ExpireRequeue \/ WakeQuestions \/ WakeProposals
           \/ \E j \in Jobs : WakeIdle(j)
    PROVE  Queue!Next \/ Unseen
<1>0. /\ \A d \in Slots \ {Timer} : call'[d] = call[d]
      /\ call'[Timer].pc \notin Reporting /\ call[Timer].pc \notin Reporting
      /\ Leased' = Leased
  BY TimerMoves, LeasedSame DEF TypeInv, TurnsInv, TimerQuiet
<1>1. Reports' = Reports
  BY <1>0, ReportsSame DEF ReportOf
<1>2. ASSUME NEW j \in Jobs
      PROVE  /\ job[j] \in JobRow /\ job[j].attempts \in Nat /\ failures[j] \in Nat
             /\ job[j].attempts <= failures[j]
  BY JobFields DEF TypeInv, TriesInv, TriesEarned
<1>3. CASE \E late \in SUBSET Jobs : Expire(late)
  <2>1. PICK late \in SUBSET Jobs : Expire(late)
    BY <1>3
  <2>2. PICK last \in SUBSET Jobs : last = {j \in late : job[j].attempts >= 2}
    OBVIOUS
  <2>3. \A j \in last : Places[j] = "held"
    BY <2>1, <2>2, PlaceValues DEF Expire, Places
  <2>4. \A j \in last : failures[j] + 1 >= 3
    <3> SUFFICES ASSUME NEW j \in last PROVE failures[j] + 1 >= 3
      OBVIOUS
    <3>1. job[j].attempts >= 2
      BY <2>2
    <3> QED
      BY <1>2, <3>1
  <2>5. Places' = [j \in Jobs |-> IF j \in last THEN "failed" ELSE Places[j]]
    <3>1. \A j \in Jobs : job'[j].status = IF j \in last THEN "failed" ELSE job[j].status
      BY <1>2, <2>1, <2>2 DEF Expire, JobRow
    <3> QED
      BY <3>1, PlaceValues DEF Places
  <2>6. failures' = [j \in Jobs |-> IF j \in last THEN failures[j] + 1 ELSE failures[j]]
    BY <2>1, <2>2 DEF Expire
  <2>7. Queue!Expire(last)
    BY <1>0, <1>1, <2>3, <2>4, <2>5, <2>6 DEF Queue!Expire
  <2> QED
    BY <2>7 DEF Queue!Next
<1>4. CASE ExpireRequeue
  <2>1. PICK late \in SUBSET Jobs : late = {j \in Jobs : Lapsed(j)}
    OBVIOUS
  <2>2. \A j \in late : Places[j] = "held"
    BY <2>1, PlaceValues DEF Lapsed, Places
  <2>3. Places' = [j \in Jobs |-> IF j \in late THEN "queued" ELSE Places[j]]
    <3>1. \A j \in Jobs : job'[j].status = IF j \in late THEN "pending" ELSE job[j].status
      BY <1>2, <1>4, <2>1 DEF ExpireRequeue, Requeued, JobRow
    <3> QED
      BY <3>1, PlaceValues DEF Places
  <2>4. failures' = [j \in Jobs |-> IF j \in late THEN failures[j] + 1 ELSE failures[j]]
    BY <1>4, <2>1 DEF ExpireRequeue
  <2>5. Queue!Expire(late)
    BY <1>0, <1>1, <2>2, <2>3, <2>4 DEF Queue!Expire
  <2> QED
    BY <2>5 DEF Queue!Next
<1>5. CASE WakeQuestions \/ WakeProposals \/ \E j \in Jobs : WakeIdle(j)
  <2>1. UNCHANGED <<job, failures>>
    BY <1>5 DEF WakeQuestions, WakeProposals, WakeIdle, rows, history
  <2> QED
    BY <1>0, <1>1, <2>1, PlacesSame DEF Unseen
<1> QED
  BY <1>3, <1>4, <1>5

LEMMA QueueStep ==
    ASSUME TypeInv, TriesInv, TurnsInv, [Next]_vars
    PROVE  [Queue!Next]_Queue!vars
<1>0. SUFFICES Queue!Next \/ Unseen
  BY DEF Unseen, Queue!vars
<1>1. CASE UNCHANGED vars
  BY <1>1, PlacesSame, LeasedSame, ReportsSame DEF vars, Unseen, ReportOf
<1>2. CASE Workspace
  BY <1>2, WorkspaceQueue
<1>3. CASE Crash
  <2>1. \A j \in Jobs : ReportsOf(j)' = {}
    BY <1>3 DEF Crash, ReportsOf, Reporting, Idle
  <2>2. Reports' = [j \in Jobs |-> 0]
    BY <2>1, FS_EmptySet DEF Reports
  <2>3. PICK ts \in SUBSET Turns : ts = {t \in Turns : turn[t].stage \in InClaim}
    OBVIOUS
  <2>4. Leased' = [t \in Turns |-> IF t \in ts THEN None ELSE Leased[t]]
    BY <1>3, <2>3, CrashTurns DEF Leased, Live, InClaim
  <2>5. Places' = Places /\ failures' = failures
    BY <1>3, PlacesSame DEF Crash, rows
  <2>6. Queue!Restart
    BY <2>2, <2>4, <2>5 DEF Queue!Restart
  <2> QED
    BY <2>6 DEF Queue!Next
<1>4. ASSUME NEW c \in Calls, Request(c) PROVE Queue!Next \/ Unseen
  BY <1>4, RequestQueue
<1>5. ASSUME NEW c \in Slots, Step(c) PROVE Queue!Next \/ Unseen
  BY <1>5, FinishQueue, OtherStepQueue
<1>6. CASE \/ \E late \in SUBSET Jobs : Expire(late)
           \/ ExpireRequeue \/ WakeQuestions \/ WakeProposals
           \/ \E j \in Jobs : WakeIdle(j)
  BY <1>6, TimerQueue
<1>7. Calls \subseteq Slots /\ Timer \in Slots
  BY DEF Slots
<1> QED
  BY <1>1, <1>2, <1>3, <1>4, <1>5, <1>6, <1>7 DEF Next, TimerStep

\* graph-rag's rows and handlers implement the queue's promise: a thread is handed
\* out on a lease only while it is queued, a lease ends once, each report lands
\* once however late, and only three counted tries fail a thread.
THEOREM QueueKeepsPromise == Spec => QueuePromise
<1>1. Init => TypeInv /\ TriesInv /\ TurnsInv /\ Queue!Init
  BY InitTypeInv, InitTries, InitTurns, InitQueue
<1>2. TypeInv /\ TriesInv /\ TurnsInv /\ [Next]_vars =>
          TypeInv' /\ TriesInv' /\ TurnsInv' /\ [Queue!Next]_Queue!vars
  BY TypeStep, TriesStep, TurnsStep, QueueStep
<1> QED
  BY <1>1, <1>2, PTL DEF Spec, QueuePromise, Queue!Spec

====
