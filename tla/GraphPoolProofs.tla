---- MODULE GraphPoolProofs ----
(***************************************************************************)
(* Proofs about GraphPool: types, what becomes of a saved entry, what the   *)
(* master was shown, the limits, and whose agents the pool stops.           *)
(***************************************************************************)
EXTENDS GraphPool, FiniteSetTheorems, WellFoundedInduction, TLAPS

--------------------------------------------------------------------------
(* Types                                                                   *)

\* What a call's step needs to know of what it carries.
CallsCarry == \A c \in Calls : call[c].pc \in {"resume", "close", "signal"} => call[c].handler \in Handlers

\* What a step needs to know of what a run, a call or the starter carries.
CarriesOK ==
    /\ quota \in Quota
    /\ \A r \in Runs : run[r].pc # "none" => run[r].job \in Jobs
    /\ \A p \in Passes : pass[p].pc = "lookUp" => pass[p].rows # {}
    /\ CallsCarry
    /\ starter.pc \in {"start", "starting", "prompt", "settle", "waiting", "release"} => starter.handler \in Handlers

TypeInv == TypeOK /\ CarriesOK

\* The agents are finitely many, and so are those that run.
LEMMA RunningFinite ==
  ASSUME running \subseteq Agents
  PROVE  IsFiniteSet(running) /\ Cardinality(running) \in Nat
  BY PoolAssumption, FS_Subset, FS_CardinalityType

\* What the room of a tick can be.
LEMMA RoomOK ==
  ASSUME TypeOK, CarriesOK, Room > 0
  PROVE  Room \in 0 .. MaxAgents
  <1>1. Cardinality(running) \in Nat BY RunningFinite DEF TypeOK
  <1>2. IsFiniteSet(active)
    <2>1. active \subseteq Agents BY DEF TypeOK, Agents
    <2> QED BY <2>1, PoolAssumption, FS_Subset
  <1>3. Cardinality(active) \in Nat BY <1>2, FS_CardinalityType
  <1>4. quota.size \in Nat BY DEF CarriesOK, Quota
  <1> QED BY <1>1, <1>3, <1>4, PoolAssumption DEF Room, Reserve

\* Spending keeps the quota's type.
LEMMA SpendOK ==
  ASSUME quota \in Quota,
         NEW what \in {"save", "delete", "lost", "fault", "open", "close", "expire", "crash",
                       "restart", "ask", "decide", "settle"},
         Spend(what)
  PROVE  /\ quota' \in Quota
         /\ quota'.size = quota.size /\ quota'.limited = quota.limited
         /\ quota'.workspace = quota.workspace
  BY DEF Spend, Quota

\* The steps of graph-rag's own that are seen in MasterInbox alone.
InboxAction ==
    \/ \E e \in Entries : Save(e) \/ Delete(e)
    \/ \E j \in Jobs, c \in Calls : StartHandler(j, c)
    \/ \E h \in Handlers, c \in Calls : Decide(h, c)
    \/ \E j \in Jobs : AnswerWorker(j) \/ CloseWorker(j)
    \/ InboxRestart
    \/ \E p \in Passes : PassFails(p) \/ PassMisses(p) \/ PassBegin(p) \/ PassStep(p)
    \/ \E c \in Calls : CallStep(c) \/ CountFails(c)

\* A signal fits the inbox.
LEMMA EmitOK ==
  ASSUME inbox \in Seq(Signal), NEW s \in Signal, Emit(s)
  PROVE  /\ inbox' \in Seq(Signal) /\ DOMAIN inbox \subseteq DOMAIN inbox'
         /\ Len(inbox') = Len(inbox) + 1
         /\ inbox'[Len(inbox) + 1] = s
         /\ \A i \in DOMAIN inbox : inbox'[i] = inbox[i]
         /\ DOMAIN inbox' = DOMAIN inbox \cup {Len(inbox) + 1}
         /\ DOMAIN inbox = 1 .. Len(inbox) /\ Len(inbox) \in Nat
  BY DEF Emit

\* A signal is one.
LEMMA NewSignalOK ==
  ASSUME NEW kind \in {"batch", "done", "stopped", "resolved"}, NEW entries \in SUBSET Entries,
         NEW j \in Jobs \cup {None}
  PROVE  NewSignal(kind, entries, j) \in Signal
  BY DEF NewSignal, Signal

\* A set of naturals that is not empty has a least one.
LEMMA LeastOf ==
  ASSUME NEW S \in SUBSET Nat, S # {}
  PROVE  \E n \in S : \A k \in S : n <= k
  <1>1. \E n \in S : \A k \in S : ~(<<k, n>> \in OpToRel(<, Nat))
    BY NatLessThanWellFounded, WFMin
  <1>2. \A k, n \in Nat : (<<k, n>> \in OpToRel(<, Nat)) <=> k < n
    BY Zenon DEF OpToRel
  <1>3. \E n \in S : \A k \in S : ~(k < n) BY <1>1, <1>2, Zenon
  <1> QED BY <1>3

\* The first of some entries is one of them.
FirstOf(S) == CHOOSE x \in S : \A y \in S : x <= y

LEMMA FirstIsOne ==
  ASSUME NEW S \in SUBSET Entries, S # {}
  PROVE  FirstOf(S) \in S
  <1>1. S \subseteq Nat BY InboxAssumption DEF Entries
  <1> QED BY <1>1, LeastOf DEF FirstOf

\* Whether the intake is halted is so or not.
LEMMA HaltedOK == Halted \in BOOLEAN
  BY DEF Halted

\* A pass moves to a state of its own.
LEMMA PassMoves ==
  ASSUME pass \in [Passes -> PassRec], NEW p \in Passes, NEW rec \in PassRec, PassTo(p, rec)
  PROVE  /\ pass' \in [Passes -> PassRec] /\ pass'[p] = rec
         /\ \A q \in Passes \ {p} : pass'[q] = pass[q]
  BY DEF PassTo

\* The states a pass goes through.
LEMMA PassRecs ==
  ASSUME NEW rec \in PassRec
  PROVE  /\ IdlePass \in PassRec
         /\ \A pc \in {"lookUp", "readRows", "take"} : [rec EXCEPT !.pc = pc] \in PassRec
         /\ \A b \in BOOLEAN : [IdlePass EXCEPT !.pc = "countIntake", !.halted = b] \in PassRec
         /\ \A S \in SUBSET Entries : /\ [rec EXCEPT !.pc = "lookUp", !.rows = S] \in PassRec
                                      /\ [rec EXCEPT !.taken = @ \ S] \in PassRec
  BY DEF PassRec, IdlePass

\* A pass of batchTick keeps the types of what it moves.
LEMMA PassTypes ==
  ASSUME InboxTypeOK, \A p \in Passes : pass[p].pc = "lookUp" => pass[p].rows # {},
         NEW p \in Passes, PassFails(p) \/ PassMisses(p) \/ PassBegin(p) \/ PassStep(p)
  PROVE  /\ InboxTypeOK' /\ DOMAIN inbox \subseteq DOMAIN inbox'
         /\ \A q \in Passes : pass'[q].pc = "lookUp" => pass'[q].rows # {}
  <1> DEFINE P == pass[p]
             Moved(rec) == rec \in PassRec /\ PassTo(p, rec) /\ (rec.pc = "lookUp" => rec.rows # {})
  <1>p. P \in PassRec BY DEF InboxTypeOK
  <1>i. IdlePass \in PassRec /\ IdlePass.pc # "lookUp" BY DEF PassRec, IdlePass
  <1>g. ASSUME NEW rec, Moved(rec), intake' \in [Entries -> {"unsaved", "pending", "done"}],
               inbox' \in Seq(Signal), DOMAIN inbox \subseteq DOMAIN inbox',
               excused' \subseteq Entries, missed' \subseteq Entries,
               UNCHANGED <<gone, handler, thread, call, raced, decisions, crossed>>
        PROVE  /\ InboxTypeOK' /\ DOMAIN inbox \subseteq DOMAIN inbox'
               /\ \A q \in Passes : pass'[q].pc = "lookUp" => pass'[q].rows # {}
    <2>1. /\ pass' \in [Passes -> PassRec] /\ pass'[p] = rec
          /\ \A q \in Passes \ {p} : pass'[q] = pass[q]
      BY <1>g, PassMoves DEF InboxTypeOK
    <2>2. InboxTypeOK' BY <1>g, <2>1 DEF InboxTypeOK
    <2>3. \A q \in Passes : pass'[q].pc = "lookUp" => pass'[q].rows # {} BY <1>g, <2>1
    <2> QED BY <1>g, <2>2, <2>3
  <1>1. CASE PassFails(p)
    <2>1. Moved(IdlePass) BY <1>1, <1>i DEF PassFails
    <2>2. excused' \subseteq Entries BY <1>1, <1>p DEF PassFails, PassRec, InboxTypeOK
    <2> HIDE DEF Moved
    <2> QED BY <1>1, <2>1, <2>2, <1>g DEF PassFails, InboxTypeOK
  <1>2. CASE PassBegin(p)
    <2>0. PICK halted \in BOOLEAN : PassTo(p, [IdlePass EXCEPT !.pc = "countIntake", !.halted = halted])
      BY <1>2, HaltedOK DEF PassBegin
    <2> DEFINE rec == [IdlePass EXCEPT !.pc = "countIntake", !.halted = halted]
    <2>1. rec \in PassRec BY PassRecs, <1>p
    <2>2. rec.pc # "lookUp" BY DEF IdlePass
    <2>3. Moved(rec) BY <2>0, <2>1, <2>2
    <2> HIDE DEF Moved, rec
    <2> QED BY <1>2, <2>3, <1>g DEF PassBegin, InboxTypeOK, inboxHistory
  <1>3. CASE PassCountIntake(p)
    <2> DEFINE rec == IF pass[p].halted \/ {e \in Entries : intake[e] = "pending"} = {}
                      THEN IdlePass ELSE [pass[p] EXCEPT !.pc = "readRows"]
    <2>1. rec \in PassRec /\ rec.pc # "lookUp" BY PassRecs, <1>p, <1>i DEF PassRec
    <2>3. Moved(rec) BY <1>3, <2>1 DEF PassCountIntake
    <2> HIDE DEF Moved, rec
    <2> QED BY <1>3, <2>3, <1>g DEF PassCountIntake, InboxTypeOK, inboxHistory
  <1>4. CASE PassReadRows(p)
    <2> DEFINE rows == {e \in Pending : Cardinality({d \in Pending : d < e}) < BatchSize}
               rec == [pass[p] EXCEPT !.pc = "lookUp", !.rows = rows]
    <2>r. rows \in SUBSET Entries BY DEF Pending
    <2>1. rec \in PassRec BY PassRecs, <1>p, <2>r
    <2>2. rec.pc = "lookUp" /\ rec.rows = rows BY <1>p DEF PassRec
    <2>3. (rows # {} /\ PassTo(p, rec)) \/ PassTo(p, IdlePass) BY <1>4 DEF PassReadRows
    <2>4. Moved(rec) \/ Moved(IdlePass) BY <2>1, <2>2, <2>3, <1>i
    <2>5. excused' \subseteq Entries BY <1>4, <2>r DEF PassReadRows, InboxTypeOK
    <2> HIDE DEF Moved, rec, rows
    <2>6. UNCHANGED <<intake, gone, inbox, handler, thread, call, missed, raced, decisions, crossed>>
      BY <1>4 DEF PassReadRows
    <2> QED BY <2>4, <2>5, <2>6, <1>g DEF InboxTypeOK
  <1>5. CASE PassLookUp(p) \/ PassMisses(p)
    <2>0. PICK here : LookedUp(p, here) BY <1>5 DEF PassLookUp, PassMisses
    <2> DEFINE e == FirstOf(pass[p].rows)
               found == pass[p].found \cup ({e} \cap here)
               next == IF pass[p].rows # {e} THEN "lookUp" ELSE IF found = {} THEN "take" ELSE "emit"
               rec == [pass[p] EXCEPT !.pc = next, !.rows = @ \ {e}, !.found = found, !.taken = @ \cup {e}]
    <2>1. PassTo(p, rec) BY <2>0 DEF LookedUp, LookUpNext, FirstOf
    <2>2. pass[p].rows # {} /\ pass[p].rows \in SUBSET Entries BY <1>5, <1>p DEF PassLookUp, PassMisses, PassRec
    <2>3. e \in pass[p].rows BY <2>2, FirstIsOne
    <2> HIDE DEF e
    <2>4. rec \in PassRec BY <2>2, <2>3, <1>p DEF PassRec
    <2>5. rec.pc = "lookUp" => rec.rows # {} BY <2>3, <1>p DEF PassRec
    <2>6. Moved(rec) BY <2>1, <2>4, <2>5
    <2>7. missed' \subseteq Entries
      BY <1>5, <2>2, <2>3 DEF PassLookUp, PassMisses, LookUpNext, FirstOf, InboxTypeOK, inboxHistory, e
    <2> HIDE DEF Moved, rec
    <2> QED BY <1>5, <2>6, <2>7, <1>g DEF PassLookUp, PassMisses, InboxTypeOK, inboxHistory
  <1>6. CASE PassEmit(p)
    <2> DEFINE rec == [pass[p] EXCEPT !.pc = "take"]
    <2>1. NewSignal("batch", pass[p].found, None) \in Signal BY NewSignalOK, <1>p DEF PassRec
    <2>2. inbox' \in Seq(Signal) /\ DOMAIN inbox \subseteq DOMAIN inbox'
      BY <1>6, <2>1, EmitOK DEF PassEmit, InboxTypeOK
    <2>3. rec \in PassRec /\ rec.pc # "lookUp" BY <1>p DEF PassRec
    <2>4. Moved(rec) BY <2>3, <1>6 DEF PassEmit
    <2> HIDE DEF Moved, rec
    <2> QED BY <1>6, <2>2, <2>4, <1>g DEF PassEmit, InboxTypeOK, inboxHistory
  <1>7. CASE PassTake(p)
    <2> DEFINE rec == IF pass[p].taken \subseteq Takes(p) THEN IdlePass
                      ELSE [pass[p] EXCEPT !.taken = @ \ Takes(p)]
    <2>1. rec \in PassRec /\ rec.pc # "lookUp" BY <1>7, <1>p, <1>i DEF PassTake, PassRec
    <2>2. Moved(rec) BY <2>1, <1>7 DEF PassTake
    <2>3. intake' \in [Entries -> {"unsaved", "pending", "done"}] BY <1>7 DEF PassTake, InboxTypeOK
    <2> HIDE DEF Moved, rec
    <2> QED BY <1>7, <2>2, <2>3, <1>g DEF PassTake, InboxTypeOK, inboxHistory
  <1> QED BY <1>1, <1>2, <1>3, <1>4, <1>5, <1>6, <1>7 DEF PassStep

\* A call moves to a state of its own.
LEMMA CallMoves ==
  ASSUME call \in [Calls -> CallRec], NEW c \in Calls, NEW rec \in CallRec, CallTo(c, rec)
  PROVE  /\ call' \in [Calls -> CallRec] /\ call'[c] = rec
         /\ \A d \in Calls \ {c} : call'[d] = call[d]
  BY DEF CallTo

\* The states a call goes through.
LEMMA CallRecs ==
  ASSUME NEW rec \in CallRec, NEW j \in Jobs \cup {None}, NEW h \in Handlers
  PROVE  /\ IdleCall \in CallRec /\ IdleCall.pc = "idle" /\ IdleCall.handler = None
         /\ [IdleCall EXCEPT !.pc = "countHandlers", !.job = j] \in CallRec
         /\ [rec EXCEPT !.pc = "insertHandler"] \in CallRec
         /\ [rec EXCEPT !.pc = "close"] \in CallRec
         /\ [rec EXCEPT !.pc = "signal"] \in CallRec
         /\ [pc |-> "resume", job |-> j, handler |-> h] \in CallRec
  BY DEF CallRec, IdleCall

\* Resuming a thread, or a decision without one, leaves statuses.
LEMMA ResumedOK ==
  ASSUME thread \in [Jobs -> ThreadStatuses], NEW j
  PROVE  Resumed(j) \in [Jobs -> ThreadStatuses]
  BY DEF Resumed, ThreadStatuses

\* A call keeps the types of what it moves.
LEMMA CallTypes ==
  ASSUME InboxTypeOK, CallsCarry, NEW c \in Calls,
         \/ \E j \in Jobs : StartHandler(j, c)
         \/ \E h \in Handlers : Decide(h, c)
         \/ CallStep(c) \/ CountFails(c)
  PROVE  /\ InboxTypeOK' /\ DOMAIN inbox \subseteq DOMAIN inbox'
         /\ CallsCarry'
         /\ pass' = pass
  <1> DEFINE Moved(rec) == /\ rec \in CallRec /\ CallTo(c, rec)
                           /\ rec.pc \in {"resume", "close", "signal"} => rec.handler \in Handlers
  <1>p. call[c] \in CallRec BY DEF InboxTypeOK
  <1>i. Moved(IdleCall) <=> CallTo(c, IdleCall) BY DEF CallRec, IdleCall
  <1>g. ASSUME NEW rec, Moved(rec), handler' \in [Handlers -> HandlerRow], thread' \in [Jobs -> ThreadStatuses],
               inbox' \in Seq(Signal), DOMAIN inbox \subseteq DOMAIN inbox',
               raced' \in BOOLEAN, decisions' \in [Handlers -> Nat], crossed' \subseteq Handlers,
               UNCHANGED <<intake, gone, pass, excused, missed>>
        PROVE  /\ InboxTypeOK' /\ DOMAIN inbox \subseteq DOMAIN inbox'
               /\ CallsCarry'
               /\ pass' = pass
    <2>1. /\ call' \in [Calls -> CallRec] /\ call'[c] = rec
          /\ \A d \in Calls \ {c} : call'[d] = call[d]
      BY <1>g, CallMoves DEF InboxTypeOK
    <2>2. InboxTypeOK' BY <1>g, <2>1 DEF InboxTypeOK
    <2>3. CallsCarry'
      BY <1>g, <2>1 DEF CallsCarry
    <2> QED BY <1>g, <2>2, <2>3
  <1>1. ASSUME NEW j \in Jobs, StartHandler(j, c)
        PROVE  InboxTypeOK' /\ DOMAIN inbox \subseteq DOMAIN inbox' /\ CallsCarry' /\ pass' = pass
    <2> DEFINE rec == [IdleCall EXCEPT !.pc = "countHandlers", !.job = j]
    <2>1. rec \in CallRec /\ rec.pc = "countHandlers" BY DEF CallRec, IdleCall
    <2>2. Moved(rec) BY <1>1, <2>1 DEF StartHandler
    <2> HIDE DEF Moved, rec
    <2> QED BY <1>1, <2>2, <1>g DEF StartHandler, InboxTypeOK, inboxHistory
  <1>2. ASSUME NEW h \in Handlers, Decide(h, c)
        PROVE  InboxTypeOK' /\ DOMAIN inbox \subseteq DOMAIN inbox' /\ CallsCarry' /\ pass' = pass
    <2> DEFINE rec == [pc |-> "resume", job |-> handler[h].job, handler |-> h]
    <2>1. rec \in CallRec BY DEF CallRec, HandlerRow, InboxTypeOK
    <2>2. Moved(rec) BY <1>2, <2>1 DEF Decide
    <2>3. crossed' \subseteq Handlers BY <1>2 DEF Decide, InboxTypeOK
    <2> HIDE DEF Moved, rec
    <2> QED BY <1>2, <2>2, <2>3, <1>g DEF Decide, InboxTypeOK
  <1>3. CASE CountHandlers(c)
    <2> DEFINE rec == IF Halted THEN IdleCall ELSE [call[c] EXCEPT !.pc = "insertHandler"]
    <2>1. rec \in CallRec /\ rec.pc \in {"idle", "insertHandler"} BY <1>p DEF CallRec, IdleCall
    <2>2. Moved(rec) BY <1>3, <2>1 DEF CountHandlers
    <2>3. raced' \in BOOLEAN BY <1>3 DEF CountHandlers
    <2> HIDE DEF Moved, rec
    <2> QED BY <1>3, <2>2, <2>3, <1>g DEF CountHandlers, InboxTypeOK
  <1>4. CASE InsertHandler(c)
    <2> DEFINE free == {x \in Handlers : handler[x].status = "none"}
               h == CHOOSE x \in free : TRUE
    <2>1. h \in free BY <1>4 DEF InsertHandler
    <2>2. handler' = [handler EXCEPT ![h] = [job |-> call[c].job, status |-> "pending"]]
      BY <1>4 DEF InsertHandler
    <2>3. handler' \in [Handlers -> HandlerRow] BY <2>1, <2>2, <1>p DEF HandlerRow, CallRec, InboxTypeOK
    <2>4. Moved(IdleCall) BY <1>4, <1>i DEF InsertHandler
    <2> HIDE DEF Moved
    <2> QED BY <1>4, <2>3, <2>4, <1>g DEF InsertHandler, InboxTypeOK, inboxHistory
  <1>5. CASE DecideResume(c)
    <2> DEFINE rec == [call[c] EXCEPT !.pc = "close"]
    <2>1. rec \in CallRec /\ rec.handler \in Handlers BY <1>5, <1>p DEF CallRec, DecideResume, CallsCarry
    <2>2. Moved(rec) BY <1>5, <2>1 DEF DecideResume
    <2>3. thread' \in [Jobs -> ThreadStatuses] BY <1>5, ResumedOK DEF DecideResume, InboxTypeOK
    <2> HIDE DEF Moved, rec
    <2> QED BY <1>5, <2>2, <2>3, <1>g DEF DecideResume, InboxTypeOK, inboxHistory
  <1>6. CASE DecideClose(c)
    <2> DEFINE rec == [call[c] EXCEPT !.pc = "signal"]
    <2>1. rec \in CallRec /\ rec.handler \in Handlers BY <1>6, <1>p DEF CallRec, DecideClose, CallsCarry
    <2>2. Moved(rec) BY <1>6, <2>1 DEF DecideClose
    <2>3. handler' \in [Handlers -> HandlerRow] BY <1>6 DEF DecideClose, InboxTypeOK, HandlerRow
    <2> HIDE DEF Moved, rec
    <2> QED BY <1>6, <2>2, <2>3, <1>g DEF DecideClose, InboxTypeOK, inboxHistory
  <1>7. CASE DecideSignal(c)
    <2>1. NewSignal("resolved", {}, call[c].job) \in Signal BY <1>p, NewSignalOK DEF CallRec
    <2>2. inbox' \in Seq(Signal) /\ DOMAIN inbox \subseteq DOMAIN inbox'
      BY <1>7, <2>1, EmitOK DEF DecideSignal, InboxTypeOK
    <2>h. call[c].handler \in Handlers BY <1>7 DEF DecideSignal, CallsCarry
    <2>d. decisions' = [decisions EXCEPT ![call[c].handler] = decisions[call[c].handler] + 1]
      BY <1>7 DEF DecideSignal
    <2>3. decisions' \in [Handlers -> Nat] BY <2>h, <2>d DEF InboxTypeOK
    <2>4. Moved(IdleCall) BY <1>7, <1>i DEF DecideSignal
    <2> HIDE DEF Moved
    <2> QED BY <1>7, <2>2, <2>3, <2>4, <1>g DEF DecideSignal, InboxTypeOK
  <1>8. CASE CountFails(c)
    <2> DEFINE rec == [call[c] EXCEPT !.pc = "insertHandler"]
    <2>1. rec \in CallRec /\ rec.pc = "insertHandler" BY <1>p DEF CallRec
    <2>2. Moved(rec) BY <1>8, <2>1 DEF CountFails
    <2> HIDE DEF Moved, rec
    <2> QED BY <1>8, <2>2, <1>g DEF CountFails, InboxTypeOK
  <1> QED BY <1>1, <1>2, <1>3, <1>4, <1>5, <1>6, <1>7, <1>8 DEF CallStep

\* Whatever graph-rag does by itself keeps the types.
LEMMA InboxTypes ==
  ASSUME InboxTypeOK, CallsCarry, \A p \in Passes : pass[p].pc = "lookUp" => pass[p].rows # {},
         InboxAction
  PROVE  /\ InboxTypeOK' /\ DOMAIN inbox \subseteq DOMAIN inbox' /\ CallsCarry'
         /\ \A p \in Passes : pass'[p].pc = "lookUp" => pass'[p].rows # {}
  <1>1. ASSUME NEW e \in Entries, Save(e) \/ Delete(e) PROVE InboxTypeOK' /\ UNCHANGED <<inbox, call, pass>>
    BY <1>1 DEF Save, Delete, InboxTypeOK, inboxHistory
  <1>2. ASSUME NEW j \in Jobs, AnswerWorker(j) \/ CloseWorker(j)
        PROVE  InboxTypeOK' /\ UNCHANGED <<inbox, call, pass>>
    <2>1. thread' \in [Jobs -> ThreadStatuses]
      BY <1>2, ResumedOK DEF AnswerWorker, CloseWorker, ThreadStatuses, InboxTypeOK
    <2> QED BY <1>2, <2>1 DEF AnswerWorker, CloseWorker, InboxTypeOK, inboxHistory
  <1>3. ASSUME InboxRestart
        PROVE  /\ InboxTypeOK' /\ inbox' = inbox /\ CallsCarry'
               /\ \A p \in Passes : pass'[p].pc = "lookUp" => pass'[p].rows # {}
    <2>1. call' \in [Calls -> CallRec] /\ CallsCarry' BY <1>3 DEF InboxRestart, CallRec, IdleCall, CallsCarry
    <2>2. pass' \in [Passes -> PassRec] /\ \A p \in Passes : pass'[p].pc = "idle"
      BY <1>3 DEF InboxRestart, PassRec, IdlePass
    <2>a. \A p \in Passes : pass[p].taken \subseteq Entries BY DEF PassRec, InboxTypeOK
    <2>b. excused' = excused \cup UNION {pass[p].taken : p \in {q \in Passes : pass[q].pc = "take"}}
      BY <1>3 DEF InboxRestart
    <2>3. excused' \subseteq Entries 
      <3>1. excused \subseteq Entries BY DEF InboxTypeOK
      <3>2. \A x \in UNION {pass[p].taken : p \in {q \in Passes : pass[q].pc = "take"}} : x \in Entries
        BY <2>a, Zenon
      <3> QED BY <2>b, <3>1, <3>2
    <2>4. handler' \in [Handlers -> HandlerRow]
      BY <1>3 DEF InboxRestart, Rerun, HandlerRow, InboxTypeOK
    <2> QED BY <1>3, <2>1, <2>2, <2>3, <2>4 DEF InboxRestart, InboxTypeOK
  <1>4. ASSUME NEW p \in Passes, PassFails(p) \/ PassMisses(p) \/ PassBegin(p) \/ PassStep(p) PROVE call' = call
    BY <1>4 DEF PassFails, PassMisses, PassBegin, PassStep, PassCountIntake, PassReadRows, PassLookUp, PassEmit, PassTake
  <1>5. CallsCarry' \/ call' # call BY DEF CallsCarry
  <1> QED BY <1>1, <1>2, <1>3, <1>4, <1>5, PassTypes, CallTypes DEF InboxAction

\* Nothing of graph-rag moves.
LEMMA InboxStays ==
  ASSUME InboxTypeOK, CallsCarry, \A p \in Passes : pass[p].pc = "lookUp" => pass[p].rows # {},
         UNCHANGED inboxVars
  PROVE  /\ InboxTypeOK' /\ DOMAIN inbox = DOMAIN inbox' /\ CallsCarry'
         /\ \A p \in Passes : pass'[p].pc = "lookUp" => pass'[p].rows # {}
  BY DEF InboxTypeOK, CallsCarry, inboxVars

\* An order of the threads claimed.
LEMMA OrderOK ==
  ASSUME NEW js \in SUBSET Jobs, NEW order \in SetToSeqs(js)
  PROVE  /\ Cardinality(js) \in Nat /\ DOMAIN order = 1 .. Cardinality(js)
         /\ \A i \in DOMAIN order : order[i] \in js
         /\ \A i, j \in DOMAIN order : i # j => order[i] # order[j]
  <1>1. IsFiniteSet(js)
    <2>1. js \subseteq Agents BY DEF Agents
    <2> QED BY <2>1, PoolAssumption, FS_Subset
  <1>2. Cardinality(js) \in Nat BY <1>1, FS_CardinalityType
  <1> QED BY <1>2 DEF SetToSeqs

\* The pool's tick keeps the types.
LEMMA TickTypes ==
  ASSUME TypeInv,
         \/ TickStep
         \/ \E a \in Agents : Tidy(a)
  PROVE  TypeInv'
  <1> USE DEF TypeInv, TypeOK, CarriesOK
  <1>1. CASE TickBegin \/ TickLaunch
    <2>1. UNCHANGED inboxVars BY <1>1 DEF TickBegin, TickLaunch
    <2>2. UNCHANGED <<run, active, running, shown, doubled, trespassed, quota>> BY <1>1 DEF TickBegin, TickLaunch
    <2>3. tick' \in [pc: {"idle", "release", "cleanup", "claim"}, room: 0 .. MaxAgents]
      BY <1>1, PoolAssumption DEF TickBegin, TickLaunch, IdleTick
    <2>4. /\ master' \in [pc: {"idle", "fetch", "starting", "prompt", "ack", "settle"}, got: SUBSET DOMAIN inbox,
                          nudge: 0 .. MaxNudges]
      BY <1>1, PoolAssumption DEF TickBegin, TickLaunch, IdleMaster
    <2>5. /\ starter' \in [pc: {"idle", "claim", "create", "start", "starting", "prompt", "settle", "waiting", "release"},
                           todo: SUBSET Handlers, handler: Handlers \cup {None}]
          /\ starter'.pc \in {"start", "starting", "prompt", "settle", "waiting", "release"} => starter'.handler \in Handlers
      BY <1>1 DEF TickBegin, TickLaunch, IdleStarter
    <2>6. record' \subseteq Jobs \cup Handlers \cup {Liaison} BY <1>1 DEF TickBegin, TickLaunch
    <2> QED BY <2>1, <2>2, <2>3, <2>4, <2>5, <2>6, InboxStays
  <1>2. CASE TickRoom
    <2>1. tick' \in [pc: {"idle", "release", "cleanup", "claim"}, room: 0 .. MaxAgents]
      BY <1>2, RoomOK, PoolAssumption DEF TickRoom, IdleTick
    <2>2. UNCHANGED inboxVars BY <1>2 DEF TickRoom
    <2>3. UNCHANGED <<master, starter, run, active, running, record, shown, doubled, trespassed, quota>>
      BY <1>2 DEF TickRoom
    <2> QED BY <2>1, <2>2, <2>3, InboxStays
  <1>3. ASSUME NEW a \in Agents, Tidy(a)
        PROVE  TypeInv'
    <2>1. UNCHANGED inboxVars BY <1>3 DEF Tidy, TickReleaseIdle, TickCleanup
    <2>2. UNCHANGED <<tick, master, starter, run, active, shown, doubled, quota>>
      BY <1>3 DEF Tidy, TickReleaseIdle, TickCleanup
    <2>3. running' \subseteq Agents /\ trespassed' \subseteq Runs
      BY <1>3 DEF Tidy, TickReleaseIdle, TickCleanup, StopAgent
    <2>4. record' \subseteq Jobs \cup Handlers \cup {Liaison} BY <1>3 DEF Tidy, TickReleaseIdle, TickCleanup
    <2> QED BY <2>1, <2>2, <2>3, <2>4, InboxStays
  <1>4. ASSUME NEW js \in SUBSET Jobs, TickClaim(js)
        PROVE  TypeInv'
    <2>1. thread' \in [Jobs -> ThreadStatuses]
      BY <1>4 DEF TickClaim, ThreadsClaimed, InboxTypeOK, ThreadStatuses
    <2>2. UNCHANGED <<intake, gone, inbox, handler, call, pass, inboxHistory>> BY <1>4 DEF TickClaim
    <2>3. UNCHANGED <<master, starter, running, record, shown, trespassed>> BY <1>4 DEF TickClaim
    <2>4. tick' \in [pc: {"idle", "release", "cleanup", "claim"}, room: 0 .. MaxAgents]
      BY <1>4, PoolAssumption DEF TickClaim, IdleTick
    <2>5. /\ quota' \in Quota /\ run' \in [Runs -> RunRec] /\ active' \subseteq Jobs /\ doubled' \subseteq Jobs
          /\ \A r \in Runs : run'[r].pc # "none" => run'[r].job \in Jobs
      <3>1. CASE Spend("lost") /\ UNCHANGED <<active, run, doubled>> BY <3>1, SpendOK
      <3>2. ASSUME NEW order \in SetToSeqs(js), NEW begun,
                   begun \in [Jobs -> RunRec], \A j \in Jobs : begun[j].job = j,
                   active' = active \cup (js \ SentBack(order)),
                   run' = [r \in Runs |-> IF r - Used \in DOMAIN order THEN begun[order[r - Used]] ELSE run[r]],
                   doubled' = doubled \cup ((js \ SentBack(order)) \cap LiveJobs), UNCHANGED quota
            PROVE  /\ quota' \in Quota /\ run' \in [Runs -> RunRec] /\ active' \subseteq Jobs /\ doubled' \subseteq Jobs
                   /\ \A r \in Runs : run'[r].pc # "none" => run'[r].job \in Jobs
        <4>1. \A i \in DOMAIN order : order[i] \in Jobs BY OrderOK
        <4>2. \A i \in DOMAIN order : begun[order[i]] \in RunRec /\ begun[order[i]].job \in Jobs BY <3>2, <4>1
        <4> QED BY <3>2, <4>1, <4>2
      <3>3. ASSUME NEW order \in SetToSeqs(js),
                   LET back == SentBack(order)
                       begun(j) == [job |-> j, ok |-> FALSE,
                                    pc |-> IF j \in back THEN "release"
                                           ELSE IF j \in record THEN "start" ELSE "create"]
                   IN  /\ active' = active \cup (js \ back)
                       /\ run' = [r \in Runs |-> IF r - Used \in DOMAIN order THEN begun(order[r - Used]) ELSE run[r]]
                       /\ doubled' = doubled \cup ((js \ back) \cap LiveJobs)
                       /\ UNCHANGED quota
            PROVE  /\ quota' \in Quota /\ run' \in [Runs -> RunRec] /\ active' \subseteq Jobs /\ doubled' \subseteq Jobs
                   /\ \A r \in Runs : run'[r].pc # "none" => run'[r].job \in Jobs
        <4> DEFINE begun == [j \in Jobs |-> [job |-> j, ok |-> FALSE,
                                    pc |-> IF j \in SentBack(order) THEN "release"
                                           ELSE IF j \in record THEN "start" ELSE "create"]]
        <4>1. begun \in [Jobs -> RunRec] /\ \A j \in Jobs : begun[j].job = j BY DEF RunRec
        <4>2. \A i \in DOMAIN order : order[i] \in Jobs BY OrderOK
        <4>3. run' = [r \in Runs |-> IF r - Used \in DOMAIN order THEN begun[order[r - Used]] ELSE run[r]]
          BY <3>3, <4>2
        <4>4. /\ active' = active \cup (js \ SentBack(order))
              /\ doubled' = doubled \cup ((js \ SentBack(order)) \cap LiveJobs)
              /\ UNCHANGED quota
          BY <3>3
        <4> HIDE DEF begun
        <4> QED BY <4>1, <4>3, <4>4, <3>2
      <3> QED BY <1>4, <3>1, <3>3 DEF TickClaim
    <2>6. InboxTypeOK' /\ DOMAIN inbox' = DOMAIN inbox BY <2>1, <2>2 DEF InboxTypeOK, inboxHistory
    <2>7. CallsCarry' /\ \A p \in Passes : pass'[p].pc = "lookUp" => pass'[p].rows # {} BY <2>2 DEF CallsCarry
    <2> QED BY <2>3, <2>4, <2>5, <2>6, <2>7
  <1> QED BY <1>1, <1>2, <1>3, <1>4 DEF TickStep

\* How finishThread leaves a thread is a status.
LEMMA FinishedOK ==
  ASSUME NEW outcome \in {"done", "failed", "outage"}
  PROVE  Finished(outcome) \subseteq ThreadStatuses
  BY DEF Finished, ThreadStatuses

\* A report keeps the types of graph-rag's rows.
LEMMA FinishOK ==
  ASSUME InboxTypeOK, NEW j \in Jobs, NEW status \in ThreadStatuses, FinishThread(j, status)
  PROVE  /\ thread' \in [Jobs -> ThreadStatuses]
         /\ inbox' \in Seq(Signal) /\ DOMAIN inbox \subseteq DOMAIN inbox'
  <1>1. thread' \in [Jobs -> ThreadStatuses] BY DEF FinishThread, InboxTypeOK
  <1>2. \A kind \in {"done", "stopped"} : NewSignal(kind, {}, j) \in Signal BY NewSignalOK
  <1>3. inbox' = inbox \/ \E kind \in {"done", "stopped"} : Emit(NewSignal(kind, {}, j)) BY DEF FinishThread
  <1>4. inbox' \in Seq(Signal) /\ DOMAIN inbox \subseteq DOMAIN inbox' BY <1>2, <1>3, EmitOK DEF InboxTypeOK
  <1> QED BY <1>1, <1>4

\* A run moves on: its job stays.
LEMMA RunMoves ==
  ASSUME run \in [Runs -> RunRec], NEW r \in Runs, run[r].pc # "none",
         (\E step \in {"start", "prompt", "starting", "settle", "stop", "leave", "over"} : To(r, step))
           \/ Fails(r) \/ run' = [run EXCEPT ![r].pc = "report", ![r].ok = TRUE]
  PROVE  /\ run' \in [Runs -> RunRec]
         /\ \A x \in Runs : run'[x].job = run[x].job /\ (run'[x].pc # "none" <=> run[x].pc # "none")
         /\ \A x \in Runs \ {r} : run'[x] = run[x]
  <1>1. ASSUME NEW rec \in RunRec, run' = [run EXCEPT ![r] = rec], rec.job = run[r].job, rec.pc # "none"
        PROVE  /\ run' \in [Runs -> RunRec]
               /\ \A x \in Runs : run'[x].job = run[x].job /\ (run'[x].pc # "none" <=> run[x].pc # "none")
               /\ \A x \in Runs \ {r} : run'[x] = run[x]
    BY <1>1
  <1>2. run[r] \in RunRec OBVIOUS
  <1>3. ASSUME NEW step \in {"start", "prompt", "starting", "settle", "stop", "leave", "over"}, To(r, step)
        PROVE  /\ run' \in [Runs -> RunRec]
               /\ \A x \in Runs : run'[x].job = run[x].job /\ (run'[x].pc # "none" <=> run[x].pc # "none")
               /\ \A x \in Runs \ {r} : run'[x] = run[x]
    <2> DEFINE rec == [run[r] EXCEPT !.pc = step]
    <2>1. run' = [run EXCEPT ![r] = rec] BY <1>3 DEF To
    <2>2. rec \in RunRec /\ rec.job = run[r].job /\ rec.pc # "none" BY <1>2 DEF RunRec
    <2> QED BY <2>1, <2>2, <1>1
  <1>4. ASSUME NEW ok \in BOOLEAN, run' = [run EXCEPT ![r].pc = "report", ![r].ok = ok]
        PROVE  /\ run' \in [Runs -> RunRec]
               /\ \A x \in Runs : run'[x].job = run[x].job /\ (run'[x].pc # "none" <=> run[x].pc # "none")
               /\ \A x \in Runs \ {r} : run'[x] = run[x]
    <2> DEFINE rec == [run[r] EXCEPT !.pc = "report", !.ok = ok]
    <2>1. run' = [run EXCEPT ![r] = rec] BY <1>4
    <2>2. rec \in RunRec /\ rec.job = run[r].job /\ rec.pc # "none" BY <1>2 DEF RunRec
    <2> QED BY <2>1, <2>2, <1>1
  <1> QED BY <1>3, <1>4 DEF Fails

\* Every step of a run but its beginning is such a move.
LEMMA RunStepMoves ==
  ASSUME TypeInv, NEW r \in Runs, RunStep(r)
  PROVE  /\ run[r].pc # "none" /\ run[r].job \in Jobs
         /\ run' \in [Runs -> RunRec]
         /\ \A x \in Runs : run'[x].job = run[x].job /\ (run'[x].pc # "none" <=> run[x].pc # "none")
         /\ \A x \in Runs \ {r} : run'[x] = run[x]
  <1>1. run[r].pc # "none"
    BY Zenon DEF RunStep, RunRelease, RunCreate, RunStart, RunStarted, RunPrompt, RunSettle, RunReport, RunStop, RunLeave
  <1>2. (\E step \in {"start", "prompt", "starting", "settle", "stop", "leave", "over"} : To(r, step))
           \/ Fails(r) \/ run' = [run EXCEPT ![r].pc = "report", ![r].ok = TRUE]
    <2>1. \A step \in {"start", "prompt", "starting", "settle", "stop", "leave", "over"} :
             To(r, step) => \E x \in {"start", "prompt", "starting", "settle", "stop", "leave", "over"} : To(r, x)
      OBVIOUS
    <2> QED BY <2>1, Zenon
         DEF RunStep, RunRelease, RunCreate, RunStart, RunStarted, RunPrompt, RunSettle, RunReport, RunStop, RunLeave
  <1>3. run \in [Runs -> RunRec] BY DEF TypeInv, TypeOK
  <1> QED BY <1>1, <1>2, <1>3, RunMoves DEF TypeInv, CarriesOK

\* A thread's turn keeps the types.
LEMMA RunTypes ==
  ASSUME TypeInv, NEW r \in Runs, RunStep(r)
  PROVE  TypeInv'
  <1>m. /\ run[r].pc # "none" /\ run[r].job \in Jobs
        /\ run' \in [Runs -> RunRec]
        /\ \A x \in Runs : run'[x].job = run[x].job /\ (run'[x].pc # "none" <=> run[x].pc # "none")
    BY RunStepMoves
  <1>j. run[r].job \in Agents BY <1>m DEF Agents
  <1> USE DEF TypeInv, TypeOK, CarriesOK
  <1>1. UNCHANGED <<tick, master, starter, shown, doubled>>
    BY Zenon DEF RunStep, RunRelease, RunCreate, RunStart, RunStarted, RunPrompt, RunSettle, RunReport, RunStop, RunLeave
  <1>2. UNCHANGED <<intake, gone, handler, call, pass, inboxHistory>>
    BY Zenon DEF RunStep, RunRelease, RunCreate, RunStart, RunStarted, RunPrompt, RunSettle, RunReport, RunStop, RunLeave,
                 inboxVars, inboxHistory
  <1>3. /\ thread' \in [Jobs -> ThreadStatuses]
        /\ inbox' \in Seq(Signal) /\ DOMAIN inbox \subseteq DOMAIN inbox'
    <2>1. UNCHANGED inboxVars \/ RunRelease(r) \/ \E s \in ThreadStatuses : RunReport(r, s)
      BY Zenon DEF RunStep, RunCreate, RunStart, RunStarted, RunPrompt, RunSettle, RunStop, RunLeave
    <2>2. CASE UNCHANGED inboxVars BY <2>2 DEF inboxVars, InboxTypeOK
    <2>3. CASE RunRelease(r) BY <2>3 DEF RunRelease, InboxTypeOK, ThreadStatuses
    <2>4. ASSUME NEW s \in ThreadStatuses, RunReport(r, s)
          PROVE  /\ thread' \in [Jobs -> ThreadStatuses]
                 /\ inbox' \in Seq(Signal) /\ DOMAIN inbox \subseteq DOMAIN inbox'
      <3>1. FinishThread(run[r].job, s) \/ UNCHANGED <<thread, inbox>> BY <2>4 DEF RunReport
      <3> QED BY <3>1, <1>m, FinishOK DEF InboxTypeOK
    <2> QED BY <2>1, <2>2, <2>3, <2>4
  <1>4. quota' \in Quota
    <2>1. quota' = quota \/ Spend("fault") \/ Spend("lost")
      BY Zenon DEF RunStep, RunRelease, RunCreate, RunStart, RunStarted, RunPrompt, RunSettle, RunReport, RunStop, RunLeave
    <2> QED BY <2>1, SpendOK
  <1>5. active' \subseteq Jobs /\ running' \subseteq Agents /\ trespassed' \subseteq Runs
    <2>1. /\ active' = active \/ active' = active \ {run[r].job}
          /\ running' = running \/ running' = running \cup {run[r].job} \/ StopAgent(run[r].job, r)
          /\ trespassed' = trespassed \/ StopAgent(run[r].job, r)
      BY Zenon DEF RunStep, RunRelease, RunCreate, RunStart, RunStarted, RunPrompt, RunSettle, RunReport, RunStop, RunLeave
    <2> QED BY <2>1, <1>j DEF StopAgent
  <1>6. record' \subseteq Jobs \cup Handlers \cup {Liaison}
    <2>1. record' = record \/ record' = record \cup {run[r].job}
      BY Zenon DEF RunStep, RunRelease, RunCreate, RunStart, RunStarted, RunPrompt, RunSettle, RunReport, RunStop, RunLeave
    <2> QED BY <2>1, <1>m
  <1>7. InboxTypeOK' BY <1>2, <1>3 DEF InboxTypeOK, inboxHistory
  <1>8. TypeOK' BY <1>m, <1>1, <1>3, <1>5, <1>6, <1>7
  <1>9. CarriesOK' BY <1>m, <1>1, <1>2, <1>4 DEF CallsCarry
  <1> QED BY <1>8, <1>9

\* The master's turn keeps the types.
LEMMA MasterTypes ==
  ASSUME TypeInv, MasterStep
  PROVE  TypeInv'
  <1> USE DEF TypeInv, TypeOK, CarriesOK
  <1>1. UNCHANGED <<tick, starter, run, active, record, doubled>>
    BY Zenon DEF MasterStep, MasterFetch, MasterStarted, MasterPrompt, MasterAck, MasterSettle, MasterCutOff
  <1>2. UNCHANGED <<intake, gone, handler, thread, call, pass, inboxHistory>>
    BY Zenon DEF MasterStep, MasterFetch, MasterStarted, MasterPrompt, MasterAck, MasterSettle, MasterCutOff,
                 inboxVars, inboxHistory
  <1>3. inbox' \in Seq(Signal) /\ DOMAIN inbox = DOMAIN inbox'
    <2>1. UNCHANGED inboxVars \/ \E ids \in SUBSET master.got : inbox' = Acknowledged(ids)
      BY Zenon DEF MasterStep, MasterFetch, MasterStarted, MasterPrompt, MasterAck, MasterSettle, MasterCutOff
    <2>2. \A i \in DOMAIN inbox : inbox[i] \in Signal BY DEF InboxTypeOK
    <2>3. ASSUME NEW ids, inbox' = Acknowledged(ids) PROVE inbox' \in Seq(Signal) /\ DOMAIN inbox = DOMAIN inbox'
      <3>1. \A i \in DOMAIN inbox : [inbox[i] EXCEPT !.status = "delivered"] \in Signal BY <2>2 DEF Signal
      <3>2. inbox \in Seq(Signal) /\ DOMAIN inbox = 1 .. Len(inbox) /\ Len(inbox) \in Nat BY DEF InboxTypeOK
      <3>3. inbox' \in [1 .. Len(inbox) -> Signal] BY <2>2, <2>3, <3>1, <3>2 DEF Acknowledged
      <3> QED BY <3>2, <3>3
    <2> QED BY <2>1, <2>3 DEF inboxVars, InboxTypeOK
  <1>4. quota' \in Quota
    <2>1. quota' = quota \/ Spend("fault") \/ Spend("lost")
      BY Zenon DEF MasterStep, MasterFetch, MasterStarted, MasterPrompt, MasterAck, MasterSettle, MasterCutOff
    <2> QED BY <2>1, SpendOK
  <1>5. running' \subseteq Agents /\ trespassed' \subseteq Runs
    <2>1. /\ running' = running \/ running' = running \cup {Master} \/ StopAgent(Master, None)
          /\ trespassed' = trespassed \/ StopAgent(Master, None)
      BY Zenon DEF MasterStep, MasterFetch, MasterStarted, MasterPrompt, MasterAck, MasterSettle, MasterCutOff
    <2> QED BY <2>1 DEF StopAgent, Agents
  <1>6. shown' \subseteq DOMAIN inbox
    <2>1. shown' = shown \/ shown' = shown \cup master.got
      BY Zenon DEF MasterStep, MasterFetch, MasterStarted, MasterPrompt, MasterAck, MasterSettle, MasterCutOff
    <2> QED BY <2>1
  <1>7. master' \in [pc: {"idle", "fetch", "starting", "prompt", "ack", "settle"}, got: SUBSET DOMAIN inbox,
                    nudge: 0 .. MaxNudges]
    <2>i. IdleMaster \in [pc: {"idle", "fetch", "starting", "prompt", "ack", "settle"}, got: SUBSET DOMAIN inbox,
                    nudge: 0 .. MaxNudges] BY PoolAssumption DEF IdleMaster
    <2>1. CASE MasterFetch
      <3>1. NewSignals \subseteq DOMAIN inbox BY DEF NewSignals
      <3>2. \/ master' = IdleMaster
            \/ \E pc \in {"prompt", "starting"} : master' = [master EXCEPT !.pc = pc, !.got = NewSignals]
        BY <2>1 DEF MasterFetch
      <3> QED BY <2>i, <3>1, <3>2
    <2>2. CASE MasterStarted BY <2>i, <2>2 DEF MasterStarted, MasterGivesUp
    <2>3. CASE MasterPrompt BY <2>i, <2>3 DEF MasterPrompt, MasterGivesUp
    <2>4. CASE MasterAck BY <2>i, <2>4 DEF MasterAck
    <2>5. CASE MasterSettle BY <2>i, <2>5 DEF MasterSettle
    <2>6. CASE MasterCutOff
      <3>1. \/ master' = IdleMaster
            \/ master.nudge < MaxNudges /\ master' = [master EXCEPT !.pc = "prompt", !.nudge = master.nudge + 1]
        BY <2>6, Zenon DEF MasterCutOff, MayNudge
      <3>2. master.nudge \in 0 .. MaxNudges /\ MaxNudges \in Nat BY PoolAssumption
      <3>3. master.nudge < MaxNudges => master.nudge + 1 \in 0 .. MaxNudges BY <3>2
      <3> QED BY <2>i, <3>1, <3>3
    <2> QED BY <2>1, <2>2, <2>3, <2>4, <2>5, <2>6 DEF MasterStep
  <1>8. InboxTypeOK' BY <1>2, <1>3 DEF InboxTypeOK, inboxHistory
  <1>9. TypeOK' BY <1>1, <1>3, <1>5, <1>6, <1>7, <1>8
  <1> QED BY <1>9, <1>1, <1>2, <1>4 DEF CallsCarry

\* The types of what the starter writes.
LEMMA StarterTypes ==
  ASSUME TypeInv, StarterStep
  PROVE  TypeInv'
  <1> DEFINE Rec == [pc: {"idle", "claim", "create", "start", "starting", "prompt", "settle", "waiting", "release"},
                     todo: SUBSET Handlers, handler: Handlers \cup {None}]
             Carried(s) == s.pc \in {"start", "starting", "prompt", "settle", "waiting", "release"} => s.handler \in Handlers
  <1> USE DEF TypeInv, TypeOK, CarriesOK
  <1>1. UNCHANGED <<tick, master, run, active, shown, doubled>>
    BY Zenon DEF StarterStep, StarterClaim, StarterCreate, StarterStart, StarterStarted, StarterPrompt, StarterSettle,
                 StarterWaiting, StarterRelease
  <1>2. UNCHANGED <<intake, gone, inbox, thread, call, pass, inboxHistory>>
    BY Zenon DEF StarterStep, StarterClaim, StarterCreate, StarterStart, StarterStarted, StarterPrompt, StarterSettle,
                 StarterWaiting, StarterRelease, inboxVars, inboxHistory
  <1>3. handler' \in [Handlers -> HandlerRow]
    <2>1. handler' = handler \/ handler' = HandlersClaimed \/ handler' = HandlerWaits(starter.handler)
      BY Zenon DEF StarterStep, StarterClaim, StarterCreate, StarterStart, StarterStarted, StarterPrompt, StarterSettle,
                 StarterWaiting, StarterRelease, inboxVars
    <2>2. HandlersClaimed \in [Handlers -> HandlerRow] BY DEF HandlersClaimed, HandlerRow, InboxTypeOK
    <2>3. HandlerWaits(starter.handler) \in [Handlers -> HandlerRow] 
      <3>1. ASSUME NEW h \in Handlers PROVE HandlerWaits(h) \in [Handlers -> HandlerRow]
        <4> DEFINE rec == [handler[h] EXCEPT !.status = IF handler[h].status \in {"running", "pending"} THEN "waiting"
                                                       ELSE handler[h].status]
        <4>1. handler[h] \in HandlerRow BY DEF InboxTypeOK
        <4>2. rec \in HandlerRow BY <4>1 DEF HandlerRow
        <4>3. HandlerWaits(h) = [handler EXCEPT ![h] = rec] BY DEF HandlerWaits
        <4> QED BY <4>2, <4>3 DEF InboxTypeOK
      <3>2. ASSUME starter.handler \notin Handlers PROVE HandlerWaits(starter.handler) = handler
        BY <3>2 DEF HandlerWaits, InboxTypeOK
      <3> QED BY <3>1, <3>2 DEF InboxTypeOK
    <2> QED BY <2>1, <2>2, <2>3 DEF InboxTypeOK
  <1>4. quota' \in Quota
    <2>1. quota' = quota \/ Spend("fault") \/ Spend("lost")
      BY Zenon DEF StarterStep, StarterClaim, StarterCreate, StarterStart, StarterStarted, StarterPrompt, StarterSettle,
                 StarterWaiting, StarterRelease
    <2> QED BY <2>1, SpendOK
  <1>5. starter' \in Rec /\ Carried(starter')
    <2>i. IdleStarter \in Rec /\ Carried(IdleStarter) BY DEF IdleStarter
    <2>t. ASSUME NEW step \in {"prompt", "starting", "waiting", "settle", "release"}, StarterTo(step),
                 starter.handler \in Handlers
          PROVE  starter' \in Rec /\ Carried(starter')
      BY <2>t DEF StarterTo
    <2>1. CASE StarterClaim
      <3>1. starter' = IdleStarter \/ starter' = [pc |-> "create", todo |-> PendingHandlers, handler |-> None]
        BY <2>1 DEF StarterClaim
      <3> QED BY <2>i, <3>1 DEF PendingHandlers
    <2>2. ASSUME NEW h \in Handlers, StarterCreate(h) PROVE starter' \in Rec /\ Carried(starter')
      BY <2>2 DEF StarterCreate
    <2>3. CASE StarterStart
      <3>1. \E step \in {"prompt", "starting", "waiting"} : StarterTo(step) BY <2>3 DEF StarterStart
      <3> QED BY <2>3, <2>t, <3>1 DEF StarterStart
    <2>4. CASE StarterStarted BY <2>4, <2>t DEF StarterStarted
    <2>5. CASE StarterPrompt
      <3>1. \E step \in {"settle", "waiting"} : StarterTo(step) BY <2>5 DEF StarterPrompt
      <3> QED BY <2>5, <2>t, <3>1 DEF StarterPrompt
    <2>6. CASE StarterSettle BY <2>6, <2>t DEF StarterSettle
    <2>7. CASE StarterWaiting BY <2>7, <2>t DEF StarterWaiting
    <2>8. CASE StarterRelease
      <3>1. starter' = IdleStarter \/ starter' = [starter EXCEPT !.pc = "create", !.handler = None]
        BY <2>8 DEF StarterRelease
      <3>2. [starter EXCEPT !.pc = "create", !.handler = None] \in Rec
            /\ Carried([starter EXCEPT !.pc = "create", !.handler = None])
        OBVIOUS
      <3> QED BY <2>i, <3>1, <3>2
    <2> QED BY <2>1, <2>2, <2>3, <2>4, <2>5, <2>6, <2>7, <2>8 DEF StarterStep
  <1>6. running' \subseteq Agents /\ trespassed' \subseteq Runs
    <2>1. /\ running' = running \/ (starter.pc = "starting" /\ running' = running \cup {starter.handler})
             \/ StopAgent(starter.handler, None)
          /\ trespassed' = trespassed \/ StopAgent(starter.handler, None)
      BY Zenon DEF StarterStep, StarterClaim, StarterCreate, StarterStart, StarterStarted, StarterPrompt, StarterSettle,
                   StarterWaiting, StarterRelease
    <2> QED BY <2>1 DEF StopAgent, Agents
  <1>7. record' \subseteq Jobs \cup Handlers \cup {Liaison}
    <2>1. record' = record \/ \E h \in Handlers : record' = record \cup {h}
      BY Zenon DEF StarterStep, StarterClaim, StarterCreate, StarterStart, StarterStarted, StarterPrompt, StarterSettle,
                   StarterWaiting, StarterRelease
    <2> QED BY <2>1
  <1>8. InboxTypeOK' BY <1>2, <1>3 DEF InboxTypeOK, inboxHistory
  <1>9. TypeOK' BY <1>1, <1>2, <1>5, <1>6, <1>7, <1>8
  <1>10. CarriesOK' BY <1>1, <1>2, <1>4, <1>5 DEF CallsCarry
  <1> QED BY <1>9, <1>10

\* What the environment does.
Environment ==
    \/ \E a \in Agents : Open(a) \/ Close(a)
    \/ \E j \in Jobs : Expire(j)
    \/ WorkspaceRestart

\* The environment keeps the types.
LEMMA EnvironmentTypes ==
  ASSUME TypeInv, Environment
  PROVE  TypeInv'
  <1> USE DEF TypeInv, TypeOK, CarriesOK
  <1>1. ASSUME NEW a \in Agents, Open(a) \/ Close(a) PROVE TypeInv'
    <2>1. quota' \in Quota /\ running' \subseteq Agents BY <1>1, SpendOK DEF Open, Close
    <2>2. UNCHANGED <<inboxVars, tick, master, starter, run, active, record, shown, doubled, trespassed>>
      BY <1>1 DEF Open, Close
    <2> QED BY <2>1, <2>2, InboxStays
  <1>2. ASSUME NEW j \in Jobs, Expire(j) PROVE TypeInv'
    <2>1. quota' \in Quota BY <1>2, SpendOK DEF Expire
    <2>2. thread' \in [Jobs -> ThreadStatuses] BY <1>2 DEF Expire, InboxTypeOK, ThreadStatuses
    <2>3. UNCHANGED <<intake, gone, inbox, handler, call, pass, inboxHistory, ownVars>> BY <1>2 DEF Expire
    <2>4. InboxTypeOK' BY <2>2, <2>3 DEF InboxTypeOK, inboxHistory
    <2> QED BY <2>1, <2>3, <2>4 DEF CallsCarry, ownVars
  <1>3. ASSUME WorkspaceRestart PROVE TypeInv'
    <2>1. quota' \in Quota BY <1>3, SpendOK DEF WorkspaceRestart
    <2>2. \A r \in Runs : run[r].pc # "none" => [run[r] EXCEPT !.pc = "over"] \in RunRec
                                                /\ [run[r] EXCEPT !.pc = "over"].job = run[r].job
      BY DEF RunRec
    <2>3. run' = [r \in Runs |-> IF run[r].pc = "none" THEN run[r] ELSE [run[r] EXCEPT !.pc = "over"]]
      BY <1>3 DEF WorkspaceRestart
    <2>4. run' \in [Runs -> RunRec] /\ \A r \in Runs : run'[r].pc # "none" => run'[r].job \in Jobs BY <2>2, <2>3
    <2>5. /\ tick' = IdleTick /\ master' = IdleMaster /\ starter' = IdleStarter
          /\ active' = {} /\ running' = {} /\ UNCHANGED <<inboxVars, record, shown, doubled, trespassed>>
      BY <1>3 DEF WorkspaceRestart
    <2>6. TypeOK' BY <2>4, <2>5, InboxStays, PoolAssumption DEF IdleTick, IdleMaster, IdleStarter
    <2>7. CarriesOK' BY <2>1, <2>4, <2>5, InboxStays DEF IdleStarter
    <2> QED BY <2>6, <2>7
  <1> QED BY <1>1, <1>2, <1>3 DEF Environment

\* The steps, by who takes them.
LEMMA Actors ==
  ASSUME Next
  PROVE  \/ TickStep \/ \E a \in Agents : Tidy(a)
         \/ \E r \in Runs : RunStep(r)
         \/ MasterStep \/ StarterStep \/ Environment
         \/ /\ InboxAction /\ UNCHANGED ownVars
            /\ quota' = quota \/ \E what \in {"save", "delete", "ask", "decide", "settle", "restart", "fault"} : Spend(what)
  <1>1. CASE Inbox
    <2>1. InboxAction /\ UNCHANGED ownVars BY <1>1, Zenon DEF Inbox, InboxAction
    <2>2. \E what \in {"save", "delete", "ask", "decide", "settle", "restart", "fault"} : Spend(what)
      <3>1. Spend("save") \/ Spend("delete") \/ Spend("ask") \/ Spend("decide") \/ Spend("settle") \/ Spend("restart")
          \/ Spend("fault")
        BY <1>1, Zenon DEF Inbox
      <3> QED BY <3>1
    <2> QED BY <2>1, <2>2
  <1>2. ASSUME NEW c \in Calls, InboxCall(c) PROVE InboxAction /\ UNCHANGED ownVars /\ quota' = quota
    BY <1>2 DEF InboxCall, InboxAction, poolVars, ownVars
  <1>3. ASSUME NEW p \in Passes, InboxBegin(p) \/ InboxPass(p) PROVE InboxAction /\ UNCHANGED ownVars /\ quota' = quota
    BY <1>3 DEF InboxBegin, InboxPass, InboxAction, poolVars, ownVars
  <1> QED BY <1>1, <1>2, <1>3, Zenon DEF Next, Environment

\* Every step keeps the types.
LEMMA TypeStep ==
  ASSUME TypeInv, [Next]_vars
  PROVE  TypeInv'
  <1>1. CASE UNCHANGED vars
    BY <1>1, InboxStays DEF TypeInv, TypeOK, CarriesOK, vars, poolVars
  <1>2. ASSUME InboxAction, UNCHANGED ownVars,
               quota' = quota \/ \E what \in {"save", "delete", "ask", "decide", "settle", "restart", "fault"} : Spend(what)
        PROVE  TypeInv'
    <2>1. /\ InboxTypeOK' /\ DOMAIN inbox \subseteq DOMAIN inbox' /\ CallsCarry'
          /\ \A p \in Passes : pass'[p].pc = "lookUp" => pass'[p].rows # {}
      BY <1>2, InboxTypes DEF TypeInv, TypeOK, CarriesOK
    <2>2. quota' \in Quota BY <1>2, SpendOK DEF TypeInv, CarriesOK
    <2> QED BY <1>2, <2>1, <2>2 DEF TypeInv, TypeOK, CarriesOK, ownVars
  <1> QED BY <1>1, <1>2, Actors, TickTypes, RunTypes, MasterTypes, StarterTypes, EnvironmentTypes

\* What holds at the beginning.
LEMMA TypeInit ==
  ASSUME Init
  PROVE  TypeInv
  <1>1. quota \in Quota BY PoolAssumption DEF Init
  <1>2. InboxTypeOK
    <2>1. InboxInit(quota.waits) BY DEF Init
    <2>2. inbox \in Seq(Signal) BY <2>1 DEF InboxInit
    <2> QED BY <2>1, <2>2
         DEF InboxInit, InboxTypeOK, HandlerRow, ThreadStatuses, CallRec, PassRec, IdleCall, IdlePass
  <1>3. TypeOK BY <1>2, PoolAssumption DEF Init, TypeOK, IdleTick, IdleMaster, IdleStarter, RunRec
  <1>4. CarriesOK BY <1>1 DEF Init, InboxInit, CarriesOK, CallsCarry, IdleStarter, IdleCall, IdlePass
  <1> QED BY <1>3, <1>4 DEF TypeInv

\* Every variable has its type, however many threads, handlers, entries, calls and passes there
\* are and whatever the environment may do: the master's nudges and a tick's room keep to
\* their bounds (packages/server/src/agents/graph-pool.ts, graph-rag/src/server.js).
THEOREM PoolTypeCorrect == Spec => []TypeOK
  <1>1. Init => TypeInv BY TypeInit
  <1>2. TypeInv /\ [Next]_vars => TypeInv' BY TypeStep
  <1>3. TypeInv => TypeOK BY DEF TypeInv
  <1> QED BY <1>1, <1>2, <1>3, PTL DEF Spec

--------------------------------------------------------------------------
(* What a step does to graph-rag's rows                                    *)

\* The pool's side moves threads' statuses, acknowledges signals, reports, claims handlers
\* and says that they wait; nothing of the intake and of the calls in flight.
LEMMA PoolSide ==
  ASSUME TypeInv,
         \/ TickStep \/ (\E a \in Agents : Tidy(a)) \/ (\E r \in Runs : RunStep(r))
         \/ MasterStep \/ StarterStep \/ Environment \/ UNCHANGED vars
  PROVE  /\ UNCHANGED <<intake, gone, call, pass, inboxHistory>>
         /\ \/ inbox' = inbox
            \/ \E s \in Signal : s.entries = {} /\ s.status = "new" /\ Emit(s)
            \/ MasterAck
         /\ handler' = handler \/ handler' = HandlersClaimed \/ \E h \in Handlers : handler' = HandlerWaits(h)
  <1>1. CASE TickStep \/ \E a \in Agents : Tidy(a)
    BY <1>1, Zenon DEF TickStep, TickBegin, TickLaunch, TickRoom, TickClaim, Tidy, TickReleaseIdle, TickCleanup,
                       inboxVars, inboxHistory
  <1>2. ASSUME NEW r \in Runs, RunStep(r)
        PROVE  /\ UNCHANGED <<intake, gone, call, pass, inboxHistory, handler>>
               /\ inbox' = inbox \/ \E s \in Signal : s.entries = {} /\ s.status = "new" /\ Emit(s)
    <2>1. UNCHANGED <<intake, gone, handler, call, pass, inboxHistory>>
      BY <1>2, Zenon DEF RunStep, RunRelease, RunCreate, RunStart, RunStarted, RunPrompt, RunSettle, RunReport, RunStop,
                         RunLeave, inboxVars, inboxHistory
    <2>2. inbox' = inbox \/ \E s \in ThreadStatuses : FinishThread(run[r].job, s)
      BY <1>2, Zenon DEF RunStep, RunRelease, RunCreate, RunStart, RunStarted, RunPrompt, RunSettle, RunReport, RunStop,
                         RunLeave, inboxVars
    <2>3. inbox' = inbox \/ \E kind \in {"done", "stopped"} : Emit(NewSignal(kind, {}, run[r].job))
      BY <2>2 DEF FinishThread
    <2>4. run[r].job \in Jobs BY <1>2, RunStepMoves
    <2>5. \A kind \in {"done", "stopped"} : /\ NewSignal(kind, {}, run[r].job) \in Signal
                                           /\ NewSignal(kind, {}, run[r].job).entries = {}
                                           /\ NewSignal(kind, {}, run[r].job).status = "new"
      BY <2>4, NewSignalOK DEF NewSignal
    <2> QED BY <2>1, <2>3, <2>5
  <1>3. CASE MasterStep
    BY <1>3, Zenon DEF MasterStep, MasterFetch, MasterStarted, MasterPrompt, MasterAck, MasterSettle, MasterCutOff,
                       inboxVars, inboxHistory
  <1>4. CASE StarterStep
    <2>1. UNCHANGED <<intake, gone, inbox, call, pass, inboxHistory>>
      BY <1>4, Zenon DEF StarterStep, StarterClaim, StarterCreate, StarterStart, StarterStarted, StarterPrompt,
                         StarterSettle, StarterWaiting, StarterRelease, inboxVars, inboxHistory
    <2>2. \/ handler' = handler \/ handler' = HandlersClaimed
          \/ starter.pc = "waiting" /\ handler' = HandlerWaits(starter.handler)
      BY <1>4, Zenon DEF StarterStep, StarterClaim, StarterCreate, StarterStart, StarterStarted, StarterPrompt,
                         StarterSettle, StarterWaiting, StarterRelease, inboxVars
    <2>3. starter.pc = "waiting" => starter.handler \in Handlers BY DEF TypeInv, CarriesOK
    <2> QED BY <2>1, <2>2, <2>3
  <1>5. CASE Environment \/ UNCHANGED vars
    BY <1>5, Zenon DEF Environment, Open, Close, Expire, WorkspaceRestart, inboxVars, inboxHistory, vars
  <1> QED BY <1>1, <1>2, <1>3, <1>4, <1>5

--------------------------------------------------------------------------
(* What the master was shown                                               *)

\* The master was shown what it acknowledges.
ShownInv == DeliveredWasShown /\ (master.pc = "ack" => master.got \subseteq shown)

\* What is acknowledged was shown: a step keeps it.
LEMMA ShownStep ==
  ASSUME TypeInv, ShownInv, [Next]_vars
  PROVE  ShownInv'
  <1> DEFINE Shows == master'.pc = "ack" => master'.got \subseteq shown'
  <1>i. inbox \in Seq(Signal) /\ DOMAIN inbox = 1 .. Len(inbox) BY DEF TypeInv, TypeOK, InboxTypeOK
  <1>1. shown \subseteq shown' /\ Shows
    <2>1. CASE MasterStep
      <3>1. shown \subseteq shown'
        BY <2>1, Zenon DEF MasterStep, MasterFetch, MasterStarted, MasterPrompt, MasterAck, MasterSettle, MasterCutOff
      <3>2. master \in [pc: {"idle", "fetch", "starting", "prompt", "ack", "settle"}, got: SUBSET DOMAIN inbox,
                    nudge: 0 .. MaxNudges] BY DEF TypeInv, TypeOK
      <3>3. CASE MasterPrompt BY <3>2, <3>3 DEF MasterPrompt, MasterGivesUp, IdleMaster
      <3>4. CASE ~MasterPrompt
        <4>1. master'.pc # "ack"
          <5>0. \A pc, got, n : /\ [master EXCEPT !.pc = pc, !.got = got].pc = pc
                                /\ [master EXCEPT !.pc = pc, !.nudge = n].pc = pc
            BY <3>2
          <5>1. CASE MasterFetch
            <6>1. \/ master' = IdleMaster
                  \/ \E pc \in {"prompt", "starting"} : master' = [master EXCEPT !.pc = pc, !.got = NewSignals]
              BY <5>1 DEF MasterFetch
            <6>2. \A pc : master' = [master EXCEPT !.pc = pc, !.got = NewSignals] => master'.pc = pc BY <5>0, Zenon
            <6>3. IdleMaster.pc = "idle" BY DEF IdleMaster
            <6> QED BY <6>1, <6>2, <6>3
          <5>2. CASE MasterStarted BY <5>2, <3>2 DEF MasterStarted, MasterGivesUp, IdleMaster
          <5>3. CASE MasterAck BY <5>3, <3>2 DEF MasterAck
          <5>4. CASE MasterSettle BY <5>4 DEF MasterSettle, IdleMaster
          <5>5. CASE MasterCutOff
            <6>1. master' = IdleMaster \/ \E n : master' = [master EXCEPT !.pc = "prompt", !.nudge = n]
              BY <5>5, Zenon DEF MasterCutOff
            <6>2. \A n : master' = [master EXCEPT !.pc = "prompt", !.nudge = n] => master'.pc = "prompt" BY <5>0, Zenon
            <6>3. IdleMaster.pc = "idle" BY DEF IdleMaster
            <6> QED BY <6>1, <6>2, <6>3
          <5> QED BY <2>1, <3>4, <5>1, <5>2, <5>3, <5>4, <5>5 DEF MasterStep
        <4> QED BY <4>1, <3>1
      <3> QED BY <3>1, <3>3, <3>4
    <2>2. CASE ~MasterStep
      <3>1. shown' = shown /\ (master' = master \/ master'.pc \in {"idle", "fetch"})
        <4>1. CASE UNCHANGED vars \/ (InboxAction /\ UNCHANGED ownVars) BY <4>1 DEF vars, poolVars, ownVars
        <4>2. CASE TickStep \/ \E a \in Agents : Tidy(a)
          BY <4>2 DEF TickStep, TickBegin, TickLaunch, TickRoom, TickClaim, Tidy, TickReleaseIdle, TickCleanup, IdleMaster
        <4>3. ASSUME NEW r \in Runs, RunStep(r) PROVE shown' = shown /\ master' = master
          BY <4>3, Zenon DEF RunStep, RunRelease, RunCreate, RunStart, RunStarted, RunPrompt, RunSettle, RunReport, RunStop,
                             RunLeave
        <4>4. CASE StarterStep
          BY <4>4, Zenon DEF StarterStep, StarterClaim, StarterCreate, StarterStart, StarterStarted, StarterPrompt,
                             StarterSettle, StarterWaiting, StarterRelease
        <4>5. CASE Environment BY <4>5 DEF Environment, Open, Close, Expire, WorkspaceRestart, ownVars, IdleMaster
        <4> QED BY <2>2, Actors, <4>1, <4>2, <4>3, <4>4, <4>5
      <3> QED BY <3>1 DEF ShownInv
    <2> QED BY <2>1, <2>2
  <1>2. \/ inbox' = inbox
        \/ \E s \in Signal : s.status = "new" /\ Emit(s)
        \/ MasterAck
    <2>1. ASSUME InboxAction PROVE inbox' = inbox \/ \E s \in Signal : s.status = "new" /\ Emit(s)
      <3>1. \/ inbox' = inbox
            \/ \E p \in Passes : Emit(NewSignal("batch", pass[p].found, None))
            \/ \E c \in Calls : Emit(NewSignal("resolved", {}, call[c].job))
        BY <2>1, Zenon DEF InboxAction, Save, Delete, StartHandler, Decide, AnswerWorker, CloseWorker, InboxRestart,
                           PassFails, PassMisses, PassBegin, PassStep, PassCountIntake, PassReadRows, PassLookUp, PassEmit, PassTake,
                           CallStep, CountFails, CountHandlers, InsertHandler, DecideResume, DecideClose,
                           DecideSignal
      <3>2. \A p \in Passes : pass[p].found \subseteq Entries BY DEF TypeInv, TypeOK, InboxTypeOK, PassRec
      <3>3. \A c \in Calls : call[c].job \in Jobs \cup {None} BY DEF TypeInv, TypeOK, InboxTypeOK, CallRec
      <3>4. \A kind, entries, j : NewSignal(kind, entries, j).status = "new" BY DEF NewSignal
      <3> QED BY <3>1, <3>2, <3>3, <3>4, NewSignalOK
    <2> QED BY <2>1, Actors, PoolSide
  <1>3. DeliveredWasShown'
    <2>1. CASE inbox' = inbox BY <2>1, <1>1 DEF ShownInv, DeliveredWasShown
    <2>2. ASSUME NEW s \in Signal, s.status = "new", Emit(s) PROVE DeliveredWasShown'
      BY <2>2, <1>i, <1>1, EmitOK DEF ShownInv, DeliveredWasShown
    <2>3. CASE MasterAck
      <3>1. PICK ids \in SUBSET master.got : inbox' = Acknowledged(ids) BY <2>3 DEF MasterAck
      <3>2. ids \subseteq shown BY <2>3 DEF MasterAck, ShownInv
      <3> QED BY <3>1, <3>2, <1>1 DEF Acknowledged, ShownInv, DeliveredWasShown
    <2> QED BY <1>2, <2>1, <2>2, <2>3
  <1> QED BY <1>1, <1>3 DEF ShownInv

\* No signal is marked delivered that was not in a prompt the master took, however signals are
\* emitted between the fetch and the acknowledgement, and whatever is lost or restarts
\* (graph-pool.ts masterTurn, server.js /api/worker/signals/ack).
THEOREM DeliveredIsShown == Spec => []DeliveredWasShown
  <1>1. Init => TypeInv /\ ShownInv
    <2>1. ASSUME Init PROVE ShownInv
      <3>1. inbox = << >> /\ master.pc = "idle" BY <2>1 DEF Init, InboxInit, IdleMaster
      <3> QED BY <3>1 DEF ShownInv, DeliveredWasShown
    <2> QED BY <2>1, TypeInit
  <1>2. TypeInv /\ ShownInv /\ [Next]_vars => TypeInv' /\ ShownInv' BY TypeStep, ShownStep
  <1>3. ShownInv => DeliveredWasShown BY DEF ShownInv
  <1> QED BY <1>1, <1>2, <1>3, PTL DEF Spec

--------------------------------------------------------------------------
(* What becomes of a saved entry                                           *)

\* The signals that name an entry.
Told(e) == {i \in DOMAIN inbox : e \in inbox[i].entries}

\* The entries a pass has in hand.
InHand(p) == pass[p].rows \cup pass[p].taken

\* What a pass knows of what it has in hand: which are gone or were taken for it, and that the rest were told of
\* before it takes their rows.
PassesKnow ==
    \A p \in Passes :
        /\ pass[p].pc \notin {"lookUp", "emit", "take"} => InHand(p) = {} /\ pass[p].found = {}
        /\ pass[p].pc \in {"emit", "take"} => pass[p].rows = {} /\ pass[p].taken # {}
        /\ pass[p].pc \in {"lookUp", "emit"} => /\ pass[p].found \subseteq pass[p].taken
                                                /\ pass[p].taken \ pass[p].found \subseteq gone \cup missed
        /\ pass[p].pc = "take" => \A e \in pass[p].taken : e \in gone \cup missed \/ Told(e) # {}

\* An entry that is not excused is in one hand at most; it waits in the intake while it is,
\* and is told of by nobody else.
OneHand ==
    \A e \in Entries \ excused :
        /\ \A p, q \in Passes : e \in InHand(p) /\ e \in InHand(q) => p = q
        /\ \A p \in Passes : e \in InHand(p) =>
              /\ intake[e] = "pending"
              /\ pass[p].pc # "take" => Told(e) = {}
        /\ Told(e) # {} => intake[e] = "done" \/ \E p \in Passes : pass[p].pc = "take" /\ e \in InHand(p)

HandOverInv == PassesKnow /\ OneHand /\ HandedOverOnce

\* Reports and acknowledgements tell of no entry.
LEMMA ToldStays ==
  ASSUME TypeInv,
         \/ inbox' = inbox
         \/ \E s \in Signal : s.entries = {} /\ s.status = "new" /\ Emit(s)
         \/ MasterAck
  PROVE  \A e : Told(e)' = Told(e)
  <1>1. inbox \in Seq(Signal) BY DEF TypeInv, TypeOK, InboxTypeOK
  <1>2. CASE inbox' = inbox BY <1>2 DEF Told
  <1>3. ASSUME NEW s \in Signal, s.entries = {}, Emit(s) PROVE \A e : Told(e)' = Told(e)
    <2>1. /\ inbox'[Len(inbox) + 1] = s
          /\ \A i \in DOMAIN inbox : inbox'[i] = inbox[i]
          /\ DOMAIN inbox' = DOMAIN inbox \cup {Len(inbox) + 1}
      BY <1>1, <1>3, EmitOK
    <2> QED BY <1>3, <2>1 DEF Told
  <1>4. ASSUME NEW ids, inbox' = Acknowledged(ids) PROVE \A e : Told(e)' = Told(e)
    <2>1. DOMAIN inbox' = DOMAIN inbox BY <1>4 DEF Acknowledged
    <2>2. \A i \in DOMAIN inbox : inbox[i] \in Signal BY <1>1
    <2>3. \A i \in DOMAIN inbox : inbox'[i].entries = inbox[i].entries BY <1>4, <2>2 DEF Acknowledged, Signal
    <2> QED BY <2>1, <2>3 DEF Told
  <1>5. MasterAck => \E ids : inbox' = Acknowledged(ids) BY DEF MasterAck
  <1> QED BY <1>2, <1>3, <1>4, <1>5

\* With the intake, the passes and what was told of as they were, an entry is as it was.
LEMMA HandOverStays ==
  ASSUME HandOverInv, UNCHANGED <<intake, missed, pass, excused>>, gone \subseteq gone', \A e : Told(e)' = Told(e)
  PROVE  HandOverInv'
  <1>1. \A p : InHand(p)' = InHand(p) BY DEF InHand
  <1>2. PassesKnow' BY <1>1 DEF HandOverInv, PassesKnow
  <1>3. OneHand' BY <1>1 DEF HandOverInv, OneHand
  <1>4. \A e : {i \in DOMAIN inbox : e \in inbox[i].entries}' = {i \in DOMAIN inbox : e \in inbox[i].entries}
    BY DEF Told
  <1>5. HandedOverOnce' BY <1>4 DEF HandOverInv, HandedOverOnce
  <1> QED BY <1>2, <1>3, <1>5 DEF HandOverInv

\* An entry is saved, or deleted.
LEMMA HandOverSave ==
  ASSUME TypeInv, HandOverInv, NEW e \in Entries, Save(e) \/ Delete(e)
  PROVE  HandOverInv'
  <1>1. UNCHANGED <<missed, inbox, pass, excused>> /\ gone \subseteq gone' BY DEF Save, Delete, inboxHistory
  <1>2. \A x : Told(x)' = Told(x) BY <1>1 DEF Told
  <1>3. CASE Delete(e) BY <1>1, <1>2, <1>3, HandOverStays DEF Delete
  <1>4. CASE Save(e)
    <2>1. intake[e] = "unsaved" /\ intake' = [intake EXCEPT ![e] = "pending"] /\ gone' = gone BY <1>4 DEF Save
    <2>2. intake \in [Entries -> {"unsaved", "pending", "done"}] BY DEF TypeInv, TypeOK, InboxTypeOK
    <2>3. \A x \in Entries : intake[x] # "unsaved" => intake'[x] = intake[x] BY <2>1, <2>2
    <2>4. \A p : InHand(p)' = InHand(p) BY <1>1 DEF InHand
    <2>5. PassesKnow' BY <1>1, <1>2, <2>1, <2>4 DEF HandOverInv, PassesKnow
    <2>6. OneHand' BY <1>1, <1>2, <2>3, <2>4 DEF HandOverInv, OneHand
    <2>7. \A x \in Entries : intake'[x] = "done" => intake[x] = "done" BY <2>1, <2>2
    <2>8. \A x : {i \in DOMAIN inbox : x \in inbox[i].entries}' = {i \in DOMAIN inbox : x \in inbox[i].entries}
      BY <1>1
    <2>9. HandedOverOnce' BY <1>1, <2>1, <2>7, <2>8 DEF HandOverInv, HandedOverOnce
    <2> QED BY <2>5, <2>6, <2>9 DEF HandOverInv
  <1> QED BY <1>3, <1>4

\* What was told of entries is as it was, and what HandedOverOnce says of them.
LEMMA OnceStays ==
  ASSUME HandedOverOnce, UNCHANGED <<intake, gone, inbox>>, missed \subseteq missed', excused \subseteq excused'
  PROVE  HandedOverOnce' /\ \A e : Told(e)' = Told(e)
  <1>1. \A x : {i \in DOMAIN inbox : x \in inbox[i].entries}' = {i \in DOMAIN inbox : x \in inbox[i].entries}
    OBVIOUS
  <1> QED BY <1>1 DEF HandedOverOnce, Told

\* A pass ends, fails or begins: what it had in hand it has no more, and if it had told of it,
\* it is excused.
LEMMA HandOverDrops ==
  ASSUME TypeInv, HandOverInv, NEW p \in Passes, NEW rec \in PassRec, PassTo(p, rec),
         rec.pc \notin {"lookUp", "emit", "take"}, rec.rows = {}, rec.taken = {}, rec.found = {},
         UNCHANGED <<intake, gone, missed, inbox>>, excused \subseteq excused',
         pass[p].pc = "take" => pass[p].taken \subseteq excused'
  PROVE  HandOverInv'
  <1>1. /\ pass'[p] = rec /\ \A q \in Passes \ {p} : pass'[q] = pass[q]
    BY PassMoves DEF TypeInv, TypeOK, InboxTypeOK
  <1>2. HandedOverOnce' /\ \A e : Told(e)' = Told(e) BY OnceStays DEF HandOverInv
  <1>3. InHand(p)' = {} /\ \A q \in Passes \ {p} : InHand(q)' = InHand(q) BY <1>1 DEF InHand
  <1>4. PassesKnow' BY <1>1, <1>2, <1>3 DEF HandOverInv, PassesKnow
  <1>5. OneHand'
    <2> SUFFICES ASSUME NEW e \in Entries \ excused'
                 PROVE  (/\ \A q, x \in Passes : e \in InHand(q) /\ e \in InHand(x) => q = x
                         /\ \A q \in Passes : e \in InHand(q) =>
                               /\ intake[e] = "pending"
                               /\ pass[q].pc # "take" => Told(e) = {}
                         /\ Told(e) # {} => intake[e] = "done" \/ \E q \in Passes : pass[q].pc = "take" /\ e \in InHand(q))'
      BY Zenon DEF OneHand
    <2>1. e \in Entries \ excused OBVIOUS
    <2>2. pass[p].pc = "take" => e \notin InHand(p) BY DEF HandOverInv, PassesKnow, InHand
    <2> QED BY <1>1, <1>2, <1>3, <2>1, <2>2 DEF HandOverInv, OneHand
  <1> QED BY <1>2, <1>4, <1>5 DEF HandOverInv

\* The rows a pass reads wait, and those another has in hand are excused.
LEMMA HandOverReads ==
  ASSUME TypeInv, HandOverInv, NEW p \in Passes, PassReadRows(p)
  PROVE  HandOverInv'
  <1> DEFINE rows == {e \in Pending : Cardinality({d \in Pending : d < e}) < BatchSize}
             rec == [pass[p] EXCEPT !.pc = "lookUp", !.rows = rows]
             others == UNION {pass[q].rows \cup pass[q].taken : q \in Passes \ {p}}
  <1>1. UNCHANGED <<intake, gone, missed, inbox>> /\ pass[p].pc = "readRows" BY DEF PassReadRows
  <1>2. \/ PassTo(p, rec) /\ rows # {} /\ excused' = excused \cup (rows \cap others)
        \/ PassTo(p, IdlePass) /\ excused' = excused
    BY DEF PassReadRows
  <1>3. rows \subseteq Entries /\ \A e \in rows : intake[e] = "pending" BY DEF Pending
  <1>p. pass[p] \in PassRec BY DEF TypeInv, TypeOK, InboxTypeOK
  <1>o. \A q \in Passes \ {p} : \A e \in InHand(q) : e \in others BY Zenon DEF InHand
  <1> HIDE DEF rows, others
  <1>4. CASE PassTo(p, IdlePass) /\ excused' = excused
    <2>1. IdlePass \in PassRec /\ IdlePass.pc = "idle" /\ IdlePass.rows = {} /\ IdlePass.taken = {} /\ IdlePass.found = {}
      BY DEF IdlePass, PassRec
    <2> QED BY <1>1, <1>4, <2>1, HandOverDrops
  <1>5. CASE PassTo(p, rec) /\ rows # {} /\ excused' = excused \cup (rows \cap others)
    <2>1. /\ rec \in PassRec /\ rec.pc = "lookUp" /\ rec.rows = rows /\ rec.found = pass[p].found
          /\ rec.taken = pass[p].taken
      BY <1>p, <1>3 DEF PassRec
    <2> HIDE DEF rec
    <2>2. /\ pass'[p] = rec /\ \A q \in Passes \ {p} : pass'[q] = pass[q]
      BY <1>5, <2>1, PassMoves DEF TypeInv, TypeOK, InboxTypeOK
    <2>3. HandedOverOnce' /\ \A e : Told(e)' = Told(e) BY <1>1, <1>5, OnceStays DEF HandOverInv
    <2>4. InHand(p) = {} /\ pass[p].found = {} /\ pass[p].taken = {} BY <1>1 DEF HandOverInv, PassesKnow, InHand
    <2>5. InHand(p)' = rows /\ \A q \in Passes \ {p} : InHand(q)' = InHand(q)
      BY <2>1, <2>2, <2>4 DEF InHand
    <2>6. PassesKnow'
      <3>1. \A q \in Passes \ {p} :
        (/\ pass[q].pc \notin {"lookUp", "emit", "take"} => InHand(q) = {} /\ pass[q].found = {}
         /\ pass[q].pc \in {"emit", "take"} => pass[q].rows = {} /\ pass[q].taken # {}
         /\ pass[q].pc \in {"lookUp", "emit"} => /\ pass[q].found \subseteq pass[q].taken
                                                 /\ pass[q].taken \ pass[q].found \subseteq gone \cup missed
         /\ pass[q].pc = "take" => \A e \in pass[q].taken : e \in gone \cup missed \/ Told(e) # {})'
        BY <1>1, <2>2, <2>3, <2>5 DEF HandOverInv, PassesKnow
      <3>2. /\ pass'[p].pc = "lookUp" /\ pass'[p].found = {} /\ pass'[p].taken = {} BY <2>1, <2>2, <2>4
      <3> QED BY <3>1, <3>2 DEF PassesKnow
    <2>7. OneHand'
      <3> SUFFICES ASSUME NEW e \in Entries \ excused'
                   PROVE  (/\ \A q, x \in Passes : e \in InHand(q) /\ e \in InHand(x) => q = x
                           /\ \A q \in Passes : e \in InHand(q) =>
                                 /\ intake[e] = "pending"
                                 /\ pass[q].pc # "take" => Told(e) = {}
                           /\ Told(e) # {} => intake[e] = "done" \/ \E q \in Passes : pass[q].pc = "take" /\ e \in InHand(q))'
        BY Zenon DEF OneHand
      <3>1. e \in Entries \ excused /\ (e \in rows => e \notin others) BY <1>5
      <3>2. \A q \in Passes \ {p} : e \in InHand(q) => e \notin rows BY <3>1, <1>o
      <3>3. e \in rows => Told(e) = {}
        <4>1. e \in rows => ~(\E q \in Passes : pass[q].pc = "take" /\ e \in InHand(q)) BY <3>2, <1>1
        <4> QED BY <4>1, <3>1, <1>3 DEF HandOverInv, OneHand
      <3> QED BY <1>1, <1>3, <2>1, <2>2, <2>3, <2>4, <2>5, <3>1, <3>2, <3>3 DEF HandOverInv, OneHand
    <2> QED BY <2>3, <2>6, <2>7 DEF HandOverInv
  <1> QED BY <1>2, <1>4, <1>5

\* A pass begins, counts the intake, or fails.
LEMMA HandOverBegins ==
  ASSUME TypeInv, HandOverInv, NEW p \in Passes, PassFails(p) \/ PassBegin(p) \/ PassCountIntake(p)
  PROVE  HandOverInv'
  <1>p. pass[p] \in PassRec BY DEF TypeInv, TypeOK, InboxTypeOK
  <1>i. IdlePass \in PassRec /\ IdlePass.pc = "idle" /\ IdlePass.rows = {} /\ IdlePass.taken = {} /\ IdlePass.found = {}
    BY DEF IdlePass, PassRec
  <1>1. UNCHANGED <<intake, gone, missed, inbox>> /\ excused \subseteq excused'
    BY DEF PassFails, PassBegin, PassCountIntake, inboxHistory
  <1>2. CASE PassFails(p) BY <1>1, <1>2, <1>i, HandOverDrops DEF PassFails
  <1>3. CASE PassBegin(p)
    <2>0. PICK halted \in BOOLEAN : PassTo(p, [IdlePass EXCEPT !.pc = "countIntake", !.halted = halted])
      BY <1>3, HaltedOK DEF PassBegin
    <2> DEFINE rec == [IdlePass EXCEPT !.pc = "countIntake", !.halted = halted]
    <2>1. PassTo(p, rec) /\ pass[p].pc = "idle" BY <1>3, <2>0 DEF PassBegin
    <2>2. rec \in PassRec /\ rec.pc = "countIntake" /\ rec.rows = {} /\ rec.taken = {} /\ rec.found = {}
      BY DEF IdlePass, PassRec
    <2> HIDE DEF rec
    <2> QED BY <1>1, <2>1, <2>2, HandOverDrops
  <1>4. CASE PassCountIntake(p)
    <2> DEFINE rec == [pass[p] EXCEPT !.pc = "readRows"]
    <2>1. pass[p].pc = "countIntake" /\ (PassTo(p, IdlePass) \/ PassTo(p, rec)) BY <1>4 DEF PassCountIntake
    <2>2. pass[p].rows = {} /\ pass[p].taken = {} /\ pass[p].found = {}
      BY <2>1 DEF HandOverInv, PassesKnow, InHand
    <2>3. rec \in PassRec /\ rec.pc = "readRows" /\ rec.rows = {} /\ rec.taken = {} /\ rec.found = {}
      BY <1>p, <2>2 DEF PassRec
    <2> HIDE DEF rec
    <2> QED BY <1>1, <1>i, <2>1, <2>3, HandOverDrops
  <1> QED BY <1>2, <1>3, <1>4

\* An entry is looked up: it stays in the same hand.
LEMMA HandOverLooks ==
  ASSUME TypeInv, HandOverInv, NEW p \in Passes, PassLookUp(p) \/ PassMisses(p)
  PROVE  HandOverInv'
  <1> DEFINE e0 == FirstOf(pass[p].rows)
  <1>l. pass[p].pc = "lookUp" BY DEF PassLookUp, PassMisses
  <1>2. UNCHANGED <<intake, gone, inbox, excused>> /\ missed \subseteq missed'
    BY DEF PassLookUp, PassMisses, inboxHistory
  <1>p. pass[p] \in PassRec BY DEF TypeInv, TypeOK, InboxTypeOK
  <1>3. e0 \in pass[p].rows
    <2>1. pass[p].rows # {} /\ pass[p].rows \in SUBSET Entries BY <1>l, <1>p DEF TypeInv, CarriesOK, PassRec
    <2> QED BY <2>1, FirstIsOne
  <1>h. PICK here : LookedUp(p, here) /\ e0 \in here \cup gone \cup missed'
    <2>1. e0 \in Entries BY <1>3, <1>p DEF PassRec
    <2>2. CASE PassLookUp(p)
      <3>1. LookedUp(p, Entries \ gone) BY <2>2 DEF PassLookUp
      <3> QED BY <2>1, <3>1
    <2>3. CASE PassMisses(p)
      <3>1. LookedUp(p, {}) /\ e0 \in missed' BY <2>3 DEF PassMisses, LookUpNext, FirstOf
      <3> QED BY <3>1
    <2> QED BY <2>2, <2>3
  <1> DEFINE found == pass[p].found \cup ({e0} \cap here)
             next == IF pass[p].rows # {e0} THEN "lookUp" ELSE IF found = {} THEN "take" ELSE "emit"
             rec == [pass[p] EXCEPT !.pc = next, !.rows = @ \ {e0}, !.found = found, !.taken = @ \cup {e0}]
  <1>1. PassTo(p, rec) BY <1>h DEF LookedUp, LookUpNext, FirstOf
  <1> HIDE DEF e0
  <1>4. /\ rec \in PassRec /\ rec.pc = next /\ rec.rows = pass[p].rows \ {e0} /\ rec.found = found
        /\ rec.taken = pass[p].taken \cup {e0}
    <2>1. e0 \in Entries /\ next \in {"lookUp", "emit", "take"} BY <1>3, <1>p DEF PassRec
    <2> HIDE DEF next
    <2> QED BY <1>p, <2>1 DEF PassRec
  <1> HIDE DEF rec
  <1>5. /\ pass'[p] = rec /\ \A q \in Passes \ {p} : pass'[q] = pass[q]
    BY <1>1, <1>4, PassMoves DEF TypeInv, TypeOK, InboxTypeOK
  <1>6. HandedOverOnce' /\ \A e : Told(e)' = Told(e) BY <1>2, OnceStays DEF HandOverInv
  <1>7. \A q \in Passes : InHand(q)' = InHand(q)
    BY <1>3, <1>4, <1>5 DEF InHand
  <1>8. PassesKnow'
    <2>1. \A q \in Passes \ {p} :
        (/\ pass[q].pc \notin {"lookUp", "emit", "take"} => InHand(q) = {} /\ pass[q].found = {}
         /\ pass[q].pc \in {"emit", "take"} => pass[q].rows = {} /\ pass[q].taken # {}
         /\ pass[q].pc \in {"lookUp", "emit"} => /\ pass[q].found \subseteq pass[q].taken
                                                 /\ pass[q].taken \ pass[q].found \subseteq gone \cup missed
         /\ pass[q].pc = "take" => \A e \in pass[q].taken : e \in gone \cup missed \/ Told(e) # {})'
      BY <1>2, <1>5, <1>6, <1>7 DEF HandOverInv, PassesKnow
    <2>2. pass[p].found \subseteq pass[p].taken /\ pass[p].taken \ pass[p].found \subseteq gone \cup missed
      BY <1>l DEF HandOverInv, PassesKnow
    <2>3. /\ found \subseteq pass[p].taken \cup {e0} /\ (pass[p].taken \cup {e0}) \ found \subseteq gone \cup missed'
          /\ next \in {"lookUp", "emit", "take"}
          /\ next # "lookUp" => pass[p].rows \ {e0} = {}
          /\ next = "take" => found = {}
      BY <1>2, <1>3, <1>h, <2>2
    <2> HIDE DEF found, next
    <2> QED BY <1>2, <1>4, <1>5, <2>1, <2>3 DEF PassesKnow
  <1>9. OneHand'
    <2> SUFFICES ASSUME NEW e \in Entries \ excused
                 PROVE  (/\ \A q, x \in Passes : e \in InHand(q) /\ e \in InHand(x) => q = x
                         /\ \A q \in Passes : e \in InHand(q) =>
                               /\ intake[e] = "pending"
                               /\ pass[q].pc # "take" => Told(e) = {}
                         /\ Told(e) # {} => intake[e] = "done" \/ \E q \in Passes : pass[q].pc = "take" /\ e \in InHand(q))'
      BY <1>2, Zenon DEF OneHand
    <2>1. e \in InHand(p) => Told(e) = {} /\ intake[e] = "pending" BY <1>l DEF HandOverInv, OneHand
    <2>2. \A q \in Passes : q # p => pass'[q] = pass[q] BY <1>5
    <2> QED BY <1>l, <1>2, <1>6, <1>7, <2>1, <2>2 DEF HandOverInv, OneHand
  <1> QED BY <1>6, <1>8, <1>9 DEF HandOverInv

\* The batch is told of: each of its entries for the first time, unless it is excused.
LEMMA HandOverTells ==
  ASSUME TypeInv, HandOverInv, NEW p \in Passes, PassEmit(p)
  PROVE  HandOverInv'
  <1> DEFINE rec == [pass[p] EXCEPT !.pc = "take"]
             s == NewSignal("batch", pass[p].found, None)
  <1>1. PassTo(p, rec) /\ pass[p].pc = "emit" /\ Emit(s) BY DEF PassEmit
  <1>2. UNCHANGED <<intake, gone, missed, excused>> BY DEF PassEmit, inboxHistory
  <1>p. pass[p] \in PassRec /\ inbox \in Seq(Signal) BY DEF TypeInv, TypeOK, InboxTypeOK
  <1>3. s \in Signal /\ s.entries = pass[p].found
    <2>1. pass[p].found \in SUBSET Entries BY <1>p DEF PassRec
    <2>2. s.entries = pass[p].found BY DEF NewSignal
    <2> QED BY <2>1, <2>2, NewSignalOK
  <1> HIDE DEF s
  <1>4. /\ rec \in PassRec /\ rec.pc = "take" /\ rec.rows = pass[p].rows /\ rec.taken = pass[p].taken
        /\ rec.found = pass[p].found
    BY <1>p DEF PassRec
  <1> HIDE DEF rec
  <1>5. /\ pass'[p] = rec /\ \A q \in Passes \ {p} : pass'[q] = pass[q]
    BY <1>1, <1>4, PassMoves DEF TypeInv, TypeOK, InboxTypeOK
  <1>6. /\ \A e : e \notin pass[p].found => Told(e)' = Told(e)
        /\ \A e : e \in pass[p].found => Told(e)' = Told(e) \cup {Len(inbox) + 1}
    <2>1. /\ inbox'[Len(inbox) + 1] = s
          /\ \A i \in DOMAIN inbox : inbox'[i] = inbox[i]
          /\ DOMAIN inbox' = DOMAIN inbox \cup {Len(inbox) + 1}
      BY <1>1, <1>p, <1>3, EmitOK
    <2> QED BY <1>3, <2>1 DEF Told
  <1>7. \A q \in Passes : InHand(q)' = InHand(q) BY <1>4, <1>5 DEF InHand
  <1>8. /\ pass[p].rows = {} /\ pass[p].taken # {} /\ pass[p].found \subseteq pass[p].taken
        /\ pass[p].taken \ pass[p].found \subseteq gone \cup missed
    BY <1>1 DEF HandOverInv, PassesKnow
  <1>9. PassesKnow'
    <2>1. \A q \in Passes \ {p} :
        (/\ pass[q].pc \notin {"lookUp", "emit", "take"} => InHand(q) = {} /\ pass[q].found = {}
         /\ pass[q].pc \in {"emit", "take"} => pass[q].rows = {} /\ pass[q].taken # {}
         /\ pass[q].pc \in {"lookUp", "emit"} => /\ pass[q].found \subseteq pass[q].taken
                                                 /\ pass[q].taken \ pass[q].found \subseteq gone \cup missed
         /\ pass[q].pc = "take" => \A e \in pass[q].taken : e \in gone \cup missed \/ Told(e) # {})'
      <3>1. \A e : Told(e) # {} => Told(e)' # {} BY <1>6
      <3> QED BY <1>2, <1>5, <1>7, <3>1 DEF HandOverInv, PassesKnow
    <2>2. \A e \in pass[p].taken : e \in gone \cup missed \/ Told(e)' # {} BY <1>6, <1>8
    <2> QED BY <1>2, <1>4, <1>5, <1>8, <2>1, <2>2 DEF PassesKnow
  <1>10. \A e \in Entries \ excused : e \in pass[p].found => e \in InHand(p) /\ Told(e) = {}
    BY <1>1, <1>8 DEF HandOverInv, OneHand, InHand
  <1>11. OneHand'
    <2> SUFFICES ASSUME NEW e \in Entries \ excused
                 PROVE  (/\ \A q, x \in Passes : e \in InHand(q) /\ e \in InHand(x) => q = x
                         /\ \A q \in Passes : e \in InHand(q) =>
                               /\ intake[e] = "pending"
                               /\ pass[q].pc # "take" => Told(e) = {}
                         /\ Told(e) # {} => intake[e] = "done" \/ \E q \in Passes : pass[q].pc = "take" /\ e \in InHand(q))'
      BY <1>2, Zenon DEF OneHand
    <2>1. \A q \in Passes : q # p => pass'[q] = pass[q] BY <1>5
    <2>2. pass'[p].pc = "take" BY <1>4, <1>5
    <2>3. \A q, x \in Passes : e \in InHand(q) /\ e \in InHand(x) => q = x BY DEF HandOverInv, OneHand
    <2>4. \A q \in Passes : e \in InHand(q) => intake[e] = "pending" /\ (pass[q].pc # "take" => Told(e) = {})
      BY DEF HandOverInv, OneHand
    <2>5. \A q \in Passes : e \in InHand(q) /\ pass'[q].pc # "take" => Told(e)' = {}
      BY <1>6, <1>10, <2>1, <2>2, <2>3, <2>4
    <2>6. Told(e) # {} => intake[e] = "done" \/ \E q \in Passes : pass[q].pc = "take" /\ e \in InHand(q)
      BY DEF HandOverInv, OneHand
    <2>7. Told(e)' # {} => intake[e] = "done" \/ \E q \in Passes : pass'[q].pc = "take" /\ e \in InHand(q)
      BY <1>6, <1>10, <2>1, <2>2, <2>6
    <2> QED BY <1>2, <1>7, <2>3, <2>4, <2>5, <2>7
  <1>12. HandedOverOnce'
    <2> SUFFICES ASSUME NEW e \in Entries
                 PROVE  /\ intake[e] = "done" /\ Told(e)' = {} => e \in gone \cup missed
                        /\ e \notin excused => Cardinality(Told(e)') <= 1
      BY <1>2, Zenon DEF HandedOverOnce, Told
    <2>1. /\ intake[e] = "done" /\ Told(e) = {} => e \in gone \cup missed
          /\ e \notin excused => Cardinality(Told(e)) <= 1
      BY Zenon DEF HandOverInv, HandedOverOnce, Told
    <2>2. CASE e \notin pass[p].found BY <1>6, <2>1, <2>2
    <2>3. CASE e \in pass[p].found
      <3>1. Told(e)' # {} BY <1>6, <2>3
      <3>2. e \notin excused => Told(e)' = {Len(inbox) + 1} BY <1>6, <1>10, <2>3
      <3>3. Cardinality({Len(inbox) + 1}) = 1 BY FS_Singleton
      <3>4. e \notin excused => Cardinality(Told(e)') = 1 BY <3>2, <3>3, Zenon
      <3> QED BY <3>1, <3>4
    <2> QED BY <2>2, <2>3
  <1> QED BY <1>9, <1>11, <1>12 DEF HandOverInv

\* A row leaves the intake, and the hand of its pass.
LEMMA HandOverTakes ==
  ASSUME TypeInv, HandOverInv, NEW p \in Passes, PassTake(p)
  PROVE  HandOverInv'
  <1> DEFINE rec == IF pass[p].taken \subseteq Takes(p) THEN IdlePass ELSE [pass[p] EXCEPT !.taken = @ \ Takes(p)]
  <1>1. /\ PassTo(p, rec) /\ pass[p].pc = "take"
        /\ intake' = [e \in Entries |-> IF e \in Takes(p) /\ intake[e] = "pending" THEN "done" ELSE intake[e]]
    BY DEF PassTake
  <1>2. UNCHANGED <<gone, missed, inbox, excused>> BY DEF PassTake, inboxHistory
  <1>p. pass[p] \in PassRec /\ intake \in [Entries -> {"unsaved", "pending", "done"}]
    BY DEF TypeInv, TypeOK, InboxTypeOK
  <1>3. /\ pass[p].rows = {} /\ pass[p].taken # {} /\ \A e \in pass[p].taken : e \in gone \cup missed \/ Told(e) # {}
    BY <1>1 DEF HandOverInv, PassesKnow
  <1>t. Takes(p) \subseteq pass[p].taken
    <2>1. pass[p].taken \in SUBSET Entries BY <1>p DEF PassRec
    <2> QED BY <2>1, <1>3, FirstIsOne DEF Takes, FirstOf
  <1> HIDE DEF rec
  <1>4. /\ rec \in PassRec /\ rec.rows = {} /\ rec.taken = pass[p].taken \ Takes(p)
        /\ \/ rec.pc = "take" /\ rec.taken # {}
           \/ rec.pc = "idle" /\ rec.taken = {} /\ rec.found = {}
    <2> DEFINE left == [pass[p] EXCEPT !.taken = @ \ Takes(p)]
    <2>1. left \in PassRec /\ left.rows = {} /\ left.taken = pass[p].taken \ Takes(p) /\ left.pc = "take"
      BY <1>p, <1>1, <1>3 DEF PassRec
    <2>2. IdlePass \in PassRec /\ IdlePass.rows = {} /\ IdlePass.taken = {} /\ IdlePass.found = {} /\ IdlePass.pc = "idle"
      BY DEF PassRec, IdlePass
    <2>3. rec = IF pass[p].taken \subseteq Takes(p) THEN IdlePass ELSE left BY DEF rec
    <2> HIDE DEF left
    <2> QED BY <2>1, <2>2, <2>3
  <1>5. /\ pass'[p] = rec /\ \A q \in Passes \ {p} : pass'[q] = pass[q]
    BY <1>1, <1>4, PassMoves DEF TypeInv, TypeOK, InboxTypeOK
  <1>6. \A e : Told(e)' = Told(e) BY <1>2 DEF Told
  <1>7. InHand(p)' = InHand(p) \ Takes(p) /\ \A q \in Passes \ {p} : InHand(q)' = InHand(q)
    BY <1>3, <1>4, <1>5 DEF InHand
  <1>8. PassesKnow'
    <2>1. \A q \in Passes \ {p} :
        (/\ pass[q].pc \notin {"lookUp", "emit", "take"} => InHand(q) = {} /\ pass[q].found = {}
         /\ pass[q].pc \in {"emit", "take"} => pass[q].rows = {} /\ pass[q].taken # {}
         /\ pass[q].pc \in {"lookUp", "emit"} => /\ pass[q].found \subseteq pass[q].taken
                                                 /\ pass[q].taken \ pass[q].found \subseteq gone \cup missed
         /\ pass[q].pc = "take" => \A e \in pass[q].taken : e \in gone \cup missed \/ Told(e) # {})'
      BY <1>2, <1>5, <1>6, <1>7 DEF HandOverInv, PassesKnow
    <2>2. InHand(p)' = rec.taken BY <1>4, <1>5 DEF InHand
    <2> QED BY <1>2, <1>3, <1>4, <1>5, <1>6, <2>1, <2>2 DEF PassesKnow
  <1>9. OneHand'
    <2> SUFFICES ASSUME NEW e \in Entries \ excused
                 PROVE  (/\ \A q, x \in Passes : e \in InHand(q) /\ e \in InHand(x) => q = x
                         /\ \A q \in Passes : e \in InHand(q) =>
                               /\ intake[e] = "pending"
                               /\ pass[q].pc # "take" => Told(e) = {}
                         /\ Told(e) # {} => intake[e] = "done" \/ \E q \in Passes : pass[q].pc = "take" /\ e \in InHand(q))'
      BY <1>2, Zenon DEF OneHand
    <2>1. \A q, x \in Passes : e \in InHand(q) /\ e \in InHand(x) => q = x BY DEF HandOverInv, OneHand
    <2>2. \A q \in Passes : e \in InHand(q) => intake[e] = "pending" /\ (pass[q].pc # "take" => Told(e) = {})
      BY DEF HandOverInv, OneHand
    <2>3. Told(e) # {} => intake[e] = "done" \/ \E q \in Passes : pass[q].pc = "take" /\ e \in InHand(q)
      BY DEF HandOverInv, OneHand
    <2>4. CASE e \in Takes(p)
      <3>1. e \in InHand(p) BY <2>4, <1>t DEF InHand
      <3>2. intake'[e] = "done" BY <2>4, <3>1, <2>2, <1>1
      <3>3. \A q \in Passes : e \notin InHand(q)' BY <2>1, <2>4, <3>1, <1>7
      <3> QED BY <3>2, <3>3
    <2>5. CASE e \notin Takes(p)
      <3>1. intake'[e] = intake[e] BY <2>5, <1>1
      <3>2. \A q \in Passes : e \in InHand(q)' <=> e \in InHand(q) BY <2>5, <1>7
      <3>3. \A q \in Passes : e \in InHand(q) => pass'[q].pc = pass[q].pc
        <4>1. e \in InHand(p) => rec.taken # {} BY <2>5, <1>3, <1>4 DEF InHand
        <4> QED BY <4>1, <1>1, <1>4, <1>5
      <3> QED BY <3>1, <3>2, <3>3, <2>1, <2>2, <2>3, <1>6
    <2> QED BY <2>4, <2>5
  <1>10. HandedOverOnce'
    <2> SUFFICES ASSUME NEW e \in Entries
                 PROVE  /\ intake'[e] = "done" /\ Told(e)' = {} => e \in gone \cup missed
                        /\ e \notin excused => Cardinality(Told(e)') <= 1
      BY <1>2, Zenon DEF HandedOverOnce, Told
    <2>1. /\ intake[e] = "done" /\ Told(e) = {} => e \in gone \cup missed
          /\ e \notin excused => Cardinality(Told(e)) <= 1
      BY Zenon DEF HandOverInv, HandedOverOnce, Told
    <2>2. e \in Takes(p) => e \in gone \cup missed \/ Told(e) # {} BY <1>3, <1>t
    <2>3. e \notin Takes(p) => intake'[e] = intake[e] BY <1>1
    <2> QED BY <1>6, <2>1, <2>2, <2>3
  <1> QED BY <1>8, <1>9, <1>10 DEF HandOverInv

\* graph-rag restarts: what its passes had told of and not taken is excused.
LEMMA HandOverRestarts ==
  ASSUME TypeInv, HandOverInv, InboxRestart
  PROVE  HandOverInv'
  <1>1. /\ pass' = [p \in Passes |-> IdlePass] /\ UNCHANGED <<intake, gone, missed, inbox>>
        /\ excused' = excused \cup UNION {pass[p].taken : p \in {q \in Passes : pass[q].pc = "take"}}
    BY DEF InboxRestart
  <1>2. excused \subseteq excused' BY <1>1
  <1>3. \A p \in Passes : pass[p].pc = "take" => pass[p].taken \subseteq excused' BY <1>1, Zenon
  <1>4. HandedOverOnce' /\ \A e : Told(e)' = Told(e) BY <1>1, <1>2, OnceStays DEF HandOverInv
  <1>5. \A p \in Passes : InHand(p)' = {} /\ pass'[p].pc = "idle" /\ pass'[p].found = {}
    BY <1>1 DEF InHand, IdlePass
  <1>6. PassesKnow' BY <1>5 DEF PassesKnow
  <1>7. OneHand'
    <2>1. \A e \in Entries \ excused' : Told(e) # {} => intake[e] = "done"
      <3> SUFFICES ASSUME NEW e \in Entries \ excused', Told(e) # {} PROVE intake[e] = "done"
        OBVIOUS
      <3>1. intake[e] = "done" \/ \E p \in Passes : pass[p].pc = "take" /\ e \in InHand(p)
        BY <1>2 DEF HandOverInv, OneHand
      <3>2. \A p \in Passes : pass[p].pc = "take" => InHand(p) = pass[p].taken
        BY DEF HandOverInv, PassesKnow, InHand
      <3> QED BY <3>1, <3>2, <1>3
    <2> QED BY <1>1, <1>4, <1>5, <2>1 DEF OneHand
  <1> QED BY <1>4, <1>6, <1>7 DEF HandOverInv

\* Every step keeps what is known of entries.
LEMMA HandOverStep ==
  ASSUME TypeInv, HandOverInv, [Next]_vars
  PROVE  HandOverInv'
  <1>1. ASSUME UNCHANGED <<intake, gone, missed, pass, excused>>,
               \/ inbox' = inbox
               \/ \E s \in Signal : s.entries = {} /\ s.status = "new" /\ Emit(s)
               \/ MasterAck
        PROVE  HandOverInv'
    BY <1>1, ToldStays, HandOverStays
  <1>2. ASSUME InboxAction PROVE HandOverInv'
    <2>1. ASSUME NEW c \in Calls,
                 \/ \E j \in Jobs : StartHandler(j, c)
                 \/ \E h \in Handlers : Decide(h, c)
                 \/ CallStep(c) \/ CountFails(c)
          PROVE  HandOverInv'
      <3>1. UNCHANGED <<intake, gone, missed, pass, excused>>
        BY <2>1, Zenon DEF StartHandler, Decide, CallStep, CountFails, CountHandlers, InsertHandler, DecideResume, DecideClose,
                           DecideSignal,
                           inboxHistory
      <3>2. inbox' = inbox \/ Emit(NewSignal("resolved", {}, call[c].job))
        BY <2>1, Zenon DEF StartHandler, Decide, CallStep, CountFails, CountHandlers, InsertHandler, DecideResume, DecideClose,
                           DecideSignal
      <3>3. call[c].job \in Jobs \cup {None} BY DEF TypeInv, TypeOK, InboxTypeOK, CallRec
      <3>4. /\ NewSignal("resolved", {}, call[c].job) \in Signal
            /\ NewSignal("resolved", {}, call[c].job).entries = {}
            /\ NewSignal("resolved", {}, call[c].job).status = "new"
        BY <3>3, NewSignalOK DEF NewSignal
      <3> QED BY <3>1, <3>2, <3>4, <1>1
    <2>2. ASSUME NEW j \in Jobs, AnswerWorker(j) \/ CloseWorker(j) PROVE HandOverInv'
      <3>1. UNCHANGED <<intake, gone, missed, pass, excused, inbox>> BY <2>2 DEF AnswerWorker, CloseWorker, inboxHistory
      <3> QED BY <3>1, <1>1
    <2> QED BY <1>2, <2>1, <2>2, HandOverSave, HandOverRestarts, HandOverBegins, HandOverReads, HandOverLooks,
               HandOverTells, HandOverTakes DEF InboxAction, PassStep
  <1>3. CASE TickStep \/ (\E a \in Agents : Tidy(a)) \/ (\E r \in Runs : RunStep(r)) \/ MasterStep \/ StarterStep
             \/ Environment \/ UNCHANGED vars
    <2>1. UNCHANGED <<intake, gone, missed, pass, excused>> BY <1>3, PoolSide DEF inboxHistory
    <2>2. \/ inbox' = inbox
          \/ \E s \in Signal : s.entries = {} /\ s.status = "new" /\ Emit(s)
          \/ MasterAck
      BY <1>3, PoolSide
    <2> QED BY <2>1, <2>2, <1>1
  <1> QED BY <1>2, <1>3, Actors

\* No saved entry is skipped, and none is handed to the master twice, however many passes of the
\* timer there are, whatever fails midway, and whenever graph-rag or the workspace restarts: short
\* of entries that two passes read at once, whose pass broke off between its signal and the
\* taking of the row, or whose lookup failed (server.js batchTick).
THEOREM EntriesHandedOver == Spec => []HandedOverOnce
  <1>1. Init => TypeInv /\ HandOverInv
    <2>1. ASSUME Init PROVE HandOverInv
      <3>1. /\ inbox = << >> /\ \A p \in Passes : pass[p] = IdlePass
            /\ \A e \in Entries : intake[e] = "unsaved"
        BY <2>1 DEF Init, InboxInit
      <3>2. \A p \in Passes : pass[p].pc = "idle" /\ InHand(p) = {} /\ pass[p].found = {}
        BY <3>1 DEF InHand, IdlePass
      <3>3. \A e : Told(e) = {} BY <3>1 DEF Told
      <3>4. PassesKnow /\ OneHand BY <3>2, <3>3 DEF PassesKnow, OneHand
      <3>5. \A e : {i \in DOMAIN inbox : e \in inbox[i].entries} = {} BY <3>1
      <3>6. Cardinality({}) = 0 BY FS_EmptySet
      <3>7. HandedOverOnce BY <3>1, <3>5, <3>6 DEF HandedOverOnce
      <3> QED BY <3>4, <3>7 DEF HandOverInv
    <2> QED BY <2>1, TypeInit
  <1>2. TypeInv /\ HandOverInv /\ [Next]_vars => TypeInv' /\ HandOverInv' BY TypeStep, HandOverStep
  <1>3. HandOverInv => HandedOverOnce BY DEF HandOverInv
  <1> QED BY <1>1, <1>2, <1>3, PTL DEF Spec

--------------------------------------------------------------------------
(* Handlers                                                                *)

\* Unless calls raced, one at most is about to insert a handler, and there is room for it.
RoomForOne ==
    raced \/ /\ Cardinality(OpenHandlers) <= MaxHandlers
             /\ \A c, d \in Calls : call[c].pc = "insertHandler" /\ call[d].pc = "insertHandler" => c = d
             /\ \A c \in Calls : call[c].pc = "insertHandler" => Cardinality(OpenHandlers) < MaxHandlers

\* A decision is signalled by the one call that makes it, after the handler was closed.
OneDecides ==
    /\ \A c \in Calls : call[c].pc \notin {"resume", "close", "signal"} => call[c].handler = None
    /\ \A c \in Calls : call[c].pc = "signal" => handler[call[c].handler].status = "done"
    /\ \A h \in Handlers : decisions[h] > 0 => handler[h].status = "done"
    /\ \A h \in Handlers \ crossed :
          /\ decisions[h] <= 1
          /\ \A c \in Calls : call[c].handler = h => decisions[h] = 0
          /\ \A c, d \in Calls : call[c].handler = h /\ call[d].handler = h => c = d

\* The handlers that wait for the operator are finitely many.
LEMMA OpenFinite == IsFiniteSet(OpenHandlers) /\ Cardinality(OpenHandlers) \in Nat
  <1>1. OpenHandlers \subseteq Agents BY DEF OpenHandlers, Agents
  <1> QED BY <1>1, PoolAssumption, FS_Subset, FS_CardinalityType

\* Fewer handlers open, fewer counted.
LEMMA OpenShrinks ==
  ASSUME OpenHandlers' \subseteq OpenHandlers
  PROVE  Cardinality(OpenHandlers') <= Cardinality(OpenHandlers) /\ Cardinality(OpenHandlers') \in Nat
  BY OpenFinite, FS_Subset, FS_CardinalityType

\* With the calls as they are and no handler opened, there is the room there was.
LEMMA RoomStays ==
  ASSUME RoomForOne, OpenHandlers' \subseteq OpenHandlers, raced' = raced,
         \A c \in Calls : call'[c].pc = "insertHandler" => call[c].pc = "insertHandler"
  PROVE  RoomForOne'
  <1>1. Cardinality(OpenHandlers)' = Cardinality(OpenHandlers') OBVIOUS
  <1>2. Cardinality(OpenHandlers') <= Cardinality(OpenHandlers) /\ Cardinality(OpenHandlers') \in Nat BY OpenShrinks
  <1>3. Cardinality(OpenHandlers) \in Nat /\ MaxHandlers \in Nat BY OpenFinite, InboxAssumption
  <1>4. CASE raced BY <1>4 DEF RoomForOne
  <1>5. CASE ~raced
    <2>1. Cardinality(OpenHandlers') <= MaxHandlers BY <1>2, <1>3, <1>5 DEF RoomForOne
    <2>2. \A c \in Calls : call'[c].pc = "insertHandler" => Cardinality(OpenHandlers') < MaxHandlers
      BY <1>2, <1>3, <1>5 DEF RoomForOne
    <2>3. \A c, d \in Calls : call'[c].pc = "insertHandler" /\ call'[d].pc = "insertHandler" => c = d
      BY <1>5 DEF RoomForOne
    <2> QED BY <2>1, <2>2, <2>3 DEF RoomForOne
  <1> QED BY <1>4, <1>5

\* A call counts the handlers: it goes on only where there is room, and says so if another had.
LEMMA RoomCounted ==
  ASSUME TypeInv, RoomForOne, NEW c \in Calls, CountHandlers(c)
  PROVE  RoomForOne'
  <1> DEFINE rec == [call[c] EXCEPT !.pc = "insertHandler"]
  <1>p. call \in [Calls -> CallRec] BY DEF TypeInv, TypeOK, InboxTypeOK
  <1>1. handler' = handler BY DEF CountHandlers
  <1>2. OpenHandlers' = OpenHandlers BY <1>1 DEF OpenHandlers
  <1>3. raced' = (raced \/ (~Halted /\ \E d \in Calls : call[d].pc = "insertHandler")) BY DEF CountHandlers
  <1>4. CASE Halted
    <2>1. CallTo(c, IdleCall) BY <1>4 DEF CountHandlers
    <2>2. IdleCall \in CallRec /\ IdleCall.pc = "idle" BY DEF IdleCall, CallRec
    <2>3. \A d \in Calls : call'[d].pc = "insertHandler" => call[d].pc = "insertHandler" BY <1>p, <2>1, <2>2, CallMoves
    <2>4. raced \in BOOLEAN BY DEF TypeInv, TypeOK, InboxTypeOK
    <2>5. raced' = raced BY <1>3, <1>4, <2>4
    <2> QED BY <1>2, <2>3, <2>5, RoomStays
  <1>5. CASE ~Halted
    <2>1. CallTo(c, rec) BY <1>5 DEF CountHandlers
    <2>2. rec \in CallRec BY <1>p DEF CallRec
    <2>3. \A d \in Calls \ {c} : call'[d] = call[d] BY <1>p, <2>1, <2>2, CallMoves
    <2>4. Cardinality(OpenHandlers) < MaxHandlers
      BY <1>5, OpenFinite, InboxAssumption DEF Halted
    <2>5. ASSUME ~raced' PROVE \A d \in Calls : call[d].pc # "insertHandler" BY Zenon, <1>3, <1>5, <2>5
    <2>6. ASSUME ~raced'
          PROVE  /\ Cardinality(OpenHandlers') <= MaxHandlers
                 /\ \A d, x \in Calls : call'[d].pc = "insertHandler" /\ call'[x].pc = "insertHandler" => d = x
                 /\ \A d \in Calls : call'[d].pc = "insertHandler" => Cardinality(OpenHandlers') < MaxHandlers
      <3>1. \A d \in Calls : call'[d].pc = "insertHandler" => d = c BY <2>3, <2>5, <2>6
      <3>2. Cardinality(OpenHandlers') < MaxHandlers BY <1>2, <2>4
      <3>3. Cardinality(OpenHandlers') <= MaxHandlers BY <1>2, <2>4, OpenFinite, InboxAssumption
      <3> QED BY <3>1, <3>2, <3>3
    <2> QED BY <2>6 DEF RoomForOne
  <1> QED BY <1>4, <1>5

\* It inserts its handler, for which there is room.
LEMMA RoomTaken ==
  ASSUME TypeInv, RoomForOne, NEW c \in Calls, InsertHandler(c)
  PROVE  RoomForOne'
  <1> DEFINE free == {x \in Handlers : handler[x].status = "none"}
             h == CHOOSE x \in free : TRUE
  <1>p. call \in [Calls -> CallRec] /\ handler \in [Handlers -> HandlerRow] BY DEF TypeInv, TypeOK, InboxTypeOK
  <1>1. /\ handler' = [handler EXCEPT ![h] = [job |-> call[c].job, status |-> "pending"]] /\ free # {}
        /\ CallTo(c, IdleCall) /\ raced' = raced /\ call[c].pc = "insertHandler"
    BY DEF InsertHandler, inboxHistory
  <1>2. h \in free BY <1>1
  <1> HIDE DEF h
  <1>3. OpenHandlers' = OpenHandlers \cup {h} BY <1>1, <1>2, <1>p DEF OpenHandlers
  <1>4. h \notin OpenHandlers BY <1>2 DEF OpenHandlers
  <1>5. Cardinality(OpenHandlers') = Cardinality(OpenHandlers) + 1 BY <1>3, <1>4, OpenFinite, FS_AddElement
  <1>6. IdleCall \in CallRec /\ IdleCall.pc = "idle" BY DEF IdleCall, CallRec
  <1>7. call'[c].pc = "idle" /\ \A d \in Calls \ {c} : call'[d] = call[d] BY <1>1, <1>6, <1>p, CallMoves
  <1>8. CASE raced BY <1>1, <1>8 DEF RoomForOne
  <1>9. CASE ~raced
    <2>1. Cardinality(OpenHandlers) < MaxHandlers BY <1>1, <1>9 DEF RoomForOne
    <2>2. Cardinality(OpenHandlers') <= MaxHandlers BY <2>1, <1>5, OpenFinite, InboxAssumption
    <2>3. \A d \in Calls : call'[d].pc # "insertHandler" BY <1>1, <1>7, <1>9 DEF RoomForOne
    <2> QED BY <2>2, <2>3 DEF RoomForOne
  <1> QED BY <1>8, <1>9

\* The steps that touch neither handlers nor calls.
LEMMA HandlersAlone ==
  ASSUME InboxAction
  PROVE  \/ UNCHANGED <<handler, call, raced, decisions, crossed>>
         \/ InboxRestart
         \/ \E c \in Calls : \/ \E j \in Jobs : StartHandler(j, c)
                             \/ \E h \in Handlers : Decide(h, c)
                             \/ CallStep(c) \/ CountFails(c)
  <1> DEFINE Alone == UNCHANGED <<handler, call, raced, decisions, crossed>>
  <1>1. ASSUME NEW e \in Entries, Save(e) \/ Delete(e) PROVE Alone BY <1>1 DEF Save, Delete, inboxHistory
  <1>2. ASSUME NEW j \in Jobs, AnswerWorker(j) \/ CloseWorker(j) PROVE Alone
    BY <1>2 DEF AnswerWorker, CloseWorker, inboxHistory
  <1>3. ASSUME NEW p \in Passes, PassFails(p) \/ PassMisses(p) \/ PassBegin(p) PROVE Alone
    BY <1>3 DEF PassFails, PassMisses, PassBegin, inboxHistory
  <1>4. ASSUME NEW p \in Passes, PassStep(p) PROVE Alone
    BY Zenon, <1>4 DEF PassStep, PassCountIntake, PassReadRows, PassLookUp, PassEmit, PassTake, inboxHistory
  <1> HIDE DEF Alone
  <1>5. \/ Alone \/ InboxRestart
        \/ \E c \in Calls : \/ \E j \in Jobs : StartHandler(j, c)
                            \/ \E h \in Handlers : Decide(h, c)
                            \/ CallStep(c) \/ CountFails(c)
    BY Zenon, <1>1, <1>2, <1>3, <1>4 DEF InboxAction
  <1> QED BY <1>5 DEF Alone

\* What the pool does to handlers opens none, and leaves the decided ones decided.
LEMMA HandlersKept ==
  ASSUME TypeInv,
         \/ handler' = handler \/ handler' = HandlersClaimed \/ handler' = Rerun
         \/ \E h \in Handlers : handler' = HandlerWaits(h)
  PROVE  OpenHandlers' \subseteq OpenHandlers /\ \A h \in Handlers : handler[h].status = "done" => handler'[h].status = "done"
  <1>p. handler \in [Handlers -> HandlerRow] BY DEF TypeInv, TypeOK, InboxTypeOK
  <1>1. CASE handler' = handler BY <1>1 DEF OpenHandlers
  <1>2. CASE handler' = HandlersClaimed
    <2>1. \A h \in Handlers : /\ handler[h].status = "pending" => handler'[h].status = "running"
                              /\ handler[h].status # "pending" => handler'[h] = handler[h]
      BY <1>2, <1>p DEF HandlersClaimed, PendingHandlers, HandlerRow
    <2> QED BY <2>1 DEF OpenHandlers
  <1>4. CASE handler' = Rerun
    <2>1. \A h \in Handlers : /\ handler[h].status = "running" => handler'[h].status = "pending"
                              /\ handler[h].status # "running" => handler'[h] = handler[h]
      BY <1>4, <1>p DEF Rerun, HandlerRow
    <2> QED BY <2>1 DEF OpenHandlers
  <1>3. ASSUME NEW h \in Handlers, handler' = HandlerWaits(h)
        PROVE  OpenHandlers' \subseteq OpenHandlers /\ \A x \in Handlers : handler[x].status = "done" => handler'[x].status = "done"
    <2> DEFINE rec == [handler[h] EXCEPT !.status = IF handler[h].status \in {"running", "pending"} THEN "waiting"
                                                   ELSE handler[h].status]
    <2>1. handler' = [handler EXCEPT ![h] = rec] BY <1>3 DEF HandlerWaits
    <2>2. handler[h] \in HandlerRow BY <1>p
    <2>3. rec.status = IF handler[h].status \in {"running", "pending"} THEN "waiting" ELSE handler[h].status
      BY <2>2 DEF HandlerRow
    <2> HIDE DEF rec
    <2>4. \A x \in Handlers : handler'[x] = IF x = h THEN rec ELSE handler[x] BY <2>1, <1>p
    <2> QED BY <2>3, <2>4 DEF OpenHandlers
  <1> QED BY <1>1, <1>2, <1>3, <1>4

\* Every step keeps the room for handlers.
LEMMA RoomStep ==
  ASSUME TypeInv, RoomForOne, [Next]_vars
  PROVE  RoomForOne'
  <1>p. call \in [Calls -> CallRec] /\ handler \in [Handlers -> HandlerRow] BY DEF TypeInv, TypeOK, InboxTypeOK
  <1>1. ASSUME InboxAction PROVE RoomForOne'
    <2>1. CASE UNCHANGED <<handler, call, raced, decisions, crossed>> BY <2>1, RoomStays DEF OpenHandlers
    <2>2. CASE InboxRestart
      <3>1. handler' \in {handler, Rerun} /\ raced' = raced /\ \A c \in Calls : call'[c].pc = "idle"
        BY <2>2 DEF InboxRestart, IdleCall
      <3> QED BY <3>1, HandlersKept, RoomStays
    <2>3. ASSUME NEW c \in Calls, NEW rec \in CallRec, CallTo(c, rec), rec.pc # "insertHandler", raced' = raced,
                 OpenHandlers' \subseteq OpenHandlers
          PROVE  RoomForOne'
      <3>1. \A d \in Calls : call'[d].pc = "insertHandler" => call[d].pc = "insertHandler" BY <1>p, <2>3, CallMoves
      <3> QED BY <2>3, <3>1, RoomStays
    <2>4. ASSUME NEW c \in Calls, NEW j \in Jobs, StartHandler(j, c) PROVE RoomForOne'
      <3> DEFINE rec == [IdleCall EXCEPT !.pc = "countHandlers", !.job = j]
      <3>1. rec \in CallRec /\ rec.pc = "countHandlers" BY DEF IdleCall, CallRec
      <3>2. CallTo(c, rec) /\ raced' = raced /\ handler' = handler BY <2>4 DEF StartHandler, inboxHistory
      <3> HIDE DEF rec
      <3> QED BY <3>1, <3>2, <2>3 DEF OpenHandlers
    <2>5. ASSUME NEW c \in Calls, NEW h \in Handlers, Decide(h, c) PROVE RoomForOne'
      <3> DEFINE rec == [pc |-> "resume", job |-> handler[h].job, handler |-> h]
      <3>1. rec \in CallRec /\ rec.pc = "resume" BY <1>p DEF HandlerRow, CallRec
      <3>2. CallTo(c, rec) /\ raced' = raced /\ handler' = handler BY <2>5 DEF Decide
      <3> HIDE DEF rec
      <3> QED BY <3>1, <3>2, <2>3 DEF OpenHandlers
    <2>6. ASSUME NEW c \in Calls, DecideResume(c) PROVE RoomForOne'
      <3> DEFINE rec == [call[c] EXCEPT !.pc = "close"]
      <3>1. rec \in CallRec /\ rec.pc = "close" BY <1>p DEF CallRec
      <3>2. CallTo(c, rec) /\ raced' = raced /\ handler' = handler BY <2>6 DEF DecideResume, inboxHistory
      <3> HIDE DEF rec
      <3> QED BY <3>1, <3>2, <2>3 DEF OpenHandlers
    <2>7. ASSUME NEW c \in Calls, DecideClose(c) PROVE RoomForOne'
      <3> DEFINE rec == [call[c] EXCEPT !.pc = "signal"]
      <3>1. rec \in CallRec /\ rec.pc = "signal" BY <1>p DEF CallRec
      <3>2. CallTo(c, rec) /\ raced' = raced /\ handler' = [handler EXCEPT ![call[c].handler].status = "done"]
        BY <2>7 DEF DecideClose, inboxHistory
      <3>3. call[c].handler \in Handlers BY <2>7 DEF DecideClose, TypeInv, CarriesOK, CallsCarry
      <3>4. OpenHandlers' \subseteq OpenHandlers BY <3>2, <3>3, <1>p DEF OpenHandlers, HandlerRow
      <3> HIDE DEF rec
      <3> QED BY <3>1, <3>2, <3>4, <2>3
    <2>8. ASSUME NEW c \in Calls, DecideSignal(c) PROVE RoomForOne'
      <3>1. CallTo(c, IdleCall) /\ raced' = raced /\ handler' = handler BY <2>8 DEF DecideSignal
      <3>2. IdleCall \in CallRec /\ IdleCall.pc = "idle" BY DEF IdleCall, CallRec
      <3> QED BY <3>1, <3>2, <2>3 DEF OpenHandlers
    <2>9. ASSUME NEW c \in Calls, CountFails(c) PROVE RoomForOne' BY <2>9 DEF CountFails, RoomForOne
    <2> QED BY <1>1, HandlersAlone, <2>1, <2>2, <2>4, <2>5, <2>6, <2>7, <2>8, <2>9, RoomCounted, RoomTaken DEF CallStep
  <1>2. CASE TickStep \/ (\E a \in Agents : Tidy(a)) \/ (\E r \in Runs : RunStep(r)) \/ MasterStep \/ StarterStep
             \/ Environment \/ UNCHANGED vars
    <2>1. UNCHANGED <<call, raced>> BY <1>2, PoolSide DEF inboxHistory
    <2>2. OpenHandlers' \subseteq OpenHandlers BY <1>2, PoolSide, HandlersKept
    <2> QED BY <2>1, <2>2, RoomStays
  <1> QED BY <1>1, <1>2, Actors

\* A decided handler stays decided, whatever the workspace reports of it, and whoever claims or decides.
LEMMA DoneStays ==
  ASSUME TypeInv, [Next]_vars
  PROVE  \A h \in Handlers : handler[h].status = "done" => handler'[h].status = "done"
  <1>p. handler \in [Handlers -> HandlerRow] BY DEF TypeInv, TypeOK, InboxTypeOK
  <1> DEFINE Stays == \A h \in Handlers : handler[h].status = "done" => handler'[h].status = "done"
  <1>1. ASSUME InboxAction PROVE Stays
    <2>1. CASE handler' = handler BY <2>1
    <2>2. CASE InboxRestart BY <2>2, HandlersKept DEF InboxRestart
    <2>3. ASSUME NEW c \in Calls, InsertHandler(c) PROVE Stays
      <3> DEFINE free == {x \in Handlers : handler[x].status = "none"}
                 h == CHOOSE x \in free : TRUE
      <3>1. handler' = [handler EXCEPT ![h] = [job |-> call[c].job, status |-> "pending"]] /\ free # {}
        BY <2>3 DEF InsertHandler
      <3>2. h \in free BY <3>1
      <3> HIDE DEF h
      <3> QED BY <3>1, <3>2
    <2>4. ASSUME NEW c \in Calls, DecideClose(c) PROVE Stays
      <3>1. handler' = [handler EXCEPT ![call[c].handler].status = "done"] BY <2>4 DEF DecideClose
      <3>2. call[c].handler \in Handlers BY <2>4 DEF DecideClose, TypeInv, CarriesOK, CallsCarry
      <3> QED BY <3>1, <3>2, <1>p DEF HandlerRow
    <2>5. ASSUME NEW c \in Calls,
                 \/ \E j \in Jobs : StartHandler(j, c)
                 \/ \E h \in Handlers : Decide(h, c)
                 \/ CountFails(c) \/ CountHandlers(c) \/ DecideResume(c) \/ DecideSignal(c)
          PROVE  handler' = handler
      BY <2>5, Zenon DEF StartHandler, Decide, CountFails, CountHandlers, DecideResume, DecideSignal
    <2> HIDE DEF Stays
    <2> QED BY <1>1, HandlersAlone, <2>1, <2>2, <2>3, <2>4, <2>5 DEF CallStep
  <1>2. CASE TickStep \/ (\E a \in Agents : Tidy(a)) \/ (\E r \in Runs : RunStep(r)) \/ MasterStep \/ StarterStep
             \/ Environment \/ UNCHANGED vars
    BY <1>2, PoolSide, HandlersKept
  <1> QED BY <1>1, <1>2, Actors

\* A call that goes on with the handler it has, or without, decides nothing twice.
LEMMA DecideMoves ==
  ASSUME call \in [Calls -> CallRec], OneDecides,
         \A h \in Handlers : handler[h].status = "done" => handler'[h].status = "done",
         CallsCarry, None \notin Handlers,
         NEW c \in Calls, NEW rec \in CallRec, CallTo(c, rec), UNCHANGED <<decisions, crossed>>,
         rec.handler = None \/ rec.handler = call[c].handler,
         rec.pc \notin {"resume", "close", "signal"} => rec.handler = None,
         rec.pc = "signal" => handler'[rec.handler].status = "done"
  PROVE  OneDecides'
  <1>1. call'[c] = rec /\ \A d \in Calls \ {c} : call'[d] = call[d] BY CallMoves
  <1>2. \A d \in Calls : call'[d].handler = None \/ call'[d].handler = call[d].handler BY <1>1
  <1>3. \A d \in Calls : call'[d].pc \notin {"resume", "close", "signal"} => call'[d].handler = None
    BY <1>1 DEF OneDecides
  <1>4. \A d \in Calls : call'[d].pc = "signal" => handler'[call'[d].handler].status = "done"
    BY <1>1 DEF OneDecides, CallsCarry
  <1>5. \A h \in Handlers : decisions'[h] > 0 => handler'[h].status = "done" BY DEF OneDecides
  <1>6. ASSUME NEW h \in Handlers \ crossed'
        PROVE  /\ decisions'[h] <= 1
               /\ \A d \in Calls : call'[d].handler = h => decisions'[h] = 0
               /\ \A d, x \in Calls : call'[d].handler = h /\ call'[x].handler = h => d = x
    <2>1. \A d \in Calls : call'[d].handler = h => call[d].handler = h BY <1>2
    <2> QED BY <2>1 DEF OneDecides
  <1> QED BY <1>3, <1>4, <1>5, <1>6 DEF OneDecides

\* Every step keeps what is known of decisions.
LEMMA DecideStep ==
  ASSUME TypeInv, OneDecides, [Next]_vars
  PROVE  OneDecides'
  <1>p. /\ call \in [Calls -> CallRec] /\ handler \in [Handlers -> HandlerRow] /\ decisions \in [Handlers -> Nat]
        /\ CallsCarry
    BY DEF TypeInv, TypeOK, InboxTypeOK, CarriesOK
  <1>n. None \notin Handlers BY InboxAssumption
  <1>d. \A h \in Handlers : handler[h].status = "done" => handler'[h].status = "done" BY DoneStays
  <1>0. ASSUME UNCHANGED <<call, decisions, crossed>> PROVE OneDecides'
    <2>1. \A d \in Calls : call'[d].pc = "signal" => handler'[call'[d].handler].status = "done"
      BY <1>0, <1>d, <1>p DEF OneDecides, CallsCarry
    <2> QED BY <1>0, <1>d, <2>1 DEF OneDecides
  <1>1. ASSUME InboxAction PROVE OneDecides'
    <2>1. CASE UNCHANGED <<handler, call, raced, decisions, crossed>> BY <2>1, <1>0
    <2>2. CASE InboxRestart
      <3>1. UNCHANGED <<decisions, crossed>> /\ \A c \in Calls : call'[c].pc = "idle" /\ call'[c].handler = None
        BY <2>2 DEF InboxRestart, IdleCall
      <3> QED BY <3>1, <1>d, <1>n DEF OneDecides
    <2>3. ASSUME NEW c \in Calls, NEW rec \in CallRec, CallTo(c, rec), UNCHANGED <<decisions, crossed>>,
                 rec.handler = None \/ rec.handler = call[c].handler,
                 rec.pc \notin {"resume", "close", "signal"} => rec.handler = None,
                 rec.pc = "signal" => handler'[rec.handler].status = "done"
          PROVE  OneDecides'
      BY <2>3, <1>p, <1>n, <1>d, DecideMoves
    <2>4. ASSUME NEW c \in Calls, NEW j \in Jobs, StartHandler(j, c) PROVE OneDecides'
      <3> DEFINE rec == [IdleCall EXCEPT !.pc = "countHandlers", !.job = j]
      <3>1. rec \in CallRec /\ rec.pc = "countHandlers" /\ rec.handler = None BY DEF IdleCall, CallRec
      <3>2. CallTo(c, rec) /\ UNCHANGED <<decisions, crossed>> BY <2>4 DEF StartHandler, inboxHistory
      <3> HIDE DEF rec
      <3> QED BY <3>1, <3>2, <2>3
    <2>5. ASSUME NEW c \in Calls, CountHandlers(c) \/ CountFails(c) PROVE OneDecides'
      <3> DEFINE rec == [call[c] EXCEPT !.pc = "insertHandler"]
      <3>1. rec \in CallRec /\ rec.pc = "insertHandler" /\ rec.handler = call[c].handler BY <1>p DEF CallRec
      <3>2. call[c].handler = None BY <2>5 DEF OneDecides, CountHandlers, CountFails
      <3>3. IdleCall \in CallRec /\ IdleCall.pc = "idle" /\ IdleCall.handler = None BY DEF IdleCall, CallRec
      <3>4. (CallTo(c, rec) \/ CallTo(c, IdleCall)) /\ UNCHANGED <<decisions, crossed>>
        BY <2>5 DEF CountHandlers, CountFails
      <3> HIDE DEF rec
      <3> QED BY <3>1, <3>2, <3>3, <3>4, <2>3
    <2>6. ASSUME NEW c \in Calls, InsertHandler(c) PROVE OneDecides'
      <3>1. IdleCall \in CallRec /\ IdleCall.pc = "idle" /\ IdleCall.handler = None BY DEF IdleCall, CallRec
      <3>2. CallTo(c, IdleCall) /\ UNCHANGED <<decisions, crossed>> BY <2>6 DEF InsertHandler, inboxHistory
      <3> QED BY <3>1, <3>2, <2>3
    <2>7. ASSUME NEW c \in Calls, NEW h \in Handlers, Decide(h, c) PROVE OneDecides'
      <3> DEFINE rec == [pc |-> "resume", job |-> handler[h].job, handler |-> h]
      <3>1. rec \in CallRec /\ rec.pc = "resume" /\ rec.handler = h BY <1>p DEF HandlerRow, CallRec
      <3>2. /\ CallTo(c, rec) /\ UNCHANGED <<handler, decisions>> /\ handler[h].status # "done"
            /\ crossed' = IF \E d \in Calls : call[d].handler = h THEN crossed \cup {h} ELSE crossed
        BY <2>7 DEF Decide, Undecided
      <3> HIDE DEF rec
      <3>3. call'[c] = rec /\ \A d \in Calls \ {c} : call'[d] = call[d] BY <3>1, <3>2, <1>p, CallMoves
      <3>4. crossed \subseteq crossed' /\ \A d \in Calls : call[d].handler = h => h \in crossed' BY <3>2
      <3>5. decisions[h] = 0 BY <3>2, <1>p DEF OneDecides
      <3>6. \A d \in Calls : call'[d].pc \notin {"resume", "close", "signal"} => call'[d].handler = None
        BY <3>1, <3>3 DEF OneDecides
      <3>7. \A d \in Calls : call'[d].pc = "signal" => handler'[call'[d].handler].status = "done"
        BY <3>1, <3>2, <3>3 DEF OneDecides
      <3>8. ASSUME NEW x \in Handlers \ crossed'
            PROVE  /\ decisions'[x] <= 1
                   /\ \A d \in Calls : call'[d].handler = x => decisions'[x] = 0
                   /\ \A d, y \in Calls : call'[d].handler = x /\ call'[y].handler = x => d = y
        <4>1. x \notin crossed BY <3>4
        <4>2. CASE x = h
          <5>1. \A d \in Calls : call'[d].handler = h => d = c BY <3>3, <3>4, <4>2
          <5> QED BY <4>2, <5>1, <3>2, <3>5
        <4>3. CASE x # h
          <5>1. \A d \in Calls : call'[d].handler = x => call[d].handler = x BY <3>1, <3>3, <4>3
          <5> QED BY <4>1, <5>1, <3>2 DEF OneDecides
        <4> QED BY <4>2, <4>3
      <3>9. \A x \in Handlers : decisions'[x] > 0 => handler'[x].status = "done" BY <3>2 DEF OneDecides
      <3> QED BY <3>6, <3>7, <3>8, <3>9 DEF OneDecides
    <2>8. ASSUME NEW c \in Calls, DecideResume(c) PROVE OneDecides'
      <3> DEFINE rec == [call[c] EXCEPT !.pc = "close"]
      <3>1. rec \in CallRec /\ rec.pc = "close" /\ rec.handler = call[c].handler BY <1>p DEF CallRec
      <3>2. CallTo(c, rec) /\ UNCHANGED <<decisions, crossed>> BY <2>8 DEF DecideResume, inboxHistory
      <3> HIDE DEF rec
      <3> QED BY <3>1, <3>2, <2>3
    <2>9. ASSUME NEW c \in Calls, DecideClose(c) PROVE OneDecides'
      <3> DEFINE rec == [call[c] EXCEPT !.pc = "signal"]
      <3>1. rec \in CallRec /\ rec.pc = "signal" /\ rec.handler = call[c].handler BY <1>p DEF CallRec
      <3>2. /\ CallTo(c, rec) /\ UNCHANGED <<decisions, crossed>>
            /\ handler' = [handler EXCEPT ![call[c].handler].status = "done"]
        BY <2>9 DEF DecideClose, inboxHistory
      <3>3. call[c].handler \in Handlers BY <2>9, <1>p DEF DecideClose, CallsCarry
      <3>4. handler'[call[c].handler].status = "done" BY <3>2, <3>3, <1>p DEF HandlerRow
      <3> HIDE DEF rec
      <3> QED BY <3>1, <3>2, <3>4, <2>3
    <2>10. ASSUME NEW c \in Calls, DecideSignal(c) PROVE OneDecides'
      <3> DEFINE h == call[c].handler
      <3>1. IdleCall \in CallRec /\ IdleCall.pc = "idle" /\ IdleCall.handler = None BY DEF IdleCall, CallRec
      <3>2. /\ CallTo(c, IdleCall) /\ UNCHANGED <<handler, crossed>> /\ call[c].pc = "signal"
            /\ decisions' = [decisions EXCEPT ![h] = @ + 1]
        BY <2>10 DEF DecideSignal
      <3>3. h \in Handlers /\ handler[h].status = "done" BY <3>2, <1>p DEF CallsCarry, OneDecides
      <3>4. call'[c] = IdleCall /\ \A d \in Calls \ {c} : call'[d] = call[d] BY <3>1, <3>2, <1>p, CallMoves
      <3>5. decisions'[h] = decisions[h] + 1 /\ \A x \in Handlers \ {h} : decisions'[x] = decisions[x]
        BY <3>2, <3>3, <1>p
      <3>6. \A d \in Calls : call'[d].handler = None \/ (call'[d] = call[d] /\ d # c) BY <3>1, <3>4
      <3>7. \A d \in Calls : call'[d].pc \notin {"resume", "close", "signal"} => call'[d].handler = None
        BY <3>1, <3>4 DEF OneDecides
      <3>8. \A d \in Calls : call'[d].pc = "signal" => handler'[call'[d].handler].status = "done"
        BY <3>1, <3>2, <3>4 DEF OneDecides
      <3>9. \A x \in Handlers : decisions'[x] > 0 => handler'[x].status = "done" BY <3>2, <3>3, <3>5 DEF OneDecides
      <3>10. ASSUME NEW x \in Handlers \ crossed'
             PROVE  /\ decisions'[x] <= 1
                    /\ \A d \in Calls : call'[d].handler = x => decisions'[x] = 0
                    /\ \A d, y \in Calls : call'[d].handler = x /\ call'[y].handler = x => d = y
        <4>1. x \notin crossed BY <3>2
        <4>2. CASE x = h
          <5>1. decisions[h] = 0 BY <4>1, <4>2 DEF OneDecides
          <5>2. \A d \in Calls : call'[d].handler # h
            <6> SUFFICES ASSUME NEW d \in Calls, call'[d].handler = h PROVE FALSE OBVIOUS
            <6>1. call[d].handler = h /\ d # c BY <3>6, <3>3, <1>n
            <6> QED BY <6>1, <4>1, <4>2 DEF OneDecides
          <5> QED BY <4>2, <5>1, <5>2, <3>5
        <4>3. CASE x # h
          <5>1. \A d \in Calls : call'[d].handler = x => call[d].handler = x BY <3>6, <1>n
          <5>2. decisions'[x] = decisions[x] BY <3>5, <4>3
          <5> QED BY <4>1, <5>1, <5>2 DEF OneDecides
        <4> QED BY <4>2, <4>3
      <3> QED BY <3>7, <3>8, <3>9, <3>10 DEF OneDecides
    <2> QED BY <1>1, HandlersAlone, <2>1, <2>2, <2>4, <2>5, <2>6, <2>7, <2>8, <2>9, <2>10 DEF CallStep
  <1>2. CASE TickStep \/ (\E a \in Agents : Tidy(a)) \/ (\E r \in Runs : RunStep(r)) \/ MasterStep \/ StarterStep
             \/ Environment \/ UNCHANGED vars
    <2>1. UNCHANGED <<call, decisions, crossed>> BY <1>2, PoolSide DEF inboxHistory
    <2> QED BY <2>1, <1>0
  <1> QED BY <1>1, <1>2, Actors

\* A handler is decided once: the master hears of one decision however many of its agent's calls
\* and the workspace's reports interleave, unless two decisions were in flight at once; and what
\* is decided is not asked again (server.js handlerDecide, /handlers/claim and /waiting).
THEOREM HandlersDecidedOnce == Spec => DecidedOnce
  <1>1. Init => TypeInv /\ OneDecides
    <2>1. ASSUME Init PROVE OneDecides
      <3>1. /\ \A c \in Calls : call[c].pc = "idle" /\ call[c].handler = None
            /\ \A h \in Handlers : decisions[h] = 0
        BY <2>1 DEF Init, InboxInit, IdleCall
      <3>2. None \notin Handlers BY InboxAssumption
      <3> QED BY <3>1, <3>2 DEF OneDecides
    <2> QED BY <2>1, TypeInit
  <1>2. TypeInv /\ OneDecides /\ [Next]_vars => TypeInv' /\ OneDecides' BY TypeStep, DecideStep
  <1>3. OneDecides => \A h \in Handlers \ crossed : decisions[h] <= 1 BY DEF OneDecides
  <1>4. TypeInv /\ [Next]_vars => [\A h \in Handlers : handler[h].status = "done" => handler'[h].status = "done"]_vars
    BY DoneStays
  <1> QED BY <1>1, <1>2, <1>3, <1>4, PTL DEF Spec, DecidedOnce

--------------------------------------------------------------------------
(* Whose agents the pool stops                                             *)

\* Runs are begun in order; one that is live has its place in the pool, and its job to itself,
\* unless the job was claimed again.
RunsInv ==
    /\ \E n \in 0 .. MaxRuns : \A r \in Runs : run[r].pc # "none" <=> r <= n
    /\ \A r \in Runs : run[r].pc = "none" => run[r].job = None
    /\ \A r \in Runs : Live(r) => run[r].job \in active \cup doubled
    /\ \A r, x \in Runs : Live(r) /\ Live(x) /\ run[r].job = run[x].job => r = x \/ run[r].job \in doubled
    /\ StoppedByItsOwn

\* The runs begun are counted.
LEMMA UsedIs ==
  ASSUME NEW n \in 0 .. MaxRuns, \A r \in Runs : run[r].pc # "none" <=> r <= n
  PROVE  Used = n
  <1>0. MaxRuns \in Nat BY PoolAssumption
  <1>1. {r \in Runs : run[r].pc # "none"} = 1 .. n
    <2>1. ASSUME NEW r \in Runs PROVE run[r].pc # "none" <=> r <= n OBVIOUS
    <2>2. {r \in Runs : run[r].pc # "none"} = {r \in Runs : r <= n} BY <2>1, Zenon
    <2>3. {r \in Runs : r <= n} = 1 .. n BY <1>0 DEF Runs
    <2> QED BY <2>2, <2>3
  <1>2. n \in Int /\ 1 \in Int OBVIOUS
  <1>3. Cardinality(1 .. n) = IF 1 > n THEN 0 ELSE n - 1 + 1 BY <1>2, FS_Interval
  <1>4. Cardinality(1 .. n) = n BY <1>3
  <1> QED BY <1>1, <1>4, Zenon DEF Used

\* What a claim does to the pool, the threads handed out in some order.
Handed(js, order) ==
    /\ active' = active \cup (js \ SentBack(order))
    /\ doubled' = doubled \cup ((js \ SentBack(order)) \cap LiveJobs)
    /\ quota' = quota
    /\ \A r \in Runs : /\ r - Used \notin DOMAIN order => run'[r] = run[r]
                       /\ r - Used \in DOMAIN order =>
                             /\ run'[r].job = order[r - Used]
                             /\ run'[r].pc \in {"release", "start", "create"}
                             /\ run'[r].pc # "release" => run'[r].job \notin SentBack(order)

\* A claim hands its threads out, or its answer is lost.
LEMMA ClaimHands ==
  ASSUME NEW js \in SUBSET Jobs, TickClaim(js)
  PROVE  /\ UNCHANGED trespassed
         /\ \/ UNCHANGED <<active, run, doubled>> /\ Spend("lost")
            \/ \E order \in SetToSeqs(js) : Handed(js, order)
  <1>1. ASSUME NEW order \in SetToSeqs(js),
               LET back == SentBack(order)
                   begun(j) == [job |-> j, ok |-> FALSE,
                                pc |-> IF j \in back THEN "release"
                                       ELSE IF j \in record THEN "start" ELSE "create"]
               IN  /\ active' = active \cup (js \ back)
                   /\ run' = [r \in Runs |-> IF r - Used \in DOMAIN order THEN begun(order[r - Used]) ELSE run[r]]
                   /\ doubled' = doubled \cup ((js \ back) \cap LiveJobs)
                   /\ UNCHANGED quota
        PROVE  Handed(js, order)
    BY <1>1 DEF Handed
  <1>2. \/ UNCHANGED <<active, run, doubled>> /\ Spend("lost")
        \/ \E order \in SetToSeqs(js) : Handed(js, order)
    BY <1>1 DEF TickClaim
  <1> QED BY <1>2 DEF TickClaim

\* No run that was over, or that was none, comes to life, and those alive have their places.
LEMMA RunsStay ==
  ASSUME TypeInv, RunsInv, doubled \subseteq doubled', doubled' \subseteq Jobs,
         \A r \in Runs : run'[r].job = run[r].job /\ (run'[r].pc # "none" <=> run[r].pc # "none"),
         \A r \in Runs : run'[r].pc \notin {"none", "release", "over"} => Live(r),
         \A r \in Runs : run'[r].pc \notin {"none", "release", "over"} => run[r].job \in active' \cup doubled',
         \A r \in trespassed' \ trespassed : run[r].job \in doubled',
         trespassed' \subseteq Runs
  PROVE  RunsInv'
  <1>1. PICK n \in 0 .. MaxRuns : \A r \in Runs : run[r].pc # "none" <=> r <= n BY DEF RunsInv
  <1>2. \A r \in Runs : run'[r].pc # "none" <=> r <= n BY <1>1
  <1>3. \A r \in Runs : run'[r].pc = "none" => run'[r].job = None BY DEF RunsInv
  <1>4. \A r \in Runs : Live(r)' => run'[r].job \in active' \cup doubled' BY DEF Live
  <1>5. \A r, x \in Runs : Live(r)' /\ Live(x)' /\ run'[r].job = run'[x].job => r = x \/ run'[r].job \in doubled'
    BY DEF RunsInv, Live
  <1>6. \A r \in trespassed' : run'[r].job \in doubled' BY DEF RunsInv, StoppedByItsOwn
  <1> QED BY <1>2, <1>3, <1>4, <1>5, <1>6 DEF RunsInv, StoppedByItsOwn

\* A tick gives back no agent of a thread in the pool, and the threads it claims get places.
LEMMA RunsTick ==
  ASSUME TypeInv, RunsInv, TickStep \/ \E a \in Agents : Tidy(a)
  PROVE  RunsInv'
  <1>t. TypeInv' BY TickTypes
  <1>d. /\ doubled \subseteq Jobs /\ doubled' \subseteq Jobs /\ trespassed \subseteq Runs /\ trespassed' \subseteq Runs
        /\ \A r \in Runs : run[r].pc # "none" => run[r].job \in Jobs
    BY <1>t DEF TypeInv, TypeOK, CarriesOK
  <1>0. ASSUME UNCHANGED <<run, active, doubled, trespassed>> PROVE RunsInv'
    BY <1>0 DEF RunsInv, Live, StoppedByItsOwn
  <1>1. CASE TickBegin \/ TickLaunch \/ TickRoom
    <2>1. UNCHANGED <<run, active, doubled, trespassed>> BY <1>1 DEF TickBegin, TickLaunch, TickRoom
    <2> QED BY <2>1, <1>0
  <1>2. ASSUME NEW a \in Agents, TickCleanup(a) PROVE RunsInv'
    <2>1. UNCHANGED <<run, active, doubled, trespassed>> BY <1>2 DEF TickCleanup
    <2> QED BY <2>1, <1>0
  <1>3. ASSUME NEW a \in Agents, TickReleaseIdle(a) PROVE RunsInv'
    <2>1. UNCHANGED <<run, active, doubled>> BY <1>3 DEF TickReleaseIdle
    <2>2. \A x \in trespassed' \ trespassed : run[x].job = a /\ run[x].pc \in {"prompt", "settle"}
      BY <1>3 DEF TickReleaseIdle, StopAgent
    <2>3. a \in Handlers \/ a \notin active BY <1>3 DEF TickReleaseIdle, IdleWorker
    <2>4. ASSUME NEW x \in trespassed' \ trespassed PROVE run[x].job \in doubled
      <3>1. x \in Runs /\ Live(x) BY <2>2, <1>d DEF Live
      <3>2. run[x].job \in Jobs BY <3>1, <1>d DEF Live
      <3>3. run[x].job \notin Handlers BY <3>2, PoolAssumption
      <3> QED BY <3>1, <3>3, <2>2, <2>3 DEF RunsInv
    <2>5. \A r \in Runs : run'[r].pc \notin {"none", "release", "over"} => Live(r) /\ run[r].job \in active' \cup doubled'
      BY <2>1 DEF RunsInv, Live
    <2> QED BY <2>1, <2>4, <2>5, <1>d, RunsStay
  <1>4. ASSUME NEW js \in SUBSET Jobs, NEW order \in SetToSeqs(js), Handed(js, order), UNCHANGED trespassed
        PROVE  RunsInv'
    <2> DEFINE k == Cardinality(js)
    <2>1. /\ k \in Nat /\ DOMAIN order = 1 .. k /\ \A i \in DOMAIN order : order[i] \in js
          /\ \A i, j \in DOMAIN order : i # j => order[i] # order[j]
      BY OrderOK
    <2> HIDE DEF k
    <2>2. PICK n \in 0 .. MaxRuns : \A r \in Runs : run[r].pc # "none" <=> r <= n BY DEF RunsInv
    <2>3. Used = n BY <2>2, UsedIs
    <2> DEFINE New(r) == r - n \in 1 .. k
    <2>4. \A r \in Runs : ~New(r) => run'[r] = run[r] BY <1>4, <2>1, <2>3 DEF Handed
    <2>5. \A r \in Runs : New(r) => /\ run'[r].job = order[r - n] /\ run'[r].pc \in {"release", "start", "create"}
                                    /\ run'[r].pc # "release" => run'[r].job \notin SentBack(order)
      BY <1>4, <2>1, <2>3 DEF Handed
    <2>6. /\ active' = active \cup (js \ SentBack(order))
          /\ doubled' = doubled \cup ((js \ SentBack(order)) \cap LiveJobs)
      BY <1>4 DEF Handed
    <2>7. \A r \in Runs : r \in Int /\ 1 <= r /\ r <= MaxRuns BY DEF Runs
    <2>8. \A r \in Runs : New(r) => run[r].pc = "none" BY <2>1, <2>2, <2>7
    <2>9. \E m \in 0 .. MaxRuns : \A r \in Runs : run'[r].pc # "none" <=> r <= m
      <3> DEFINE m == IF n + k <= MaxRuns THEN n + k ELSE MaxRuns
      <3>1. m \in 0 .. MaxRuns BY <2>1, <2>2, PoolAssumption
      <3>2. ASSUME NEW r \in Runs PROVE run'[r].pc # "none" <=> r <= m
        <4>1. CASE New(r)
          <5>1. r <= m BY <4>1, <2>1, <2>7
          <5> QED BY <4>1, <5>1, <2>5
        <4>2. CASE ~New(r)
          <5>1. r <= n \/ r > n + k BY <4>2, <2>1, <2>2, <2>7
          <5>2. r <= n <=> r <= m BY <5>1, <2>1, <2>2, <2>7, PoolAssumption
          <5> QED BY <4>2, <5>2, <2>2, <2>4
        <4> QED BY <4>1, <4>2
      <3> QED BY <3>1, <3>2
    <2>10. \A r \in Runs : run'[r].pc = "none" => run'[r].job = None
      <3> SUFFICES ASSUME NEW r \in Runs, run'[r].pc = "none" PROVE run'[r].job = None OBVIOUS
      <3>1. ~New(r) BY <2>5
      <3> QED BY <3>1, <2>4 DEF RunsInv
    <2>11. ASSUME NEW r \in Runs, New(r), Live(r)'
           PROVE  run'[r].job \in js \ SentBack(order)
      <3>1. run'[r].pc # "release" BY <2>11 DEF Live
      <3>2. r - n \in DOMAIN order BY <2>11, <2>1
      <3> HIDE DEF New
      <3> QED BY <2>11, <3>1, <3>2, <2>1, <2>5
    <2>12. \A r \in Runs : ~New(r) => (Live(r)' <=> Live(r)) BY <2>4 DEF Live
    <2>13. \A r \in Runs : Live(r)' => run'[r].job \in active' \cup doubled'
      <3> SUFFICES ASSUME NEW r \in Runs, Live(r)' PROVE run'[r].job \in active' \cup doubled' OBVIOUS
      <3> HIDE DEF New
      <3>1. CASE New(r) BY <3>1, <2>11, <2>6
      <3>2. CASE ~New(r)
        <4>1. Live(r) /\ run'[r] = run[r] BY <3>2, <2>4, <2>12
        <4> QED BY <4>1, <2>6 DEF RunsInv
      <3> QED BY <3>1, <3>2
    <2>14. ASSUME NEW r \in Runs, NEW x \in Runs, Live(r)', Live(x)', run'[r].job = run'[x].job
           PROVE  r = x \/ run'[r].job \in doubled'
      <3>1. CASE New(r) /\ New(x)
        <4>1. order[r - n] = order[x - n] BY <3>1, <2>5, <2>14
        <4>2. r - n = x - n BY <4>1, <3>1, <2>1
        <4> QED BY <4>2, <2>7
      <3>2. ASSUME NEW y \in Runs, NEW z \in Runs, New(y), ~New(z), Live(y)', Live(z)', run'[y].job = run'[z].job
            PROVE  run'[y].job \in doubled'
        <4> HIDE DEF New
        <4>1. Live(z) /\ run'[z] = run[z] BY <3>2, <2>4, <2>12
        <4>2. run[z].job \in LiveJobs BY <4>1 DEF LiveJobs
        <4> QED BY <3>2, <4>1, <4>2, <2>6, <2>11
      <3>3. CASE ~New(r) /\ ~New(x)
        <4> HIDE DEF New
        <4>1. Live(r) /\ Live(x) /\ run'[r] = run[r] /\ run'[x] = run[x] BY <3>3, <2>4, <2>12, <2>14
        <4> QED BY <4>1, <2>6, <2>14 DEF RunsInv
      <3> HIDE DEF New
      <3> QED BY <3>1, <3>2, <3>3, <2>14
    <2>15. \A r \in trespassed' : run'[r].job \in doubled'
      <3> SUFFICES ASSUME NEW r \in trespassed PROVE run'[r].job \in doubled' BY <1>4
      <3>1. r \in Runs /\ run[r].job \in doubled BY <1>d DEF RunsInv, StoppedByItsOwn
      <3>2. run[r].job # None BY <3>1, <1>d, InboxAssumption
      <3>3. ~New(r) BY <3>1, <3>2, <2>8 DEF RunsInv
      <3> QED BY <3>1, <3>3, <2>4, <2>6
    <2> QED BY <2>9, <2>10, <2>13, <2>14, <2>15 DEF RunsInv, StoppedByItsOwn
  <1>5. ASSUME NEW js \in SUBSET Jobs, TickClaim(js) PROVE RunsInv'
    BY <1>5, <1>0, <1>4, ClaimHands
  <1> QED BY <1>1, <1>2, <1>3, <1>5 DEF TickStep, Tidy

\* A run stops its own agent, and gives its own place back.
LEMMA RunsRun ==
  ASSUME TypeInv, RunsInv, NEW r \in Runs, RunStep(r)
  PROVE  RunsInv'
  <1>t. TypeInv' BY RunTypes
  <1>d. /\ doubled' \subseteq Jobs /\ trespassed' \subseteq Runs
    BY <1>t DEF TypeInv, TypeOK
  <1>m. /\ run[r].pc # "none" /\ run[r].job \in Jobs
        /\ \A x \in Runs : run'[x].job = run[x].job /\ (run'[x].pc # "none" <=> run[x].pc # "none")
        /\ \A x \in Runs \ {r} : run'[x] = run[x]
    BY RunStepMoves
  <1>1. doubled' = doubled
    BY Zenon DEF RunStep, RunRelease, RunCreate, RunStart, RunStarted, RunPrompt, RunSettle, RunReport, RunStop, RunLeave
  <1>2. run[r].pc \in {"release", "create", "start", "starting", "prompt", "settle", "report", "stop", "leave"}
    <2>1. \/ run[r].pc = "release" \/ run[r].pc = "create" \/ run[r].pc = "start" \/ run[r].pc = "starting"
          \/ run[r].pc = "prompt" \/ run[r].pc = "settle" \/ run[r].pc = "report" \/ run[r].pc = "stop"
          \/ run[r].pc = "leave"
      BY Zenon DEF RunStep, RunRelease, RunCreate, RunStart, RunStarted, RunPrompt, RunSettle, RunReport, RunStop, RunLeave
    <2> QED BY <2>1
  <1>3. run[r].pc = "release" => run'[r].pc = "over"
    <2>1. ASSUME run[r].pc = "release" PROVE RunRelease(r)
      BY <2>1 DEF RunStep, RunRelease, RunCreate, RunStart, RunStarted, RunPrompt, RunSettle, RunReport, RunStop, RunLeave
    <2>2. run \in [Runs -> RunRec] BY DEF TypeInv, TypeOK
    <2> QED BY <2>1, <2>2 DEF RunRelease, To, RunRec
  <1>4. \A x \in Runs : run'[x].pc \notin {"none", "release", "over"} => Live(x) BY <1>m, <1>2, <1>3 DEF Live
  <1>5. \A x \in Runs : run'[x].pc \notin {"none", "release", "over"} => run[x].job \in active' \cup doubled'
    <2>1. active' = active \/ RunLeave(r)
      BY Zenon DEF RunStep, RunRelease, RunCreate, RunStart, RunStarted, RunPrompt, RunSettle, RunReport, RunStop, RunLeave
    <2>2. CASE active' = active BY <2>2, <1>1, <1>4 DEF RunsInv
    <2>3. CASE RunLeave(r)
      <3>1. run \in [Runs -> RunRec] BY DEF TypeInv, TypeOK
      <3>2. run[r].pc = "leave" /\ active' = active \ {run[r].job} /\ run'[r].pc = "over"
        BY <2>3, <3>1 DEF RunLeave, To, RunRec
      <3>3. Live(r) BY <3>2 DEF Live
      <3> SUFFICES ASSUME NEW x \in Runs, run'[x].pc \notin {"none", "release", "over"}
                   PROVE  run[x].job \in active' \cup doubled'
        OBVIOUS
      <3>4. x # r /\ Live(x) BY <3>2, <1>4
      <3>5. run[x].job \in active \cup doubled BY <3>4 DEF RunsInv
      <3>6. run[x].job = run[r].job => run[x].job \in doubled BY <3>3, <3>4 DEF RunsInv
      <3> QED BY <3>2, <3>5, <3>6, <1>1
    <2> QED BY <2>1, <2>2, <2>3
  <1>6. ASSUME NEW x \in trespassed' \ trespassed PROVE run[x].job \in doubled'
    <2>1. trespassed' = trespassed \/ RunStop(r)
      BY Zenon DEF RunStep, RunRelease, RunCreate, RunStart, RunStarted, RunPrompt, RunSettle, RunReport, RunStop, RunLeave
    <2>2. RunStop(r) BY <2>1, <1>6
    <2>3. run[r].pc = "stop" /\ x \in Runs \ {r} /\ run[x].job = run[r].job /\ run[x].pc \in {"prompt", "settle"}
      BY <2>2, <1>6 DEF RunStop, StopAgent
    <2>4. Live(r) /\ Live(x) BY <2>3 DEF Live
    <2> QED BY <2>3, <2>4, <1>1 DEF RunsInv
  <1> QED BY <1>1, <1>d, <1>m, <1>4, <1>5, <1>6, RunsStay

\* Every step keeps what is known of the runs.
LEMMA RunsStep ==
  ASSUME TypeInv, RunsInv, [Next]_vars
  PROVE  RunsInv'
  <1>d. /\ doubled \subseteq Jobs /\ trespassed \subseteq Runs
        /\ \A r \in Runs : run[r].pc # "none" => run[r].job \in Jobs
    BY DEF TypeInv, TypeOK, CarriesOK
  <1>0. ASSUME UNCHANGED <<run, active, doubled, trespassed>> PROVE RunsInv'
    BY <1>0 DEF RunsInv, Live, StoppedByItsOwn
  <1>1. ASSUME NEW a, a \notin Jobs, StopAgent(a, None), UNCHANGED <<run, active, doubled>> PROVE RunsInv'
    <2>1. \A x \in trespassed' \ trespassed : x \in Runs /\ run[x].job = a /\ run[x].pc \in {"prompt", "settle"}
      BY <1>1 DEF StopAgent
    <2>2. trespassed \subseteq trespassed' BY <1>1 DEF StopAgent
    <2>3. trespassed' = trespassed BY <2>1, <2>2, <1>1, <1>d
    <2> QED BY <2>3, <1>1, <1>0
  <1>2. CASE MasterStep
    <2>1. /\ UNCHANGED <<run, active, doubled>>
          /\ trespassed' = trespassed \/ StopAgent(Master, None)
      BY <1>2, Zenon DEF MasterStep, MasterFetch, MasterStarted, MasterPrompt, MasterAck, MasterSettle, MasterCutOff
    <2>2. Master \notin Jobs BY PoolAssumption
    <2> QED BY <2>1, <2>2, <1>0, <1>1
  <1>3. CASE StarterStep
    <2>1. /\ UNCHANGED <<run, active, doubled>>
          /\ trespassed' = trespassed \/ StarterRelease
      BY <1>3, Zenon DEF StarterStep, StarterClaim, StarterCreate, StarterStart, StarterStarted, StarterPrompt,
                        StarterSettle, StarterWaiting, StarterRelease
    <2>2. ASSUME StarterRelease PROVE StopAgent(starter.handler, None) /\ starter.handler \in Handlers
      BY <2>2 DEF StarterRelease, TypeInv, CarriesOK
    <2>3. \A h \in Handlers : h \notin Jobs BY PoolAssumption
    <2> QED BY <2>1, <2>2, <2>3, <1>0, <1>1
  <1>4. CASE WorkspaceRestart
    <2>1. run' = [r \in Runs |-> IF run[r].pc = "none" THEN run[r] ELSE [run[r] EXCEPT !.pc = "over"]]
      BY <1>4 DEF WorkspaceRestart
    <2>2. \A r \in Runs : run[r] \in RunRec BY DEF TypeInv, TypeOK
    <2>3. \A r \in Runs : /\ run'[r].job = run[r].job /\ run'[r].pc \in {"none", "over"}
                          /\ run'[r].pc # "none" <=> run[r].pc # "none"
      BY <2>1, <2>2 DEF RunRec
    <2>4. UNCHANGED <<doubled, trespassed>> BY <1>4 DEF WorkspaceRestart
    <2> QED BY <2>3, <2>4, <1>d, RunsStay
  <1>5. CASE (\E a \in Agents : Open(a) \/ Close(a)) \/ \E j \in Jobs : Expire(j)
    <2>1. UNCHANGED <<run, active, doubled, trespassed>> BY <1>5 DEF Open, Close, Expire, ownVars
    <2> QED BY <2>1, <1>0
  <1>6. CASE UNCHANGED ownVars BY <1>6, <1>0 DEF ownVars
  <1>7. CASE UNCHANGED vars BY <1>7, <1>0 DEF vars, poolVars
  <1> QED BY <1>2, <1>3, <1>4, <1>5, <1>6, <1>7, Actors, RunsTick, RunsRun DEF Environment

\* No run has begun.
LEMMA RunsInit ==
  ASSUME Init
  PROVE  RunsInv
  <1>1. /\ \A r \in Runs : run[r].pc = "none" /\ run[r].job = None
        /\ trespassed = {}
    BY DEF Init
  <1>2. 0 \in 0 .. MaxRuns /\ \A r \in Runs : run[r].pc # "none" <=> r <= 0 BY <1>1, PoolAssumption DEF Runs
  <1>3. \E n \in 0 .. MaxRuns : \A r \in Runs : run[r].pc # "none" <=> r <= n BY <1>2
  <1> QED BY <1>1, <1>3 DEF RunsInv, Live, StoppedByItsOwn

\* Neither the tick's tidying, nor the master, nor a handler's start, nor another run stops the
\* agent of a thread at work: only an earlier run of the same job that is still being released
\* does (graph-pool.ts releaseIdle, run, masterTurn, startHandlers).
THEOREM StopsItsOwn == Spec => []StoppedByItsOwn
  <1>1. Init => TypeInv /\ RunsInv BY TypeInit, RunsInit
  <1>2. TypeInv /\ RunsInv /\ [Next]_vars => TypeInv' /\ RunsInv' BY TypeStep, RunsStep
  <1>3. RunsInv => StoppedByItsOwn BY DEF RunsInv
  <1> QED BY <1>1, <1>2, <1>3, PTL DEF Spec

--------------------------------------------------------------------------
(* The limits                                                              *)

\* The pool keeps to its size, with the room a tick has found, and to what a model serves.
PlacesInv ==
    /\ Cardinality(active) <= quota.size
    /\ tick.pc = "claim" => Cardinality(active) + tick.room <= quota.size
    /\ Cardinality(active \cap quota.limited) <= Limit

\* Sets of jobs are finite, and the more they hold the larger.
LEMMA JobSets ==
  ASSUME NEW S \in SUBSET Jobs
  PROVE  /\ IsFiniteSet(S) /\ Cardinality(S) \in Nat
         /\ \A T \in SUBSET S : Cardinality(T) <= Cardinality(S)
  <1>1. S \subseteq Agents BY DEF Agents
  <1>2. IsFiniteSet(S) BY <1>1, PoolAssumption, FS_Subset
  <1>3. Cardinality(S) \in Nat BY <1>2, FS_CardinalityType
  <1>4. \A T \in SUBSET S : Cardinality(T) <= Cardinality(S) BY <1>2, FS_Subset
  <1> QED BY <1>2, <1>3, <1>4

\* Two sets of jobs together are at most as many as they are apart.
LEMMA JobUnions ==
  ASSUME NEW S \in SUBSET Jobs, NEW T \in SUBSET Jobs
  PROVE  Cardinality(S \cup T) <= Cardinality(S) + Cardinality(T)
  <1>1. IsFiniteSet(S) /\ IsFiniteSet(T) /\ Cardinality(S) \in Nat /\ Cardinality(T) \in Nat BY JobSets
  <1>2. Cardinality(S \cup T) = Cardinality(S) + Cardinality(T) - Cardinality(S \cap T) BY <1>1, FS_Union
  <1>3. S \cap T \in SUBSET Jobs OBVIOUS
  <1>4. Cardinality(S \cap T) \in Nat BY <1>3, JobSets
  <1> QED BY <1>1, <1>2, <1>4

\* Each thread of a claim has its turn in the order.
LEMMA OrderHasAll ==
  ASSUME NEW js \in SUBSET Jobs, NEW order \in SetToSeqs(js)
  PROVE  \A j \in js : \E i \in DOMAIN order : order[i] = j
  <1> DEFINE k == Cardinality(js)
             D == 1 .. k
  <1>1. k \in Nat /\ \A i, j \in D : i # j => order[i] # order[j] BY OrderOK
  <1>2. order \in [D -> js] BY DEF SetToSeqs
  <1>3. order \in Injection(D, js) BY <1>1, <1>2 DEF Injection, IsInjective
  <1>4. IsFiniteSet(js) BY JobSets
  <1>5. Cardinality(D) = k
    <2>1. 1 \in Int /\ k \in Int BY <1>1
    <2>2. Cardinality(1 .. k) = IF 1 > k THEN 0 ELSE k - 1 + 1 BY <2>1, FS_Interval
    <2> QED BY <1>1, <2>2
  <1>6. order \in Surjection(D, js) BY <1>3, <1>4, <1>5, FS_Injection
  <1>7. \A j \in js : \E i \in D : order[i] = j BY <1>6 DEF Surjection
  <1>8. DOMAIN order = D BY <1>2
  <1> QED BY <1>7, <1>8

\* A set of indices that is not empty has a last one.
LEMMA LastOf ==
  ASSUME NEW n \in Nat, NEW S \in SUBSET (1 .. n), S # {}
  PROVE  \E i \in S : \A k \in S : k <= i
  <1> DEFINE T == {x \in 0 .. n : n - x \in S}
  <1>1. T \in SUBSET Nat OBVIOUS
  <1>2. T # {}
    <2>1. PICK i \in S : TRUE OBVIOUS
    <2>2. i \in 1 .. n BY <2>1
    <2>3. n - i \in 0 .. n /\ n - (n - i) = i BY <2>2
    <2>4. n - i \in T BY <2>1, <2>3
    <2> QED BY <2>4
  <1>3. PICK x \in T : \A y \in T : x <= y
    <2> HIDE DEF T
    <2> QED BY <1>1, <1>2, LeastOf
  <1>4. n - x \in S /\ x \in 0 .. n BY <1>3
  <1>5. ASSUME NEW k \in S PROVE k <= n - x
    <2>1. k \in 1 .. n OBVIOUS
    <2>2. n - k \in 0 .. n /\ n - (n - k) = k BY <2>1
    <2>3. n - k \in T BY <2>2
    <2>4. x <= n - k BY <1>3, <2>3
    <2> QED BY <1>4, <2>1, <2>4
  <1> QED BY <1>4, <1>5

\* A claim leaves no more threads of the limited model in the pool than the model serves: the last
\* of them that was not sent back found fewer there.
LEMMA LimitedKept ==
  ASSUME TypeInv, PlacesInv, NEW js \in SUBSET Jobs, NEW order \in SetToSeqs(js)
  PROVE  Cardinality((active \cup (js \ SentBack(order))) \cap quota.limited) <= Limit
  <1> DEFINE L == quota.limited
             n == Cardinality(js)
             kept == (active \cup (js \ SentBack(order))) \cap L
             before(i) == active \cup {order[k] : k \in 1 .. (i - 1)}
             S == {i \in 1 .. n : order[i] \in L /\ order[i] \notin SentBack(order)}
  <1>1. /\ n \in Nat /\ DOMAIN order = 1 .. n /\ \A i \in DOMAIN order : order[i] \in js BY OrderOK
  <1>2. \A j \in js : \E i \in DOMAIN order : order[i] = j BY OrderHasAll
  <1>3. L \subseteq Jobs /\ active \subseteq Jobs /\ Limit \in Nat BY PoolAssumption DEF TypeInv, TypeOK, CarriesOK, Quota
  <1> HIDE DEF L, n
  <1>4. CASE S = {}
    <2>1. \A j \in js \ SentBack(order) : j \notin L BY <1>1, <1>2, <1>4
    <2>2. kept = active \cap L BY <2>1
    <2> QED BY <2>2 DEF PlacesInv, L
  <1>5. CASE S # {}
    <2>1. S \subseteq 1 .. n OBVIOUS
    <2>2. PICK i \in S : \A k \in S : k <= i
      <3> HIDE DEF S
      <3> QED BY <1>1, <1>5, <2>1, LastOf
    <2>3. i \in 1 .. n /\ order[i] \in L /\ order[i] \notin SentBack(order) BY <2>2
    <2>4. ~Full(order[i], before(i)) BY <2>3, <1>1, Zenon DEF SentBack
    <2>5. before(i) \cap L \in SUBSET Jobs BY <1>3
    <2>6. Cardinality(before(i) \cap L) \in Nat BY <2>5, JobSets
    <2>7. Cardinality(before(i) \cap L) < Limit
      <3>1. ~(Cardinality(before(i) \cap L) >= Limit) BY <2>3, <2>4 DEF Full, L
      <3> HIDE DEF before
      <3> QED BY <3>1, <2>6, <1>3
    <2>8. kept \subseteq (before(i) \cap L) \cup {order[i]}
      <3> SUFFICES ASSUME NEW j \in kept, j \notin active PROVE j \in (before(i) \cap L) \cup {order[i]} OBVIOUS
      <3>1. j \in js \ SentBack(order) /\ j \in L OBVIOUS
      <3>2. PICK k \in 1 .. n : order[k] = j BY <1>1, <1>2, <3>1
      <3>3. k \in S BY <3>1, <3>2
      <3>4. k <= i BY <2>2, <3>3
      <3>5. k = i \/ k \in 1 .. (i - 1) BY <2>3, <3>2, <3>4, <1>1
      <3> QED BY <3>1, <3>2, <3>5
    <2>9. Cardinality((before(i) \cap L) \cup {order[i]}) <= Limit
      <3>1. IsFiniteSet(before(i) \cap L) BY <2>5, JobSets
      <3>2. Cardinality((before(i) \cap L) \cup {order[i]}) =
              IF order[i] \in before(i) \cap L THEN Cardinality(before(i) \cap L) ELSE Cardinality(before(i) \cap L) + 1
        BY <3>1, FS_AddElement
      <3> HIDE DEF before
      <3> QED BY <3>2, <2>6, <2>7, <1>3
    <2>10. /\ (before(i) \cap L) \cup {order[i]} \in SUBSET Jobs
           /\ kept \in SUBSET ((before(i) \cap L) \cup {order[i]})
      BY <2>3, <2>5, <2>8, <1>3
    <2> DEFINE Z == (before(i) \cap L) \cup {order[i]}
    <2>11. Z \in SUBSET Jobs /\ kept \in SUBSET Z /\ Cardinality(Z) <= Limit BY <2>9, <2>10
    <2> HIDE DEF Z, kept
    <2>12. Cardinality(kept) <= Cardinality(Z) /\ Cardinality(Z) \in Nat BY <2>11, JobSets
    <2>13. kept \in SUBSET Jobs BY <2>11
    <2>14. Cardinality(kept) \in Nat BY <2>13, JobSets
    <2>15. Cardinality(kept) <= Limit BY <2>11, <2>12, <2>14, <1>3
    <2> QED BY <2>15 DEF kept, L
  <1> QED BY <1>4, <1>5

\* What the environment may do is drawn once: its size and what is limited stay.
LEMMA SizeStays ==
  ASSUME TypeInv, [Next]_vars
  PROVE  quota'.size = quota.size /\ quota'.limited = quota.limited
  <1> DEFINE Whats == {"save", "delete", "lost", "fault", "open", "close", "expire", "crash", "restart", "ask", "decide",
                       "settle"}
             Stays == quota'.size = quota.size /\ quota'.limited = quota.limited
  <1>1. ASSUME NEW what \in Whats, Spend(what) PROVE Stays BY <1>1, SpendOK DEF TypeInv, CarriesOK
  <1>2. ASSUME quota' = quota \/ Spend("lost") \/ Spend("fault") \/ Spend("open") \/ Spend("close") \/ Spend("expire")
                 \/ Spend("crash")
        PROVE  Stays
    <2>1. \A what \in {"lost", "fault", "open", "close", "expire", "crash"} : what \in Whats OBVIOUS
    <2> HIDE DEF Whats, Stays
    <2>2. quota' = quota => Stays BY DEF Stays
    <2> QED BY <1>1, <1>2, <2>1, <2>2
  <1>3. CASE TickStep \/ \E a \in Agents : Tidy(a)
    <2>1. quota' = quota \/ Spend("lost")
      BY <1>3, Zenon DEF TickStep, TickBegin, TickLaunch, TickRoom, TickClaim, Tidy, TickReleaseIdle, TickCleanup
    <2> QED BY <2>1, <1>2
  <1>4. ASSUME NEW r \in Runs, RunStep(r) PROVE Stays
    <2>1. quota' = quota \/ Spend("lost") \/ Spend("fault")
      BY <1>4, Zenon DEF RunStep, RunRelease, RunCreate, RunStart, RunStarted, RunPrompt, RunSettle, RunReport, RunStop,
                         RunLeave
    <2> QED BY <2>1, <1>2
  <1>5. CASE MasterStep
    <2>1. quota' = quota \/ Spend("lost") \/ Spend("fault")
      BY <1>5, Zenon DEF MasterStep, MasterFetch, MasterStarted, MasterPrompt, MasterAck, MasterSettle, MasterCutOff
    <2> QED BY <2>1, <1>2
  <1>6. CASE StarterStep
    <2>1. quota' = quota \/ Spend("lost") \/ Spend("fault")
      BY <1>6, Zenon DEF StarterStep, StarterClaim, StarterCreate, StarterStart, StarterStarted, StarterPrompt,
                         StarterSettle, StarterWaiting, StarterRelease
    <2> QED BY <2>1, <1>2
  <1>7. CASE Environment
    <2>1. Spend("open") \/ Spend("close") \/ Spend("expire") \/ Spend("crash")
      BY <1>7, Zenon DEF Environment, Open, Close, Expire, WorkspaceRestart
    <2> QED BY <2>1, <1>2
  <1>8. CASE quota' = quota \/ \E what \in {"save", "delete", "ask", "decide", "settle", "restart", "fault"} : Spend(what)
    <2>1. \A what \in {"save", "delete", "ask", "decide", "settle", "restart", "fault"} : what \in Whats OBVIOUS
    <2> HIDE DEF Whats
    <2> QED BY <2>1, <1>1, <1>8
  <1>9. CASE UNCHANGED vars BY <1>9 DEF vars, poolVars
  <1> QED BY <1>3, <1>4, <1>5, <1>6, <1>7, <1>8, <1>9, Actors

\* Fewer in the pool, and a tick that has found no new room.
LEMMA PlacesStay ==
  ASSUME TypeInv, PlacesInv, active' \subseteq active, quota'.size = quota.size, quota'.limited = quota.limited,
         tick' = tick \/ tick'.pc # "claim"
  PROVE  PlacesInv'
  <1>1. active \in SUBSET Jobs /\ active' \in SUBSET active BY DEF TypeInv, TypeOK
  <1>2. Cardinality(active') <= Cardinality(active) /\ Cardinality(active) \in Nat BY <1>1, JobSets
  <1>3. Cardinality(active') \in Nat BY <1>1, JobSets
  <1>4. active \cap quota.limited \in SUBSET Jobs /\ active' \cap quota.limited \in SUBSET (active \cap quota.limited)
    BY <1>1
  <1>5. /\ Cardinality(active' \cap quota.limited) <= Cardinality(active \cap quota.limited)
        /\ Cardinality(active \cap quota.limited) \in Nat
    BY <1>4, JobSets
  <1>6. active' \cap quota.limited \in SUBSET Jobs BY <1>1
  <1>7. Cardinality(active' \cap quota.limited) \in Nat BY <1>6, JobSets
  <1>8. quota.size \in Nat /\ tick.room \in Nat /\ Limit \in Nat BY PoolAssumption DEF TypeInv, TypeOK, CarriesOK, Quota
  <1>9. Cardinality(active') <= quota'.size BY <1>2, <1>3, <1>8 DEF PlacesInv
  <1>10. tick'.pc = "claim" => Cardinality(active') + tick'.room <= quota'.size BY <1>2, <1>3, <1>8 DEF PlacesInv
  <1>11. Cardinality(active' \cap quota'.limited) <= Limit BY <1>5, <1>7, <1>8 DEF PlacesInv
  <1> QED BY <1>9, <1>10, <1>11 DEF PlacesInv

\* The threads a tick claims fit the room it has found.
LEMMA PlacesClaimed ==
  ASSUME TypeInv, PlacesInv, NEW js \in SUBSET Jobs, TickClaim(js), quota'.size = quota.size, quota'.limited = quota.limited
  PROVE  PlacesInv'
  <1>1. tick.pc = "claim" /\ tick' = IdleTick /\ Cardinality(js) <= tick.room BY DEF TickClaim
  <1>2. tick'.pc # "claim" BY <1>1 DEF IdleTick
  <1>3. CASE UNCHANGED active BY <1>2, <1>3, PlacesStay
  <1>4. ASSUME NEW order \in SetToSeqs(js), active' = active \cup (js \ SentBack(order)) PROVE PlacesInv'
    <2>1. active \in SUBSET Jobs /\ js \ SentBack(order) \in SUBSET js BY DEF TypeInv, TypeOK
    <2>2. js \ SentBack(order) \in SUBSET Jobs BY <2>1
    <2>3. Cardinality(active') <= Cardinality(active) + Cardinality(js \ SentBack(order)) BY <1>4, <2>1, <2>2, JobUnions
    <2>4. Cardinality(js \ SentBack(order)) <= Cardinality(js) /\ Cardinality(js) \in Nat BY <2>1, JobSets
    <2>5. Cardinality(active) \in Nat /\ Cardinality(js \ SentBack(order)) \in Nat BY <2>1, <2>2, JobSets
    <2>6. active' \in SUBSET Jobs BY <1>4, <2>1
    <2>7. Cardinality(active') \in Nat BY <2>6, JobSets
    <2>8. tick.room \in Nat /\ quota.size \in Nat BY DEF TypeInv, TypeOK, CarriesOK, Quota
    <2>9. Cardinality(active) + tick.room <= quota.size BY <1>1 DEF PlacesInv
    <2>10. Cardinality(active') <= quota'.size BY <1>1, <2>3, <2>4, <2>5, <2>7, <2>8, <2>9
    <2>11. Cardinality(active' \cap quota'.limited) <= Limit
      <3>1. Cardinality((active \cup (js \ SentBack(order))) \cap quota.limited) <= Limit BY LimitedKept
      <3> QED BY <3>1, <1>4
    <2> QED BY <1>2, <2>10, <2>11 DEF PlacesInv
  <1> QED BY <1>3, <1>4, ClaimHands DEF Handed

\* Every step keeps the places.
LEMMA PlacesStep ==
  ASSUME TypeInv, PlacesInv, [Next]_vars
  PROVE  PlacesInv'
  <1>q. quota'.size = quota.size /\ quota'.limited = quota.limited BY SizeStays
  <1>0. ASSUME active' \subseteq active, tick' = tick \/ tick'.pc # "claim" PROVE PlacesInv' BY <1>0, <1>q, PlacesStay
  <1>1. CASE TickBegin \/ TickLaunch \/ \E a \in Agents : Tidy(a)
    <2>1. active' = active BY <1>1, Zenon DEF TickBegin, TickLaunch, Tidy, TickReleaseIdle, TickCleanup
    <2>2. tick \in [pc: {"idle", "release", "cleanup", "claim"}, room: 0 .. MaxAgents] BY DEF TypeInv, TypeOK
    <2>3. tick' = tick \/ tick' = [IdleTick EXCEPT !.pc = "release"] \/ tick' = [tick EXCEPT !.pc = "cleanup"]
      BY <1>1, Zenon DEF TickBegin, TickLaunch, Tidy, TickReleaseIdle, TickCleanup
    <2>4. [IdleTick EXCEPT !.pc = "release"].pc # "claim" /\ [tick EXCEPT !.pc = "cleanup"].pc # "claim"
      BY <2>2 DEF IdleTick
    <2>5. tick' = tick \/ tick'.pc # "claim" BY <2>3, <2>4
    <2> QED BY <2>1, <2>5, <1>0
  <1>2. CASE TickRoom
    <2>1. active' = active /\ quota' = quota BY <1>2 DEF TickRoom
    <2>2. CASE Room > 0
      <3>1. tick' = [pc |-> "claim", room |-> Room] BY <1>2, <2>2 DEF TickRoom
      <3>2. active \in SUBSET Jobs BY DEF TypeInv, TypeOK
      <3>3. Cardinality(active) \in Nat BY <3>2, JobSets
      <3>4. Cardinality(running) \in Nat BY RunningFinite DEF TypeInv, TypeOK
      <3>5. quota.size \in Nat BY DEF TypeInv, CarriesOK, Quota
      <3>6. Room <= quota.size - Cardinality(active) /\ Room \in Int
        BY <3>3, <3>4, <3>5, PoolAssumption DEF Room, Reserve
      <3>7. Cardinality(active) + Room <= quota.size BY <3>3, <3>5, <3>6
      <3>8. tick'.room = Room BY <3>1
      <3>9. Cardinality(active') + tick'.room <= quota'.size BY <3>7, <3>8, <2>1
      <3> QED BY <2>1, <3>9 DEF PlacesInv
    <2>3. CASE ~(Room > 0)
      <3>1. tick'.pc # "claim" BY <1>2, <2>3 DEF TickRoom, IdleTick
      <3> QED BY <2>1, <3>1, <1>0
    <2> QED BY <2>2, <2>3
  <1>3. ASSUME NEW js \in SUBSET Jobs, TickClaim(js) PROVE PlacesInv' BY <1>3, <1>q, PlacesClaimed
  <1>4. ASSUME NEW r \in Runs, RunStep(r) PROVE PlacesInv'
    <2>1. tick' = tick /\ (active' = active \/ active' = active \ {run[r].job})
      BY <1>4, Zenon DEF RunStep, RunRelease, RunCreate, RunStart, RunStarted, RunPrompt, RunSettle, RunReport, RunStop,
                         RunLeave
    <2> QED BY <2>1, <1>0
  <1>5. CASE MasterStep \/ StarterStep
    <2>1. UNCHANGED <<tick, active>>
      BY <1>5, Zenon DEF MasterStep, MasterFetch, MasterStarted, MasterPrompt, MasterAck, MasterSettle, MasterCutOff,
                         StarterStep, StarterClaim, StarterCreate, StarterStart, StarterStarted, StarterPrompt,
                         StarterSettle, StarterWaiting, StarterRelease
    <2> QED BY <2>1, <1>0
  <1>6. CASE Environment
    <2>1. ASSUME WorkspaceRestart PROVE PlacesInv'
      <3>1. active' = {} /\ tick'.pc # "claim" BY <2>1 DEF WorkspaceRestart, IdleTick
      <3>2. active' \subseteq active BY <3>1
      <3> QED BY <3>1, <3>2, <1>0
    <2>2. ASSUME (\E a \in Agents : Open(a) \/ Close(a)) \/ \E j \in Jobs : Expire(j) PROVE PlacesInv'
      <3>1. UNCHANGED <<tick, active>> BY <2>2 DEF Open, Close, Expire, ownVars
      <3> QED BY <3>1, <1>0
    <2> QED BY <1>6, <2>1, <2>2 DEF Environment
  <1>7. CASE UNCHANGED ownVars
    <2>1. UNCHANGED <<tick, active>> BY <1>7 DEF ownVars
    <2> QED BY <2>1, <1>0
  <1>8. CASE UNCHANGED vars
    <2>1. UNCHANGED <<tick, active>> BY <1>8 DEF vars, poolVars
    <2> QED BY <2>1, <1>0
  <1> QED BY <1>1, <1>2, <1>3, <1>4, <1>5, <1>6, <1>7, <1>8, Actors DEF TickStep

\* The runs that are live have a place each, and a limited model serves those it limits.
LEMMA LimitsHold ==
  ASSUME TypeInv, RoomForOne, RunsInv, PlacesInv
  PROVE  LimitsKept
  <1>1. raced \/ Cardinality(OpenHandlers) <= MaxHandlers BY DEF RoomForOne
  <1>2. ASSUME doubled = {}
        PROVE  /\ Cardinality({r \in Runs : Live(r)}) <= quota.size
               /\ Cardinality(LiveJobs \cap quota.limited) <= Limit
    <2> DEFINE R == {r \in Runs : Live(r)}
               f == [r \in R |-> run[r].job]
    <2>1. active \in SUBSET Jobs BY DEF TypeInv, TypeOK
    <2>2. IsFiniteSet(active) /\ Cardinality(active) \in Nat BY <2>1, JobSets
    <2>3. \A r \in R : run[r].job \in active BY <1>2 DEF RunsInv
    <2>4. \A r, x \in R : run[r].job = run[x].job => r = x BY <1>2 DEF RunsInv
    <2>5. f \in Injection(R, active)
      <3> HIDE DEF R
      <3> QED BY <2>3, <2>4 DEF Injection, IsInjective
    <2>6. IsFiniteSet(R) /\ Cardinality(R) <= Cardinality(active)
      <3> HIDE DEF R, f
      <3> QED BY <2>2, <2>5, FS_Injection
    <2>7. Cardinality(R) \in Nat BY <2>6, FS_CardinalityType
    <2>8. quota.size \in Nat /\ Limit \in Nat BY PoolAssumption DEF TypeInv, CarriesOK, Quota
    <2>9. Cardinality(R) <= quota.size
      <3> HIDE DEF R
      <3> QED BY <2>2, <2>6, <2>7, <2>8 DEF PlacesInv
    <2>10. LiveJobs \subseteq active BY <2>3 DEF LiveJobs
    <2>11. active \cap quota.limited \in SUBSET Jobs /\ LiveJobs \cap quota.limited \in SUBSET (active \cap quota.limited)
           /\ LiveJobs \cap quota.limited \in SUBSET Jobs
      BY <2>1, <2>10
    <2>12. /\ Cardinality(LiveJobs \cap quota.limited) <= Cardinality(active \cap quota.limited)
           /\ Cardinality(active \cap quota.limited) \in Nat /\ Cardinality(LiveJobs \cap quota.limited) \in Nat
      BY <2>11, JobSets
    <2>13. Cardinality(LiveJobs \cap quota.limited) <= Limit BY <2>8, <2>12 DEF PlacesInv
    <2> QED BY <2>9, <2>13
  <1> QED BY <1>1, <1>2 DEF LimitsKept

\* However claims, lost answers, stops and restarts interleave, the pool runs no more threads than
\* poolSize, those starting included, nor more of a limited model than it serves, unless a job is
\* claimed again before its last run was released; and no more handlers wait for the operator than
\* maxHandlers, unless two calls counted them at once (graph-pool.ts tick, run; server.js startHandler).
THEOREM LimitsAreKept == Spec => []LimitsKept
  <1> DEFINE Inv == TypeInv /\ RoomForOne /\ RunsInv /\ PlacesInv
  <1>1. Init => Inv
    <2>1. ASSUME Init PROVE RoomForOne /\ PlacesInv
      <3>1. /\ \A h \in Handlers : handler[h].status = "none"
            /\ \A c \in Calls : call[c].pc = "idle"
            /\ active = {} /\ tick.pc = "idle"
        BY <2>1 DEF Init, InboxInit, IdleCall, IdleTick
      <3>2. OpenHandlers = {} BY <3>1 DEF OpenHandlers
      <3>3. Cardinality({}) = 0 BY FS_EmptySet
      <3>4. Cardinality(OpenHandlers) = 0 BY <3>2, <3>3
      <3>5. RoomForOne BY <3>1, <3>4, InboxAssumption DEF RoomForOne
      <3>6. Cardinality(active) = 0 /\ active \cap quota.limited = {} BY <3>1, <3>3
      <3>7. Cardinality(active \cap quota.limited) = 0 BY <3>3, <3>6
      <3>8. quota.size \in Nat BY <2>1, PoolAssumption DEF Init, Quota
      <3>9. PlacesInv BY <3>1, <3>6, <3>7, <3>8, PoolAssumption DEF PlacesInv
      <3> QED BY <3>5, <3>9
    <2> QED BY <2>1, TypeInit, RunsInit
  <1>2. Inv /\ [Next]_vars => Inv' BY TypeStep, RoomStep, RunsStep, PlacesStep
  <1>3. Inv => LimitsKept BY LimitsHold
  <1> QED BY <1>1, <1>2, <1>3, PTL DEF Spec

====
