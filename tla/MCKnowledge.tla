---- MODULE MCKnowledge ----
(***************************************************************************)
(* The graph's calls for TLC.  A small organization: the root, a branch of  *)
(* two positions and one beside them.  Each quota is a scenario: what the   *)
(* callers do in it, and how often.                                         *)
(***************************************************************************)
EXTENDS Knowledge, TLC

CONSTANTS top, left, low, right, amy, bob, cid, bot, e1, e2, r1, r2, q1, q2, n1, n2, x1, x2

Tree == (left :> top) @@ (right :> top) @@ (low :> left)
HeldBy == (amy :> {top}) @@ (bob :> {low}) @@ (cid :> {right}) @@ (bot :> {low})
          @@ (Worker :> {top}) @@ (Handler :> {top})
OriginOf == (e1 :> low) @@ (e2 :> right)
ActsFor == bot :> bob

Nothing == [callers |-> {}, approvers |-> {}, read |-> 0, lapse |-> 0, write |-> 0, workerWrite |-> 0, fault |-> 0, move |-> 0, decide |-> 0,
            tick |-> 0, delete |-> 0, revoke |-> 0, share |-> 0, answer |-> 0, restart |-> 0, ask |-> 0,
            press |-> 0, meet |-> 0, withdraw |-> 0, expire |-> 0, reply |-> 0,
            link |-> 0, unlink |-> 0, rename |-> 0, relate |-> 0, merge |-> 0, fold |-> 0,
            minutes |-> FALSE, reviewed |-> FALSE,
            rows |-> [r \in Rids |-> None], typed |-> {}, asks |-> {}, things |-> << >>, links |-> {}]

Entry(e, home) == [e |-> e, home |-> home, placed |-> FALSE, by |-> None, ungraded |-> None]

\* Entries are written, and what was read holds them up.
Writing == [Nothing EXCEPT !.callers = {amy, bob, cid}, !.write = 3, !.read = 2]
WorkerWriting == [Nothing EXCEPT !.callers = {bob, Worker}, !.approvers = {amy},
                                 !.write = 1, !.workerWrite = 2, !.read = 1, !.lapse = 1, !.decide = 1]
Correcting == [Nothing EXCEPT !.callers = {bob, Worker}, !.approvers = {amy}, !.rows = (r1 :> Entry(e1, low)) @@ (r2 :> Entry(e2, right)),
                              !.typed = {e2}, !.workerWrite = 1, !.read = 1, !.move = 1, !.decide = 1]
\* They are moved, by people, agents and approvals.
Moving == [Nothing EXCEPT !.callers = {amy, bob}, !.approvers = {amy, Handler}, !.write = 1, !.move = 2, !.decide = 2]
AgentMoving == [Nothing EXCEPT !.callers = {bob, Worker}, !.approvers = {amy}, !.write = 1, !.move = 2, !.decide = 1]
Regrading == [Nothing EXCEPT !.callers = {amy, bob}, !.write = 2, !.read = 1, !.move = 1, !.tick = 2]
RegradingAsked == [Nothing EXCEPT !.callers = {amy, bob}, !.approvers = {amy}, !.write = 2, !.move = 1,
                                  !.decide = 1, !.fault = 1, !.tick = 1]
\* One goes while a call is at work on it.
Deleting == [Nothing EXCEPT !.callers = {bob}, !.write = 1, !.move = 1, !.tick = 1, !.delete = 1]
\* They are shared, by people and by agents whose person answers, and graph-rag restarts in between.
Sharing == [Nothing EXCEPT !.callers = {bob, bot}, !.approvers = {amy}, !.write = 1, !.share = 1, !.answer = 2, !.decide = 2, !.restart = 1]
\* ... two of them on one write, and one is taken back while the other is made.
SharingBoth == [Nothing EXCEPT !.callers = {bob, bot}, !.approvers = {amy}, !.write = 1, !.share = 2, !.answer = 3, !.decide = 1]
SharingReviewed == [Sharing EXCEPT !.reviewed = TRUE, !.restart = 0]
SharingOwn == [Nothing EXCEPT !.callers = {bob, cid}, !.write = 1, !.share = 2, !.read = 1]
Revoking == [Nothing EXCEPT !.callers = {bob, cid}, !.write = 2, !.share = 1, !.revoke = 1, !.delete = 1, !.restart = 1,
                            !.minutes = TRUE]
\* Questions are asked, met, answered and closed.
Asking == [Nothing EXCEPT !.callers = {bob, cid}, !.write = 1, !.ask = 1, !.meet = 1, !.withdraw = 1, !.restart = 1]
AskingTwice == [Nothing EXCEPT !.callers = {bob, bot}, !.ask = 2, !.press = 1, !.expire = 1]
Answering == [Nothing EXCEPT !.callers = {bob, cid}, !.write = 1, !.ask = 1, !.reply = 1, !.expire = 1]
AnsweringReviewed == [Answering EXCEPT !.approvers = {amy}, !.reviewed = TRUE, !.expire = 0, !.move = 1, !.decide = 1]
\* Things are linked, merged, renamed and deleted, while entries move, are folded and go.
Named(n, home) == [names |-> {n}, homes |-> {home}, keyed |-> FALSE]
Linked == [Nothing EXCEPT !.rows = (r1 :> Entry(e1, low)) @@ (r2 :> Entry(e2, right)),
                          !.things = (x1 :> Named(n1, low)) @@ (x2 :> Named(n2, right)),
                          !.links = {<<r1, x1>>, <<r2, x2>>}, !.asks = {TRUE}]
Linking == [Nothing EXCEPT !.rows = Linked.rows, !.things = x1 :> Named(n1, low), !.link = 2, !.asks = {FALSE}]
Merging == [Linked EXCEPT !.approvers = {amy}, !.merge = 2, !.link = 1, !.decide = 1]
MergingMoved == [Linked EXCEPT !.callers = {amy}, !.approvers = {amy}, !.merge = 1, !.move = 1, !.decide = 1, !.unlink = 1]
Renaming == [Linked EXCEPT !.links = {<<r1, x1>>}, !.rename = 1, !.link = 1, !.unlink = 1, !.relate = 2]
Folding == [Linked EXCEPT !.approvers = {amy}, !.fold = 2, !.link = 1, !.decide = 1]
FoldingMoved == [Linked EXCEPT !.callers = {amy}, !.approvers = {amy}, !.fold = 1, !.move = 1, !.decide = 2, !.restart = 1]
FoldingGone == [Linked EXCEPT !.callers = {bob, cid}, !.approvers = {amy}, !.fold = 1, !.decide = 1, !.delete = 1, !.write = 1]
Scenarios == {Linking, Merging, MergingMoved, Renaming, Folding, FoldingMoved, FoldingGone,
              Writing, WorkerWriting, Correcting, Moving, AgentMoving, Regrading, RegradingAsked, Deleting, Sharing, SharingBoth, SharingReviewed, SharingOwn,
              Revoking, Asking, AskingTwice, Answering, AnsweringReviewed}

====
