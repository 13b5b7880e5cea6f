---- MODULE MCGraphPool ----
(***************************************************************************)
(* GraphPool for TLC.  Each quota is a scenario: what the environment does  *)
(* in it, and how often.                                                    *)
(***************************************************************************)
EXTENDS GraphPool

CONSTANTS j1, j2, j3, h1, h2, other

Nothing == [waits |-> {}, workspace |-> "master", size |-> 2, limited |-> {}, passes |-> 1, runs |-> 0,
            save |-> 0, delete |-> 0, lost |-> 0, fault |-> 0, open |-> 0, close |-> 0, expire |-> 0,
            crash |-> 0, restart |-> 0, ask |-> 0, decide |-> 0, settle |-> 0]

\* Entries are saved and deleted, batched by overlapping passes; the batches are handed to the master.
Batches == [Nothing EXCEPT !.workspace = "down", !.passes = 2, !.save = 2, !.delete = 1]
BatchesAgain == [Batches EXCEPT !.delete = 0, !.restart = 1]
Batches3 == [Nothing EXCEPT !.workspace = "down", !.save = 3, !.delete = 1, !.restart = 1]
LostSignals == [Nothing EXCEPT !.save = 2, !.lost = 1, !.fault = 1]
Restarted == [Nothing EXCEPT !.save = 1, !.restart = 1, !.crash = 1]
\* The master asks for handlers, and they are decided.
Asking == [Nothing EXCEPT !.waits = {j1}, !.open = 1, !.ask = 2]
AskingFails == [Nothing EXCEPT !.waits = {j1}, !.open = 1, !.ask = 2, !.fault = 1]
Handling == [Nothing EXCEPT !.waits = {j1}, !.open = 1, !.ask = 1, !.decide = 2]
HandlingFails == [Nothing EXCEPT !.waits = {j1}, !.open = 1, !.ask = 1, !.decide = 1, !.lost = 1, !.crash = 1]
HandlingRestarts == [Nothing EXCEPT !.waits = {j1}, !.open = 1, !.ask = 1, !.decide = 1, !.restart = 1]
\* Threads are claimed, run and claimed again.
Limited2 == [Nothing EXCEPT !.workspace = "pool", !.limited = {j1, j2}]
Working == [Limited2 EXCEPT !.runs = 3]
WorkingSmall == [Nothing EXCEPT !.workspace = "pool", !.size = 1, !.runs = 3]
WorkingFails == [Limited2 EXCEPT !.waits = {j2}, !.runs = 2, !.fault = 1, !.lost = 1, !.settle = 1]
WorkingOpened == [Limited2 EXCEPT !.waits = {j2}, !.runs = 2, !.open = 2, !.close = 1]
WorkingLate == [Limited2 EXCEPT !.waits = {j1}, !.runs = 2, !.expire = 1, !.crash = 1, !.settle = 1]
Reporting == [Nothing EXCEPT !.runs = 1, !.waits = {j2}, !.settle = 1]
Scenarios == {Batches, BatchesAgain, Batches3, LostSignals, Restarted, Asking, AskingFails, Handling, HandlingFails, HandlingRestarts,
              Working, WorkingSmall, WorkingFails, WorkingOpened, WorkingLate, Reporting}

====
