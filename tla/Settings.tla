---- MODULE Settings ----
(***************************************************************************)
(* The organization's settings and the forms they are edited in: a panel      *)
(* loads documents, keeps a draft of each, and saves it (web/src/components:  *)
(* OrgSettingsPanel, GraphWorkerPanel, WorkspacesPanel, ModelsPanel,           *)
(* ProfileEditor, McpPanel).  The policy and the worker's pool are rows in    *)
(* graph-rag's database and variables of its process (server.js savePolicy,   *)
(* loadPolicy, PUT /api/worker); the others are written over in one step by   *)
(* the provisioner and the workspace.                                         *)
(*                                                                          *)
(* A document is a few knobs, and a value is the edit that gave it, 0 the     *)
(* default.  What is refused, and the record of changes, are left out.        *)
(***************************************************************************)
EXTENDS Naturals, Sequences, FiniteSets

CONSTANTS
    Knobs,
    Admins,     \* root persons, each with a form in a tab
    Papers,     \* the documents of settings
    InMemory,   \* those graph-rag keeps in memory: the policy and the pool
    Reread,     \* those of them it reads again each minute: the policy
    SentWhole,  \* those whose form sends all of its draft: the pool, a profile, an agent's connections
    MaxEdits    \* edits (a bound)

ASSUME SettingsAssumption == MaxEdits \in Nat /\ IsFiniteSet(Admins) /\ Admins # {}

Value == 0 .. MaxEdits
Text == [Knobs -> Value]
Default == [k \in Knobs |-> 0]

VARIABLES
    panel,      \* the panel that is used: its documents, the edits, faults and boots to come (bounds, by scenario)
    rows,       \* per document: its rows in the database, or its file
    effect,     \* per document: what is in effect
    form,       \* per admin: the panel as loaded and as drafted
    save,       \* per admin: a save at work
    rereading,  \* a loadPolicy at work: the text it read, or Unread
    given,      \* history: what the last save that changed a knob made of it
    crossed,    \* history: documents saved from a text that was no longer so
    edits       \* history: edits made

settingsVars == <<panel, rows, effect, form, save, rereading, given, crossed, edits>>

Unread == <<>>
PanelUse == [papers : SUBSET Papers, edits : Value, faults : Nat, restarts : Nat]

Closed == [pc |-> "closed"]
NoSave == [step |-> "none"]
Forms == [pc : {"loading", "open", "saving"}, seen : [Papers -> Text], draft : [Papers -> Text]]

\* Without a row the defaults hold; of two rows the first is read.
Stored(p) == IF rows[p] = <<>> THEN Default ELSE Head(rows[p])

SettingsInit ==
    /\ panel \in PanelUse
    /\ rows = [p \in Papers |-> IF p \in InMemory THEN <<>> ELSE <<Default>>]
    /\ effect = [p \in Papers |-> Default]
    /\ form = [u \in Admins |-> Closed] /\ save = [u \in Admins |-> NoSave]
    /\ rereading = Unread /\ given = effect /\ crossed = {} /\ edits = 0

--------------------------------------------------------------------------
(* The forms                                                               *)

Shows(u, pc) == form' = [form EXCEPT ![u] = [pc |-> pc, seen |-> effect, draft |-> effect]]

\* A panel is opened, or closed and opened again: load makes every draft what was answered.
OpenForm(u) ==
    /\ panel.papers # {} /\ form[u].pc \in {"closed", "open"} /\ Shows(u, "open")
    /\ UNCHANGED <<panel, rows, effect, save, rereading, given, crossed, edits>>

\* A control is changed, also while a save is at work.
Edit(u, p, k) ==
    /\ form[u].pc # "closed" /\ panel.edits > 0
    /\ edits' = edits + 1 /\ panel' = [panel EXCEPT !.edits = @ - 1]
    /\ form' = [form EXCEPT ![u].draft[p][k] = edits']
    /\ UNCHANGED <<rows, effect, save, rereading, given, crossed>>

Edited(f, p) == {k \in Knobs : f.draft[p][k] # f.seen[p][k]}

\* (faulty variant: every form sends all of its draft)
SentAll(f, p) == IF Edited(f, p) = {} THEN {} ELSE Knobs

\* save: the changed knobs, or the whole of the draft.
Sent(f, p) == IF Edited(f, p) = {} THEN {} ELSE IF p \in SentWhole THEN Knobs ELSE Edited(f, p)

\* applyPolicyUpdate, applySettingsUpdate, applyLabelUpdate: what was sent over what there is.
ApplyUpdate(current, f, p) == [k \in Knobs |-> IF k \in Sent(f, p) THEN f.draft[p][k] ELSE current[k]]

--------------------------------------------------------------------------
(* Saving                                                                  *)

Saves(p) == {u \in Admins : save[u].step # "none" /\ save[u].paper = p}

\* A save is computed from a text in memory that is not the stored one, or over a knob that the
\* form has an older value of and sends all the same.
Crosses(f, p) ==
    \/ Saves(p) # {} \/ effect[p] # Stored(p)
    \/ \E k \in (IF p \in SentWhole THEN Knobs ELSE {}) \ Edited(f, p) : f.seen[p][k] # effect[p][k]

Gives(ks, p, text) == given' = [given EXCEPT ![p] = [k \in Knobs |-> IF k \in ks THEN text[k] ELSE given[p][k]]]

\* The save arrives; outside graph-rag it is written at once.
SaveArrives(u, p) ==
    LET f == form[u]
        next == ApplyUpdate(effect[p], f, p) IN
    /\ f.pc = "open" /\ Sent(f, p) # {}
    /\ form' = [form EXCEPT ![u].pc = "saving"]
    /\ crossed' = IF Crosses(f, p) THEN crossed \cup {p} ELSE crossed
    /\ IF p \in InMemory
       THEN /\ save' = [save EXCEPT ![u] = [step |-> "update", paper |-> p, next |-> next, edited |-> Edited(f, p)]]
            /\ UNCHANGED <<rows, effect, given>>
       ELSE /\ save' = [save EXCEPT ![u] = [step |-> "answer", paper |-> p]]
            /\ rows' = [rows EXCEPT ![p] = <<next>>] /\ effect' = [effect EXCEPT ![p] = next]
            /\ Gives(Edited(f, p), p, next)
    /\ UNCHANGED <<panel, rereading, edits>>

\* savePolicy, PUT /api/worker: the row is updated, ...
SaveUpdates(u) ==
    LET s == save[u] IN
    /\ s.step = "update"
    /\ rows' = [rows EXCEPT ![s.paper] = [i \in DOMAIN rows[s.paper] |-> s.next]]
    /\ IF rows[s.paper] = <<>>
       THEN save' = [save EXCEPT ![u].step = "insert"] /\ UNCHANGED given
       ELSE save' = [save EXCEPT ![u].step = "keep"] /\ Gives(s.edited, s.paper, s.next)
    /\ UNCHANGED <<panel, effect, form, rereading, crossed, edits>>

\* ... or inserted when there was none, ...
SaveInserts(u) ==
    LET s == save[u] IN
    /\ s.step = "insert" /\ save' = [save EXCEPT ![u].step = "keep"]
    /\ rows' = [rows EXCEPT ![s.paper] = Append(@, s.next)] /\ Gives(s.edited, s.paper, s.next)
    /\ UNCHANGED <<panel, effect, form, rereading, crossed, edits>>

\* ... and then put in effect.
SaveKeeps(u) ==
    LET s == save[u] IN
    /\ s.step = "keep" /\ save' = [save EXCEPT ![u] = [step |-> "answer", paper |-> s.paper]]
    /\ effect' = [effect EXCEPT ![s.paper] = s.next]
    /\ UNCHANGED <<panel, rows, form, rereading, given, crossed, edits>>

\* The form loads again, each of its drafts, also what was typed meanwhile.
SaveAnswered(u) ==
    /\ save[u].step = "answer" /\ save' = [save EXCEPT ![u] = NoSave] /\ Shows(u, "open")
    /\ UNCHANGED <<panel, rows, effect, rereading, given, crossed, edits>>

\* A command of the database fails, or its answer is lost: the form keeps its draft.
SaveFails(u) ==
    /\ save[u].step \in {"update", "insert", "keep"}
    /\ panel.faults > 0 /\ panel' = [panel EXCEPT !.faults = @ - 1]
    /\ save' = [save EXCEPT ![u] = NoSave] /\ form' = [form EXCEPT ![u].pc = "open"]
    /\ UNCHANGED <<rows, effect, rereading, given, crossed, edits>>

--------------------------------------------------------------------------
(* Reading again                                                           *)

\* (faulty variant: it is read once, at boot)
RereadNever == FALSE /\ UNCHANGED settingsVars

\* loadPolicy, each minute: the row is read (when that can tell something new, or a save is
\* about to change it: what is read just before a save is what it is read at its start), ...
RereadBegins ==
    /\ rereading = Unread
    /\ \E p \in panel.papers \cap Reread : effect[p] # Stored(p) \/ Saves(p) # {}
    /\ rereading' = [p \in panel.papers \cap Reread |-> Stored(p)]
    /\ UNCHANGED <<panel, rows, effect, form, save, given, crossed, edits>>

\* ... and what was read put in effect.
RereadEnds ==
    /\ rereading # Unread /\ rereading' = Unread
    /\ effect' = [p \in Papers |-> IF p \in DOMAIN rereading THEN rereading[p] ELSE effect[p]]
    /\ UNCHANGED <<panel, rows, form, save, given, crossed, edits>>

\* graph-rag boots: both are read, and what it was saving is not answered.
SettingsRestart ==
    /\ panel.restarts > 0 /\ panel' = [panel EXCEPT !.restarts = @ - 1]
    /\ effect' = [p \in Papers |-> IF p \in InMemory THEN Stored(p) ELSE effect[p]]
    /\ rereading' = Unread
    /\ LET gone(u) == save[u].step # "none" /\ save[u].paper \in InMemory IN
       /\ save' = [u \in Admins |-> IF gone(u) THEN NoSave ELSE save[u]]
       /\ form' = [u \in Admins |-> IF gone(u) THEN [form[u] EXCEPT !.pc = "open"] ELSE form[u]]
    /\ UNCHANGED <<rows, given, crossed, edits>>

RereadStep == RereadBegins \/ RereadEnds

SettingsStep ==
    \/ \E u \in Admins : \/ OpenForm(u)
                         \/ SaveUpdates(u) \/ SaveInserts(u) \/ SaveKeeps(u) \/ SaveAnswered(u) \/ SaveFails(u)
                         \/ \E p \in panel.papers : SaveArrives(u, p) \/ \E k \in Knobs : Edit(u, p, k)
    \/ RereadStep \/ SettingsRestart

SettingsTypeOK ==
    /\ panel.papers \subseteq Papers
    /\ \A p \in Papers : rows[p] \in Seq(Text) /\ Len(rows[p]) <= Cardinality(Admins)
    /\ effect \in [Papers -> Text] /\ given \in [Papers -> Text] /\ crossed \subseteq Papers
    /\ \A u \in Admins : form[u] = Closed \/ form[u] \in Forms
    /\ edits \in Value

\* What the last save of a setting made of it is what is stored, whichever forms are open,
\* typed in and saved at once: no save undoes another's, unless it was computed from a text that
\* was no longer so or over a knob it sent unasked.
EditsStand == \A p \in Papers \ crossed : Saves(p) = {} => Stored(p) = given[p]

\* And what is stored is again and again in effect, also after saves that failed half way or
\* were overtaken by a reread, for the policy, which is read again.
EditsTakeHold ==
    /\ []EditsStand
    /\ \A p \in Reread : []<>(effect[p] = Stored(p))

====
