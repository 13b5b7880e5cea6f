---- MODULE Documents ----
(***************************************************************************)
(* Documents of one title (graph-rag/src/server.js: requestIngest,           *)
(* startIngest, ingestDocument, pruneExpired, sweepOrphanDocuments; the      *)
(* store of docstore.js; prune.js).  A document's text is in the store, and  *)
(* in the graph are its entry and one entry for each of its sections, which  *)
(* the same title ingested again replaces.                                   *)
(*                                                                          *)
(* Ingests run one after the other; pruning, the sweep and people's rewrites *)
(* go on meanwhile.                                                          *)
(***************************************************************************)
EXTENDS Health, Sequences, SequencesExt

CONSTANTS
    Docs,       \* texts given in to be ingested, all with the one title
    SectionsOf, \* the sections of each, by name: one that two have is one entry
    Extracts,   \* those whose facts are extracted too
    Whole,      \* the title's own entry
    Embeds      \* the embedder

Names == UNION {SectionsOf[d] : d \in Docs}
Rows == Names \cup {Whole}

ASSUME DocumentsAssumption ==
    /\ IsFiniteSet(Docs) /\ Embeds \in Deps /\ Extracts \subseteq Docs
    /\ \A d \in Docs : IsFiniteSet(SectionsOf[d]) /\ SectionsOf[d] # {} /\ Whole \notin SectionsOf[d]

VARIABLES
    store,     \* the document store: whose text is there
    aged,      \* those stored more than a day
    row,       \* the graph: [doc, due] of each entry there is: whose text, and whether it ended
               \* longer ago than what has ended is kept
    status,    \* _doc_status of the title's entry
    write,     \* each call of requestIngest, and its PendingWrite if a person is to approve it
    ingests,   \* ingestQueue, the one at work first
    ingest,    \* where that one is
    prune,     \* pruneRunning: what the batch read, and what it deleted and has not cleaned up
    sweep,     \* sweepOrphanDocuments, likewise
    loose,     \* history: documents whose sections no later ingest knows to replace, or one could not
               \* delete; and those that await an ingest which a sweep could not read of
    pruned     \* history: the entries pruned since they were last written

docVars == <<store, aged, row, status, write, ingests, ingest, prune, sweep, loose, pruned>>

NoIngest == [step |-> "none", before |-> None, left |-> {}]
NoPrune == [step |-> "rest", batch |-> {}, gone |-> {}]
NoSweep == [step |-> "rest", stored |-> {}, live |-> {}]

DocumentsInit ==
    /\ store = {} /\ aged = {} /\ row = [r \in Rows |-> None] /\ status = "none"
    /\ write = [d \in Docs |-> "none"] /\ ingests = << >> /\ ingest = NoIngest
    /\ prune = NoPrune /\ sweep = NoSweep /\ loose = {} /\ pruned = {}

OfDoc(d) == {r \in Rows : row[r] # None /\ row[r].doc = d}
SectionsIn(d) == OfDoc(d) \ {Whole}

--------------------------------------------------------------------------
(* Asking for an ingest, and the person's answer when it has to wait.        *)

\* The text is stored (each under an id of its own) ...
RequestIngest(d) ==
    /\ d \in quota.ingest /\ write[d] = "none" /\ UNCHANGED quota
    /\ store' = store \cup {d} /\ write' = [write EXCEPT ![d] = "asked"]
    /\ UNCHANGED <<aged, row, status, ingests, ingest, prune, sweep, loose, pruned, healthVars>>

\* ... then it is ingested at once, or waits for a person if the caller's writes are queued.
IngestAsked(d) ==
    /\ write[d] = "asked"
    /\ \/ write' = [write EXCEPT ![d] = "direct"] /\ ingests' = Append(ingests, d)
       \/ quota.queued /\ write' = [write EXCEPT ![d] = "pending"] /\ UNCHANGED ingests
    /\ UNCHANGED <<store, aged, row, status, ingest, prune, sweep, loose, pruned, quota, healthVars>>

ApproveIngest(d) ==
    /\ write[d] = "pending" /\ write' = [write EXCEPT ![d] = "executing"]
    /\ UNCHANGED <<store, aged, row, status, ingests, ingest, prune, sweep, loose, pruned, quota, healthVars>>

StartApproved(d) ==
    /\ write[d] = "executing" /\ write' = [write EXCEPT ![d] = "started"] /\ ingests' = Append(ingests, d)
    /\ UNCHANGED <<store, aged, row, status, ingest, prune, sweep, loose, pruned, quota, healthVars>>

ApproveDone(d) ==
    /\ write[d] = "started" /\ write' = [write EXCEPT ![d] = "approved"]
    /\ UNCHANGED <<store, aged, row, status, ingests, ingest, prune, sweep, loose, pruned, quota, healthVars>>

RejectIngest(d) ==
    /\ write[d] = "pending" /\ write' = [write EXCEPT ![d] = "rejected"]
    /\ UNCHANGED <<store, aged, row, status, ingests, ingest, prune, sweep, loose, pruned, quota, healthVars>>

RejectedText(d) ==
    /\ write[d] = "rejected" /\ store' = store \ {d} /\ write' = [write EXCEPT ![d] = "dropped"]
    /\ UNCHANGED <<aged, row, status, ingests, ingest, prune, sweep, loose, pruned, quota, healthVars>>

--------------------------------------------------------------------------
(* ingestDocument.                                                           *)

Ingesting(step) == ingests # << >> /\ ingest.step = step
Doing == Head(ingests)
IngestGoes(step) == ingest' = [ingest EXCEPT !.step = step]

\* What breaks off once the title's entry is its own leaves the one before it behind.
Behind == IF ingest.step \in {"entered", "sections", "sectioned"} THEN {ingest.before} \ {None, Doing} ELSE {}

IngestFails ==
    /\ status' = IF row[Whole] # None /\ row[Whole].doc = Doing THEN "failed" ELSE status
    /\ loose' = loose \cup Behind
    /\ ingests' = Tail(ingests) /\ ingest' = NoIngest

IngestBegin ==
    /\ Ingesting("none")
    /\ IF Doing \in store
       THEN /\ ingest' = [step |-> "entry", before |-> IF row[Whole] = None THEN None ELSE row[Whole].doc,
                          left |-> SectionsOf[Doing]]
            /\ UNCHANGED <<status, loose, ingests>>
       ELSE IngestFails
    /\ UNCHANGED <<store, aged, row, write, prune, sweep, pruned, quota, healthVars>>

\* An entry written again keeps its end, or gets the later one of this ingest.
Written(r) ==
    /\ \E due \in {FALSE} \cup IF row[r] = None THEN {} ELSE {row[r].due} :
          row' = [row EXCEPT ![r] = [doc |-> Doing, due |-> due]]
    /\ pruned' = pruned \ {r}

IngestEntry ==
    /\ Ingesting("entry") /\ Written(Whole) /\ status' = "ingesting" /\ IngestGoes("entered")
    /\ UNCHANGED <<store, aged, write, ingests, prune, sweep, loose, quota, healthVars>>

\* 32 sections a batch (one here).
IngestSections ==
    /\ Ingesting("sections") /\ ingest.left # {}
    /\ LET n == CHOOSE n \in ingest.left : TRUE
       IN Written(n) /\ ingest' = [ingest EXCEPT !.left = @ \ {n}, !.step = "sectioned"]
    /\ UNCHANGED <<store, aged, status, write, ingests, prune, sweep, loose, quota, healthVars>>

\* What was written is embedded: an outage, or a pause, fails the ingest as a wrong request does.
Embedding(then) ==
    IF Down(Embeds)
    THEN IngestFails /\ UNCHANGED <<dep, quota>>
    ELSE \E answer \in Served(Embeds) :
           /\ dep' = Heard(Embeds, answer) /\ Charge(answer)
           /\ IF answer = "ok" THEN IngestGoes(then) /\ UNCHANGED <<ingests, status, loose>> ELSE IngestFails

IngestEmbeds ==
    /\ Ingesting("entered") \/ Ingesting("sectioned")
    /\ Embedding("sections")
    /\ UNCHANGED <<store, aged, row, write, prune, sweep, pruned, out, other>>

\* The document before it, if another: what is left of its sections goes, unless that fails (`.catch`) ...
Replaced == {r \in Rows : ingest.before \notin {None, Doing} /\ r \in SectionsIn(ingest.before)}

IngestReplaces ==
    /\ Ingesting("sections") /\ ingest.left = {}
    /\ \/ row' = [r \in Rows |-> IF r \in Replaced THEN None ELSE row[r]] /\ UNCHANGED loose
       \/ Replaced # {} /\ loose' = loose \cup {ingest.before} /\ UNCHANGED row
    /\ IngestGoes("drop")
    /\ UNCHANGED <<store, aged, status, write, ingests, prune, sweep, pruned, quota, healthVars>>

\* ... and its text, likewise.
IngestDrops ==
    /\ Ingesting("drop")
    /\ store' \in {store, store \ ({ingest.before} \ {Doing})}
    /\ IngestGoes(IF Doing \in Extracts THEN "facts" ELSE "ready")
    /\ UNCHANGED <<aged, row, status, write, ingests, prune, sweep, loose, pruned, quota, healthVars>>

\* extractFacts: the facts are written as entries like any other.
IngestFacts ==
    /\ Ingesting("facts") /\ Embedding("ready")
    /\ UNCHANGED <<store, aged, row, write, prune, sweep, pruned, out, other>>

IngestReady ==
    /\ Ingesting("ready")
    /\ status' = IF row[Whole] # None THEN "ready" ELSE status
    /\ ingests' = Tail(ingests) /\ ingest' = NoIngest
    /\ UNCHANGED <<store, aged, row, write, prune, sweep, loose, pruned, quota, healthVars>>

IngestStep ==
    \/ IngestBegin \/ IngestEntry \/ IngestSections \/ IngestEmbeds \/ IngestReplaces \/ IngestDrops
    \/ IngestFacts \/ IngestReady

--------------------------------------------------------------------------
(* Pruning, and the sweep that follows it.                                   *)

\* What ended long enough ago, as it was read.
PruneReads ==
    /\ Spend("prune") /\ prune.step = "rest" /\ sweep.step = "rest"
    /\ prune' = [step |-> "archive", batch |-> {[r |-> r, doc |-> row[r].doc] : r \in {r \in Rows : row[r] # None /\ row[r].due}},
                 gone |-> {}]
    /\ UNCHANGED <<store, aged, row, status, write, ingests, ingest, sweep, loose, pruned, healthVars>>

\* The sink takes them all ("discard").
PruneArchives ==
    /\ prune.step = "archive" /\ prune' = [prune EXCEPT !.step = "delete"]
    /\ UNCHANGED <<store, aged, row, status, write, ingests, ingest, sweep, loose, pruned, quota, healthVars>>

\* Deleted if still due.
StillDue(r) == row[r] # None /\ row[r].due
PruneDeletes(x) ==
    /\ prune.step = "delete" /\ prune.gone = {} /\ x \in prune.batch
    /\ IF StillDue(x.r)
       THEN /\ row' = [row EXCEPT ![x.r] = None] /\ pruned' = pruned \cup {x.r}
            /\ prune' = [prune EXCEPT !.batch = @ \ {x}, !.gone = {x}]
            /\ IF x.r = Whole THEN status' = "none" /\ loose' = loose \cup {row[Whole].doc}
                              ELSE UNCHANGED <<status, loose>>
       ELSE prune' = [prune EXCEPT !.batch = @ \ {x}] /\ UNCHANGED <<row, pruned, status, loose>>
    /\ UNCHANGED <<store, aged, write, ingests, ingest, sweep, quota, healthVars>>

\* Its text, if it was the document's (and its grants, as in Shares).
PruneCleans(x) ==
    /\ x \in prune.gone /\ prune' = [prune EXCEPT !.gone = {}]
    /\ store' = IF x.r = Whole THEN store \ {x.doc} ELSE store
    /\ UNCHANGED <<aged, row, status, write, ingests, ingest, sweep, loose, pruned, quota, healthVars>>

PruneEnds ==
    /\ prune.step = "delete" /\ prune.batch = {} /\ prune.gone = {}
    /\ prune' = NoPrune
    /\ sweep' = IF store = {} THEN NoSweep ELSE [step |-> "rows", stored |-> store, live |-> {}]
    /\ UNCHANGED <<store, aged, row, status, write, ingests, ingest, loose, pruned, quota, healthVars>>

\* What cannot be read of the graph ends the sweep ...
SweepRows ==
    /\ sweep.step = "rows"
    /\ sweep' \in {NoSweep, [sweep EXCEPT !.step = "pending", !.live = {d \in Docs : OfDoc(d) # {}}]}
    /\ UNCHANGED <<store, aged, row, status, write, ingests, ingest, prune, loose, pruned, quota, healthVars>>

\* (faulty variant: only one at work does)
AwaitedAtWork == {d \in Docs : write[d] \in {"executing", "started"}}

\* An ingest that waits, or is being approved, still refers to its text.
Awaited == {d \in Docs : write[d] \in {"pending", "executing", "started"}}

\* ... but of the ingests, counts as none.
SweepPending ==
    /\ sweep.step = "pending"
    /\ \/ sweep' = [sweep EXCEPT !.step = "remove", !.live = @ \cup Awaited] /\ UNCHANGED loose
       \/ sweep' = [sweep EXCEPT !.step = "remove"] /\ loose' = loose \cup (Awaited \cap sweep.stored \cap aged)
    /\ UNCHANGED <<store, aged, row, status, write, ingests, ingest, prune, pruned, quota, healthVars>>

SweepRemoves ==
    /\ sweep.step = "remove" /\ sweep' = NoSweep
    /\ store' = store \ {d \in sweep.stored : d \notin sweep.live /\ d \in aged}
    /\ UNCHANGED <<aged, row, status, write, ingests, ingest, prune, loose, pruned, quota, healthVars>>

PruneStep ==
    \/ PruneReads \/ PruneArchives \/ PruneEnds \/ SweepRows \/ SweepPending \/ SweepRemoves
    \/ \E r \in Rows, d \in Docs : PruneDeletes([r |-> r, doc |-> d]) \/ PruneCleans([r |-> r, doc |-> d])

--------------------------------------------------------------------------
\* A day goes by: never within a sweep, or a call.
DayPasses ==
    /\ Spend("day") /\ aged' = store /\ sweep = NoSweep /\ \A d \in Docs : write[d] # "asked"
    /\ UNCHANGED <<store, row, status, write, ingests, ingest, prune, sweep, loose, pruned, healthVars>>

\* An entry's end comes, and what ends is kept no longer; or someone gives it a later end.
RowDue(r) ==
    /\ Spend("ends") /\ row[r] # None /\ row' = [row EXCEPT ![r].due = TRUE]
    /\ UNCHANGED <<store, aged, status, write, ingests, ingest, prune, sweep, loose, pruned, healthVars>>

RowExtended(r) ==
    /\ Spend("extend") /\ row[r] # None /\ row[r].due /\ row' = [row EXCEPT ![r].due = FALSE]
    /\ UNCHANGED <<store, aged, status, write, ingests, ingest, prune, sweep, loose, pruned, healthVars>>

\* A restart: what was only in memory is gone, a document stays as far as it got.
DocumentsRestart ==
    /\ ingests' = << >> /\ ingest' = NoIngest /\ prune' = NoPrune /\ sweep' = NoSweep
    /\ write' = [d \in Docs |-> IF write[d] = "asked" THEN "gone" ELSE write[d]]
    /\ loose' = loose \cup Behind
    /\ UNCHANGED <<store, aged, row, status, pruned>>

====
