---- MODULE Files ----
(***************************************************************************)
(* The files of agents' workspaces: uploads through the files API, on the     *)
(* host (server/src/http/files.ts) or in the agent's sandbox                   *)
(* (runtime/openshell-fs.ts), and the panel that lists, uploads and removes    *)
(* them in the browser (web/src/components/FilesPanel.svelte).                  *)
(*                                                                          *)
(* A place is a directory of an agent's workspace, its root or a folder.  A    *)
(* file is an inode, and what is in one a sequence of pieces of uploads; an     *)
(* upload has two.  Downloads change nothing and are left out, and so is what   *)
(* is refused: paths that leave the workspace, names that are only read.       *)
(***************************************************************************)
EXTENDS Naturals, Sequences, SequencesExt, FiniteSets

CONSTANTS
    Owners,     \* agents with a workspace
    FileNames,
    MaxUploads, \* uploads (a bound)
    MaxInodes,  \* inodes (a bound)
    Absent      \* no file, no inode

Places == Owners \X {"root", "folder"}
Root(o) == <<o, "root">>
Inodes == 1 .. MaxInodes
Uploads == 1 .. MaxUploads
Pieces == 1 .. 2

ASSUME FilesAssumption == MaxUploads \in Nat /\ MaxInodes \in Nat /\ Absent \notin Inodes

VARIABLES
    runtime,  \* "local" or "openshell"
    dirs,     \* the places there are
    inode,    \* what is in an inode
    file,     \* per place and name: its inode
    temp,     \* the same of name.upload-tmp
    upload,   \* per upload: where it goes and how far it is
    torn,     \* history: files with two uploads at work on them at once, or one whose folder went
    browse,   \* the panel: whose files, what is listed, what was asked
    filing    \* uploads, removals, moves and failures to come (bounds, by scenario)

fileVars == <<runtime, dirs, inode, file, temp, upload, torn, browse, filing>>

Filed == Places \X FileNames
Ready == [step |-> "ready"]
Done == [step |-> "done"]
NothingYet == [of |-> Absent]
FileUse == [uploads : Nat, moves : Nat, removals : Nat, failures : Nat]

FilesInit ==
    /\ runtime \in {"local", "openshell"} /\ filing \in FileUse
    /\ dirs = Places /\ inode = [i \in Inodes |-> <<>>]
    /\ file = [f \in Filed |-> Absent] /\ temp = file
    /\ upload = [u \in Uploads |-> Ready] /\ torn = {}
    /\ browse \in [at : {Root(o) : o \in Owners}, listed : {NothingYet}, asked : {<<>>}]

Count(what) == filing[what] > 0 /\ filing' = [filing EXCEPT ![what] = @ - 1]

\* A file system: an inode is made for a name that has none, and free again when nothing refers to it.
Free(i) == /\ \A f \in Filed : file[f] # i /\ temp[f] # i
           /\ \A u \in Uploads : upload[u].step \in {"ready", "done"} \/ upload[u].fd # i
Fresh == CHOOSE i \in Inodes : Free(i)

\* The inode of a temporary name, or one for it, when there is one (a bound).
TempInode(f) == IF temp[f] = Absent THEN Fresh ELSE temp[f]
Makeable(f) == temp[f] = Absent => {i \in Inodes : Free(i)} # {}

\* refresh: a listing is asked for; what is listed stays meanwhile.
Asks(b, p) == [b EXCEPT !.asked = Append(@, p)]
AskAgain == browse' = Asks(browse, browse.at)

--------------------------------------------------------------------------
(* Uploads                                                                 *)

At(u, step) == upload[u].step = step
Goes(u) == upload[u].to
Working(u) == upload[u].step \in {"open", "write"}
AtWork(f) == {u \in Uploads : Working(u) /\ Goes(u) = f}

\* A part of a POST arrives, of the panel (here) or of another client, and on the host its
\* directory is made.
UploadBegins(f, here) == \E u \in {v \in Uploads : At(v, "ready")} :
    /\ \A v \in Uploads : v < u => ~At(v, "ready")
    /\ Count("uploads")
    /\ dirs' = IF runtime = "local" THEN dirs \cup {f[1]} ELSE dirs
    /\ upload' = [upload EXCEPT ![u] = [step |-> "open", to |-> f, fd |-> Absent, sent |-> 0, here |-> here]]
    /\ torn' = IF AtWork(f) # {} THEN torn \cup {f} ELSE torn
    /\ UNCHANGED <<runtime, inode, file, temp, browse>>

Over(u) == upload' = [upload EXCEPT ![u] = Done]

\* Its temporary file is made, or emptied.  (createWriteStream; mkdir -p and : > in the sandbox.)
Opens(u) ==
    LET f == Goes(u)
        i == TempInode(f) IN
    /\ At(u, "open") /\ Makeable(f)
    /\ f[1] \in dirs \/ runtime = "openshell"
    /\ dirs' = dirs \cup {f[1]}
    /\ temp' = [temp EXCEPT ![f] = i] /\ inode' = [inode EXCEPT ![i] = <<>>]
    /\ upload' = [upload EXCEPT ![u].step = "write", ![u].fd = i]
    /\ UNCHANGED <<runtime, file, torn, browse, filing>>

\* (faulty variant: the file itself is written, without a temporary one)
OpensInPlace(u) ==
    LET f == Goes(u)
        i == IF file[f] = Absent THEN Fresh ELSE file[f] IN
    /\ At(u, "open")
    /\ f[1] \in dirs \/ runtime = "openshell"
    /\ dirs' = dirs \cup {f[1]}
    /\ file' = [file EXCEPT ![f] = i] /\ inode' = [inode EXCEPT ![i] = <<>>]
    /\ upload' = [upload EXCEPT ![u].step = "write", ![u].fd = i]
    /\ UNCHANGED <<runtime, temp, torn, browse, filing>>

Open(u) == Opens(u)

\* A stream writes on at its own position of the inode it opened, whatever that is called by now.
Written(text, k, piece) ==
    [n \in 1 .. (IF k > Len(text) THEN k ELSE Len(text)) |->
        IF n = k THEN piece ELSE IF n <= Len(text) THEN text[n] ELSE Absent]

WritesOn(u) ==
    LET k == upload[u].sent + 1 IN
    /\ inode' = [inode EXCEPT ![upload[u].fd] = Written(@, k, <<u, k>>)]
    /\ upload' = [upload EXCEPT ![u].sent = k]
    /\ UNCHANGED <<dirs, temp>>

\* Each flush of the sandbox's write appends to what has the temporary name then.
Appends(u) ==
    LET f == Goes(u)
        k == upload[u].sent + 1
        i == TempInode(f) IN
    /\ f[1] \in dirs /\ Makeable(f)
    /\ temp' = [temp EXCEPT ![f] = i]
    /\ inode' = [inode EXCEPT ![i] = IF temp[f] = Absent THEN <<<<u, k>>>> ELSE Append(@, <<u, k>>)]
    /\ upload' = [upload EXCEPT ![u].sent = k]
    /\ UNCHANGED dirs

Write(u) ==
    /\ At(u, "write") /\ upload[u].sent < Cardinality(Pieces)
    /\ IF runtime = "local" THEN WritesOn(u) ELSE Appends(u)
    /\ UNCHANGED <<runtime, file, torn, browse, filing>>

\* All of it is there: it is renamed, whatever the temporary name stands for by now.
MoveInPlace(u) ==
    LET f == Goes(u) IN
    /\ At(u, "write") /\ upload[u].sent = Cardinality(Pieces) /\ temp[f] # Absent
    /\ file' = [file EXCEPT ![f] = temp[f]] /\ temp' = [temp EXCEPT ![f] = Absent]
    /\ Over(u)
    /\ IF upload[u].here THEN AskAgain ELSE UNCHANGED browse
    /\ UNCHANGED <<runtime, dirs, inode, torn, filing>>

\* The directory or the temporary file is gone, or the client goes away: the sandbox's write
\* removes what has the temporary name, the host's leaves it.
UploadFails(u) ==
    LET f == Goes(u)
        stuck == \/ At(u, "open") /\ f[1] \notin dirs /\ runtime = "local"
                 \/ At(u, "write") /\ temp[f] = Absent /\ upload[u].sent = Cardinality(Pieces)
                 \/ At(u, "write") /\ f[1] \notin dirs /\ runtime = "openshell" IN
    /\ Working(u)
    /\ IF stuck THEN UNCHANGED filing ELSE At(u, "write") /\ Count("failures")
    /\ temp' = IF runtime = "openshell" /\ At(u, "write") THEN [temp EXCEPT ![f] = Absent] ELSE temp
    /\ Over(u)
    /\ UNCHANGED <<runtime, dirs, inode, file, torn, browse>>

UploadStep ==
    \E u \in Uploads : Open(u) \/ Write(u) \/ MoveInPlace(u) \/ UploadFails(u)

--------------------------------------------------------------------------
(* The panel                                                               *)

\* One of them is answered.
Answered == <<>>
Answer(b, i) ==
    [b EXCEPT !.asked = IF \A j \in DOMAIN b.asked \ {i} : b.asked[j] = Answered THEN <<>> ELSE [@ EXCEPT ![i] = Answered]]

\* (faulty variant: what is listed stays)
StartsAnyway(b, o) == Asks([b EXCEPT !.at = Root(o)], Root(o))

\* The effect on the agent shown: it starts at the root with nothing listed.
StartsAt(b, o) == Asks([b EXCEPT !.at = Root(o), !.listed = NothingYet], Root(o))

\* The panel opens, or its agent is switched.
ShowAgent(o) ==
    /\ Count("moves") /\ browse' = StartsAt(browse, o)
    /\ UNCHANGED <<runtime, dirs, inode, file, temp, upload, torn>>

\* navigate: the folder is asked for; and since the effect's refresh reads cwd, it runs again,
\* and the panel is back at the root.
OpenDir ==
    LET o == browse.at[1] IN
    /\ Count("moves") /\ browse' = StartsAt(Asks(browse, <<o, "folder">>), o)
    /\ UNCHANGED <<runtime, dirs, inode, file, temp, upload, torn>>

\* A listing comes, in whatever order, or fails: "late" is one that another was asked after.
Listing(i) ==
    LET p == browse.asked[i]
        names == {n \in FileNames : file[<<p, n>>] # Absent} IN
    /\ p # Answered
    /\ \/ /\ p \in dirs /\ UNCHANGED filing
          /\ browse' = [Answer(browse, i) EXCEPT !.listed = [of |-> p, late |-> i < Len(browse.asked), names |-> names]]
       \/ /\ IF p \in dirs THEN Count("failures") ELSE UNCHANGED filing
          /\ browse' = Answer(browse, i)
    /\ UNCHANGED <<runtime, dirs, inode, file, temp, upload, torn>>

Listed == IF browse.listed = NothingYet THEN {} ELSE browse.listed.names

\* remove: the name goes from the directory the panel is at, with all that is in it.
PanelRemoves(n) ==
    /\ n \in Listed /\ Count("removals")
    /\ file' = [file EXCEPT ![<<browse.at, n>>] = Absent]
    /\ AskAgain
    /\ UNCHANGED <<runtime, dirs, inode, temp, upload, torn>>

\* The folder is removed from the root's listing, ...
FolderRemoved ==
    LET p == <<browse.at[1], "folder">> IN
    /\ p \in dirs /\ Count("removals") /\ dirs' = dirs \ {p}
    /\ file' = [f \in Filed |-> IF f[1] = p THEN Absent ELSE file[f]]
    /\ temp' = [f \in Filed |-> IF f[1] = p THEN Absent ELSE temp[f]]
    /\ AskAgain
    /\ torn' = torn \cup {f \in Filed : f[1] = p /\ AtWork(f) # {}}
    /\ UNCHANGED <<runtime, inode, upload>>

\* ... or made.
MkDir ==
    LET p == <<browse.at[1], "folder">> IN
    /\ p \notin dirs /\ Count("moves") /\ dirs' = dirs \cup {p}
    /\ AskAgain
    /\ UNCHANGED <<runtime, inode, file, temp, upload, torn>>

FilesStep ==
    \/ UploadStep
    \/ \E f \in Filed, here \in BOOLEAN : (here => f[1] = browse.at) /\ UploadBegins(f, here)
    \/ \E o \in Owners : o # browse.at[1] /\ ShowAgent(o)
    \/ OpenDir \/ FolderRemoved \/ MkDir
    \/ \E n \in FileNames : PanelRemoves(n)
    \/ \E i \in DOMAIN browse.asked : Listing(i)

FilesTypeOK ==
    /\ runtime \in {"local", "openshell"} /\ dirs \subseteq Places /\ torn \subseteq Filed
    /\ \A i \in Inodes : \A n \in DOMAIN inode[i] : inode[i][n] \in (Uploads \X Pieces) \cup {Absent}
    /\ file \in [Filed -> Inodes \cup {Absent}] /\ temp \in [Filed -> Inodes \cup {Absent}]
    /\ browse.at \in {Root(o) : o \in Owners} /\ Range(browse.asked) \subseteq Places \cup {Answered}

Whole(text) == \E u \in Uploads : text = [k \in Pieces |-> <<u, k>>]

\* Every file is one whole upload, whichever uploads are at work, broke off or failed, whatever
\* is removed meanwhile: short of a file two uploads were at work on at once, or one whose
\* folder was removed and made again under it.  And what the
\* panel lists, what a click removes, is of the directory it is at: short of a listing that
\* came although another had been asked after it.
FilesAsShown ==
    /\ \A f \in Filed \ torn : file[f] # Absent => Whole(inode[file[f]])
    /\ browse.listed # NothingYet => browse.listed.late \/ browse.listed.of = browse.at

====
