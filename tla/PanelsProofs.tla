---- MODULE PanelsProofs ----
(***************************************************************************)
(* Proofs about the panels and what they reach: the machine of an agent's     *)
(* tools, the files of agents, the settings' forms and the rail.              *)
(***************************************************************************)
EXTENDS Panels, FiniteSetTheorems, TLAPS

--------------------------------------------------------------------------
(* The machine of the tools                                                *)

VmTypes ==
    /\ vm \in Boots \cup {NoVm} /\ vmStarting \in Boots \cup {NoVm} /\ astray \subseteq Boots
    /\ boot \in [Boots -> {"none", "booting", "open", "failed", "closed"}]
    /\ tool \in [Tools -> {Idle} \cup [step : {"waits", "uses"}, with : Boots]]

\* What the session has is what it booted last: a boot that is waited for is still going on while
\* there is no machine, and while there is one that nothing came in the way of, none but those a
\* shutdown cut short is.
VmInv ==
    /\ VmTypes /\ VmsClosed
    /\ \A c \in Tools : tool[c].step = "waits" => boot[tool[c].with] = "booting"
    /\ vm # NoVm => boot[vm] = "open"
    /\ vm = NoVm /\ vmStarting # NoVm => boot[vmStarting] = "booting"
    /\ vm # NoVm /\ vm \notin astray => \A b \in Boots : boot[b] = "booting" => b \in astray

\* The machine's variables begin right.
LEMMA VmBegins == Init => VmInv
  BY VmAssumption DEF Init, VmInit, VmInv, VmTypes, VmsClosed, Idle

\* A call boots a machine when there is none and none is starting.
LEMMA BootsFreshKeeps ==
    ASSUME VmInv, NEW c \in Tools, vm = NoVm, vmStarting = NoVm, BootsFresh(c), UNCHANGED <<vm, astray>>
    PROVE  VmInv'
  <1> PICK b \in Boots : boot[b] = "none" /\ boot' = [boot EXCEPT ![b] = "booting"] /\ vmStarting' = b /\ Waits(c, b)
      BY DEF BootsFresh
  <1>1. VmTypes'
      BY DEF VmInv, VmTypes, Waits
  <1>2. \A d \in Tools : tool'[d] = IF d = c THEN [step |-> "waits", with |-> b] ELSE tool[d]
      BY DEF VmInv, VmTypes, Waits
  <1>3. \A e \in Boots : boot'[e] = IF e = b THEN "booting" ELSE boot[e]
      BY DEF VmInv, VmTypes
  <1>4. b # NoVm
      BY VmAssumption
  <1>5. \A d \in Tools : tool[d].step \in {"waits", "uses"} => tool[d].with \in Boots
      BY DEF VmInv, VmTypes, Idle
  <1>6. VmsClosed'
    <2>1. \A e \in Boots \ astray' : boot'[e] = "open" => vm' = e
        BY <1>3 DEF VmInv, VmsClosed
    <2>2. \A d \in Tools : tool'[d].step = "uses" => boot'[tool'[d].with] \in {"open", "closed"}
        BY <1>2, <1>3, <1>5 DEF VmInv, VmsClosed
    <2>3. \A e \in Boots : boot'[e] = "booting" => vmStarting' = e \/ e \in astray'
        BY <1>3, VmAssumption DEF VmInv, VmsClosed
    <2> QED BY <2>1, <2>2, <2>3 DEF VmsClosed
  <1>7. \A d \in Tools : tool'[d].step = "waits" => boot'[tool'[d].with] = "booting"
      BY <1>2, <1>3, <1>5 DEF VmInv
  <1> QED BY <1>1, <1>6, <1>7, <1>3, <1>4 DEF VmInv

\* The steps of the machine keep its invariant.
LEMMA VmStepKeeps == ASSUME VmInv, VmStep PROVE VmInv'
  <1>0. \A d \in Tools : tool[d].step \in {"waits", "uses"} => tool[d].with \in Boots
      BY DEF VmInv, VmTypes, Idle
  <1>1. ASSUME NEW c \in Tools, ToolBegins(c) PROVE VmInv'
    <2>1. CASE vm # NoVm
      <3>1. tool' = [tool EXCEPT ![c] = [step |-> "uses", with |-> vm]] /\ UNCHANGED <<vm, vmStarting, boot, astray>>
          BY <1>1, <2>1 DEF ToolBegins, EnsureVm
      <3>2. vm \in Boots /\ boot[vm] \in {"open", "closed"}
          BY <2>1 DEF VmInv, VmTypes
      <3> QED BY <3>1, <3>2 DEF VmInv, VmTypes, VmsClosed
    <2>2. CASE vm = NoVm /\ vmStarting # NoVm
      <3>1. tool' = [tool EXCEPT ![c] = [step |-> "waits", with |-> vmStarting]] /\ UNCHANGED <<vm, vmStarting, boot, astray>>
          BY <1>1, <2>2 DEF ToolBegins, EnsureVm, Waits
      <3> QED BY <3>1, <2>2 DEF VmInv, VmTypes, VmsClosed
    <2>3. CASE vm = NoVm /\ vmStarting = NoVm
        BY <1>1, <2>3, BootsFreshKeeps DEF ToolBegins, EnsureVm
    <2> QED BY <2>1, <2>2, <2>3
  <1>2. ASSUME NEW c \in Tools, ToolEnds(c) PROVE VmInv'
      BY <1>2 DEF ToolEnds, VmInv, VmTypes, VmsClosed, Idle
  <1>3. ASSUME NEW b \in Boots, BootEnds(b) PROVE VmInv'
      BY <1>3, <1>0, VmAssumption DEF BootEnds, WaitsFor, VmInv, VmTypes, VmsClosed, Idle
  <1>4. ASSUME NEW b \in Boots, BootFails(b) PROVE VmInv'
      BY <1>4, <1>0, VmAssumption DEF BootFails, WaitsFor, VmInv, VmTypes, VmsClosed, Idle
  <1>5. ASSUME ShutDown PROVE VmInv'
      BY <1>5, <1>0, VmAssumption DEF ShutDown, VmInv, VmTypes, VmsClosed, Idle
  <1> QED BY <1>1, <1>2, <1>3, <1>4, <1>5 DEF VmStep

--------------------------------------------------------------------------
(* The files                                                               *)

Roots == {Root(o) : o \in Owners}
Piece == Uploads \X Pieces
UploadRec == [step : {"open"}, to : Filed, fd : {Absent}, sent : {0}, here : BOOLEAN]
                \cup [step : {"write"}, to : Filed, fd : Inodes, sent : 0 .. 2, here : BOOLEAN]
BrowseRec == [at : Roots, listed : {NothingYet} \cup [of : Places, late : BOOLEAN, names : SUBSET FileNames],
              asked : Seq(Places \cup {Answered})]

FileTypes ==
    /\ runtime \in {"local", "openshell"} /\ dirs \subseteq Places /\ torn \subseteq Filed
    /\ inode \in [Inodes -> Seq(Piece \cup {Absent})]
    /\ file \in [Filed -> Inodes \cup {Absent}] /\ temp \in [Filed -> Inodes \cup {Absent}]
    /\ upload \in [Uploads -> {Ready, Done} \cup UploadRec]
    /\ browse \in BrowseRec

\* No inode has two names, and one that an upload has open is named by no other file.
OneName ==
    /\ \A f, g \in Filed : file[f] # Absent => file[f] # temp[g] /\ (file[f] = file[g] => f = g)
    /\ \A f, g \in Filed : temp[f] # Absent /\ temp[f] = temp[g] => f = g
    /\ \A u \in Uploads, g \in Filed : At(u, "write") /\ upload[u].fd \in {file[g], temp[g]} => g = Goes(u)

SoFar(u) == [k \in 1 .. upload[u].sent |-> <<u, k>>]

WorksOn(u, f) == upload[u].step \in {"open", "write"} /\ upload[u].to = f

\* A file that is not torn is whole, and the one upload at work on it finds under the temporary
\* name what it has sent and nothing else.
FileWhole(f) ==
    /\ file[f] # Absent => Whole(inode[file[f]])
    /\ \A u, v \in Uploads : WorksOn(u, f) /\ WorksOn(v, f) => u = v
    /\ \A u \in Uploads : upload[u].step = "write" /\ upload[u].to = f =>
          /\ temp[f] # Absent /\ (runtime = "local" => temp[f] = upload[u].fd)
          /\ inode[temp[f]] = SoFar(u)

FilesWhole == \A f \in Filed \ torn : FileWhole(f)

\* What was asked for last is the place the panel is at.
ListingInv ==
    /\ browse.listed # NothingYet => browse.listed.late \/ browse.listed.of = browse.at
    /\ browse.asked # <<>> => browse.asked[Len(browse.asked)] \in {Answered, browse.at}

FilesInv == FileTypes /\ OneName /\ FilesWhole /\ ListingInv

\* There is no file and no upload at work at first.
LEMMA FilesBegin == Init => FilesInv
  <1> SUFFICES ASSUME Init PROVE FilesInv
      OBVIOUS
  <1>0. FilesInit
      BY DEF Init
  <1>1. FileTypes
    <2>1. \A i \in Inodes : inode[i] = <<>> /\ <<>> \in Seq(Piece \cup {Absent})
        BY <1>0 DEF FilesInit
    <2>2. browse \in BrowseRec
      <3>1. <<>> \in Seq(Places \cup {Answered})
          OBVIOUS
      <3>2. browse \in [at : Roots, listed : {NothingYet}, asked : {<<>>}]
          BY <1>0 DEF FilesInit, Roots
      <3> QED BY <3>1, <3>2 DEF BrowseRec
    <2> QED BY <1>0, <2>1, <2>2 DEF FilesInit, FileTypes
  <1>2. OneName
      BY <1>0 DEF FilesInit, OneName, At, Ready
  <1>3. FilesWhole
      BY <1>0 DEF FilesInit, FilesWhole, FileWhole, WorksOn, Ready
  <1>4. ListingInv
      BY <1>0 DEF FilesInit, ListingInv
  <1> QED BY <1>1, <1>2, <1>3, <1>4 DEF FilesInv

\* What an upload at work carries.
LEMMA WorkingCarries ==
    ASSUME FileTypes, NEW u \in Uploads, Working(u)
    PROVE  upload[u] \in UploadRec /\ Goes(u) \in Filed
  BY DEF FileTypes, Working, UploadRec, Ready, Done, Goes

\* A fresh inode is free.
LEMMA FreshIsFree ==
    ASSUME FileTypes, NEW f \in Filed, Makeable(f)
    PROVE  /\ TempInode(f) \in Inodes /\ TempInode(f) # Absent
           /\ temp[f] # Absent => TempInode(f) = temp[f]
           /\ temp[f] = Absent => Free(TempInode(f))
  <1>1. CASE temp[f] # Absent
      BY <1>1 DEF TempInode, FileTypes
  <1>2. CASE temp[f] = Absent
    <2>1. \E i \in Inodes : Free(i)
        BY <1>2 DEF Makeable
    <2>2. Fresh \in Inodes /\ Free(Fresh)
        BY <2>1 DEF Fresh
    <2> QED BY <1>2, <2>2, FilesAssumption DEF TempInode
  <1> QED BY <1>1, <1>2

\* The temporary name gets its inode: no other name has it.
LEMMA TempIsOwn ==
    ASSUME FileTypes, OneName, NEW f \in Filed, Makeable(f)
    PROVE  /\ \A g \in Filed : file[g] # TempInode(f)
           /\ \A g \in Filed : temp[g] = TempInode(f) => g = f
           /\ \A v \in Uploads : At(v, "write") /\ upload[v].fd = TempInode(f) => Goes(v) = f
  <1>1. CASE temp[f] # Absent
      BY <1>1, FreshIsFree DEF OneName
  <1>2. CASE temp[f] = Absent
      BY <1>2, FreshIsFree DEF Free, At
  <1> QED BY <1>1, <1>2

\* An upload arrives: two at work tear the file.
LEMMA UploadBeginsKeeps ==
    ASSUME FilesInv, NEW f \in Filed, NEW here \in BOOLEAN, UploadBegins(f, here)
    PROVE  FilesInv'
  <1> DEFINE rec == [step |-> "open", to |-> f, fd |-> Absent, sent |-> 0, here |-> here]
  <1>1. PICK u \in Uploads : At(u, "ready") /\ upload' = [upload EXCEPT ![u] = rec]
      BY DEF UploadBegins
  <1>2. /\ torn' = (IF AtWork(f) # {} THEN torn \cup {f} ELSE torn)
        /\ dirs' = (IF runtime = "local" THEN dirs \cup {f[1]} ELSE dirs)
        /\ UNCHANGED <<runtime, inode, file, temp, browse>>
      BY DEF UploadBegins
  <1>3. rec \in UploadRec /\ rec.step = "open" /\ rec.sent = 0 /\ rec.to = f
      BY DEF UploadRec
  <1> HIDE DEF rec
  <1>4. FileTypes
      BY DEF FilesInv
  <1>5. \A v \in Uploads : upload'[v] = IF v = u THEN rec ELSE upload[v]
      BY <1>1, <1>4 DEF FileTypes
  <1>6. f[1] \in Places
      BY DEF Filed
  <1>7. FileTypes'
      BY <1>1, <1>2, <1>3, <1>4, <1>6 DEF FileTypes
  <1>8. OneName'
      BY <1>2, <1>3, <1>5 DEF FilesInv, OneName, At, Goes
  <1>9. FilesWhole'
    <2> SUFFICES ASSUME NEW g \in Filed, g \notin torn' PROVE FileWhole(g)'
        BY DEF FilesWhole
    <2>1. g \notin torn /\ (g = f => AtWork(g) = {})
        BY <1>2
    <2>2. FileWhole(g)
        BY <2>1 DEF FilesInv, FilesWhole
    <2>3. \A v \in Uploads : v \in AtWork(g) <=> WorksOn(v, g)
        BY DEF AtWork, Working, WorksOn, Goes
    <2>4. \A v, w \in Uploads : WorksOn(v, g)' /\ WorksOn(w, g)' => v = w
        BY <2>1, <2>2, <2>3, <1>1, <1>3, <1>5 DEF FileWhole, WorksOn
    <2>5. ASSUME NEW v \in Uploads, upload'[v].step = "write", upload'[v].to = g
          PROVE  /\ temp[g] # Absent /\ (runtime = "local" => temp[g] = upload'[v].fd)
                 /\ inode[temp[g]] = SoFar(v)'
        BY <2>2, <2>5, <1>3, <1>5 DEF FileWhole, SoFar
    <2> QED BY <1>2, <2>2, <2>4, <2>5 DEF FileWhole, Whole
  <1>10. ListingInv'
      BY <1>2 DEF FilesInv, ListingInv
  <1> QED BY <1>7, <1>8, <1>9, <1>10 DEF FilesInv

\* Its temporary file is made, or emptied.
LEMMA OpensKeeps == ASSUME FilesInv, NEW u \in Uploads, Opens(u) PROVE FilesInv'
  <1> DEFINE f == Goes(u)
             i == TempInode(f)
  <1>1. /\ At(u, "open") /\ Makeable(f) /\ dirs' = dirs \cup {f[1]}
        /\ temp' = [temp EXCEPT ![f] = i] /\ inode' = [inode EXCEPT ![i] = <<>>]
        /\ upload' = [upload EXCEPT ![u].step = "write", ![u].fd = i]
        /\ UNCHANGED <<runtime, file, torn, browse>>
      BY DEF Opens
  <1>2. FileTypes /\ OneName
      BY DEF FilesInv
  <1>3. upload[u] \in UploadRec /\ f \in Filed
      BY <1>1, <1>2, WorkingCarries DEF At, Working
  <1>4. /\ i \in Inodes /\ i # Absent
        /\ \A g \in Filed : file[g] # i
        /\ \A g \in Filed : temp[g] = i => g = f
        /\ \A v \in Uploads : At(v, "write") /\ upload[v].fd = i => Goes(v) = f
      BY <1>1, <1>2, <1>3, FreshIsFree, TempIsOwn
  <1>f. f = upload[u].to /\ upload[u].sent = 0 /\ upload[u].step = "open"
      BY <1>1, <1>3 DEF UploadRec, At, Goes
  <1> HIDE DEF i, f
  <1>5. upload'[u] = [upload[u] EXCEPT !.step = "write", !.fd = i] /\ \A v \in Uploads \ {u} : upload'[v] = upload[v]
      BY <1>1, <1>2 DEF FileTypes
  <1>6. upload'[u] \in UploadRec /\ upload'[u].step = "write" /\ upload'[u].fd = i /\ upload'[u].to = f /\ upload'[u].sent = 0
    <2>1. upload[u] \in [step : {"open"}, to : Filed, fd : {Absent}, sent : {0}, here : BOOLEAN]
        BY <1>3, <1>f DEF UploadRec
    <2>2. upload'[u] \in [step : {"write"}, to : Filed, fd : Inodes, sent : {0}, here : BOOLEAN]
        BY <2>1, <1>4, <1>5
    <2>3. upload'[u].fd = i /\ upload'[u].to = f
        BY <2>1, <1>5, <1>f
    <2>4. upload'[u] \in [step : {"write"}, to : Filed, fd : Inodes, sent : 0 .. 2, here : BOOLEAN]
        BY <2>2
    <2> QED BY <2>2, <2>3, <2>4 DEF UploadRec
  <1>7. /\ \A g \in Filed : temp'[g] = IF g = f THEN i ELSE temp[g]
        /\ \A j \in Inodes : inode'[j] = IF j = i THEN <<>> ELSE inode[j]
      BY <1>1, <1>2 DEF FileTypes
  <1>8. FileTypes'
    <2>1. f[1] \in Places
        BY <1>3 DEF Filed
    <2>2. upload' \in [Uploads -> {Ready, Done} \cup UploadRec]
        BY <1>1, <1>2, <1>5, <1>6 DEF FileTypes
    <2>3. <<>> \in Seq(Piece \cup {Absent})
        OBVIOUS
    <2> QED BY <1>1, <1>2, <1>4, <2>1, <2>2, <2>3 DEF FileTypes
  <1>9. OneName'
    <2>1. /\ \A g, h \in Filed : file[g] # Absent => file[g] # temp'[h] /\ (file[g] = file[h] => g = h)
          /\ \A g, h \in Filed : temp'[g] # Absent /\ temp'[g] = temp'[h] => g = h
        BY <1>2, <1>4, <1>7 DEF OneName
    <2>2. ASSUME NEW v \in Uploads, NEW g \in Filed, upload'[v].step = "write", upload'[v].fd \in {file[g], temp'[g]}
          PROVE  g = upload'[v].to
      <3>1. CASE v = u
          BY <2>2, <3>1, <1>4, <1>6, <1>7
      <3>2. CASE v # u
          BY <2>2, <3>2, <1>2, <1>4, <1>5, <1>7 DEF OneName, At, Goes
      <3> QED BY <3>1, <3>2
    <2> QED BY <1>1, <2>1, <2>2 DEF OneName, At, Goes
  <1>10. FilesWhole'
    <2> SUFFICES ASSUME NEW g \in Filed, g \notin torn PROVE FileWhole(g)'
        BY <1>1 DEF FilesWhole
    <2>1. FileWhole(g)
        BY DEF FilesInv, FilesWhole
    <2>2. file[g] # Absent => inode'[file[g]] = inode[file[g]]
        BY <1>2, <1>4, <1>7 DEF FileTypes
    <2>3. \A v, w \in Uploads : WorksOn(v, g)' /\ WorksOn(w, g)' => v = w
      <3>1. ASSUME NEW v \in Uploads, WorksOn(v, g)' PROVE WorksOn(v, g)
        <4>1. CASE v = u
            BY <3>1, <4>1, <1>6, <1>f DEF WorksOn
        <4>2. CASE v # u
            BY <3>1, <4>2, <1>5 DEF WorksOn
        <4> QED BY <4>1, <4>2
      <3> QED BY <3>1, <2>1 DEF FileWhole
    <2>4. ASSUME NEW v \in Uploads, upload'[v].step = "write", upload'[v].to = g
          PROVE  /\ temp'[g] # Absent /\ (runtime = "local" => temp'[g] = upload'[v].fd)
                 /\ inode'[temp'[g]] = SoFar(v)'
      <3>2. CASE v = u
        <4>1. g = f /\ temp'[g] = i /\ inode'[i] = <<>>
            BY <2>4, <3>2, <1>6, <1>4, <1>7
        <4>2. SoFar(v)' = <<>>
            BY <3>2, <1>6 DEF SoFar
        <4> QED BY <4>1, <4>2, <3>2, <1>4, <1>6
      <3>3. CASE v # u
        <4>1. upload'[v] = upload[v] /\ SoFar(v)' = SoFar(v)
            BY <3>3, <1>5 DEF SoFar
        <4>2. g # f
            BY <3>3, <4>1, <2>1, <2>4, <1>f DEF FileWhole, WorksOn
        <4>3. temp[g] # Absent /\ (runtime = "local" => temp[g] = upload[v].fd) /\ inode[temp[g]] = SoFar(v)
            BY <4>1, <2>1, <2>4 DEF FileWhole
        <4>4. temp[g] \in Inodes /\ temp[g] # i
            BY <4>2, <4>3, <1>2, <1>4 DEF FileTypes
        <4> QED BY <4>1, <4>2, <4>3, <4>4, <1>7
      <3> QED BY <3>2, <3>3
    <2> QED BY <1>1, <2>1, <2>2, <2>3, <2>4 DEF FileWhole, Whole
  <1>11. ListingInv'
      BY <1>1 DEF FilesInv, ListingInv
  <1> QED BY <1>8, <1>9, <1>10, <1>11 DEF FilesInv

\* The next piece comes after those that were sent.
LEMMA OnePieceMore ==
    ASSUME NEW text, NEW u \in Uploads, NEW k \in Nat, text = [n \in 1 .. k |-> <<u, n>>]
    PROVE  /\ Written(text, k + 1, <<u, k + 1>>) = [n \in 1 .. k + 1 |-> <<u, n>>]
           /\ Append(text, <<u, k + 1>>) = [n \in 1 .. k + 1 |-> <<u, n>>]
           /\ k = 0 => <<<<u, k + 1>>>> = [n \in 1 .. k + 1 |-> <<u, n>>]
  <1>1. text \in Seq(Uploads \X Nat) /\ Len(text) = k
      OBVIOUS
  <1>2. Written(text, k + 1, <<u, k + 1>>) = [n \in 1 .. k + 1 |-> <<u, n>>]
    <2>1. Written(text, k + 1, <<u, k + 1>>)
            = [n \in 1 .. k + 1 |-> IF n = k + 1 THEN <<u, k + 1>> ELSE IF n <= k THEN text[n] ELSE Absent]
        BY <1>1 DEF Written
    <2>2. \A n \in 1 .. k + 1 : (IF n = k + 1 THEN <<u, k + 1>> ELSE IF n <= k THEN text[n] ELSE Absent) = <<u, n>>
        OBVIOUS
    <2> QED BY <2>1, <2>2
  <1>3. Append(text, <<u, k + 1>>) = [n \in 1 .. k + 1 |-> <<u, n>>]
    <2> DEFINE more == Append(text, <<u, k + 1>>)
    <2>1. more \in Seq(Uploads \X Nat) /\ Len(more) = k + 1
        BY <1>1
    <2>2. \A n \in 1 .. k + 1 : more[n] = <<u, n>>
        BY <1>1
    <2>3. more = [n \in 1 .. k + 1 |-> more[n]]
        BY <2>1
    <2> HIDE DEF more
    <2>4. more = [n \in 1 .. k + 1 |-> <<u, n>>]
        BY <2>2, <2>3
    <2> QED BY <2>4 DEF more
  <1>4. k = 0 => <<<<u, k + 1>>>> = [n \in 1 .. k + 1 |-> <<u, n>>]
    <2>1. <<<<u, 1>>>> = [n \in 1 .. 1 |-> <<u, n>>]
        OBVIOUS
    <2>2. k = 0 => k + 1 = 1
        OBVIOUS
    <2> QED BY <2>1, <2>2
  <1> QED BY <1>2, <1>3, <1>4

\* An upload has two pieces.
LEMMA TwoPieces == Cardinality(Pieces) = 2
  <1>1. 1 \in Int /\ 2 \in Int
      OBVIOUS
  <1>2. Cardinality(1 .. 2) = IF 1 > 2 THEN 0 ELSE 2 - 1 + 1
      BY <1>1, FS_Interval
  <1> QED BY <1>2 DEF Pieces

\* An upload sends its next piece.
LEMMA WriteKeeps == ASSUME FilesInv, NEW u \in Uploads, Write(u) PROVE FilesInv'
  <1> DEFINE f == Goes(u)
             k == upload[u].sent + 1
             piece == <<u, k>>
  <1>1. At(u, "write") /\ upload[u].sent < 2 /\ UNCHANGED <<runtime, dirs, file, torn, browse>>
      BY TwoPieces DEF Write, WritesOn, Appends
  <1>2. FileTypes /\ OneName
      BY DEF FilesInv
  <1>3. upload[u] \in UploadRec /\ f \in Filed /\ upload[u].to = f /\ upload[u].step = "write"
      BY <1>1, <1>2, WorkingCarries DEF At, Working, Goes
  <1>4. upload' = [upload EXCEPT ![u].sent = k]
      BY DEF Write, WritesOn, Appends
  <1>5. upload'[u] = [upload[u] EXCEPT !.sent = k] /\ \A v \in Uploads \ {u} : upload'[v] = upload[v]
      BY <1>2, <1>4 DEF FileTypes
  <1>6. /\ upload'[u] \in UploadRec /\ upload'[u].step = "write" /\ upload'[u].fd = upload[u].fd
        /\ upload'[u].to = f /\ upload'[u].sent = k /\ k \in 1 .. 2
      BY <1>1, <1>3, <1>5 DEF UploadRec
  <1>7. piece \in Piece
      BY <1>6 DEF Piece, Pieces
  <1>8. f \notin torn =>
          temp[f] \in Inodes /\ (runtime = "local" => temp[f] = upload[u].fd) /\ inode[temp[f]] = [n \in 1 .. upload[u].sent |-> <<u, n>>]
      BY <1>2, <1>3 DEF FilesInv, FilesWhole, FileWhole, SoFar, FileTypes
  <1>9. upload[u].sent \in Nat
      BY <1>3 DEF UploadRec
  <1>10. upload' \in [Uploads -> {Ready, Done} \cup UploadRec]
      BY <1>2, <1>4, <1>5, <1>6 DEF FileTypes
  <1> HIDE DEF f, k, piece
  \* What is written, and where, on either runtime.
  <1>11. /\ inode' \in [Inodes -> Seq(Piece \cup {Absent})] /\ temp' \in [Filed -> Inodes \cup {Absent}]
         /\ OneName'
         /\ \A g \in Filed : file[g] # Absent /\ g \notin torn => inode'[file[g]] = inode[file[g]]
         /\ \A g \in Filed : temp[g] # Absent /\ g # f => temp'[g] = temp[g] /\ inode'[temp[g]] = inode[temp[g]]
         /\ f \notin torn => temp'[f] = temp[f] /\ inode'[temp[f]] = [n \in 1 .. k |-> <<u, n>>]
    <2>1. CASE runtime = "local"
      <3>1. inode' = [inode EXCEPT ![upload[u].fd] = Written(@, k, piece)] /\ temp' = temp
          BY <2>1 DEF Write, WritesOn, k, piece
      <3>2. \A text \in Seq(Piece \cup {Absent}) : Written(text, k, piece) \in Seq(Piece \cup {Absent})
          BY <1>6, <1>7 DEF Written
      <3>3. \A j \in Inodes : inode'[j] = IF j = upload[u].fd THEN Written(inode[j], k, piece) ELSE inode[j]
          BY <3>1, <1>2 DEF FileTypes
      <3>4. OneName'
        <4>1. \A v \in Uploads : /\ upload'[v].step = upload[v].step /\ upload'[v].to = upload[v].to
                                 /\ upload'[v].fd = upload[v].fd \/ upload[v].step # "write"
            BY <1>3, <1>5, <1>6
        <4> QED BY <1>1, <1>2, <4>1, <3>1 DEF OneName, At, Goes
      <3>5. \A g \in Filed : file[g] # Absent /\ g \notin torn => inode'[file[g]] = inode[file[g]]
          BY <1>2, <1>3, <1>8, <2>1, <3>3 DEF OneName, At, Goes, FileTypes
      <3>6. \A g \in Filed : temp[g] # Absent /\ g # f => temp'[g] = temp[g] /\ inode'[temp[g]] = inode[temp[g]]
          BY <1>2, <1>3, <3>1, <3>3 DEF OneName, At, Goes, FileTypes
      <3>7. f \notin torn => inode'[temp[f]] = [n \in 1 .. k |-> <<u, n>>]
        <4> SUFFICES ASSUME f \notin torn PROVE inode'[temp[f]] = [n \in 1 .. k |-> <<u, n>>]
            OBVIOUS
        <4>1. inode'[temp[f]] = Written(inode[temp[f]], k, piece)
            BY <1>8, <2>1, <3>3
        <4>2. inode[temp[f]] = [n \in 1 .. upload[u].sent |-> <<u, n>>]
            BY <1>8
        <4>3. Written(inode[temp[f]], k, piece) = [n \in 1 .. k |-> <<u, n>>]
          <5> DEFINE text == inode[temp[f]]
                     sent == upload[u].sent
          <5>1. sent \in Nat /\ text = [n \in 1 .. sent |-> <<u, n>>]
              BY <4>2, <1>9
          <5> HIDE DEF text, sent
          <5>2. Written(text, sent + 1, <<u, sent + 1>>) = [n \in 1 .. sent + 1 |-> <<u, n>>]
              BY <5>1, OnePieceMore
          <5> QED BY <5>2 DEF text, sent, k, piece
        <4> QED BY <4>1, <4>3
      <3>8. inode' \in [Inodes -> Seq(Piece \cup {Absent})]
          BY <1>2, <3>1, <3>2, <3>3 DEF FileTypes
      <3> QED BY <1>2, <3>1, <3>4, <3>5, <3>6, <3>7, <3>8 DEF FileTypes
    <2>2. CASE runtime # "local"
      <3> DEFINE i == TempInode(f)
      <3>1. /\ Makeable(f) /\ temp' = [temp EXCEPT ![f] = i]
            /\ inode' = [inode EXCEPT ![i] = IF temp[f] = Absent THEN <<piece>> ELSE Append(@, piece)]
          BY <2>2 DEF Write, Appends, f, k, piece
      <3>2. /\ i \in Inodes /\ i # Absent /\ (temp[f] # Absent => i = temp[f])
            /\ \A g \in Filed : file[g] # i
            /\ \A g \in Filed : temp[g] = i => g = f
            /\ \A v \in Uploads : At(v, "write") /\ upload[v].fd = i => Goes(v) = f
          BY <1>2, <1>3, <3>1, FreshIsFree, TempIsOwn
      <3> HIDE DEF i
      <3>3. /\ \A g \in Filed : temp'[g] = IF g = f THEN i ELSE temp[g]
            /\ \A j \in Inodes : inode'[j] = IF j = i THEN IF temp[f] = Absent THEN <<piece>> ELSE Append(inode[j], piece)
                                             ELSE inode[j]
          BY <1>2, <3>1 DEF FileTypes
      <3>4. OneName'
        <4>1. /\ \A g, h \in Filed : file[g] # Absent => file[g] # temp'[h] /\ (file[g] = file[h] => g = h)
              /\ \A g, h \in Filed : temp'[g] # Absent /\ temp'[g] = temp'[h] => g = h
            BY <1>2, <3>2, <3>3 DEF OneName
        <4>2. ASSUME NEW v \in Uploads, NEW g \in Filed, upload'[v].step = "write", upload'[v].fd \in {file[g], temp'[g]}
              PROVE  g = upload'[v].to
          <5>1. upload[v].step = "write" /\ upload[v].fd = upload'[v].fd /\ upload[v].to = upload'[v].to
              BY <4>2, <1>3, <1>5, <1>6
          <5> QED BY <4>2, <5>1, <1>2, <3>2, <3>3 DEF OneName, At, Goes
        <4> QED BY <1>1, <4>1, <4>2 DEF OneName, At, Goes
      <3>5. \A g \in Filed : file[g] # Absent => inode'[file[g]] = inode[file[g]]
          BY <1>2, <3>2, <3>3 DEF FileTypes
      <3>6. \A g \in Filed : temp[g] # Absent /\ g # f => temp'[g] = temp[g] /\ inode'[temp[g]] = inode[temp[g]]
          BY <1>2, <3>2, <3>3 DEF FileTypes
      <3>7. f \notin torn => temp'[f] = temp[f] /\ inode'[temp[f]] = [n \in 1 .. k |-> <<u, n>>]
        <4> SUFFICES ASSUME f \notin torn PROVE temp'[f] = temp[f] /\ inode'[temp[f]] = [n \in 1 .. k |-> <<u, n>>]
            OBVIOUS
        <4>1. temp[f] # Absent /\ i = temp[f]
            BY <1>8, <3>2, FilesAssumption
        <4>2. temp'[f] = temp[f] /\ inode'[temp[f]] = Append(inode[temp[f]], piece)
            BY <1>3, <3>2, <3>3, <4>1
        <4>3. inode[temp[f]] = [n \in 1 .. upload[u].sent |-> <<u, n>>]
            BY <1>8
        <4>4. Append(inode[temp[f]], piece) = [n \in 1 .. k |-> <<u, n>>]
            BY <4>3, <1>9, OnePieceMore DEF k, piece
        <4> QED BY <4>2, <4>4
      <3>8. inode' \in [Inodes -> Seq(Piece \cup {Absent})] /\ temp' \in [Filed -> Inodes \cup {Absent}]
        <4>1. <<piece>> \in Seq(Piece \cup {Absent}) /\ \A text \in Seq(Piece \cup {Absent}) : Append(text, piece) \in Seq(Piece \cup {Absent})
            BY <1>7
        <4> QED BY <1>2, <3>1, <3>2, <4>1 DEF FileTypes
      <3> QED BY <3>4, <3>5, <3>6, <3>7, <3>8
    <2> QED BY <2>1, <2>2
  <1>12. FileTypes'
      BY <1>1, <1>2, <1>10, <1>11 DEF FileTypes
  <1>13. FilesWhole'
    <2> SUFFICES ASSUME NEW g \in Filed, g \notin torn PROVE FileWhole(g)'
        BY <1>1 DEF FilesWhole
    <2>1. FileWhole(g)
        BY DEF FilesInv, FilesWhole
    <2>2. \A v \in Uploads : WorksOn(v, g)' => WorksOn(v, g)
      <3>1. ASSUME NEW v \in Uploads, WorksOn(v, g)' PROVE WorksOn(v, g)
        <4>1. CASE v = u
            BY <3>1, <4>1, <1>3, <1>6 DEF WorksOn
        <4>2. CASE v # u
            BY <3>1, <4>2, <1>5 DEF WorksOn
        <4> QED BY <4>1, <4>2
      <3> QED BY <3>1
    <2>3. ASSUME NEW v \in Uploads, upload'[v].step = "write", upload'[v].to = g
          PROVE  /\ temp'[g] # Absent /\ (runtime = "local" => temp'[g] = upload'[v].fd)
                 /\ inode'[temp'[g]] = SoFar(v)'
      <3>1. CASE v = u
        <4>1. g = f /\ SoFar(v)' = [n \in 1 .. k |-> <<u, n>>]
            BY <2>3, <3>1, <1>6 DEF SoFar
        <4> QED BY <4>1, <3>1, <1>6, <1>8, <1>11, FilesAssumption
      <3>2. CASE v # u
        <4>1. upload'[v] = upload[v] /\ SoFar(v)' = SoFar(v)
            BY <3>2, <1>5 DEF SoFar
        <4>2. g # f
            BY <3>2, <4>1, <2>1, <2>3, <1>3 DEF FileWhole, WorksOn
        <4>3. temp[g] # Absent /\ (runtime = "local" => temp[g] = upload[v].fd) /\ inode[temp[g]] = SoFar(v)
            BY <4>1, <2>1, <2>3 DEF FileWhole
        <4> QED BY <4>1, <4>2, <4>3, <1>11
      <3> QED BY <3>1, <3>2
    <2>4. file[g] # Absent => Whole(inode'[file[g]])
        BY <2>1, <1>11 DEF FileWhole
    <2>5. \A v, w \in Uploads : WorksOn(v, g)' /\ WorksOn(w, g)' => v = w
        BY <2>1, <2>2 DEF FileWhole
    <2> QED BY <1>1, <2>3, <2>4, <2>5 DEF FileWhole, Whole
  <1>14. ListingInv'
      BY <1>1 DEF FilesInv, ListingInv
  <1> QED BY <1>11, <1>12, <1>13, <1>14 DEF FilesInv

\* Another listing is asked for.
LEMMA AskingKeeps ==
    ASSUME NEW b \in BrowseRec, NEW p \in Places
    PROVE  /\ Asks(b, p) \in BrowseRec /\ Asks(b, p).listed = b.listed /\ Asks(b, p).at = b.at
           /\ Asks(b, p).asked[Len(Asks(b, p).asked)] = p
  <1>1. b.asked \in Seq(Places \cup {Answered})
      BY DEF BrowseRec
  <1>2. /\ Append(b.asked, p) \in Seq(Places \cup {Answered})
        /\ Append(b.asked, p)[Len(Append(b.asked, p))] = p
      BY <1>1
  <1>3. Asks(b, p) = [b EXCEPT !.asked = Append(b.asked, p)]
      BY DEF Asks
  <1> QED BY <1>2, <1>3 DEF BrowseRec

\* The panel keeps what it says of the listing when it asks for another.
LEMMA AskAgainKeeps ==
    ASSUME FilesInv, browse' = browse \/ browse' = Asks(browse, browse.at)
    PROVE  browse' \in BrowseRec /\ ListingInv'
  <1>1. browse \in BrowseRec
      BY DEF FilesInv, FileTypes
  <1>2. CASE browse' = browse
      BY <1>1, <1>2 DEF FilesInv, ListingInv
  <1>3. CASE browse' = Asks(browse, browse.at)
    <2>1. browse.at \in Places
        BY <1>1 DEF BrowseRec, Roots, Root, Places
    <2> QED BY <1>1, <1>3, <2>1, AskingKeeps DEF FilesInv, ListingInv
  <1> QED BY <1>2, <1>3

\* All of it is there, and takes the file's name.
LEMMA MoveInPlaceKeeps == ASSUME FilesInv, NEW u \in Uploads, MoveInPlace(u) PROVE FilesInv'
  <1> DEFINE f == Goes(u)
  <1>1. /\ At(u, "write") /\ upload[u].sent = 2 /\ temp[f] # Absent
        /\ file' = [file EXCEPT ![f] = temp[f]] /\ temp' = [temp EXCEPT ![f] = Absent]
        /\ upload' = [upload EXCEPT ![u] = Done]
        /\ browse' = browse \/ browse' = Asks(browse, browse.at)
        /\ UNCHANGED <<runtime, dirs, inode, torn>>
      BY TwoPieces DEF MoveInPlace, Over, AskAgain
  <1>2. FileTypes /\ OneName
      BY DEF FilesInv
  <1>3. upload[u] \in UploadRec /\ f \in Filed /\ upload[u].to = f /\ upload[u].step = "write"
      BY <1>1, <1>2, WorkingCarries DEF At, Working, Goes
  <1> HIDE DEF f
  <1>4. /\ \A g \in Filed : file'[g] = (IF g = f THEN temp[f] ELSE file[g]) /\ temp'[g] = IF g = f THEN Absent ELSE temp[g]
        /\ \A v \in Uploads : upload'[v] = IF v = u THEN Done ELSE upload[v]
      BY <1>1, <1>2 DEF FileTypes
  <1>5. browse' \in BrowseRec /\ ListingInv'
      BY <1>1, AskAgainKeeps
  <1>6. FileTypes'
      BY <1>1, <1>2, <1>3, <1>5 DEF FileTypes
  <1>7. OneName'
    <2>1. /\ \A g, h \in Filed : file'[g] # Absent => file'[g] # temp'[h] /\ (file'[g] = file'[h] => g = h)
          /\ \A g, h \in Filed : temp'[g] # Absent /\ temp'[g] = temp'[h] => g = h
        BY <1>1, <1>2, <1>3, <1>4 DEF OneName
    <2>2. ASSUME NEW v \in Uploads, NEW g \in Filed, upload'[v].step = "write", upload'[v].fd \in {file'[g], temp'[g]}
          PROVE  g = upload'[v].to
      <3>1. upload'[v] = upload[v] /\ upload[v].fd # Absent
          BY <2>2, <1>2, <1>4, FilesAssumption DEF Done, Ready, UploadRec, FileTypes
      <3> QED BY <2>2, <3>1, <1>2, <1>3, <1>4 DEF OneName, At, Goes
    <2> QED BY <2>1, <2>2 DEF OneName, At, Goes
  <1>8. FilesWhole'
    <2> SUFFICES ASSUME NEW g \in Filed, g \notin torn PROVE FileWhole(g)'
        BY <1>1 DEF FilesWhole
    <2>1. FileWhole(g)
        BY DEF FilesInv, FilesWhole
    <2>2. \A v \in Uploads : upload'[v].step \in {"open", "write"} => v # u /\ upload'[v] = upload[v]
        BY <1>4 DEF Done
    <2>3. \A v, w \in Uploads : WorksOn(v, g)' /\ WorksOn(w, g)' => v = w
        BY <2>1, <2>2 DEF FileWhole, WorksOn
    <2>4. CASE g = f
      <3>1. \A v \in Uploads : ~WorksOn(v, g)'
          BY <2>1, <2>2, <2>4, <1>3 DEF FileWhole, WorksOn
      <3>2. inode[temp[g]] = [k \in 1 .. 2 |-> <<u, k>>]
          BY <2>1, <2>4, <1>1, <1>3 DEF FileWhole, SoFar
      <3>3. Whole(inode'[file'[g]])
          BY <3>2, <2>4, <1>1, <1>4 DEF Whole, Pieces
      <3> QED BY <3>1, <3>3, <2>3 DEF FileWhole, WorksOn, Whole
    <2>5. CASE g # f
      <3>1. file'[g] = file[g] /\ temp'[g] = temp[g]
          BY <2>5, <1>4
      <3>2. \A v \in Uploads : upload'[v].step = "write" => upload'[v] = upload[v] /\ SoFar(v)' = SoFar(v)
          BY <2>2 DEF SoFar
      <3> QED BY <3>1, <3>2, <1>1, <2>1, <2>3 DEF FileWhole, Whole
    <2> QED BY <2>4, <2>5
  <1> QED BY <1>5, <1>6, <1>7, <1>8 DEF FilesInv

\* It breaks off, and in the sandbox takes what has the temporary name with it.
LEMMA UploadFailsKeeps == ASSUME FilesInv, NEW u \in Uploads, UploadFails(u) PROVE FilesInv'
  <1> DEFINE f == Goes(u)
  <1>1. /\ Working(u) /\ upload' = [upload EXCEPT ![u] = Done]
        /\ temp' = temp \/ temp' = [temp EXCEPT ![f] = Absent]
        /\ UNCHANGED <<runtime, dirs, inode, file, torn, browse>>
      BY DEF UploadFails, Over
  <1>2. FileTypes /\ OneName
      BY DEF FilesInv
  <1>3. upload[u] \in UploadRec /\ f \in Filed /\ upload[u].to = f /\ upload[u].step \in {"open", "write"}
      BY <1>1, <1>2, WorkingCarries DEF Working, Goes
  <1> HIDE DEF f
  <1>4. /\ \A g \in Filed : temp'[g] = temp[g] \/ (g = f /\ temp'[g] = Absent)
        /\ \A v \in Uploads : upload'[v] = IF v = u THEN Done ELSE upload[v]
      BY <1>1, <1>2 DEF FileTypes
  <1>5. FileTypes'
      BY <1>1, <1>2 DEF FileTypes
  <1>6. OneName'
    <2>1. \A v \in Uploads : upload'[v].step = "write" => upload'[v] = upload[v] /\ upload[v].fd # Absent
        BY <1>2, <1>4, FilesAssumption DEF Done, Ready, UploadRec, FileTypes
    <2> QED BY <2>1, <1>1, <1>2, <1>4 DEF OneName, At, Goes
  <1>7. FilesWhole'
    <2> SUFFICES ASSUME NEW g \in Filed, g \notin torn PROVE FileWhole(g)'
        BY <1>1 DEF FilesWhole
    <2>1. FileWhole(g)
        BY DEF FilesInv, FilesWhole
    <2>2. \A v \in Uploads : upload'[v].step \in {"open", "write"} => v # u /\ upload'[v] = upload[v]
        BY <1>4 DEF Done
    <2>3. \A v, w \in Uploads : WorksOn(v, g)' /\ WorksOn(w, g)' => v = w
        BY <2>1, <2>2 DEF FileWhole, WorksOn
    <2>4. \A v \in Uploads : upload'[v].step = "write" => upload'[v] = upload[v] /\ SoFar(v)' = SoFar(v)
        BY <2>2 DEF SoFar
    <2>5. g = f => \A v \in Uploads : ~WorksOn(v, g)'
        BY <2>1, <2>2, <1>3 DEF FileWhole, WorksOn
    <2> QED BY <2>1, <2>2, <2>3, <2>4, <2>5, <1>1, <1>4 DEF FileWhole, WorksOn, Whole
  <1>8. ListingInv'
      BY <1>1 DEF FilesInv, ListingInv
  <1> QED BY <1>5, <1>6, <1>7, <1>8 DEF FilesInv

\* What only takes names away, of files that nobody is at work on or that are torn, leaves the rest.
LEMMA RemovalKeeps ==
    ASSUME FilesInv, UNCHANGED <<runtime, inode, upload>>, dirs' \subseteq Places,
           file' \in [Filed -> Inodes \cup {Absent}], temp' \in [Filed -> Inodes \cup {Absent}],
           torn' \subseteq Filed, torn \subseteq torn',
           \A f \in Filed : file'[f] \in {Absent, file[f]} /\ temp'[f] \in {Absent, temp[f]},
           \A f \in Filed \ torn' : temp'[f] = temp[f] \/ \A u \in Uploads : ~WorksOn(u, f),
           browse' \in BrowseRec, ListingInv'
    PROVE  FilesInv'
  <1>1. FileTypes'
      BY DEF FilesInv, FileTypes
  <1>2. OneName'
    <2>1. \A v \in Uploads : upload[v].step = "write" => upload[v].fd # Absent
        BY FilesAssumption DEF FilesInv, Done, Ready, UploadRec, FileTypes
    <2> QED BY <2>1 DEF FilesInv, OneName, At, Goes
  <1>3. FilesWhole'
    <2> SUFFICES ASSUME NEW g \in Filed, g \notin torn' PROVE FileWhole(g)'
        BY DEF FilesWhole
    <2>1. FileWhole(g)
        BY DEF FilesInv, FilesWhole
    <2>2. \A v \in Uploads : SoFar(v)' = SoFar(v)
        BY DEF SoFar
    <2>3. \A v \in Uploads : WorksOn(v, g)' = WorksOn(v, g)
        BY DEF WorksOn
    <2> QED BY <2>1, <2>2, <2>3 DEF FileWhole, WorksOn, Whole
  <1> QED BY <1>1, <1>2, <1>3 DEF FilesInv

\* The panel starts at an agent's root with nothing listed.
LEMMA StartingKeeps ==
    ASSUME NEW b \in BrowseRec, NEW o \in Owners, browse' = StartsAt(b, o)
    PROVE  browse' \in BrowseRec /\ ListingInv'
  <1> DEFINE r == [b EXCEPT !.at = Root(o), !.listed = NothingYet]
  <1>1. r \in BrowseRec /\ r.listed = NothingYet /\ r.at = Root(o) /\ Root(o) \in Places
      BY DEF BrowseRec, Roots, Root, Places
  <1>2. browse' = Asks(r, Root(o))
      BY DEF StartsAt
  <1> HIDE DEF r
  <1> QED BY <1>1, <1>2, AskingKeeps DEF ListingInv

\* An answer comes: what was asked for last stays last.
LEMMA AnswerKeeps ==
    ASSUME NEW b \in BrowseRec, NEW i \in DOMAIN b.asked
    PROVE  /\ Answer(b, i) \in BrowseRec /\ Answer(b, i).at = b.at /\ Answer(b, i).listed = b.listed
           /\ \/ Answer(b, i).asked = <<>>
              \/ /\ Len(Answer(b, i).asked) = Len(b.asked)
                 /\ Answer(b, i).asked[Len(b.asked)] \in {Answered, b.asked[Len(b.asked)]}
  <1>1. b.asked \in Seq(Places \cup {Answered})
      BY DEF BrowseRec
  <1> DEFINE rest == [b.asked EXCEPT ![i] = Answered]
             asked == IF \A j \in DOMAIN b.asked \ {i} : b.asked[j] = Answered THEN <<>> ELSE rest
  <1>2. rest \in Seq(Places \cup {Answered}) /\ Len(rest) = Len(b.asked)
      BY <1>1
  <1>3. rest[Len(b.asked)] \in {Answered, b.asked[Len(b.asked)]}
      BY <1>1
  <1>4. asked \in Seq(Places \cup {Answered})
      BY <1>2
  <1>5. Answer(b, i) = [b EXCEPT !.asked = asked]
      BY DEF Answer
  <1>6. asked = <<>> \/ asked = rest
      OBVIOUS
  <1> HIDE DEF rest, asked
  <1> QED BY <1>2, <1>3, <1>4, <1>5, <1>6 DEF BrowseRec

\* A listing comes, or fails.
LEMMA ListingKeeps == ASSUME FilesInv, NEW i \in DOMAIN browse.asked, Listing(i) PROVE FilesInv'
  <1> DEFINE p == browse.asked[i]
             names == {n \in FileNames : file[<<p, n>>] # Absent}
             b == Answer(browse, i)
             late == i < Len(browse.asked)
             come == [of |-> p, late |-> late, names |-> names]
  <1>1. /\ p # Answered
        /\ browse' = b \/ browse' = [b EXCEPT !.listed = come]
        /\ UNCHANGED <<runtime, dirs, inode, file, temp, upload, torn>>
      BY DEF Listing
  <1>2. browse \in BrowseRec /\ browse.asked \in Seq(Places \cup {Answered})
      BY DEF FilesInv, FileTypes, BrowseRec
  <1>3. /\ b \in BrowseRec /\ b.at = browse.at /\ b.listed = browse.listed
        /\ b.asked = <<>> \/ (Len(b.asked) = Len(browse.asked) /\ b.asked[Len(browse.asked)] \in {Answered, browse.asked[Len(browse.asked)]})
      BY <1>2, AnswerKeeps
  <1>4. p \in Places /\ names \subseteq FileNames /\ i \in 1 .. Len(browse.asked)
      BY <1>1, <1>2
  <1>5. i < Len(browse.asked) \/ p = browse.asked[Len(browse.asked)]
      BY <1>2, <1>4
  <1>6. browse.asked # <<>>
      BY <1>2, <1>4
  <1>7. i < Len(browse.asked) \/ p = browse.at
      BY <1>1, <1>5, <1>6 DEF FilesInv, ListingInv
  <1>8. come \in [of : Places, late : BOOLEAN, names : SUBSET FileNames] /\ (come.late \/ come.of = browse.at)
    <2>1. late \in BOOLEAN /\ (late \/ p = browse.at)
        BY <1>7
    <2> HIDE DEF late, names, p
    <2> QED BY <1>4, <2>1
  <1>9. b.asked # <<>> => b.asked[Len(b.asked)] \in {Answered, browse.at}
      BY <1>3, <1>6 DEF FilesInv, ListingInv
  <1> HIDE DEF b, come, late, names, p
  <1>10. browse' \in BrowseRec /\ ListingInv'
    <2>1. CASE browse' = b
        BY <2>1, <1>3, <1>9 DEF ListingInv, FilesInv
    <2>2. CASE browse' = [b EXCEPT !.listed = come]
        BY <2>2, <1>3, <1>8, <1>9 DEF ListingInv, BrowseRec
    <2> QED BY <1>1, <2>1, <2>2
  <1> QED BY <1>1, <1>10, RemovalKeeps DEF FilesInv, FileTypes

\* The steps of the files keep their invariant.
LEMMA FilesStepKeeps == ASSUME FilesInv, FilesStep PROVE FilesInv'
  <1>0. FileTypes /\ browse \in BrowseRec
      BY DEF FilesInv, FileTypes
  <1>1. ASSUME NEW u \in Uploads, Open(u) \/ Write(u) \/ MoveInPlace(u) \/ UploadFails(u) PROVE FilesInv'
      BY <1>1, OpensKeeps, WriteKeeps, MoveInPlaceKeeps, UploadFailsKeeps DEF Open
  <1>2. ASSUME NEW f \in Filed, NEW here \in BOOLEAN, UploadBegins(f, here) PROVE FilesInv'
      BY <1>2, UploadBeginsKeeps
  <1>3. ASSUME NEW o \in Owners, ShowAgent(o) PROVE FilesInv'
    <2>1. browse' \in BrowseRec /\ ListingInv'
        BY <1>0, <1>3, StartingKeeps DEF ShowAgent
    <2> QED BY <1>3, <2>1, <1>0, RemovalKeeps DEF ShowAgent, FileTypes
  <1>4. ASSUME OpenDir PROVE FilesInv'
    <2>1. PICK o \in Owners : browse' = StartsAt(Asks(browse, <<o, "folder">>), o)
      <3>1. PICK o \in Owners : browse.at = <<o, "root">>
          BY <1>0 DEF BrowseRec, Roots, Root
      <3> QED BY <1>4, <3>1 DEF OpenDir
    <2>2. Asks(browse, <<o, "folder">>) \in BrowseRec
        BY <1>0, AskingKeeps DEF Places
    <2>3. browse' \in BrowseRec /\ ListingInv'
        BY <2>1, <2>2, StartingKeeps
    <2> QED BY <1>4, <2>3, <1>0, RemovalKeeps DEF OpenDir, FileTypes
  <1>5. ASSUME FolderRemoved PROVE FilesInv'
    <2> DEFINE p == <<browse.at[1], "folder">>
    <2>1. /\ dirs' = dirs \ {p} /\ AskAgain
          /\ file' = [f \in Filed |-> IF f[1] = p THEN Absent ELSE file[f]]
          /\ temp' = [f \in Filed |-> IF f[1] = p THEN Absent ELSE temp[f]]
          /\ torn' = torn \cup {f \in Filed : f[1] = p /\ AtWork(f) # {}}
          /\ UNCHANGED <<runtime, inode, upload>>
        BY <1>5 DEF FolderRemoved
    <2> HIDE DEF p
    <2>2. browse' \in BrowseRec /\ ListingInv'
        BY <2>1, AskAgainKeeps DEF AskAgain
    <2>3. \A f \in Filed : file'[f] \in {Absent, file[f]} /\ temp'[f] \in {Absent, temp[f]}
        BY <2>1
    <2>4. \A f \in Filed : AtWork(f) = {} => \A u \in Uploads : ~WorksOn(u, f)
        BY DEF AtWork, Working, WorksOn, Goes
    <2>5. \A f \in Filed \ torn' : temp'[f] = temp[f] \/ \A u \in Uploads : ~WorksOn(u, f)
        BY <2>1, <2>4
    <2>6. /\ file' \in [Filed -> Inodes \cup {Absent}] /\ temp' \in [Filed -> Inodes \cup {Absent}]
          /\ torn' \subseteq Filed /\ torn \subseteq torn' /\ dirs' \subseteq Places
        BY <2>1, <1>0 DEF FileTypes
    <2> QED BY <2>1, <2>2, <2>3, <2>5, <2>6, RemovalKeeps
  <1>6. ASSUME MkDir PROVE FilesInv'
    <2>1. browse' \in BrowseRec /\ ListingInv'
        BY <1>6, AskAgainKeeps DEF MkDir, AskAgain
    <2>2. <<browse.at[1], "folder">> \in Places
        BY <1>0 DEF BrowseRec, Roots, Root, Places
    <2> QED BY <1>6, <2>1, <2>2, <1>0, RemovalKeeps DEF MkDir, FileTypes
  <1>7. ASSUME NEW n \in FileNames, PanelRemoves(n) PROVE FilesInv'
    <2>1. browse' \in BrowseRec /\ ListingInv'
        BY <1>7, AskAgainKeeps DEF PanelRemoves, AskAgain
    <2>2. file' \in [Filed -> Inodes \cup {Absent}] /\ \A f \in Filed : file'[f] \in {Absent, file[f]}
        BY <1>7, <1>0 DEF PanelRemoves, FileTypes
    <2> QED BY <1>7, <2>1, <2>2, <1>0, RemovalKeeps DEF PanelRemoves, FileTypes
  <1>8. ASSUME NEW i \in DOMAIN browse.asked, Listing(i) PROVE FilesInv'
      BY <1>8, ListingKeeps
  <1> QED BY <1>1, <1>2, <1>3, <1>4, <1>5, <1>6, <1>7, <1>8 DEF FilesStep, UploadStep

--------------------------------------------------------------------------
(* The settings                                                            *)

SaveRec == {NoSave} \cup [step : {"answer"}, paper : Papers]
             \cup [step : {"update", "insert", "keep"}, paper : Papers \cap InMemory, next : Text, edited : SUBSET Knobs]

SettingsTypes ==
    /\ panel \in PanelUse /\ edits \in Nat /\ edits + panel.edits <= MaxEdits
    /\ rows \in [Papers -> Seq(Text)]
    /\ effect \in [Papers -> Text] /\ given \in [Papers -> Text] /\ crossed \subseteq Papers
    /\ form \in [Admins -> {Closed} \cup Forms]
    /\ save \in [Admins -> SaveRec]
    /\ \A u \in Admins : save[u].step # "none" => form[u].pc = "saving"
    /\ DOMAIN rereading \subseteq Papers /\ \A p \in DOMAIN rereading : rereading[p] \in Text

Saving(u, p) == save[u].step # "none" /\ save[u].paper = p

\* A document whose saves were not crossed has one at most at work, and what that will write differs
\* from what is stored in nothing but what was edited; it inserts a row where there is none.
SavedRight(p) ==
    /\ Stored(p) = given[p]
    /\ \A u, v \in Admins : Saving(u, p) /\ Saving(v, p) => u = v
    /\ \A u \in Admins : save[u].step \in {"update", "insert"} /\ save[u].paper = p =>
          \A k \in Knobs \ save[u].edited : save[u].next[k] = given[p][k]
    /\ \A u \in Admins : save[u].step = "insert" /\ save[u].paper = p => rows[p] = <<>>

Inserting(p) == {u \in Admins : save[u].step = "insert" /\ save[u].paper = p}

\* A row is inserted by an admin who found none, each once.
RowsCounted ==
    /\ \A p \in Papers : Len(rows[p]) + Cardinality(Inserting(p)) <= Cardinality(Admins)
    /\ \A p \in Papers \ InMemory : Len(rows[p]) = 1

SettingsInv == SettingsTypes /\ (\A p \in Papers \ crossed : SavedRight(p)) /\ RowsCounted

\* Nothing is edited and no save is at work at first.
LEMMA SettingsBegin == Init => SettingsInv
  <1> SUFFICES ASSUME Init PROVE SettingsInv
      OBVIOUS
  <1>0. SettingsInit
      BY DEF Init
  <1>1. Default \in Text /\ <<Default>> \in Seq(Text) /\ <<>> \in Seq(Text) /\ Len(<<Default>>) = 1 /\ Head(<<Default>>) = Default
      BY SettingsAssumption DEF Default, Text, Value
  <1>2. SettingsTypes
    <2>1. panel \in PanelUse /\ edits = 0 /\ panel.edits \in 0 .. MaxEdits
        BY <1>0 DEF SettingsInit, PanelUse, Value
    <2>2. \A u \in Admins : save[u].step = "none"
        BY <1>0 DEF SettingsInit, NoSave
    <2>3. rereading = <<>> /\ DOMAIN rereading = {}
        BY <1>0 DEF SettingsInit, Unread
    <2> QED BY <1>0, <1>1, <2>1, <2>2, <2>3, SettingsAssumption DEF SettingsInit, SettingsTypes, SaveRec
  <1>3. ASSUME NEW p \in Papers PROVE SavedRight(p)
    <2>1. \A u \in Admins : save[u].step = "none"
        BY <1>0 DEF SettingsInit, NoSave
    <2>2. Stored(p) = Default /\ given[p] = Default
        BY <1>0, <1>1 DEF SettingsInit, Stored
    <2> QED BY <2>1, <2>2 DEF SavedRight, Saving
  <1>4. RowsCounted
    <2>1. ASSUME NEW p \in Papers PROVE Inserting(p) = {} /\ Len(rows[p]) \in {0, 1} /\ (p \notin InMemory => Len(rows[p]) = 1)
        BY <1>0, <1>1 DEF SettingsInit, NoSave, Inserting
    <2>2. Cardinality(Admins) >= 1 /\ Cardinality(Admins) \in Nat /\ Cardinality({}) = 0
      <3>1. Cardinality(Admins) \in Nat /\ (Cardinality(Admins) = 0 <=> Admins = {}) /\ Cardinality({}) = 0
        <4>1. IsFiniteSet(Admins)
            BY SettingsAssumption
        <4>2. Cardinality(Admins) \in Nat
            BY <4>1, FS_CardinalityType
        <4>3. (Cardinality(Admins) = 0 <=> Admins = {}) /\ Cardinality({}) = 0
            BY <4>1, FS_EmptySet, Zenon
        <4> QED BY <4>2, <4>3
      <3>2. Cardinality(Admins) # 0
        <4>1. Admins # {}
            BY SettingsAssumption
        <4>2. Cardinality(Admins) = 0 => Admins = {}
            BY <3>1
        <4> QED BY <4>1, <4>2
      <3> QED BY <3>1, <3>2
    <2>3. ASSUME NEW p \in Papers PROVE Len(rows[p]) + Cardinality(Inserting(p)) <= Cardinality(Admins)
      <3>1. Cardinality(Inserting(p)) = 0
          BY <2>1, <2>2
      <3>2. Len(rows[p]) = 0 \/ Len(rows[p]) = 1
          BY <2>1
      <3> DEFINE has == Len(rows[p])
                 waits == Cardinality(Inserting(p))
                 all == Cardinality(Admins)
      <3>3. (has = 0 \/ has = 1) /\ waits = 0 /\ all \in Nat /\ all >= 1
          BY <3>1, <3>2, <2>2
      <3> HIDE DEF has, waits, all
      <3>4. has + waits <= all
          BY <3>3
      <3> QED BY <3>4 DEF has, waits, all
    <2> QED BY <2>1, <2>3 DEF RowsCounted
  <1> QED BY <1>2, <1>3, <1>4 DEF SettingsInv

\* What a save brings to the documents is counted and stays right when nothing is inserted.
LEMMA NoRowMore ==
    ASSUME RowsCounted, \A p \in Papers : Len(rows'[p]) = Len(rows[p]), \A p \in Papers : Inserting(p)' \subseteq Inserting(p)
    PROVE  RowsCounted'
  <1> SUFFICES ASSUME NEW p \in Papers
               PROVE  Len(rows'[p]) + Cardinality(Inserting(p)') <= Cardinality(Admins)
      BY DEF RowsCounted
  <1>1. IsFiniteSet(Admins) /\ Inserting(p) \subseteq Admins
      BY SettingsAssumption DEF Inserting
  <1>2. IsFiniteSet(Inserting(p))
      BY <1>1, FS_Subset
  <1>3. /\ Cardinality(Inserting(p)') \in Nat /\ Cardinality(Inserting(p)) \in Nat /\ Cardinality(Admins) \in Nat
        /\ Cardinality(Inserting(p)') <= Cardinality(Inserting(p))
      BY <1>1, <1>2, FS_Subset, FS_CardinalityType
  <1> QED BY <1>3 DEF RowsCounted

\* The types of what a save carries.
LEMMA SaveCarries ==
    ASSUME SettingsTypes, NEW u \in Admins, save[u].step # "none"
    PROVE  /\ save[u].paper \in Papers /\ form[u] \in Forms /\ form[u].pc = "saving"
           /\ save[u].step \in {"update", "insert", "keep"} =>
                 save[u] \in [step : {"update", "insert", "keep"}, paper : Papers \cap InMemory, next : Text, edited : SUBSET Knobs]
  BY DEF SettingsTypes, SaveRec, NoSave, Closed

\* What is shown is what is in effect.
LEMMA ShowsKeeps ==
    ASSUME SettingsTypes, NEW u \in Admins, Shows(u, "open")
    PROVE  /\ form' \in [Admins -> {Closed} \cup Forms] /\ \A v \in Admins \ {u} : form'[v] = form[v]
  BY DEF SettingsTypes, Shows, Forms

\* What changes neither rows nor saves.
LEMMA OnlyForms ==
    ASSUME SettingsInv, UNCHANGED <<rows, save, given, crossed>>, SettingsTypes'
    PROVE  SettingsInv'
  <1>1. \A p \in Papers : Inserting(p)' = Inserting(p)
      BY DEF Inserting
  <1>2. RowsCounted'
      BY <1>1, NoRowMore DEF SettingsInv
  <1>3. ASSUME NEW p \in Papers \ crossed PROVE SavedRight(p)'
      BY DEF SettingsInv, SavedRight, Saving, Stored
  <1> QED BY <1>2, <1>3 DEF SettingsInv

\* A panel is opened.
LEMMA OpenFormKeeps == ASSUME SettingsInv, NEW u \in Admins, OpenForm(u) PROVE SettingsInv'
  <1>1. form' \in [Admins -> {Closed} \cup Forms] /\ \A v \in Admins \ {u} : form'[v] = form[v]
      BY ShowsKeeps DEF SettingsInv, OpenForm
  <1>2. save[u].step = "none"
      BY DEF SettingsInv, SettingsTypes, OpenForm
  <1>3. SettingsTypes'
      BY <1>1, <1>2 DEF SettingsInv, SettingsTypes, OpenForm
  <1> QED BY <1>3, OnlyForms DEF OpenForm

\* A control is changed.
LEMMA EditKeeps == ASSUME SettingsInv, NEW u \in Admins, NEW p \in Papers, NEW k \in Knobs, Edit(u, p, k) PROVE SettingsInv'
  <1>1. /\ form[u].pc # "closed" /\ panel.edits > 0
        /\ edits' = edits + 1 /\ panel' = [panel EXCEPT !.edits = @ - 1]
        /\ form' = [form EXCEPT ![u].draft[p][k] = edits']
        /\ UNCHANGED <<rows, effect, save, rereading, given, crossed>>
      BY DEF Edit
  <1>2. SettingsTypes
      BY DEF SettingsInv
  <1>3. form[u] \in Forms /\ panel.edits \in Nat /\ panel \in PanelUse
      BY <1>1, <1>2 DEF SettingsTypes, PanelUse, Value, Closed
  <1>4. edits' \in Value /\ edits' \in Nat /\ edits' + panel'.edits <= MaxEdits /\ panel' \in PanelUse
    <2>1. panel \in [papers : SUBSET Papers, edits : 0 .. MaxEdits, faults : Nat, restarts : Nat]
        BY <1>3 DEF PanelUse, Value
    <2>2. panel'.edits = panel.edits - 1 /\ panel' \in [papers : SUBSET Papers, edits : 0 .. MaxEdits, faults : Nat, restarts : Nat]
        BY <2>1, <1>1, SettingsAssumption
    <2>3. edits \in Nat /\ edits + panel.edits <= MaxEdits
        BY <1>2 DEF SettingsTypes
    <2> QED BY <1>1, <1>3, <2>2, <2>3, SettingsAssumption DEF PanelUse, Value
  <1> DEFINE draft == [form[u].draft EXCEPT ![p] = [form[u].draft[p] EXCEPT ![k] = edits']]
  <1>5. draft \in [Papers -> Text]
      BY <1>3, <1>4 DEF Forms, Text
  <1>6. form' = [form EXCEPT ![u] = [form[u] EXCEPT !.draft = draft]]
      BY <1>1
  <1> HIDE DEF draft
  <1>7. [form[u] EXCEPT !.draft = draft] \in Forms /\ [form[u] EXCEPT !.draft = draft].pc = form[u].pc
      BY <1>3, <1>5 DEF Forms
  <1>8. form' \in [Admins -> {Closed} \cup Forms] /\ \A v \in Admins : form'[v].pc = form[v].pc
      BY <1>2, <1>6, <1>7 DEF SettingsTypes
  <1>9. SettingsTypes'
      BY <1>1, <1>2, <1>4, <1>8 DEF SettingsTypes
  <1> QED BY <1>1, <1>9, OnlyForms

\* A save arrives: of a document in memory it is computed and waits, of another it is written.
LEMMA SaveArrivesKeeps == ASSUME SettingsInv, NEW u \in Admins, NEW p \in panel.papers, SaveArrives(u, p) PROVE SettingsInv'
  <1> DEFINE f == form[u]
             next == ApplyUpdate(effect[p], f, p)
             changed == Edited(f, p)
             arrived == [step |-> "update", paper |-> p, next |-> next, edited |-> changed]
             written == [step |-> "answer", paper |-> p]
  <1>0. SettingsTypes
      BY DEF SettingsInv
  <1>1. /\ f.pc = "open" /\ form' = [form EXCEPT ![u].pc = "saving"]
        /\ crossed' = (IF Crosses(f, p) THEN crossed \cup {p} ELSE crossed)
        /\ UNCHANGED <<panel, rereading, edits>>
        /\ Sent(f, p) # {}
      BY DEF SaveArrives
  <1>2. p \in Papers /\ f \in Forms /\ save[u].step = "none"
    <2>1. p \in Papers
        BY <1>0 DEF SettingsTypes, PanelUse
    <2> QED BY <1>0, <1>1, <2>1 DEF SettingsTypes, Closed
  <1>3. next \in Text /\ \A k \in Knobs : next[k] = IF k \in Sent(f, p) THEN f.draft[p][k] ELSE effect[p][k]
      BY <1>0, <1>2 DEF ApplyUpdate, SettingsTypes, Forms, Text
  <1>4. changed \subseteq Knobs
      BY DEF Edited
  \* What is computed from the stored text differs from it in what was edited.
  <1>5. ~Crosses(f, p) => /\ Saves(p) = {} /\ effect[p] = Stored(p)
                          /\ \A k \in Knobs \ changed : next[k] = effect[p][k]
    <2> SUFFICES ASSUME ~Crosses(f, p)
                 PROVE  /\ Saves(p) = {} /\ effect[p] = Stored(p)
                        /\ \A k \in Knobs \ changed : next[k] = effect[p][k]
        OBVIOUS
    <2>1. Saves(p) = {} /\ effect[p] = Stored(p)
        BY DEF Crosses
    <2>2. ASSUME NEW k \in Knobs \ changed PROVE next[k] = effect[p][k]
      <3>1. f.draft[p][k] = f.seen[p][k]
          BY <2>2 DEF Edited
      <3>2. p \in SentWhole => f.seen[p][k] = effect[p][k]
          BY <2>2 DEF Crosses
      <3>3. p \notin SentWhole => k \notin Sent(f, p)
          BY <2>2 DEF Sent
      <3> QED BY <1>3, <3>1, <3>2, <3>3
    <2> QED BY <2>1, <2>2
  <1>6. Saves(p) = {} => \A v \in Admins : ~Saving(v, p)
      BY DEF Saves, Saving
  <1>7. /\ form' \in [Admins -> {Closed} \cup Forms] /\ form'[u].pc = "saving"
        /\ \A v \in Admins \ {u} : form'[v] = form[v]
      BY <1>0, <1>1, <1>2 DEF SettingsTypes, Forms
  <1>8. crossed' \subseteq Papers /\ crossed \subseteq crossed' /\ (p \notin crossed' => ~Crosses(f, p))
      BY <1>0, <1>1, <1>2 DEF SettingsTypes
  <1>9. CASE p \in InMemory
    <2>1. save' = [save EXCEPT ![u] = arrived] /\ UNCHANGED <<rows, effect, given>>
        BY <1>9 DEF SaveArrives
    <2>2. arrived \in SaveRec
        BY <1>2, <1>3, <1>4, <1>9 DEF SaveRec
    <2>3. arrived.step = "update" /\ arrived.paper = p /\ arrived.next = next /\ arrived.edited = changed
        OBVIOUS
    <2> HIDE DEF arrived, next, changed, f
    <2>4. \A v \in Admins : save'[v] = IF v = u THEN arrived ELSE save[v]
        BY <1>0, <2>1 DEF SettingsTypes
    <2>5. SettingsTypes'
      <3>1. save' \in [Admins -> SaveRec]
          BY <1>0, <2>1, <2>2 DEF SettingsTypes
      <3>2. \A v \in Admins : save'[v].step # "none" => form'[v].pc = "saving"
          BY <1>0, <2>4, <1>7 DEF SettingsTypes
      <3> QED BY <1>0, <1>1, <1>7, <1>8, <2>1, <3>1, <3>2 DEF SettingsTypes
    <2>6. ASSUME NEW q \in Papers \ crossed' PROVE SavedRight(q)'
      <3>1. SavedRight(q)
          BY <1>8 DEF SettingsInv
      <3>2. CASE q # p
        <4>1. \A v \in Admins : save'[v].step # "none" /\ save'[v].paper = q => save'[v] = save[v]
            BY <2>3, <2>4, <3>2
        <4> QED BY <4>1, <3>1, <2>1 DEF SavedRight, Saving, Stored
      <3>3. CASE q = p
        <4>1. \A v \in Admins : ~Saving(v, p)
            BY <3>3, <1>5, <1>6, <1>8
        <4>2. \A v \in Admins : save'[v].step # "none" /\ save'[v].paper = p => v = u
            BY <4>1, <2>4 DEF Saving
        <4>3. \A k \in Knobs \ changed : next[k] = given[p][k]
            BY <1>5, <1>8, <3>1, <3>3 DEF SavedRight
        <4> QED BY <4>2, <4>3, <3>1, <3>3, <2>1, <2>3, <2>4 DEF SavedRight, Saving, Stored
      <3> QED BY <3>2, <3>3
    <2>7. \A q \in Papers : Inserting(q)' \subseteq Inserting(q)
        BY <2>3, <2>4 DEF Inserting
    <2> QED BY <2>1, <2>5, <2>6, <2>7, NoRowMore DEF SettingsInv
  <1>10. CASE p \notin InMemory
    <2>1. /\ save' = [save EXCEPT ![u] = written]
          /\ rows' = [rows EXCEPT ![p] = <<next>>] /\ effect' = [effect EXCEPT ![p] = next]
          /\ given' = [given EXCEPT ![p] = [k \in Knobs |-> IF k \in changed THEN next[k] ELSE given[p][k]]]
        BY <1>10 DEF SaveArrives, Gives
    <2>2. written \in SaveRec /\ written.step = "answer" /\ written.paper = p
        BY <1>2 DEF SaveRec
    <2>3. <<next>> \in Seq(Text) /\ Len(<<next>>) = 1 /\ Head(<<next>>) = next /\ <<next>> # <<>>
        BY <1>3
    <2> HIDE DEF written, next, changed, f
    <2>4. \A v \in Admins : save'[v] = IF v = u THEN written ELSE save[v]
        BY <1>0, <2>1 DEF SettingsTypes
    <2>5. SettingsTypes'
      <3>1. save' \in [Admins -> SaveRec]
          BY <1>0, <2>1, <2>2 DEF SettingsTypes
      <3>2. \A v \in Admins : save'[v].step # "none" => form'[v].pc = "saving"
          BY <1>0, <2>4, <1>7 DEF SettingsTypes
      <3>3. given' \in [Papers -> Text]
        <4>1. [k \in Knobs |-> IF k \in changed THEN next[k] ELSE given[p][k]] \in Text
            BY <1>0, <1>2, <1>3 DEF SettingsTypes, Text
        <4> QED BY <1>0, <2>1, <4>1 DEF SettingsTypes
      <3>4. rows' \in [Papers -> Seq(Text)] /\ effect' \in [Papers -> Text]
          BY <1>0, <1>3, <2>1, <2>3 DEF SettingsTypes
      <3> QED BY <1>0, <1>1, <1>7, <1>8, <3>1, <3>2, <3>3, <3>4 DEF SettingsTypes
    <2>6. ASSUME NEW q \in Papers \ crossed' PROVE SavedRight(q)'
      <3>1. SavedRight(q)
          BY <1>8 DEF SettingsInv
      <3>2. CASE q # p
        <4>1. \A v \in Admins : save'[v].step # "none" /\ save'[v].paper = q => save'[v] = save[v]
            BY <2>2, <2>4, <3>2
        <4>2. rows'[q] = rows[q] /\ given'[q] = given[q]
            BY <1>0, <2>1, <3>2 DEF SettingsTypes
        <4> QED BY <4>1, <4>2, <3>1 DEF SavedRight, Saving, Stored
      <3>3. CASE q = p
        <4>1. \A v \in Admins : ~Saving(v, p)
            BY <3>3, <1>5, <1>6, <1>8
        <4>2. \A v \in Admins : save'[v].step # "none" /\ save'[v].paper = p => v = u /\ save'[v].step = "answer"
            BY <4>1, <2>2, <2>4 DEF Saving
        <4>3. \A k \in Knobs \ changed : next[k] = given[p][k]
            BY <1>5, <1>8, <3>1, <3>3 DEF SavedRight
        <4>4. rows'[p] = <<next>> /\ given'[p] = [k \in Knobs |-> IF k \in changed THEN next[k] ELSE given[p][k]]
            BY <1>0, <1>2, <2>1 DEF SettingsTypes
        <4>5. given'[p] = next
          <5>1. next = [k \in Knobs |-> next[k]]
              BY <1>3 DEF Text
          <5> QED BY <5>1, <4>3, <4>4
        <4>6. Stored(p)' = next
            BY <4>4, <2>3 DEF Stored
        <4> QED BY <4>2, <4>5, <4>6, <3>3 DEF SavedRight, Saving
      <3> QED BY <3>2, <3>3
    <2>7. RowsCounted'
      <3>1. \A q \in Papers : Inserting(q)' \subseteq Inserting(q)
          BY <2>2, <2>4 DEF Inserting
      <3>2. Len(rows[p]) = 1 /\ \A q \in Papers : Len(rows'[q]) = Len(rows[q])
          BY <1>0, <1>2, <1>10, <2>1, <2>3 DEF SettingsTypes, SettingsInv, RowsCounted
      <3> QED BY <3>1, <3>2, NoRowMore DEF SettingsInv
    <2> QED BY <2>5, <2>6, <2>7 DEF SettingsInv
  <1> QED BY <1>9, <1>10

\* A save at work becomes another record of a save, and no form is touched.
LEMMA SaveMoves ==
    ASSUME SettingsTypes, NEW u \in Admins, NEW s, s \in SaveRec, s.step # "none", save[u].step # "none",
           save' = [save EXCEPT ![u] = s], UNCHANGED <<panel, form, rereading, edits, crossed>>,
           rows' \in [Papers -> Seq(Text)], effect' \in [Papers -> Text], given' \in [Papers -> Text]
    PROVE  SettingsTypes' /\ \A v \in Admins : save'[v] = IF v = u THEN s ELSE save[v]
  BY DEF SettingsTypes

\* What was edited of a text that differs in nothing else from what was given is that text.
LEMMA GivenIsNext ==
    ASSUME SettingsTypes, NEW p \in Papers, NEW t \in Text, NEW ks \in SUBSET Knobs, Gives(ks, p, t)
    PROVE  /\ given' \in [Papers -> Text] /\ \A q \in Papers \ {p} : given'[q] = given[q]
           /\ (\A k \in Knobs \ ks : t[k] = given[p][k]) => given'[p] = t
  <1> DEFINE new == [k \in Knobs |-> IF k \in ks THEN t[k] ELSE given[p][k]]
  <1>1. given' = [given EXCEPT ![p] = new]
      BY DEF Gives
  <1>2. new \in Text
      BY DEF SettingsTypes, Text
  <1>3. (\A k \in Knobs \ ks : t[k] = given[p][k]) => new = t
    <2>1. t = [k \in Knobs |-> t[k]]
        BY DEF Text
    <2> QED BY <2>1
  <1> HIDE DEF new
  <1> QED BY <1>1, <1>2, <1>3 DEF SettingsTypes

\* The row is updated, and what was found decides whether one is inserted.
LEMMA SaveUpdatesKeeps == ASSUME SettingsInv, NEW u \in Admins, SaveUpdates(u) PROVE SettingsInv'
  <1> DEFINE s == save[u]
             inserts == [s EXCEPT !.step = "insert"]
             keeps == [s EXCEPT !.step = "keep"]
  <1>0. SettingsTypes
      BY DEF SettingsInv
  <1>1. /\ s.step = "update"
        /\ UNCHANGED <<panel, effect, form, rereading, crossed, edits>>
      BY DEF SaveUpdates
  <1>2. s \in [step : {"update", "insert", "keep"}, paper : Papers \cap InMemory, next : Text, edited : SUBSET Knobs]
      BY <1>0, <1>1, SaveCarries
  <1>p. PICK p \in Papers : p = s.paper
      BY <1>2
  <1>r. rows' = [rows EXCEPT ![p] = [i \in DOMAIN rows[p] |-> s.next]]
      BY <1>p DEF SaveUpdates
  <1>3. p \in Papers /\ s.next \in Text /\ s.edited \subseteq Knobs
      BY <1>2, <1>p
  <1>4. /\ inserts \in SaveRec /\ inserts.step = "insert" /\ inserts.paper = p /\ inserts.next = s.next /\ inserts.edited = s.edited
        /\ keeps \in SaveRec /\ keeps.step = "keep" /\ keeps.paper = p
      BY <1>2, <1>p DEF SaveRec
  <1>5. rows[p] \in Seq(Text) /\ \A q \in Papers \ {p} : rows'[q] = rows[q]
      BY <1>0, <1>r, <1>3 DEF SettingsTypes
  <1>6. rows'[p] = [i \in 1 .. Len(rows[p]) |-> s.next] /\ rows'[p] \in Seq(Text) /\ Len(rows'[p]) = Len(rows[p])
    <2> DEFINE old == rows[p]
               text == s.next
    <2>1. old \in Seq(Text) /\ text \in Text /\ DOMAIN old = 1 .. Len(old) /\ Len(old) \in Nat
        BY <1>3, <1>5
    <2>2. rows'[p] = [i \in DOMAIN old |-> text]
        BY <1>0, <1>r, <1>3 DEF SettingsTypes
    <2> HIDE DEF old, text
    <2>3. [i \in 1 .. Len(old) |-> text] \in Seq(Text) /\ Len([i \in 1 .. Len(old) |-> text]) = Len(old)
        BY <2>1
    <2>4. rows'[p] = [i \in 1 .. Len(old) |-> text]
        BY <2>1, <2>2
    <2>5. rows'[p] \in Seq(Text) /\ Len(rows'[p]) = Len(old)
        BY <2>3, <2>4
    <2> QED BY <2>4, <2>5 DEF old, text
  <1>7. rows' \in [Papers -> Seq(Text)] /\ \A q \in Papers : Len(rows'[q]) = Len(rows[q])
    <2>1. rows' = [rows EXCEPT ![p] = rows'[p]]
        BY <1>0, <1>r, <1>3 DEF SettingsTypes
    <2> QED BY <1>0, <1>3, <1>5, <1>6, <2>1 DEF SettingsTypes
  <1>8. CASE rows[p] = <<>>
    <2>1. save' = [save EXCEPT ![u] = inserts] /\ UNCHANGED given
        BY <1>8, <1>p DEF SaveUpdates
    <2>2. rows'[p] = <<>>
        BY <1>6, <1>7, <1>8
    <2>w. s.step # "none"
        BY <1>1
    <2>k. \A v \in Admins : Saving(v, p) /\ Saving(u, p) /\ SavedRight(p) => v = u
        BY <1>3 DEF SavedRight
    <2>l. Saving(u, p)
        BY <2>w, <1>p DEF Saving
    <2>n. SavedRight(p) => \A k \in Knobs \ s.edited : s.next[k] = given[p][k]
        BY <1>1, <1>3, <1>p DEF SavedRight
    <2> HIDE DEF inserts, s
    <2>3. SettingsTypes' /\ \A v \in Admins : save'[v] = IF v = u THEN inserts ELSE save[v]
      <3>1. effect' \in [Papers -> Text] /\ given' \in [Papers -> Text]
          BY <1>0, <1>1, <2>1 DEF SettingsTypes
      <3>2. inserts.step # "none" /\ save[u].step # "none"
          BY <1>4, <2>w DEF s
      <3> QED BY <1>0, <1>1, <1>4, <1>7, <2>1, <3>1, <3>2, SaveMoves
    <2>4. ASSUME NEW q \in Papers \ crossed' PROVE SavedRight(q)'
      <3>1. SavedRight(q)
          BY <1>1 DEF SettingsInv
      <3>2. CASE q # p
        <4>1. \A v \in Admins : save'[v].step # "none" /\ save'[v].paper = q => save'[v] = save[v]
            BY <2>3, <1>4, <1>p, <3>2
        <4> QED BY <4>1, <3>1, <1>5, <2>1, <3>2 DEF SavedRight, Saving, Stored
      <3>3. CASE q = p
        <4>1. \A v \in Admins : save'[v].step # "none" /\ save'[v].paper = p => v = u
            BY <2>k, <2>l, <3>1, <3>3, <2>3 DEF Saving
        <4>2. Stored(p)' = given'[p]
            BY <2>1, <2>2, <1>8, <3>1, <3>3 DEF SavedRight, Stored
        <4>3. \A k \in Knobs \ inserts.edited : inserts.next[k] = given'[p][k]
            BY <1>4, <2>n, <3>1, <3>3, <2>1
        <4> QED BY <4>1, <4>2, <4>3, <3>3, <2>2, <2>3 DEF SavedRight, Saving
      <3> QED BY <3>2, <3>3
    <2>5. RowsCounted'
      <3>1. ASSUME NEW q \in Papers PROVE Len(rows'[q]) + Cardinality(Inserting(q)') <= Cardinality(Admins)
        <4>1. Inserting(q)' \subseteq Admins /\ Inserting(q) \subseteq Admins
            BY DEF Inserting
        <4>2. IsFiniteSet(Admins) /\ IsFiniteSet(Inserting(q))
            BY <4>1, SettingsAssumption, FS_Subset
        <4>3. /\ Cardinality(Inserting(q)') \in Nat /\ Cardinality(Admins) \in Nat
              /\ Cardinality(Inserting(q)') <= Cardinality(Admins)
            BY <4>1, <4>2, FS_Subset, FS_CardinalityType
        <4>4. CASE q = p
          <5>1. Len(rows'[q]) = 0
              BY <2>2, <4>4
          <5> QED BY <5>1, <4>3
        <4>5. CASE q # p
          <5>1. Inserting(q)' = Inserting(q) /\ rows'[q] = rows[q]
              BY <2>3, <1>4, <1>5, <4>5, <1>p DEF Inserting, s
          <5> QED BY <5>1 DEF SettingsInv, RowsCounted
        <4> QED BY <4>4, <4>5
      <3>2. \A q \in Papers \ InMemory : Len(rows'[q]) = 1
          BY <1>7 DEF SettingsInv, RowsCounted
      <3> QED BY <3>1, <3>2 DEF RowsCounted
    <2> QED BY <2>3, <2>4, <2>5 DEF SettingsInv
  <1>9. CASE rows[p] # <<>>
    <2>1. save' = [save EXCEPT ![u] = keeps] /\ Gives(s.edited, p, s.next)
        BY <1>9, <1>p DEF SaveUpdates
    <2>2. rows'[p] # <<>> /\ Head(rows'[p]) = s.next
      <3>1. Len(rows[p]) \in Nat /\ Len(rows[p]) # 0
          BY <1>5, <1>9
      <3>2. 1 \in 1 .. Len(rows[p])
          BY <3>1
      <3>3. rows'[p][1] = s.next
          BY <1>6, <3>2
      <3> QED BY <1>6, <3>1, <3>3
    <2>l. Saving(u, p) /\ s.step # "none"
        BY <1>1, <1>p DEF Saving
    <2>n. SavedRight(p) => \A k \in Knobs \ s.edited : s.next[k] = given[p][k]
        BY <1>1, <1>3, <1>p DEF SavedRight
    <2>g. /\ given' \in [Papers -> Text] /\ \A q \in Papers \ {p} : given'[q] = given[q]
          /\ (\A k \in Knobs \ s.edited : s.next[k] = given[p][k]) => given'[p] = s.next
        BY <1>0, <1>3, <2>1, GivenIsNext
    <2>e. save[u].step # "none"
        BY <1>1
    <2> HIDE DEF keeps, s
    <2>3. SettingsTypes' /\ \A v \in Admins : save'[v] = IF v = u THEN keeps ELSE save[v]
      <3>1. effect' \in [Papers -> Text]
          BY <1>0, <1>1 DEF SettingsTypes
      <3>2. keeps.step # "none"
          BY <1>4
      <3> QED BY <1>0, <1>1, <1>4, <1>7, <2>1, <2>g, <2>e, <3>1, <3>2, SaveMoves
    <2>4. ASSUME NEW q \in Papers \ crossed' PROVE SavedRight(q)'
      <3>1. SavedRight(q)
          BY <1>1 DEF SettingsInv
      <3>2. CASE q # p
        <4>1. \A v \in Admins : save'[v].step # "none" /\ save'[v].paper = q => save'[v] = save[v]
            BY <2>3, <1>4, <1>p, <3>2
        <4> QED BY <4>1, <3>1, <1>5, <2>g, <3>2 DEF SavedRight, Saving, Stored
      <3>3. CASE q = p
        <4>1. \A v \in Admins : save'[v].step # "none" /\ save'[v].paper = p => v = u /\ save'[v].step = "keep"
            BY <2>l, <3>1, <3>3, <2>3, <1>4 DEF Saving, SavedRight
        <4>2. Stored(p)' = given'[p]
            BY <2>2, <2>g, <2>n, <3>1, <3>3 DEF Stored
        <4> QED BY <4>1, <4>2, <3>3 DEF SavedRight, Saving
      <3> QED BY <3>2, <3>3
    <2>5. \A q \in Papers : Inserting(q)' \subseteq Inserting(q)
        BY <2>3, <1>4 DEF Inserting
    <2>6. RowsCounted'
        BY <1>7, <2>5, NoRowMore DEF SettingsInv
    <2> QED BY <2>3, <2>4, <2>6 DEF SettingsInv
  <1> QED BY <1>8, <1>9

\* One row more, and one less to insert.
LEMMA RowInserted ==
    ASSUME NEW A, IsFiniteSet(A), NEW B, B \subseteq A, NEW u \in B, NEW n \in Nat, n + Cardinality(B) <= Cardinality(A)
    PROVE  (n + 1) + Cardinality(B \ {u}) <= Cardinality(A)
  <1>1. IsFiniteSet(B)
      BY FS_Subset
  <1>2. IsFiniteSet(B \ {u}) /\ Cardinality(B \ {u}) = Cardinality(B) - 1
      BY <1>1, FS_RemoveElement
  <1>3. Cardinality(B) \in Nat /\ Cardinality(B \ {u}) \in Nat /\ Cardinality(A) \in Nat
      BY <1>1, <1>2, FS_CardinalityType
  <1> QED BY <1>2, <1>3

\* A row is inserted.
LEMMA SaveInsertsKeeps == ASSUME SettingsInv, NEW u \in Admins, SaveInserts(u) PROVE SettingsInv'
  <1> DEFINE s == save[u]
             keeps == [s EXCEPT !.step = "keep"]
             text == s.next
  <1>0. SettingsTypes
      BY DEF SettingsInv
  <1>1. /\ s.step = "insert" /\ save' = [save EXCEPT ![u] = keeps]
        /\ UNCHANGED <<panel, effect, form, rereading, crossed, edits>>
      BY DEF SaveInserts
  <1>2. s \in [step : {"update", "insert", "keep"}, paper : Papers \cap InMemory, next : Text, edited : SUBSET Knobs]
      BY <1>0, <1>1, SaveCarries
  <1>p. PICK p \in Papers : p = s.paper
      BY <1>2
  <1> DEFINE old == rows[p]
  <1>r. rows' = [rows EXCEPT ![p] = Append(old, text)] /\ Gives(s.edited, p, text)
      BY <1>p DEF SaveInserts
  <1>3. p \in Papers /\ p \in InMemory /\ text \in Text /\ s.edited \subseteq Knobs
      BY <1>2, <1>p
  <1>4. keeps \in SaveRec /\ keeps.step = "keep" /\ keeps.paper = p
      BY <1>2, <1>p DEF SaveRec
  <1>5. old \in Seq(Text) /\ \A q \in Papers : rows'[q] = IF q = p THEN Append(old, text) ELSE rows[q]
      BY <1>0, <1>r, <1>3 DEF SettingsTypes
  <1>n. SavedRight(p) => (rows[p] = <<>>) /\ \A k \in Knobs \ s.edited : text[k] = given[p][k]
      BY <1>1, <1>3, <1>p DEF SavedRight
  <1>g. /\ given' \in [Papers -> Text] /\ \A q \in Papers \ {p} : given'[q] = given[q]
        /\ (\A k \in Knobs \ s.edited : text[k] = given[p][k]) => given'[p] = text
      BY <1>0, <1>r, <1>3, GivenIsNext
  <1>i. u \in Inserting(p) /\ save[u].step # "none" /\ Saving(u, p)
      BY <1>1, <1>p DEF Inserting, Saving
  <1> HIDE DEF keeps, text, old, s
  <1>6. Append(old, text) \in Seq(Text) /\ Len(Append(old, text)) = Len(old) + 1 /\ Len(old) \in Nat
      BY <1>3, <1>5
  <1>7. old = <<>> => Append(old, text) # <<>> /\ Head(Append(old, text)) = text
      BY <1>3, <1>5
  <1>8. rows' \in [Papers -> Seq(Text)] /\ effect' \in [Papers -> Text]
      BY <1>0, <1>1, <1>r, <1>3, <1>6 DEF SettingsTypes
  <1>9. SettingsTypes' /\ \A v \in Admins : save'[v] = IF v = u THEN keeps ELSE save[v]
    <2>1. keeps.step # "none" /\ keeps \in SaveRec
        BY <1>4
    <2>2. save[u].step # "none" /\ given' \in [Papers -> Text]
        BY <1>i, <1>g
    <2> QED BY <1>0, <1>1, <1>8, <2>1, <2>2, SaveMoves
  <1>10. ASSUME NEW q \in Papers \ crossed' PROVE SavedRight(q)'
    <2>1. SavedRight(q)
        BY <1>1 DEF SettingsInv
    <2>2. CASE q # p
      <3>1. \A v \in Admins : save'[v].step # "none" /\ save'[v].paper = q => save'[v] = save[v]
          BY <1>9, <1>4, <2>2
      <3> QED BY <3>1, <2>1, <1>5, <1>g, <2>2 DEF SavedRight, Saving, Stored
    <2>3. CASE q = p
      <3>1. \A v \in Admins : save'[v].step # "none" /\ save'[v].paper = p => v = u /\ save'[v].step = "keep"
          BY <1>i, <2>1, <2>3, <1>9, <1>4 DEF Saving, SavedRight
      <3>2. Stored(p)' = text
        <4>1. old = <<>>
            BY <1>n, <2>1, <2>3 DEF old
        <4>2. rows'[p] = Append(old, text)
            BY <1>3, <1>5
        <4> QED BY <4>1, <4>2, <1>7 DEF Stored
      <3>3. given'[p] = text
          BY <1>g, <1>n, <2>1, <2>3
      <3> QED BY <3>1, <3>2, <3>3, <2>3 DEF SavedRight, Saving
    <2> QED BY <2>2, <2>3
  <1>11. RowsCounted'
    <2>1. ASSUME NEW q \in Papers PROVE Len(rows'[q]) + Cardinality(Inserting(q)') <= Cardinality(Admins)
      <3>0. Len(rows[q]) + Cardinality(Inserting(q)) <= Cardinality(Admins)
          BY DEF SettingsInv, RowsCounted
      <3>1. CASE q = p
        <4>1. Inserting(p)' = Inserting(p) \ {u}
            BY <1>9, <1>4 DEF Inserting
        <4>2. Inserting(p) \subseteq Admins /\ IsFiniteSet(Admins)
            BY SettingsAssumption DEF Inserting
        <4>3. Len(old) + Cardinality(Inserting(p)) <= Cardinality(Admins)
            BY <3>0, <3>1 DEF old
        <4>4. Len(old) + 1 + Cardinality(Inserting(p) \ {u}) <= Cardinality(Admins)
            BY <4>2, <4>3, <1>6, <1>i, RowInserted
        <4>5. Len(rows'[p]) = Len(old) + 1
            BY <1>3, <1>5, <1>6
        <4> QED BY <4>1, <4>4, <4>5, <3>1
      <3>2. CASE q # p
        <4>1. Inserting(q)' = Inserting(q) /\ rows'[q] = rows[q]
            BY <1>9, <1>4, <1>5, <3>2, <1>p DEF Inserting, s
        <4> QED BY <4>1, <3>0
      <3> QED BY <3>1, <3>2
    <2>2. \A q \in Papers \ InMemory : Len(rows'[q]) = 1
        BY <1>3, <1>5 DEF SettingsInv, RowsCounted
    <2> QED BY <2>1, <2>2 DEF RowsCounted
  <1> QED BY <1>9, <1>10, <1>11 DEF SettingsInv

\* Saves end, and no row is touched.
LEMMA SavesEnd ==
    ASSUME SettingsInv, UNCHANGED <<rows, given, crossed>>, SettingsTypes', \A u \in Admins : save'[u] \in {save[u], NoSave}
    PROVE  SettingsInv'
  <1>1. \A p \in Papers : Inserting(p)' \subseteq Inserting(p)
      BY DEF Inserting, NoSave
  <1>2. RowsCounted'
      BY <1>1, NoRowMore DEF SettingsInv
  <1>3. ASSUME NEW p \in Papers \ crossed PROVE SavedRight(p)'
    <2>1. SavedRight(p)
        BY DEF SettingsInv
    <2>2. \A u \in Admins : save'[u].step # "none" => save'[u] = save[u]
        BY DEF NoSave
    <2> QED BY <2>1, <2>2 DEF SavedRight, Saving, Stored
  <1> QED BY <1>2, <1>3 DEF SettingsInv

\* What was saved is put in effect.
LEMMA SaveKeepsKeeps == ASSUME SettingsInv, NEW u \in Admins, SaveKeeps(u) PROVE SettingsInv'
  <1> DEFINE s == save[u]
  <1>0. SettingsTypes
      BY DEF SettingsInv
  <1>1. s.step = "keep" /\ UNCHANGED <<panel, rows, form, rereading, given, crossed, edits>>
      BY DEF SaveKeeps
  <1>2. s \in [step : {"update", "insert", "keep"}, paper : Papers \cap InMemory, next : Text, edited : SUBSET Knobs]
      BY <1>0, <1>1, SaveCarries
  <1>p. PICK p \in Papers : p = s.paper
      BY <1>2
  <1> DEFINE answered == [step |-> "answer", paper |-> p]
             text == s.next
  <1>3. save' = [save EXCEPT ![u] = answered] /\ effect' = [effect EXCEPT ![p] = text]
      BY <1>p DEF SaveKeeps
  <1>4. answered \in SaveRec /\ answered.step = "answer" /\ answered.paper = p
      BY DEF SaveRec
  <1>5. text \in Text /\ save[u].step # "none" /\ Saving(u, p)
      BY <1>1, <1>2, <1>p DEF Saving
  <1> HIDE DEF answered, text, s
  <1>6. rows' \in [Papers -> Seq(Text)] /\ effect' \in [Papers -> Text] /\ given' \in [Papers -> Text]
      BY <1>0, <1>1, <1>3, <1>5 DEF SettingsTypes
  <1>7. SettingsTypes' /\ \A v \in Admins : save'[v] = IF v = u THEN answered ELSE save[v]
    <2>1. answered \in SaveRec /\ answered.step # "none"
        BY <1>4
    <2> QED BY <1>0, <1>1, <1>3, <1>5, <1>6, <2>1, SaveMoves
  <1>8. ASSUME NEW q \in Papers \ crossed' PROVE SavedRight(q)'
    <2>1. SavedRight(q)
        BY <1>1 DEF SettingsInv
    <2>2. CASE q # p
      <3>1. \A v \in Admins : save'[v].step # "none" /\ save'[v].paper = q => save'[v] = save[v]
          BY <1>7, <1>4, <2>2
      <3> QED BY <3>1, <2>1, <1>1 DEF SavedRight, Saving, Stored
    <2>3. CASE q = p
      <3>1. \A v \in Admins : save'[v].step # "none" /\ save'[v].paper = p => v = u /\ save'[v].step = "answer"
          BY <1>5, <2>1, <2>3, <1>7, <1>4 DEF Saving, SavedRight
      <3> QED BY <3>1, <2>1, <2>3, <1>1 DEF SavedRight, Saving, Stored
    <2> QED BY <2>2, <2>3
  <1>9. RowsCounted'
    <2>1. \A q \in Papers : Inserting(q)' \subseteq Inserting(q)
        BY <1>7, <1>4 DEF Inserting
    <2> QED BY <2>1, <1>1, NoRowMore DEF SettingsInv
  <1> QED BY <1>7, <1>8, <1>9 DEF SettingsInv

\* A save is answered.
LEMMA SaveAnsweredKeeps == ASSUME SettingsInv, NEW u \in Admins, SaveAnswered(u) PROVE SettingsInv'
  <1>0. SettingsTypes
      BY DEF SettingsInv
  <1>1. /\ save' = [save EXCEPT ![u] = NoSave] /\ Shows(u, "open")
        /\ UNCHANGED <<panel, rows, effect, rereading, given, crossed, edits>>
      BY DEF SaveAnswered
  <1>2. form' \in [Admins -> {Closed} \cup Forms] /\ \A v \in Admins \ {u} : form'[v] = form[v]
      BY <1>0, <1>1, ShowsKeeps
  <1>3. NoSave \in SaveRec /\ \A v \in Admins : save'[v] = IF v = u THEN NoSave ELSE save[v]
      BY <1>0, <1>1 DEF SettingsTypes, SaveRec
  <1>4. save' \in [Admins -> SaveRec] /\ NoSave.step = "none"
      BY <1>0, <1>1, <1>3 DEF SettingsTypes, NoSave
  <1>5. \A v \in Admins : save'[v].step # "none" => form'[v].pc = "saving"
      BY <1>0, <1>2, <1>3, <1>4 DEF SettingsTypes
  <1>6. SettingsTypes'
      BY <1>0, <1>1, <1>2, <1>4, <1>5 DEF SettingsTypes
  <1> QED BY <1>1, <1>3, <1>6, SavesEnd

\* A save fails.
LEMMA SaveFailsKeeps == ASSUME SettingsInv, NEW u \in Admins, SaveFails(u) PROVE SettingsInv'
  <1>0. SettingsTypes
      BY DEF SettingsInv
  <1>1. /\ save[u].step # "none" /\ panel.faults > 0 /\ panel' = [panel EXCEPT !.faults = @ - 1]
        /\ save' = [save EXCEPT ![u] = NoSave] /\ form' = [form EXCEPT ![u].pc = "open"]
        /\ UNCHANGED <<rows, effect, rereading, given, crossed, edits>>
      BY DEF SaveFails
  <1>2. form[u] \in Forms
      BY <1>0, <1>1, SaveCarries
  <1>3. form' \in [Admins -> {Closed} \cup Forms] /\ \A v \in Admins \ {u} : form'[v] = form[v]
      BY <1>0, <1>1, <1>2 DEF SettingsTypes, Forms
  <1>4. NoSave \in SaveRec /\ \A v \in Admins : save'[v] = IF v = u THEN NoSave ELSE save[v]
      BY <1>0, <1>1 DEF SettingsTypes, SaveRec
  <1>5. save' \in [Admins -> SaveRec] /\ NoSave.step = "none"
      BY <1>0, <1>1, <1>4 DEF SettingsTypes, NoSave
  <1>6. \A v \in Admins : save'[v].step # "none" => form'[v].pc = "saving"
      BY <1>0, <1>3, <1>4, <1>5 DEF SettingsTypes
  <1>7. panel' \in PanelUse /\ panel'.edits = panel.edits
    <2>1. panel \in PanelUse
        BY <1>0 DEF SettingsTypes
    <2> QED BY <1>1, <2>1 DEF PanelUse
  <1>8. SettingsTypes'
      BY <1>0, <1>1, <1>3, <1>5, <1>6, <1>7 DEF SettingsTypes
  <1> QED BY <1>1, <1>4, <1>8, SavesEnd

\* What is stored is a text.
LEMMA StoredIsText == ASSUME SettingsTypes, NEW p \in Papers PROVE Stored(p) \in Text
  <1>1. Default \in Text
      BY SettingsAssumption DEF Default, Text, Value
  <1>2. ASSUME NEW x \in Seq(Text), x # <<>> PROVE Head(x) \in Text
      BY <1>2
  <1> QED BY <1>1, <1>2 DEF SettingsTypes, Stored

\* A document is read again, or what was read is put in effect.
LEMMA RereadKeeps == ASSUME SettingsInv, RereadStep PROVE SettingsInv'
  <1>0. SettingsTypes
      BY DEF SettingsInv
  <1>1. CASE RereadBegins
    <2>1. /\ rereading' = [p \in panel.papers \cap Reread |-> Stored(p)]
          /\ UNCHANGED <<panel, rows, effect, form, save, given, crossed, edits>>
        BY <1>1 DEF RereadBegins
    <2>2. panel.papers \subseteq Papers
        BY <1>0 DEF SettingsTypes, PanelUse
    <2>3. DOMAIN rereading' \subseteq Papers /\ \A p \in DOMAIN rereading' : rereading'[p] \in Text
        BY <1>0, <2>1, <2>2, StoredIsText
    <2>4. SettingsTypes'
        BY <1>0, <2>1, <2>3 DEF SettingsTypes
    <2> QED BY <2>1, <2>4, OnlyForms
  <1>2. CASE RereadEnds
    <2>1. /\ rereading' = Unread
          /\ effect' = [p \in Papers |-> IF p \in DOMAIN rereading THEN rereading[p] ELSE effect[p]]
          /\ UNCHANGED <<panel, rows, form, save, given, crossed, edits>>
        BY <1>2 DEF RereadEnds
    <2>2. DOMAIN rereading' = {}
        BY <2>1 DEF Unread
    <2>3. effect' \in [Papers -> Text]
        BY <1>0, <2>1 DEF SettingsTypes
    <2>4. SettingsTypes'
        BY <1>0, <2>1, <2>2, <2>3 DEF SettingsTypes
    <2> QED BY <2>1, <2>4, OnlyForms
  <1> QED BY <1>1, <1>2 DEF RereadStep

\* graph-rag boots.
LEMMA SettingsRestartKeeps == ASSUME SettingsInv, SettingsRestart PROVE SettingsInv'
  <1> DEFINE gone(u) == save[u].step # "none" /\ save[u].paper \in InMemory
             opened(u) == [form[u] EXCEPT !.pc = "open"]
  <1>0. SettingsTypes
      BY DEF SettingsInv
  <1>1. /\ panel' = [panel EXCEPT !.restarts = @ - 1] /\ panel.restarts > 0
        /\ effect' = [p \in Papers |-> IF p \in InMemory THEN Stored(p) ELSE effect[p]]
        /\ rereading' = Unread
        /\ save' = [u \in Admins |-> IF gone(u) THEN NoSave ELSE save[u]]
        /\ form' = [u \in Admins |-> IF gone(u) THEN opened(u) ELSE form[u]]
        /\ UNCHANGED <<rows, given, crossed, edits>>
      BY DEF SettingsRestart
  <1>2. \A u \in Admins : gone(u) => opened(u) \in Forms
    <2> SUFFICES ASSUME NEW u \in Admins, gone(u) PROVE opened(u) \in Forms
        OBVIOUS
    <2>1. form[u] \in Forms
        BY <1>0, SaveCarries
    <2> QED BY <2>1 DEF Forms
  <1> HIDE DEF opened
  <1>3. form' \in [Admins -> {Closed} \cup Forms]
      BY <1>0, <1>1, <1>2 DEF SettingsTypes
  <1>4. save' \in [Admins -> SaveRec] /\ NoSave.step = "none"
    <2>1. NoSave \in SaveRec
        BY DEF SaveRec
    <2> QED BY <1>0, <1>1, <2>1 DEF SettingsTypes, NoSave
  <1>5. \A u \in Admins : save'[u].step # "none" => save'[u] = save[u] /\ form'[u] = form[u]
      BY <1>1, <1>4
  <1>6. \A u \in Admins : save'[u].step # "none" => form'[u].pc = "saving"
      BY <1>0, <1>5 DEF SettingsTypes
  <1>7. panel' \in PanelUse /\ panel'.edits = panel.edits
    <2>1. panel \in PanelUse
        BY <1>0 DEF SettingsTypes
    <2> QED BY <1>1, <2>1 DEF PanelUse
  <1>8. effect' \in [Papers -> Text]
    <2>1. \A p \in Papers : Stored(p) \in Text
        BY <1>0, StoredIsText
    <2> QED BY <1>0, <1>1, <2>1 DEF SettingsTypes
  <1>9. DOMAIN rereading' = {}
      BY <1>1 DEF Unread
  <1>10. SettingsTypes'
      BY <1>0, <1>1, <1>3, <1>4, <1>6, <1>7, <1>8, <1>9 DEF SettingsTypes
  <1>11. \A u \in Admins : save'[u] \in {save[u], NoSave}
      BY <1>1
  <1> QED BY <1>1, <1>10, <1>11, SavesEnd

\* The settings' steps keep their invariant, and so does a step of another part.
LEMMA SettingsStepKeeps == ASSUME SettingsInv, SettingsStep \/ UNCHANGED settingsVars PROVE SettingsInv'
  <1>1. ASSUME UNCHANGED settingsVars PROVE SettingsInv'
    <2>1. SettingsTypes'
        BY <1>1 DEF settingsVars, SettingsInv, SettingsTypes
    <2> QED BY <1>1, <2>1, OnlyForms DEF settingsVars
  <1>2. ASSUME NEW u \in Admins, OpenForm(u) PROVE SettingsInv'
      BY <1>2, OpenFormKeeps
  <1>3. ASSUME NEW u \in Admins, SaveUpdates(u) PROVE SettingsInv'
      BY <1>3, SaveUpdatesKeeps
  <1>4. ASSUME NEW u \in Admins, SaveInserts(u) PROVE SettingsInv'
      BY <1>4, SaveInsertsKeeps
  <1>5. ASSUME NEW u \in Admins, SaveKeeps(u) PROVE SettingsInv'
      BY <1>5, SaveKeepsKeeps
  <1>6. ASSUME NEW u \in Admins, SaveAnswered(u) PROVE SettingsInv'
      BY <1>6, SaveAnsweredKeeps
  <1>7. ASSUME NEW u \in Admins, SaveFails(u) PROVE SettingsInv'
      BY <1>7, SaveFailsKeeps
  <1>8. ASSUME NEW u \in Admins, NEW p \in panel.papers, SaveArrives(u, p) PROVE SettingsInv'
      BY <1>8, SaveArrivesKeeps
  <1>9. ASSUME NEW u \in Admins, NEW p \in panel.papers, NEW k \in Knobs, Edit(u, p, k) PROVE SettingsInv'
    <2>1. p \in Papers
        BY DEF SettingsInv, SettingsTypes, PanelUse
    <2> QED BY <1>9, <2>1, EditKeeps
  <1> QED BY <1>1, <1>2, <1>3, <1>4, <1>5, <1>6, <1>7, <1>8, <1>9, RereadKeeps, SettingsRestartKeeps DEF SettingsStep

\* What the settings' invariant says of a state.
LEMMA SettingsTold == ASSUME SettingsInv PROVE SettingsTypeOK /\ EditsStand
  <1>1. ASSUME NEW p \in Papers PROVE Len(rows[p]) <= Cardinality(Admins)
    <2>1. IsFiniteSet(Admins) /\ Inserting(p) \subseteq Admins
        BY SettingsAssumption DEF Inserting
    <2>2. Cardinality(Inserting(p)) \in Nat /\ Cardinality(Admins) \in Nat
        BY <2>1, FS_Subset, FS_CardinalityType
    <2>3. Len(rows[p]) \in Nat
        BY DEF SettingsInv, SettingsTypes
    <2> QED BY <2>2, <2>3 DEF SettingsInv, RowsCounted
  <1>2. edits \in Value
    <2>1. edits \in Nat /\ panel.edits \in Nat /\ edits + panel.edits <= MaxEdits
        BY DEF SettingsInv, SettingsTypes, PanelUse, Value
    <2> QED BY <2>1, SettingsAssumption DEF Value
  <1>3. SettingsTypeOK
      BY <1>1, <1>2 DEF SettingsInv, SettingsTypes, SettingsTypeOK, PanelUse
  <1>4. EditsStand
      BY DEF SettingsInv, SavedRight, EditsStand
  <1> QED BY <1>3, <1>4

--------------------------------------------------------------------------
(* The rail                                                                *)

Statuses == {"stopped", "running"}
Said == [about : Fellows, says : {"stopped", "running", "agent_start", "agent_end"}]
Row == [status : Statuses, unread : BOOLEAN]
Rows == UNION {[D -> Row] : D \in SUBSET Fellows}
Answers == UNION {[D -> Statuses] : D \in SUBSET Fellows}
RailRec == [rows : Rows, working : SUBSET Fellows, shown : Fellows \cup {NoFellow}]
NextRec == {Stay} \cup [show : Fellows \cup {NoFellow}]
ListRec == {NotAsked} \cup [step : {"asked"}, next : NextRec] \cup [step : {"answered"}, next : NextRec, says : Answers]

RailTypes ==
    /\ fellow \in [Fellows -> {"gone", "stopped", "running"}] /\ turning \subseteq Fellows /\ missed \subseteq Fellows
    /\ link \in [up : BOOLEAN, msgs : Seq(Said)]
    /\ list \in [Asking -> ListRec]
    /\ rail \in RailRec

\* A message that tells of a turn of an agent, and the last such on its way.
Decides(i, a) == i \in DOMAIN link.msgs /\ link.msgs[i].about = a /\ link.msgs[i].says # "running"
DecidesLast(i, a) == Decides(i, a) /\ \A j \in DOMAIN link.msgs : Decides(j, a) => j <= i

\* What the browser takes an agent for, once everything on its way is heard, is whether it is in a
\* turn, short of one of whose turn it was not told.
ToldRight ==
    /\ ~link.up => link.msgs = <<>>
    /\ \A a \in turning : fellow[a] = "running"
    /\ \A a \in Fellows : \A i \in DOMAIN link.msgs :
          DecidesLast(i, a) => (link.msgs[i].says = "agent_start" <=> a \in turning)
    /\ \A a \in Fellows \ missed : (\A i \in DOMAIN link.msgs : ~Decides(i, a)) => (a \in rail.working <=> a \in turning)

ShownIsRead(r) == r.shown \in DOMAIN r.rows => r.rows[r.shown].unread = FALSE

RailInv == RailTypes /\ ToldRight /\ ShownIsRead(rail)

\* What being rows says, and an answer.
LEMMA RowsAre ==
    /\ \A R \in Rows : DOMAIN R \subseteq Fellows /\ \A a \in DOMAIN R : R[a] \in Row
    /\ \A D \in SUBSET Fellows : \A R \in [D -> Row] : R \in Rows
    /\ \A R \in Answers : DOMAIN R \subseteq Fellows /\ \A a \in DOMAIN R : R[a] \in Statuses
    /\ \A D \in SUBSET Fellows : \A R \in [D -> Statuses] : R \in Answers
  BY DEF Rows, Answers

\* Nobody works and nothing is on its way at first.
LEMMA RailBegins == Init => RailInv
  <1> SUFFICES ASSUME Init PROVE RailInv
      OBVIOUS
  <1>1. RailInit
      BY DEF Init
  <1>2. NoRows \in Rows /\ DOMAIN NoRows = {}
    <2>1. NoRows \in [{} -> Row] /\ DOMAIN NoRows = {}
        BY DEF NoRows
    <2> QED BY <2>1 DEF Rows
  <1>3. rail = [rows |-> NoRows, working |-> {}, shown |-> NoFellow] /\ rail \in RailRec
      BY <1>1, <1>2 DEF RailInit, RailRec
  <1>4. link = [up |-> FALSE, msgs |-> <<>>] /\ link \in [up : BOOLEAN, msgs : Seq(Said)]
      BY <1>1 DEF RailInit
  <1>5. RailTypes
      BY <1>1, <1>3, <1>4 DEF RailInit, RailTypes, ListRec
  <1>6. link.msgs = <<>> /\ DOMAIN link.msgs = {} /\ rail.working = {} /\ turning = {}
      BY <1>1, <1>3, <1>4 DEF RailInit
  <1>7. ToldRight
      BY <1>6 DEF ToldRight, Decides, DecidesLast
  <1>8. ShownIsRead(rail)
      BY <1>2, <1>3 DEF ShownIsRead
  <1> QED BY <1>5, <1>7, <1>8 DEF RailInv

\* A message that is put on its way.
LEMMA TellKeeps ==
    ASSUME RailTypes, ToldRight, NEW a \in Fellows, NEW s \in {"stopped", "running", "agent_start", "agent_end"}, Tell(a, s),
           UNCHANGED rail, turning' \subseteq Fellows, \A b \in turning' : fellow'[b] = "running",
           \A b \in Fellows \ {a} : b \in turning' <=> b \in turning,
           s = "running" => (a \in turning' <=> a \in turning),
           s # "running" => (a \in turning' <=> s = "agent_start")
    PROVE  link' \in [up : BOOLEAN, msgs : Seq(Said)] /\ missed' \subseteq Fellows /\ ToldRight'
  <1> DEFINE m == Message(a, s)
             msgs == link.msgs
  <1>1. m \in Said /\ m.about = a /\ m.says = s
      BY DEF Message, Said
  <1>2. link \in [up : BOOLEAN, msgs : Seq(Said)] /\ msgs \in Seq(Said) /\ missed \subseteq Fellows
      BY DEF RailTypes
  <1>3. CASE link.up
    <2>1. link' = [link EXCEPT !.msgs = Append(msgs, m)] /\ missed' = missed
        BY <1>3 DEF Tell
    <2> HIDE DEF m
    <2>2. Append(msgs, m) \in Seq(Said)
        BY <1>1, <1>2
    <2>3. link' \in [up : BOOLEAN, msgs : Seq(Said)] /\ link'.up = link.up /\ link'.msgs = Append(msgs, m)
        BY <1>2, <2>1, <2>2
    <2>n. PICK n \in Nat : n = Len(msgs)
        BY <1>2
    <2>4. /\ DOMAIN msgs = 1 .. n /\ DOMAIN link'.msgs = 1 .. n + 1
          /\ \A i \in 1 .. n : link'.msgs[i] = msgs[i]
          /\ link'.msgs[n + 1] = m
        BY <1>1, <1>2, <2>3, <2>n
    <2>5. ASSUME NEW b \in Fellows, NEW i \in DOMAIN link'.msgs, DecidesLast(i, b)'
          PROVE  link'.msgs[i].says = "agent_start" <=> b \in turning'
      <3>1. CASE i = n + 1
        <4>1. b = a /\ s # "running"
            BY <2>4, <2>5, <3>1, <1>1 DEF DecidesLast, Decides
        <4> QED BY <4>1, <3>1, <2>4, <1>1
      <3>2. CASE i # n + 1
        <4>1. i \in 1 .. n
            BY <2>4, <3>2
        <4>2. DecidesLast(i, b)
          <5>1. \A j \in 1 .. n : Decides(j, b) <=> Decides(j, b)'
              BY <2>4 DEF Decides
          <5> QED BY <4>1, <5>1, <2>4, <2>5 DEF DecidesLast
        <4>3. ~(b = a /\ s # "running")
          <5>1. n + 1 \in DOMAIN link'.msgs
              BY <2>4
          <5>2. ~Decides(n + 1, b)'
            <6>1. ~(n + 1 <= i)
                BY <4>1, <2>4
            <6> QED BY <6>1, <5>1, <2>5 DEF DecidesLast
          <5> QED BY <5>1, <5>2, <2>4, <1>1 DEF Decides
        <4>4. msgs[i].says = "agent_start" <=> b \in turning
            BY <4>1, <4>2, <2>4 DEF ToldRight
        <4> QED BY <4>1, <4>3, <4>4, <2>4
      <3> QED BY <3>1, <3>2
    <2>6. ASSUME NEW b \in Fellows \ missed', \A i \in DOMAIN link'.msgs : ~Decides(i, b)'
          PROVE  b \in rail'.working <=> b \in turning'
      <3>1. \A i \in DOMAIN msgs : ~Decides(i, b)
          BY <2>4, <2>6 DEF Decides
      <3>2. ~(b = a /\ s # "running")
        <4>1. n + 1 \in DOMAIN link'.msgs
            BY <2>4
        <4> QED BY <4>1, <2>4, <2>6, <1>1 DEF Decides
      <3> QED BY <3>1, <3>2, <2>1 DEF ToldRight
    <2> QED BY <1>2, <1>3, <2>1, <2>3, <2>5, <2>6 DEF ToldRight
  <1>4. CASE ~link.up
    <2>1. link' = link /\ missed' = missed \cup {a}
        BY <1>4 DEF Tell
    <2>2. msgs = <<>> /\ DOMAIN msgs = {}
        BY <1>4 DEF ToldRight
    <2> QED BY <1>2, <2>1, <2>2 DEF ToldRight, Decides, DecidesLast
  <1> QED BY <1>3, <1>4

\* What is said of an agent in the workspace, and no list is asked for.
LEMMA WorkspaceKeeps ==
    ASSUME RailInv, fellow' \in [Fellows -> {"gone", "stopped", "running"}], turning' \subseteq Fellows,
           link' \in [up : BOOLEAN, msgs : Seq(Said)], missed' \subseteq Fellows, ToldRight',
           list' \in [Asking -> ListRec], UNCHANGED rail
    PROVE  RailInv'
  BY DEF RailInv, RailTypes, ShownIsRead

\* An agent's status changes.
LEMMA StatusChangesKeeps ==
    ASSUME RailInv, NEW a \in Fellows, NEW s \in {"stopped", "running"}, StatusChanges(a, s)
    PROVE  RailInv'
  <1>1. /\ fellow[a] # s /\ fellow' = [fellow EXCEPT ![a] = s]
        /\ turning' = turning \ {a} /\ Tell(a, s) /\ UNCHANGED <<list, rail>>
      BY DEF StatusChanges
  <1>2. RailTypes /\ ToldRight
      BY DEF RailInv
  <1>3. fellow' \in [Fellows -> {"gone", "stopped", "running"}] /\ \A b \in Fellows \ {a} : fellow'[b] = fellow[b]
      BY <1>1, <1>2 DEF RailTypes
  <1>4. turning' \subseteq Fellows /\ \A b \in turning' : fellow'[b] = "running"
      BY <1>1, <1>2, <1>3 DEF RailTypes, ToldRight
  <1>5. s = "running" => a \notin turning
      BY <1>1, <1>2 DEF ToldRight
  <1>6. link' \in [up : BOOLEAN, msgs : Seq(Said)] /\ missed' \subseteq Fellows /\ ToldRight'
    <2>1. \A b \in Fellows \ {a} : b \in turning' <=> b \in turning
        BY <1>1
    <2>2. (s = "running" => (a \in turning' <=> a \in turning)) /\ (s # "running" => (a \in turning' <=> s = "agent_start"))
        BY <1>1, <1>5
    <2>3. s \in {"stopped", "running", "agent_start", "agent_end"} /\ UNCHANGED rail
        BY <1>1
    <2> QED BY <1>1, <1>2, <1>4, <2>1, <2>2, <2>3, TellKeeps
  <1>7. list' \in [Asking -> ListRec]
      BY <1>1, <1>2 DEF RailTypes
  <1> QED BY <1>1, <1>3, <1>4, <1>6, <1>7, WorkspaceKeeps

\* A list is asked for.
LEMMA RefreshKeeps ==
    ASSUME RailTypes, NEW i \in Asking, NEW n \in NextRec, RefreshAsks(i, n)
    PROVE  list' \in [Asking -> ListRec]
  <1>1. [step |-> "asked", next |-> n] \in ListRec
      BY DEF ListRec
  <1> QED BY <1>1 DEF RailTypes, RefreshAsks

\* An agent is gone.
LEMMA GoneKeeps ==
    ASSUME RailInv, NEW a \in Fellows, fellow' = [fellow EXCEPT ![a] = "gone"], turning' = turning \ {a}, Tell(a, "stopped"),
           UNCHANGED rail, list' \in [Asking -> ListRec]
    PROVE  RailInv'
  <1>2. RailTypes /\ ToldRight
      BY DEF RailInv
  <1>3. fellow' \in [Fellows -> {"gone", "stopped", "running"}] /\ \A b \in Fellows \ {a} : fellow'[b] = fellow[b]
      BY <1>2 DEF RailTypes
  <1>4. turning' \subseteq Fellows /\ \A b \in turning' : fellow'[b] = "running"
      BY <1>2, <1>3 DEF RailTypes, ToldRight
  <1>6. link' \in [up : BOOLEAN, msgs : Seq(Said)] /\ missed' \subseteq Fellows /\ ToldRight'
    <2>1. \A b \in Fellows \ {a} : b \in turning' <=> b \in turning
        OBVIOUS
    <2>2. a \notin turning'
        OBVIOUS
    <2> DEFINE s == "stopped"
    <2>3. /\ s \in {"stopped", "running", "agent_start", "agent_end"} /\ Tell(a, s)
          /\ s = "running" => (a \in turning' <=> a \in turning)
          /\ s # "running" => (a \in turning' <=> s = "agent_start")
        BY <2>2
    <2> HIDE DEF s
    <2> QED BY <1>2, <1>4, <2>1, <2>3, TellKeeps
  <1> QED BY <1>3, <1>4, <1>6, WorkspaceKeeps

\* A turn begins or ends.
LEMMA TurnKeeps ==
    ASSUME RailInv, NEW a \in Fellows, TurnBegins(a) \/ TurnEnds(a)
    PROVE  RailInv'
  <1>1. RailTypes /\ ToldRight
      BY DEF RailInv
  <1>2. PICK s \in {"agent_start", "agent_end"} :
           /\ Tell(a, s) /\ UNCHANGED <<fellow, list, rail>>
           /\ fellow[a] = "running" /\ turning' = IF s = "agent_start" THEN turning \cup {a} ELSE turning \ {a}
      BY <1>1 DEF TurnBegins, TurnEnds, ToldRight
  <1>3. turning' \subseteq Fellows /\ \A b \in turning' : fellow'[b] = "running"
      BY <1>1, <1>2 DEF RailTypes, ToldRight
  <1>4. fellow' \in [Fellows -> {"gone", "stopped", "running"}] /\ list' \in [Asking -> ListRec]
      BY <1>1, <1>2 DEF RailTypes
  <1>5. link' \in [up : BOOLEAN, msgs : Seq(Said)] /\ missed' \subseteq Fellows /\ ToldRight'
    <2>1. \A b \in Fellows \ {a} : b \in turning' <=> b \in turning
        BY <1>2
    <2>2. (s = "running" => (a \in turning' <=> a \in turning)) /\ (s # "running" => (a \in turning' <=> s = "agent_start"))
        BY <1>2
    <2>3. s \in {"stopped", "running", "agent_start", "agent_end"} /\ UNCHANGED rail
        BY <1>2
    <2> QED BY <1>1, <1>2, <1>3, <2>1, <2>2, <2>3, TellKeeps
  <1> QED BY <1>2, <1>3, <1>4, <1>5, WorkspaceKeeps

\* What the states of the agents are told in: a sequence of agents.
LEMMA ToldAre ==
    ASSUME NEW S \in SUBSET Fellows
    PROVE  SetToSeq(S) \in Seq(S)
  <1> DEFINE n == Cardinality(S)
  <1>1. IsFiniteSet(S)
      BY RailAssumption, FS_Subset
  <1>2. n \in Nat /\ ExistsBijection(1 .. n, S)
      BY <1>1, FS_CardinalityType
  <1>3. PICK f : f \in [1 .. n -> S] /\ \A x, y \in 1 .. n : f[x] = f[y] => x = y
      BY <1>2 DEF ExistsBijection, Bijection, Injection, IsInjective
  <1>4. IsInjective(f)
      BY <1>3 DEF IsInjective
  <1>5. SetToSeq(S) \in [1 .. n -> S]
      BY <1>3, <1>4 DEF SetToSeq
  <1> HIDE DEF n
  <1> QED BY <1>2, <1>5

\* The states of all agents are sent, and none of them tells of a turn that is not.
LEMMA ConnectsKeeps == ASSUME RailInv, Connects PROVE RailInv'
  <1> DEFINE there == {a \in Fellows : fellow[a] # "gone"}
             told == SetToSeq(there)
             msgs == [i \in DOMAIN told |-> Message(told[i], fellow[told[i]])]
  <1>1. RailTypes /\ ToldRight
      BY DEF RailInv
  <1>2. ~link.up /\ link' = [up |-> TRUE, msgs |-> msgs] /\ UNCHANGED <<fellow, turning, list, rail, missed>>
      BY DEF Connects
  <1>3. told \in Seq(there)
      BY ToldAre
  <1>4. \A i \in DOMAIN told : told[i] \in Fellows /\ fellow[told[i]] \in {"stopped", "running"}
      BY <1>1, <1>3 DEF RailTypes
  <1> HIDE DEF told
  <1>n. PICK n \in Nat : DOMAIN told = 1 .. n
      BY <1>3
  <1>5. /\ DOMAIN msgs = 1 .. n
        /\ \A i \in 1 .. n : msgs[i].about = told[i] /\ msgs[i].says = fellow[told[i]] /\ msgs[i] \in Said
      BY <1>4, <1>n DEF Message, Said
  <1>6. msgs \in Seq(Said)
    <2>1. msgs \in [1 .. n -> Said]
        BY <1>5, <1>n
    <2> QED BY <2>1
  <1> HIDE DEF msgs
  <1>7. link' \in [up : BOOLEAN, msgs : Seq(Said)] /\ link'.up /\ link'.msgs = msgs
      BY <1>2, <1>6
  <1>8. link.msgs = <<>> /\ DOMAIN link.msgs = {}
      BY <1>1, <1>2 DEF ToldRight
  <1>9. ASSUME NEW a \in Fellows, NEW i \in DOMAIN link'.msgs, DecidesLast(i, a)'
        PROVE  link'.msgs[i].says = "agent_start" <=> a \in turning'
    <2>1. i \in 1 .. n /\ msgs[i].about = a /\ msgs[i].says = fellow[a] /\ fellow[a] # "running"
        BY <1>5, <1>7, <1>9 DEF DecidesLast, Decides
    <2>2. fellow[a] # "agent_start" /\ a \notin turning
        BY <1>1, <2>1 DEF RailTypes, ToldRight
    <2> QED BY <2>1, <2>2, <1>2, <1>7
  <1>10. ASSUME NEW a \in Fellows \ missed' PROVE a \in rail'.working <=> a \in turning'
      BY <1>1, <1>2, <1>8 DEF ToldRight, Decides
  <1>11. ToldRight'
      BY <1>1, <1>2, <1>7, <1>9, <1>10 DEF ToldRight
  <1>12. /\ fellow' \in [Fellows -> {"gone", "stopped", "running"}] /\ turning' \subseteq Fellows /\ missed' \subseteq Fellows
         /\ list' \in [Asking -> ListRec]
      BY <1>1, <1>2 DEF RailTypes
  <1> QED BY <1>2, <1>7, <1>11, <1>12, WorkspaceKeeps

\* The socket breaks, and of what was on its way nobody is told.
LEMMA DisconnectsKeeps == ASSUME RailInv, Disconnects PROVE RailInv'
  <1>1. RailTypes /\ ToldRight
      BY DEF RailInv
  <1>2. /\ link' = [up |-> FALSE, msgs |-> <<>>]
        /\ missed' = missed \cup {m.about : m \in Range(link.msgs)}
        /\ UNCHANGED <<fellow, turning, list, rail>>
      BY DEF Disconnects
  <1>3. \A i \in DOMAIN link.msgs : link.msgs[i] \in Said
      BY <1>1 DEF RailTypes
  <1>4. missed' \subseteq Fellows /\ missed \subseteq missed' /\ \A i \in DOMAIN link.msgs : link.msgs[i].about \in missed'
      BY <1>1, <1>2, <1>3 DEF RailTypes, Range, Said
  <1>5. link' \in [up : BOOLEAN, msgs : Seq(Said)] /\ link'.msgs = <<>> /\ DOMAIN link'.msgs = {}
      BY <1>2
  <1>6. ASSUME NEW a \in Fellows \ missed' PROVE a \in rail'.working <=> a \in turning'
    <2>1. a \notin missed /\ \A i \in DOMAIN link.msgs : ~Decides(i, a)
        BY <1>4 DEF Decides
    <2> QED BY <2>1, <1>1, <1>2 DEF ToldRight
  <1>7. ToldRight'
      BY <1>1, <1>2, <1>5, <1>6 DEF ToldRight
  <1> QED BY <1>1, <1>2, <1>4, <1>5, <1>7, WorkspaceKeeps DEF RailTypes

\* What is heard changes the row of one agent, and whether it works.
LEMMA HeardIs ==
    ASSUME NEW r \in RailRec, NEW m \in Said, ShownIsRead(r)
    PROVE  /\ Heard(r, m) \in RailRec /\ ShownIsRead(Heard(r, m))
           /\ Heard(r, m).working = IF m.says = "agent_start" THEN r.working \cup {m.about}
                                    ELSE IF m.says = "running" THEN r.working ELSE r.working \ {m.about}
  <1> DEFINE shownRows == [a \in DOMAIN r.rows |->
                           IF a # m.about THEN r.rows[a]
                           ELSE IF IsStatus(m) THEN [r.rows[a] EXCEPT !.status = m.says]
                           ELSE [r.rows[a] EXCEPT !.unread = @ \/ a # r.shown]]
             working == IF m.says = "agent_start" THEN r.working \cup {m.about}
                        ELSE IF m.says = "running" THEN r.working ELSE r.working \ {m.about}
  <1>1. Heard(r, m) = [r EXCEPT !.rows = shownRows, !.working = working]
      BY DEF Heard
  <1>2. DOMAIN r.rows \subseteq Fellows /\ (\A a \in DOMAIN r.rows : r.rows[a] \in Row)
      BY RowsAre DEF RailRec
  <1>3. ASSUME NEW a \in DOMAIN r.rows
        PROVE  shownRows[a] \in Row /\ (r.shown = a => shownRows[a].unread = r.rows[a].unread)
    <2> DEFINE unread == r.rows[a].unread \/ a # r.shown
    <2>1. unread \in BOOLEAN /\ r.rows[a].unread \in BOOLEAN /\ (r.shown = a => unread = r.rows[a].unread)
        BY <1>2 DEF Row
    <2>2. CASE a # m.about
        BY <1>2, <2>2
    <2>3. CASE a = m.about /\ IsStatus(m)
        BY <1>2, <2>3 DEF Row, IsStatus, Statuses
    <2>4. CASE a = m.about /\ ~IsStatus(m)
      <3>1. shownRows[a] = [r.rows[a] EXCEPT !.unread = unread]
          BY <2>4
      <3> HIDE DEF unread
      <3> QED BY <3>1, <2>1, <1>2 DEF Row
    <2> QED BY <2>2, <2>3, <2>4
  <1>4. shownRows \in Rows /\ DOMAIN shownRows = DOMAIN r.rows
    <2>1. shownRows \in [DOMAIN r.rows -> Row] /\ DOMAIN shownRows = DOMAIN r.rows
        BY <1>3
    <2> QED BY <2>1, <1>2, RowsAre
  <1>5. working \subseteq Fellows
      BY DEF RailRec, Said
  <1> HIDE DEF shownRows, working
  <1>6. /\ Heard(r, m) \in RailRec /\ Heard(r, m).rows = shownRows /\ Heard(r, m).working = working /\ Heard(r, m).shown = r.shown
      BY <1>1, <1>4, <1>5 DEF RailRec
  <1>7. ShownIsRead(Heard(r, m))
      BY <1>3, <1>4, <1>6 DEF ShownIsRead
  <1> QED BY <1>6, <1>7 DEF working

\* The agent that is shown has nothing unread.
LEMMA ShowingIs ==
    ASSUME NEW r \in RailRec, NEW a \in Fellows \cup {NoFellow}
    PROVE  Showing(r, a) \in RailRec /\ ShownIsRead(Showing(r, a)) /\ Showing(r, a).working = r.working
  <1> DEFINE shownRows == [b \in DOMAIN r.rows |-> IF b = a THEN [r.rows[b] EXCEPT !.unread = FALSE] ELSE r.rows[b]]
  <1>1. Showing(r, a) = [r EXCEPT !.shown = a, !.rows = shownRows]
      BY DEF Showing
  <1>2. DOMAIN r.rows \subseteq Fellows /\ (\A b \in DOMAIN r.rows : r.rows[b] \in Row)
      BY RowsAre DEF RailRec
  <1>3. \A b \in DOMAIN r.rows : shownRows[b] \in Row /\ (b = a => shownRows[b].unread = FALSE)
      BY <1>2 DEF Row
  <1>4. shownRows \in Rows /\ DOMAIN shownRows = DOMAIN r.rows
    <2>1. shownRows \in [DOMAIN r.rows -> Row] /\ DOMAIN shownRows = DOMAIN r.rows
        BY <1>3
    <2> QED BY <2>1, <1>2, RowsAre
  <1> HIDE DEF shownRows
  <1>5. /\ Showing(r, a) \in RailRec /\ Showing(r, a).rows = shownRows /\ Showing(r, a).working = r.working /\ Showing(r, a).shown = a
      BY <1>1, <1>4 DEF RailRec
  <1> QED BY <1>3, <1>4, <1>5 DEF ShownIsRead

\* What is shown once a list has come.
LEMMA ThenIs ==
    ASSUME NEW r \in RailRec, ShownIsRead(r), NEW n \in NextRec
    PROVE  Then(r, n) \in RailRec /\ ShownIsRead(Then(r, n)) /\ Then(r, n).working = r.working
  <1>1. n # Stay => n.show \in Fellows \cup {NoFellow}
      BY DEF NextRec
  <1> QED BY <1>1, ShowingIs DEF Then

\* What the browser shows changes, and who it takes to be working does not.
LEMMA BrowserKeeps ==
    ASSUME RailInv, UNCHANGED <<fellow, turning, link, missed>>, list' \in [Asking -> ListRec],
           rail' \in RailRec, ShownIsRead(rail'), rail'.working = rail.working
    PROVE  RailInv'
  <1>1. RailTypes'
      BY DEF RailInv, RailTypes
  <1>2. ToldRight'
      BY DEF RailInv, ToldRight, DecidesLast, Decides
  <1>3. ShownIsRead(rail)'
      BY DEF ShownIsRead
  <1> QED BY <1>1, <1>2, <1>3 DEF RailInv

\* A message is heard: the last that decides about an agent tells whether it is in a turn.
LEMMA HearKeeps == ASSUME RailInv, Hear PROVE RailInv'
  <1> DEFINE msgs == link.msgs
             m == Head(msgs)
  <1>1. RailTypes /\ ToldRight /\ ShownIsRead(rail)
      BY DEF RailInv
  <1>2. /\ msgs # <<>> /\ link' = [link EXCEPT !.msgs = Tail(msgs)]
        /\ rail' = Heard(rail, m)
        /\ missed' = (IF m.says = "running" THEN missed ELSE missed \ {m.about})
        /\ UNCHANGED <<fellow, turning, list>>
      BY DEF Hear
  <1>3. link \in [up : BOOLEAN, msgs : Seq(Said)] /\ msgs \in Seq(Said) /\ Tail(msgs) \in Seq(Said)
      BY <1>1, <1>2 DEF RailTypes
  <1>n. PICK n \in Nat : DOMAIN Tail(msgs) = 1 .. n /\ DOMAIN msgs = 1 .. n + 1
    <2>1. Len(msgs) \in Nat /\ Len(msgs) # 0 /\ Len(Tail(msgs)) = Len(msgs) - 1
        BY <1>2, <1>3
    <2>2. DOMAIN Tail(msgs) = 1 .. Len(msgs) - 1 /\ DOMAIN msgs = 1 .. (Len(msgs) - 1) + 1
        BY <1>3, <2>1
    <2> QED BY <2>1, <2>2
  <1>4. /\ link' \in [up : BOOLEAN, msgs : Seq(Said)] /\ link'.up = link.up
        /\ DOMAIN link'.msgs = 1 .. n /\ \A i \in 1 .. n : link'.msgs[i] = msgs[i + 1]
        /\ m = msgs[1] /\ m \in Said
    <2>1. /\ link' \in [up : BOOLEAN, msgs : Seq(Said)] /\ link'.up = link.up /\ link'.msgs = Tail(msgs)
        BY <1>2, <1>3
    <2>2. \A i \in 1 .. n : Tail(msgs)[i] = msgs[i + 1]
      <3>1. Len(Tail(msgs)) = n
          BY <1>3, <1>n
      <3> QED BY <1>2, <1>3, <3>1
    <2>3. msgs[1] \in Said /\ m = msgs[1]
        BY <1>2, <1>3, <1>n
    <2> QED BY <2>1, <2>2, <2>3, <1>n
  <1> HIDE DEF m
  <1>5. /\ rail' \in RailRec /\ ShownIsRead(rail')
        /\ rail'.working = IF m.says = "agent_start" THEN rail.working \cup {m.about}
                           ELSE IF m.says = "running" THEN rail.working ELSE rail.working \ {m.about}
    <2>1. rail \in RailRec
        BY <1>1 DEF RailTypes
    <2> QED BY <1>1, <1>2, <1>4, <2>1, HeardIs
  <1>6. \A a \in Fellows : \A i \in 1 .. n : Decides(i, a)' <=> Decides(i + 1, a)
      BY <1>4, <1>n DEF Decides
  <1>7. ASSUME NEW a \in Fellows, NEW i \in DOMAIN link'.msgs, DecidesLast(i, a)'
        PROVE  link'.msgs[i].says = "agent_start" <=> a \in turning'
    <2>1. i \in 1 .. n /\ i + 1 \in 1 .. n + 1
        BY <1>4
    <2>2. Decides(i + 1, a)
        BY <1>6, <1>7, <2>1 DEF DecidesLast
    <2>3. ASSUME NEW j \in DOMAIN msgs, Decides(j, a) PROVE j <= i + 1
      <3>1. j \in 1 .. n + 1
          BY <1>n
      <3>2. CASE j = 1
          BY <2>1, <3>2
      <3>3. CASE j # 1
        <4>1. j - 1 \in 1 .. n /\ (j - 1) + 1 = j
            BY <3>1, <3>3
        <4>2. PICK k \in 1 .. n : k + 1 = j
            BY <4>1
        <4>3. Decides(k, a)'
            BY <1>6, <2>3, <4>2
        <4>4. k <= i
            BY <1>4, <1>7, <4>3 DEF DecidesLast
        <4> QED BY <4>2, <4>4, <2>1
      <3> QED BY <3>2, <3>3
    <2>4. DecidesLast(i + 1, a)
        BY <2>2, <2>3 DEF DecidesLast
    <2>5. msgs[i + 1].says = "agent_start" <=> a \in turning
        BY <1>1, <1>n, <2>1, <2>4 DEF ToldRight
    <2> QED BY <1>2, <1>4, <2>1, <2>5
  <1>8. ASSUME NEW a \in Fellows \ missed', \A i \in DOMAIN link'.msgs : ~Decides(i, a)'
        PROVE  a \in rail'.working <=> a \in turning'
    <2>1. \A j \in DOMAIN msgs : Decides(j, a) => j = 1
      <3> SUFFICES ASSUME NEW j \in DOMAIN msgs, Decides(j, a), j # 1 PROVE FALSE
          OBVIOUS
      <3>1. j \in 1 .. n + 1
          BY <1>n
      <3>2. PICK k \in 1 .. n : k + 1 = j
        <4>1. j - 1 \in 1 .. n /\ (j - 1) + 1 = j
            BY <3>1
        <4> QED BY <4>1
      <3> QED BY <1>4, <1>6, <1>8, <3>2
    <2>2. CASE Decides(1, a)
      <3>1. DecidesLast(1, a) /\ 1 \in DOMAIN msgs
          BY <1>n, <2>1, <2>2 DEF DecidesLast
      <3>2. m.says = "agent_start" <=> a \in turning
          BY <1>1, <1>4, <3>1 DEF ToldRight
      <3>3. m.about = a /\ m.says # "running"
          BY <1>4, <2>2 DEF Decides
      <3> QED BY <1>2, <1>5, <3>2, <3>3
    <2>3. CASE ~Decides(1, a)
      <3>1. m.about # a \/ m.says = "running"
          BY <1>4, <1>n, <2>3 DEF Decides
      <3>2. a \notin missed /\ \A i \in DOMAIN msgs : ~Decides(i, a)
          BY <1>2, <2>1, <2>3, <3>1
      <3>3. a \in rail.working <=> a \in turning
          BY <1>1, <3>2 DEF ToldRight
      <3> QED BY <1>2, <1>5, <3>1, <3>3
    <2> QED BY <2>2, <2>3
  <1>9. ToldRight'
    <2>1. ~link'.up => link'.msgs = <<>>
        BY <1>1, <1>2, <1>4 DEF ToldRight
    <2> QED BY <1>1, <1>2, <1>7, <1>8, <2>1 DEF ToldRight
  <1>10. RailTypes'
      BY <1>1, <1>2, <1>4, <1>5 DEF RailTypes
  <1>11. ShownIsRead(rail)'
      BY <1>5 DEF ShownIsRead
  <1> QED BY <1>9, <1>10, <1>11 DEF RailInv

\* An agent is selected, and what it had unread is read.
LEMMA SelectKeeps == ASSUME RailInv, NEW a \in Fellows \cup {NoFellow}, Select(a) PROVE RailInv'
  <1>1. rail' = Showing(rail, a) /\ UNCHANGED <<fellow, turning, link, list, missed>>
      BY DEF Select
  <1>2. rail \in RailRec /\ list' \in [Asking -> ListRec]
      BY <1>1 DEF RailInv, RailTypes
  <1>3. rail' \in RailRec /\ ShownIsRead(rail') /\ rail'.working = rail.working
      BY <1>1, <1>2, ShowingIs
  <1> QED BY <1>1, <1>2, <1>3, BrowserKeeps

\* A list is asked for, ...
LEMMA IntervalKeeps == ASSUME RailInv, Interval PROVE RailInv'
  <1>1. (\E i \in Asking : RefreshAsks(i, Stay)) /\ UNCHANGED <<fellow, turning, link, rail, missed>>
      BY DEF Interval, Again
  <1>2. RailTypes /\ ShownIsRead(rail) /\ rail \in RailRec
      BY DEF RailInv, RailTypes
  <1>3. Stay \in NextRec
      BY DEF NextRec
  <1>4. list' \in [Asking -> ListRec]
      BY <1>1, <1>2, <1>3, RefreshKeeps
  <1>5. rail' \in RailRec /\ ShownIsRead(rail') /\ rail'.working = rail.working
      BY <1>1, <1>2
  <1> QED BY <1>1, <1>4, <1>5, BrowserKeeps

\* ... by who makes an agent, ...
LEMMA MakeHereKeeps == ASSUME RailInv, NEW a \in Fellows, MakeHere(a) PROVE RailInv'
  <1>1. /\ fellow[a] = "gone" /\ fellow' = [fellow EXCEPT ![a] = "running"]
        /\ Tell(a, "running") /\ UNCHANGED <<turning, rail>>
        /\ \E i \in Asking : RefreshAsks(i, Show(a))
      BY DEF MakeHere
  <1>2. RailTypes /\ ToldRight
      BY DEF RailInv
  <1>3. Show(a) \in NextRec
      BY DEF Show, NextRec
  <1>4. list' \in [Asking -> ListRec]
      BY <1>1, <1>2, <1>3, RefreshKeeps
  <1>5. fellow' \in [Fellows -> {"gone", "stopped", "running"}] /\ \A b \in Fellows : fellow'[b] = fellow[b] \/ fellow'[b] = "running"
      BY <1>1, <1>2 DEF RailTypes
  <1>6. turning' \subseteq Fellows /\ \A b \in turning' : fellow'[b] = "running"
      BY <1>1, <1>2, <1>5 DEF RailTypes, ToldRight
  <1>7. link' \in [up : BOOLEAN, msgs : Seq(Said)] /\ missed' \subseteq Fellows /\ ToldRight'
    <2> DEFINE s == "running"
    <2>1. /\ s \in {"stopped", "running", "agent_start", "agent_end"} /\ Tell(a, s)
          /\ s = "running" => (a \in turning' <=> a \in turning)
          /\ s # "running" => (a \in turning' <=> s = "agent_start")
          /\ \A b \in Fellows \ {a} : b \in turning' <=> b \in turning
        BY <1>1
    <2> HIDE DEF s
    <2> QED BY <1>1, <1>2, <1>6, <2>1, TellKeeps
  <1> QED BY <1>1, <1>4, <1>5, <1>6, <1>7, WorkspaceKeeps

\* ... or deletes one.
LEMMA DeleteHereKeeps == ASSUME RailInv, NEW a \in Fellows, DeleteHere(a) PROVE RailInv'
  <1>1. /\ fellow' = [fellow EXCEPT ![a] = "gone"] /\ turning' = turning \ {a}
        /\ Tell(a, "stopped") /\ UNCHANGED rail
      BY DEF DeleteHere
  <1>2. PICK i \in Asking, n \in NextRec : RefreshAsks(i, n)
    <2>1. \E i \in Asking : RefreshAsks(i, IF rail.shown = a THEN Show(NoFellow) ELSE Stay)
        BY DEF DeleteHere
    <2>2. Show(NoFellow) \in NextRec /\ Stay \in NextRec
        BY DEF NextRec, Show
    <2> DEFINE next == IF rail.shown = a THEN Show(NoFellow) ELSE Stay
    <2>3. next \in NextRec /\ \E i \in Asking : RefreshAsks(i, next)
        BY <2>1, <2>2
    <2> HIDE DEF next
    <2> QED BY <2>3
  <1>3. list' \in [Asking -> ListRec]
      BY <1>2, RefreshKeeps DEF RailInv
  <1> QED BY <1>1, <1>3, GoneKeeps

\* A list is answered, comes, or does not.
LEMMA ListKeeps ==
    ASSUME RailInv, NEW i \in Asking, ListAnswers(i) \/ ListComes(i) \/ ListFails(i)
    PROVE  RailInv'
  <1>1. RailTypes /\ ShownIsRead(rail) /\ rail \in RailRec
      BY DEF RailInv, RailTypes
  <1>2. CASE ListAnswers(i)
    <2> DEFINE there == {b \in Fellows : fellow[b] # "gone"}
               says == [a \in there |-> fellow[a]]
    <2>1. /\ list[i].step = "asked" /\ UNCHANGED <<fellow, turning, link, rail, missed>>
          /\ list' = [list EXCEPT ![i] = [step |-> "answered", next |-> list[i].next, says |-> says]]
        BY <1>2 DEF ListAnswers
    <2>2. says \in Answers
      <3>1. says \in [there -> Statuses] /\ there \subseteq Fellows
          BY <1>1 DEF RailTypes, Statuses
      <3> QED BY <3>1 DEF Answers
    <2> HIDE DEF says
    <2>3. list[i].next \in NextRec
        BY <1>1, <2>1 DEF RailTypes, ListRec, NotAsked
    <2>4. [step |-> "answered", next |-> list[i].next, says |-> says] \in ListRec
        BY <2>2, <2>3 DEF ListRec
    <2>5. list' \in [Asking -> ListRec]
        BY <1>1, <2>1, <2>4 DEF RailTypes
    <2> QED BY <1>1, <2>1, <2>5, BrowserKeeps
  <1>3. CASE ListComes(i)
    <2> DEFINE says == list[i].says
               unread(a) == InRows(a) /\ rail.rows[a].unread
               shownRows == [a \in DOMAIN says |-> [status |-> says[a], unread |-> unread(a)]]
               come == [rail EXCEPT !.rows = shownRows]
    <2>1. /\ list[i].step = "answered" /\ list' = [list EXCEPT ![i] = NotAsked]
          /\ rail' = Then(come, list[i].next) /\ UNCHANGED <<fellow, turning, link, missed>>
        BY <1>3 DEF ListComes
    <2>2. list[i].next \in NextRec /\ says \in Answers
        BY <1>1, <2>1 DEF RailTypes, ListRec, NotAsked
    <2>3. DOMAIN says \subseteq Fellows /\ \A a \in DOMAIN says : says[a] \in Statuses
        BY <2>2, RowsAre
    <2>4. \A a \in Fellows : unread(a) \in BOOLEAN
        BY DEF InRows
    <2>5. unread(rail.shown) = FALSE
        BY <1>1 DEF ShownIsRead, InRows
    <2> HIDE DEF unread, says
    <2>6. shownRows \in [DOMAIN says -> Row] /\ DOMAIN shownRows = DOMAIN says /\ \A a \in DOMAIN says : shownRows[a].unread = unread(a)
        BY <2>3, <2>4 DEF Row
    <2>7. shownRows \in Rows
        BY <2>3, <2>6, RowsAre
    <2> HIDE DEF shownRows
    <2>8. come \in RailRec /\ come.rows = shownRows /\ come.shown = rail.shown /\ come.working = rail.working
        BY <1>1, <2>7 DEF RailRec
    <2>9. ShownIsRead(come)
        BY <2>5, <2>6, <2>8 DEF ShownIsRead
    <2> HIDE DEF come
    <2>10. rail' \in RailRec /\ ShownIsRead(rail') /\ rail'.working = rail.working
        BY <2>1, <2>2, <2>8, <2>9, ThenIs
    <2>11. list' \in [Asking -> ListRec]
        BY <1>1, <2>1 DEF RailTypes, ListRec
    <2> QED BY <2>1, <2>10, <2>11, BrowserKeeps
  <1>4. CASE ListFails(i)
    <2>1. /\ list[i] # NotAsked /\ list' = [list EXCEPT ![i] = NotAsked]
          /\ rail' = Then(rail, list[i].next) /\ UNCHANGED <<fellow, turning, link, missed>>
        BY <1>4 DEF ListFails
    <2>2. list[i].next \in NextRec
        BY <1>1, <2>1 DEF RailTypes, ListRec
    <2>3. rail' \in RailRec /\ ShownIsRead(rail') /\ rail'.working = rail.working
        BY <1>1, <2>1, <2>2, ThenIs
    <2>4. list' \in [Asking -> ListRec]
        BY <1>1, <2>1 DEF RailTypes, ListRec
    <2> QED BY <2>1, <2>3, <2>4, BrowserKeeps
  <1> QED BY <1>2, <1>3, <1>4

\* The rail's steps keep its invariant, and so does a step of another part.
LEMMA RailStepKeeps == ASSUME RailInv, RailStep \/ UNCHANGED railVars PROVE RailInv'
  <1>1. ASSUME UNCHANGED railVars PROVE RailInv'
    <2>1. list' \in [Asking -> ListRec] /\ rail' \in RailRec /\ ShownIsRead(rail') /\ rail'.working = rail.working
        BY <1>1 DEF railVars, RailInv, RailTypes
    <2> QED BY <1>1, <2>1, BrowserKeeps DEF railVars
  <1>2. ASSUME NEW a \in Fellows, StatusChanges(a, "running") PROVE RailInv'
    <2> DEFINE s == "running"
    <2>1. s \in {"stopped", "running"} /\ StatusChanges(a, s)
        BY <1>2
    <2> HIDE DEF s
    <2> QED BY <2>1, StatusChangesKeeps
  <1>3. ASSUME NEW a \in Fellows, StatusChanges(a, "stopped") PROVE RailInv'
    <2> DEFINE s == "stopped"
    <2>1. s \in {"stopped", "running"} /\ StatusChanges(a, s)
        BY <1>3
    <2> HIDE DEF s
    <2> QED BY <2>1, StatusChangesKeeps
  <1>4. ASSUME NEW a \in Fellows, GoneElsewhere(a) PROVE RailInv'
    <2>1. /\ fellow' = [fellow EXCEPT ![a] = "gone"] /\ turning' = turning \ {a} /\ Tell(a, "stopped")
          /\ UNCHANGED rail /\ list' \in [Asking -> ListRec]
        BY <1>4 DEF GoneElsewhere, RailInv, RailTypes
    <2> QED BY <2>1, GoneKeeps
  <1>5. ASSUME NEW a \in Fellows, TurnBegins(a) \/ TurnEnds(a) PROVE RailInv'
      BY <1>5, TurnKeeps
  <1>6. ASSUME NEW a \in Fellows \cup {NoFellow}, Select(a) PROVE RailInv'
      BY <1>6, SelectKeeps
  <1>7. ASSUME NEW a \in Fellows, MakeHere(a) \/ DeleteHere(a) PROVE RailInv'
      BY <1>7, MakeHereKeeps, DeleteHereKeeps
  <1>8. ASSUME NEW i \in Asking, ListAnswers(i) \/ ListComes(i) \/ ListFails(i) PROVE RailInv'
      BY <1>8, ListKeeps
  <1> QED BY <1>1, <1>2, <1>3, <1>4, <1>5, <1>6, <1>7, <1>8, ConnectsKeeps, DisconnectsKeeps, HearKeeps, IntervalKeeps DEF RailStep

\* What the rail's invariant says of a state.
LEMMA RailTold == ASSUME RailInv PROVE RailTypeOK /\ RailHears
  <1>1. RailTypes /\ ToldRight /\ ShownIsRead(rail) /\ rail \in RailRec
      BY DEF RailInv, RailTypes
  <1>2. /\ DOMAIN rail.rows \subseteq Fellows /\ (\A a \in DOMAIN rail.rows : rail.rows[a] \in Row)
        /\ rail.working \subseteq Fellows /\ rail.shown \in Fellows \cup {NoFellow}
      BY <1>1, RowsAre DEF RailRec
  <1>3. RailTypeOK
      BY <1>1, <1>2 DEF RailTypes, RailTypeOK, Row, Statuses
  <1>4. link.msgs = <<>> => \A a \in Fellows \ missed : a \in rail.working <=> a \in turning
    <2>1. link.msgs = <<>> => DOMAIN link.msgs = {}
        OBVIOUS
    <2> QED BY <2>1, <1>1 DEF ToldRight
  <1>5. InRows(rail.shown) => ~rail.rows[rail.shown].unread
      BY <1>1 DEF ShownIsRead, InRows
  <1> QED BY <1>3, <1>4, <1>5 DEF RailHears

--------------------------------------------------------------------------
(* The whole                                                               *)

Inv == SettingsInv /\ FilesInv /\ VmInv /\ RailInv

\* A step of another part.
LEMMA FilesStand == ASSUME FilesInv, UNCHANGED fileVars PROVE FilesInv'
  <1>0. UNCHANGED <<runtime, dirs, inode, file, temp, upload, torn, browse>>
      BY DEF fileVars
  <1>1. FileTypes' /\ ListingInv'
      BY <1>0 DEF FilesInv, FileTypes, ListingInv
  <1>2. OneName'
      BY <1>0 DEF FilesInv, OneName, At, Goes
  <1>3. FilesWhole'
      BY <1>0 DEF FilesInv, FilesWhole, FileWhole, WorksOn, SoFar, Whole
  <1> QED BY <1>1, <1>2, <1>3 DEF FilesInv

\* A step of another part.
LEMMA VmStand == ASSUME VmInv, UNCHANGED vmVars PROVE VmInv'
  BY DEF vmVars, VmInv, VmTypes, VmsClosed

\* What the invariant says of a state.
LEMMA InvTells == ASSUME Inv PROVE TypeOK /\ EditsStand /\ FilesAsShown /\ VmsClosed /\ RailHears
  <1>1. FileTypes /\ browse \in BrowseRec
      BY DEF Inv, FilesInv, FileTypes
  <1>2. ASSUME NEW i \in Inodes, NEW n \in DOMAIN inode[i] PROVE inode[i][n] \in (Uploads \X Pieces) \cup {Absent}
    <2>1. inode[i] \in Seq(Piece \cup {Absent})
        BY <1>1 DEF FileTypes
    <2> QED BY <2>1 DEF Piece
  <1>3. browse.at \in {Root(o) : o \in Owners} /\ Range(browse.asked) \subseteq Places \cup {Answered}
    <2>1. browse.at \in Roots /\ browse.asked \in Seq(Places \cup {Answered})
        BY <1>1 DEF BrowseRec
    <2> QED BY <2>1 DEF Roots, Range
  <1>4. FilesTypeOK
      BY <1>1, <1>2, <1>3 DEF FileTypes, FilesTypeOK
  <1>5. VmTypeOK
      BY DEF Inv, VmInv, VmTypes, VmTypeOK, Idle
  <1>6. FilesAsShown
    <2>1. FilesWhole /\ ListingInv
        BY DEF Inv, FilesInv
    <2> QED BY <2>1 DEF FilesWhole, FileWhole, ListingInv, FilesAsShown
  <1>7. SettingsTypeOK /\ EditsStand /\ RailTypeOK /\ RailHears
      BY SettingsTold, RailTold DEF Inv
  <1> QED BY <1>4, <1>5, <1>6, <1>7 DEF Inv, VmInv, TypeOK

\* The invariant of the page: each part's, which another's steps leave alone.
THEOREM Invariant == Spec => []Inv
  <1>1. Init => Inv
      BY SettingsBegin, FilesBegin, VmBegins, RailBegins DEF Inv
  <1>2. ASSUME Inv, [Next]_vars PROVE Inv'
    <2>1. SettingsStep \/ UNCHANGED settingsVars
        BY <1>2 DEF Next, vars
    <2>2. FilesStep \/ UNCHANGED fileVars
        BY <1>2 DEF Next, vars
    <2>3. VmStep \/ UNCHANGED vmVars
        BY <1>2 DEF Next, vars
    <2>4. RailStep \/ UNCHANGED railVars
        BY <1>2 DEF Next, vars
    <2> QED BY <1>2, <2>1, <2>2, <2>3, <2>4, SettingsStepKeeps, FilesStepKeeps, FilesStand, VmStepKeeps, VmStand, RailStepKeeps DEF Inv
  <1> QED BY <1>1, <1>2, PTL DEF Spec

\* The variables of the page keep their types: no row of settings is inserted twice by an admin.
THEOREM TypesHold == Spec => []TypeOK
  <1>1. Inv => TypeOK
      BY InvTells
  <1> QED BY <1>1, Invariant, PTL

\* Every file is one whole upload and the panel lists the place it is at (uploadFile's temporary
\* name and rename, the panel's listing).
THEOREM FilesShownRight == Spec => []FilesAsShown
  <1>1. Inv => FilesAsShown
      BY InvTells
  <1> QED BY <1>1, Invariant, PTL

\* A machine that is open is the one in use, and a call keeps the one it was given (ensureVm,
\* vmStarting and session_shutdown of the extension).
THEOREM MachinesClosed == Spec => []VmsClosed
  <1>1. Inv => VmsClosed
      BY InvTells
  <1> QED BY <1>1, Invariant, PTL

\* What the last save of a setting made of it is what is stored, however saves of several forms
\* overlap (save, applyPolicyUpdate, savePolicy): the safety half of EditsTakeHold.
THEOREM EditsStood == Spec => []EditsStand
  <1>1. Inv => EditsStand
      BY InvTells
  <1> QED BY <1>1, Invariant, PTL

\* The rail takes those to be working that are in a turn once everything sent has been heard
\* (onMessage, refreshAgents, the socket's hello): the safety half of RailTells.
THEOREM RailHeard == Spec => []RailHears
  <1>1. Inv => RailHears
      BY InvTells
  <1> QED BY <1>1, Invariant, PTL

====
