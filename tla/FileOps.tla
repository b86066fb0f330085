------------------------------ MODULE FileOps ------------------------------
(***************************************************************************)
(* Every operation that changes files: the use cases copy, move, delete to *)
(* the recycle bin, restore, delete for good and import, the upload that   *)
(* the HTTP API, WebDAV and FTPS share, and rename.  They run as           *)
(* concurrent jobs (the phone's screens, the server's requests) over       *)
(* storage roots of two kinds, and every step between two awaits is an     *)
(* action.                                                                 *)
(*                                                                         *)
(* A path is a name in a folder, or a recycle slot, denoted by the id of   *)
(* its recycle item.  What stands at a path is an item, a file or a folder *)
(* with all that is in it: its content, whether it is complete, and the    *)
(* job that still has it open for writing.  A folder's children are copied *)
(* and deleted one after the other, so it may be left incomplete.          *)
(***************************************************************************)
EXTENDS Naturals, Sequences

CONSTANTS
  Jobs,         \* concurrent requests
  Dirs,         \* folders
  Names,        \* names an item can have in a folder
  Ids,          \* ids of recycle items, and so recycle slots
  Contents,     \* contents an item can have
  Folders,      \* the contents that are folders
  Ops,          \* the operations of this instance
  Faults,       \* the I/O errors of this instance
  RootOf,       \* folder -> storage root
  DirectRoots,  \* the roots that are plain paths; the others are SAF trees
  Candidates,   \* name -> the names "Keep both" tries, in order
  Initials,     \* what may be there at the start: contents and recycle rows
  MaxEvents,    \* bound: requests, and crashes of the process, in a behaviour
  Nothing       \* no item, path, id, content or job

UserPaths == Dirs \X Names
Paths == UserPaths \cup Ids
Items == [c : Contents \cup {Nothing}, whole : BOOLEAN, dir : BOOLEAN,
          by : Jobs \cup {Nothing}]
Full(c) == [c |-> c, whole |-> TRUE, dir |-> c \in Folders, by |-> Nothing]
Kinds == {"copy", "move", "bin", "restore", "purge", "import", "upload", "rename"}
Modes == {"create", "replace", "keepBoth"}
FaultKinds ==
  {"copy", "open", "stream", "short", "commit", "delete", "row", "cleanup", "crash"}

ASSUME NothingAssumption ==
  Nothing \notin UNION {Paths, Items, Contents, Ids, Jobs}
ASSUME PathsAssumption == UserPaths \cap Ids = {}
ASSUME OpsAssumption == Ops \subseteq Kinds /\ Faults \subseteq FaultKinds
ASSUME CandidatesAssumption == Candidates \in [Names -> Seq(Names)]
ASSUME InitialAssumption ==
  /\ Initials \subseteq [there : [Paths -> Contents \cup {Nothing}],
                         rows : [Ids -> UserPaths \cup {Nothing}]]
  /\ \A start \in Initials, i \in Ids :
       start.there[i] = Nothing <=> start.rows[i] = Nothing
ASSUME FoldersAssumption == Folders \subseteq Contents
ASSUME BoundAssumption == MaxEvents \in Nat

VARIABLES
  disk,     \* path -> the item there, or Nothing
  rows,     \* recycle id -> the original path in its row, or Nothing
  job,      \* what each job is doing
  litter,   \* is there a temporary file whose job is over?
  events,   \* requests and crashes so far
  crossed   \* history: the jobs that met another job on a path one of the two writes

vars == <<disk, rows, job, litter, events, crossed>>

NewJob(op, from, to, mode, data, step) ==
  [op |-> op, pc |-> step, from |-> from, to |-> to, mode |-> mode, data |-> data,
   old |-> Nothing, short |-> FALSE, fresh |-> FALSE, k |-> 1]
Idle == NewJob("none", Nothing, Nothing, "create", Nothing, "idle")

Steps ==
  {"idle", "resolve", "clear", "clearing", "check", "blit", "blitting", "stat", "open",
   "fill", "commit", "verify", "abort", "rename", "delSource", "addRow", "dropRow"}
JobStates ==
  [op : Kinds \cup {"none"}, pc : Steps,
   from : Paths \cup {Nothing}, to : Paths \cup {Nothing}, mode : Modes,
   data : Items \cup {Nothing}, old : Contents \cup {Nothing},
   short : BOOLEAN, fresh : BOOLEAN, k : Nat \ {0}]

TypeOK ==
  /\ disk \in [Paths -> Items \cup {Nothing}]
  /\ rows \in [Ids -> UserPaths \cup {Nothing}]
  /\ job \in [Jobs -> JobStates]
  /\ litter \in BOOLEAN
  /\ events \in Nat
  /\ crossed \subseteq Jobs

Init ==
  /\ \E start \in Initials :
       /\ disk = [x \in Paths |->
            IF start.there[x] # Nothing THEN Full(start.there[x]) ELSE Nothing]
       /\ rows = start.rows
  /\ job = [p \in Jobs |-> Idle]
  /\ litter = FALSE
  /\ events = 0
  /\ crossed = {}

-----------------------------------------------------------------------------
(* Paths and roots.  A recycle slot lies in the root of the item it is for. *)

Exists(x) == disk[x] # Nothing
IsDir(x) == Exists(x) /\ disk[x].dir
Fold(x, y) == IF x \in UserPaths THEN x[1] ELSE y[1]
SameRoot(x, y) == IF x \in Ids \/ y \in Ids THEN TRUE ELSE RootOf[x[1]] = RootOf[y[1]]
Direct(x, y) == RootOf[Fold(x, y)] \in DirectRoots
ToDirect(j) == Direct(j.to, j.from)

(* The candidates of "Keep both" for the target j.to, and what a job writes *)
(* and reads.  A name already resolved is the only target left.             *)
Tries(j) == {<<j.to[1], Candidates[j.to[2]][i]>> : i \in DOMAIN Candidates[j.to[2]]}
Targets(j) == IF j.pc = "resolve" THEN Tries(j) \cup {j.to} ELSE {j.to}
Writes(j) == (Targets(j) \cup (IF j.op = "copy" THEN {} ELSE {j.from})) \ {Nothing}
Uses(j) == (Targets(j) \cup {j.from}) \ {Nothing}

(* Nothing in the code keeps two jobs off one path; `crossed' only records *)
(* which did meet.                                                         *)
Apart(i, j) == Writes(i) \cap Uses(j) = {} /\ Writes(j) \cap Uses(i) = {}
Met(p, j) == {q \in Jobs \ {p} : ~Apart(j, job[q])}

Held == {c \in Contents : \E x \in Paths : Exists(x) /\ disk[x].c = c /\ disk[x].whole}

-----------------------------------------------------------------------------
(* Steps of a job.                                                          *)

Begin(p, j) ==
  /\ job[p] = Idle
  /\ events' = events + 1
  /\ job' = [job EXCEPT ![p] = j]
  /\ crossed' = crossed \cup Met(p, j) \cup (IF Met(p, j) = {} THEN {} ELSE {p})
  /\ UNCHANGED <<disk, rows, litter>>

At(p, step) == job[p].pc = step
Go(p, step) == job' = [job EXCEPT ![p].pc = step]
End(p) == job' = [job EXCEPT ![p] = Idle]
Put(x, item) == disk' = [disk EXCEPT ![x] = item]
Partial(dir, by) == [c |-> Nothing, whole |-> FALSE, dir |-> dir, by |-> by]
Read(x) == [disk[x] EXCEPT !.by = Nothing]
(* Of two jobs that write one file at once, either prevails, or the bytes  *)
(* are a mixture that no job completes.                                    *)
Prevails(p, x) ==
  {p} \cup (IF Exists(x) /\ disk[x].by # Nothing THEN {disk[x].by, Nothing} ELSE {})
Mine(p) == LET to == job[p].to IN Exists(to) /\ disk[to].by = p
HalfDeleted(x) == IsDir(x) /\ Put(x, [disk[x] EXCEPT !.whole = FALSE])

(* A temporary file stands beside the target, or inside it for a folder.    *)
HasTemp(j) ==
  /\ j.pc \in {"fill", "commit", "abort"} \/ (j.pc = "blitting" /\ ~SameRoot(j.from, j.to))
  /\ ToDirect(j)
CreatesOff(j) == FALSE   \* mutant: the mode is not looked at
(* Only "create" refuses a target that exists; the copy inside a SAF root   *)
(* opens its target with the default mode, which is "create".               *)
Creates(j) == j.mode = "create" \/ (j.from # Nothing /\ SameRoot(j.from, j.to))
Fault(kind) == kind \in Faults
NoDisk == UNCHANGED <<disk, rows, litter, events>>
OnlyDisk == UNCHANGED <<rows, litter, events>>

(* Where copySingle starts: the guards of the same-root branch, then the    *)
(* deletion of the target a "Replace" asks for; or the cross-root branch.   *)
CopyEntry(from, to, mode) ==
  CASE ~SameRoot(from, to) -> "stat"
    [] SameRoot(from, to) /\ mode = "replace" -> "clear"
    [] SameRoot(from, to) /\ mode # "replace" -> "check"

-----------------------------------------------------------------------------
(* Requests.                                                                *)

StartTransfer(p, op, from, d, mode) ==
  LET to == <<d, from[2]>> IN
  /\ op \in Ops
  /\ Exists(from)
  /\ op = "copy" => (to # from \/ mode = "keepBoth")
  /\ op = "move" => from[1] # d
  /\ (IsDir(from) /\ Exists(to) /\ ~SameRoot(from, to)) => mode = "keepBoth"   \* no merging
  /\ Begin(p, NewJob(op, from, to, mode, Nothing,
                     IF mode = "keepBoth" THEN "resolve" ELSE CopyEntry(from, to, mode)))

StartBin(p, from, id) ==
  /\ "bin" \in Ops
  /\ Exists(from)
  /\ ~Exists(id) /\ rows[id] = Nothing
  /\ \A q \in Jobs : id \notin Uses(job[q])
  /\ Begin(p, NewJob("bin", from, id, "create", Nothing, "check"))

StartRestoreRowFirst(p, id) ==   \* mutant: the row goes before the bytes come back
  /\ "restore" \in Ops
  /\ rows[id] # Nothing
  /\ Begin(p, NewJob("restore", id, rows[id], "create", Nothing, "dropRow"))

StartRestore(p, id) ==
  /\ "restore" \in Ops
  /\ rows[id] # Nothing
  /\ Begin(p, NewJob("restore", id, rows[id], "create", Nothing, "check"))

StartPurge(p, id) ==
  /\ "purge" \in Ops
  /\ rows[id] # Nothing
  /\ Begin(p, NewJob("purge", id, Nothing, "create", Nothing, "delSource"))

New(c) ==
  /\ c \notin Folders \cup Held
  /\ \A q \in Jobs : job[q].data # Full(c)

StartImport(p, to, c, mode) ==
  /\ "import" \in Ops
  /\ New(c)
  /\ Begin(p, NewJob("import", Nothing, to, mode, Full(c),
                     IF mode = "keepBoth" THEN "resolve" ELSE "open"))

StartUpload(p, to, c, mode) ==
  /\ "upload" \in Ops
  /\ mode # "keepBoth"
  /\ New(c)
  /\ Begin(p, NewJob("upload", Nothing, to, mode, Full(c), "stat"))

StartRename(p, from, name) ==
  /\ "rename" \in Ops
  /\ Exists(from)
  /\ name # from[2]
  /\ Begin(p, NewJob("rename", from, <<from[1], name>>, "create", Nothing,
                     IF Direct(from, from) THEN "check" ELSE "rename"))

-----------------------------------------------------------------------------
(* Choosing the target.                                                     *)

SameTry(j) == j   \* mutant: the counter stands still
NextTry(j) == [j EXCEPT !.k = @ + 1]

(* resolveNonConflictingName: one stat for each candidate.                  *)
Resolve(p) ==
  LET j == job[p]
      t == <<j.to[1], Candidates[j.to[2]][j.k]>> IN
  /\ At(p, "resolve")
  /\ IF j.k > Len(Candidates[j.to[2]]) \/ (~Exists(t) /\ t = j.from)
     THEN End(p)
     ELSE job' = [job EXCEPT ![p] =
            IF Exists(t) THEN NextTry(j)
            ELSE IF j.op = "import" THEN [j EXCEPT !.to = t, !.mode = "create", !.pc = "open"]
            ELSE [j EXCEPT !.to = t, !.pc = CopyEntry(j.from, t, j.mode)]]
  /\ NoDisk

(* copySingle, "Replace" in one root: stat the target, delete it first.     *)
Clear(p) ==
  /\ At(p, "clear")
  /\ Go(p, IF Exists(job[p].to) THEN "clearing" ELSE "check")
  /\ NoDisk

Clearing(p) ==
  LET to == job[p].to IN
  /\ At(p, "clearing")
  /\ \/ Exists(to) /\ Put(to, Nothing) /\ Go(p, "check")
     \/ ~Exists(to) /\ End(p) /\ UNCHANGED disk
     \/ Fault("delete") /\ Exists(to) /\ End(p)
        /\ (UNCHANGED disk \/ HalfDeleted(to))
  /\ OnlyDisk

(* The backend's own look at the target, in copy and in move.               *)
RefusesNothing(j) == ~ToDirect(j) /\ ~Exists(j.from)   \* mutant: target not looked at
Refuses(j) == Exists(j.to) \/ (j.op # "rename" /\ ~ToDirect(j) /\ ~Exists(j.from))

Check(p) ==
  LET j == job[p] IN
  /\ At(p, "check")
  /\ IF Refuses(j) THEN End(p)
     ELSE Go(p, CASE j.op = "rename" -> "rename"
                  [] j.op # "rename" /\ (ToDirect(j) \/ IsDir(j.from)) -> "blit"
                  [] OTHER -> "open")
  /\ NoDisk

(* receive looks at the target, the cross-root copy at its source.          *)
Stat(p) ==
  LET j == job[p] IN
  /\ At(p, "stat")
  /\ IF j.op = "upload"
     THEN IF IsDir(j.to) \/ (Exists(j.to) /\ j.mode = "create") THEN End(p)
          ELSE job' = [job EXCEPT ![p] =
                 [j EXCEPT !.pc = "open",
                           !.mode = IF Exists(j.to) THEN "replace" ELSE "create",
                           !.old = IF Exists(j.to) /\ disk[j.to].whole
                                   THEN disk[j.to].c ELSE Nothing]]
     ELSE IF Exists(j.from) THEN Go(p, IF IsDir(j.from) THEN "blit" ELSE "open") ELSE End(p)
  /\ NoDisk

-----------------------------------------------------------------------------
(* Copying in place: File.copy in a direct root, and every folder, child by *)
(* child.                                                                   *)

AfterCopy(p) == IF job[p].op = "copy" THEN End(p) ELSE Go(p, "delSource")

(* A target that has appeared since Check: a file is truncated, a folder    *)
(* goes into a folder (SAF refuses that in one root); a file and a folder   *)
(* refuse each other.                                                       *)
Blit(p) ==
  LET j == job[p]
      dir == IsDir(j.from)
      refused == Exists(j.to) /\ (IsDir(j.to) # dir
                                   \/ (dir /\ SameRoot(j.from, j.to) /\ ~ToDirect(j))) IN
  /\ At(p, "blit")
  /\ \/ /\ Exists(j.from) /\ ~refused
        /\ \E by \in Prevails(p, j.to) : Put(j.to, Partial(dir, by))
        /\ job' = [job EXCEPT ![p].pc = "blitting", ![p].data = Read(j.from)]
     \/ (Fault("copy") \/ ~Exists(j.from) \/ refused) /\ End(p) /\ UNCHANGED disk
  /\ OnlyDisk

(* What was read is complete unless the source changed under the copy.  A   *)
(* file whose copy fails is removed again, a folder stays as far as it got. *)
Blitting(p) ==
  LET j == job[p]
      same == Exists(j.from) /\ Read(j.from) = j.data IN
  /\ At(p, "blitting")
  /\ \/ /\ \E whole \in (IF same THEN {j.data.whole} ELSE {FALSE, j.data.whole}) :
             IF Mine(p) THEN Put(j.to, [j.data EXCEPT !.whole = whole]) ELSE UNCHANGED disk
        /\ AfterCopy(p)
        /\ UNCHANGED litter
     \/ /\ Fault("copy")
        /\ IF Mine(p) THEN Put(j.to, IF j.data.dir THEN Partial(TRUE, Nothing) ELSE Nothing)
           ELSE UNCHANGED disk
        /\ litter' = (litter \/ (Fault("commit") /\ HasTemp(j)))
        /\ End(p)
  /\ UNCHANGED <<rows, events>>

-----------------------------------------------------------------------------
(* Write handles, for files.  On a direct root the bytes go to a temporary  *)
(* file beside the target, until commit renames it; on a SAF root they go   *)
(* to the target itself.                                                    *)

OpenInPlace(p) == Put(job[p].to, Partial(FALSE, p))   \* mutant: no temporary file
OpenTarget(p) ==
  LET to == job[p].to IN
  IF ToDirect(job[p]) THEN UNCHANGED disk
  ELSE \E by \in Prevails(p, to) : Put(to, Partial(FALSE, by))

(* A direct root asks File.exists, which says no of a folder; SAF cannot    *)
(* open one for writing.  On SAF a document that was created may still fail *)
(* to open, and stays, empty.                                               *)
Open(p) ==
  LET j == job[p]
      refused == IF ToDirect(j) THEN Creates(j) /\ Exists(j.to) /\ ~IsDir(j.to)
                 ELSE IsDir(j.to) \/ (Creates(j) /\ Exists(j.to)) IN
  /\ At(p, "open")
  /\ IF refused THEN End(p) /\ UNCHANGED disk
     ELSE \/ /\ OpenTarget(p)
             /\ job' = [job EXCEPT ![p].pc = "fill", ![p].fresh = ~Exists(j.to)]
          \/ /\ Fault("open") /\ ~ToDirect(j)
             /\ IF Exists(j.to) THEN UNCHANGED disk ELSE Put(j.to, Partial(FALSE, Nothing))
             /\ End(p)
  /\ OnlyDisk

(* The bytes are streamed; a stream may break, or end early unnoticed (that *)
(* of an upload breaks: it is a request with a length or an end marker).    *)
Fill(p) ==
  LET j == job[p]
      reads == j.from # Nothing IN
  /\ At(p, "fill")
  /\ \/ /\ reads => Exists(j.from)
        /\ \E short \in (IF Fault("short") /\ j.op # "upload" THEN BOOLEAN ELSE {FALSE}) :
             job' = [job EXCEPT ![p].pc = "commit", ![p].short = short,
                                ![p].data = IF reads THEN Read(j.from) ELSE @]
     \/ (Fault("stream") \/ (reads /\ ~Exists(j.from))) /\ Go(p, "abort")
  /\ NoDisk

(* A picker or a SAF provider may not tell the size of a file, and then      *)
(* nothing is compared.                                                     *)
MayLackSize(j) == IF j.from = Nothing THEN TRUE ELSE ~Direct(j.from, j.to)
Written(p) == IF job[p].op \in {"import", "upload"} THEN End(p) ELSE AfterCopy(p)
AfterWriteUnverified(p) == Written(p)   \* mutant: the size is not compared
AfterWrite(p) ==
  \/ job[p].short /\ Go(p, "verify")
  \/ (IF job[p].short THEN MayLackSize(job[p]) ELSE TRUE) /\ Written(p)

(* A commit that fails leaves the handle finished: the abort that follows   *)
(* does nothing.  Renaming a file over a folder always fails.               *)
Commit(p) ==
  LET j == job[p]
      blocked == ToDirect(j) /\ IsDir(j.to) IN
  /\ At(p, "commit")
  /\ \/ /\ ~blocked
        /\ IF ToDirect(j) \/ Mine(p)
           THEN Put(j.to, [j.data EXCEPT !.whole = @ /\ ~j.short]) ELSE UNCHANGED disk
        /\ AfterWrite(p)
        /\ UNCHANGED litter
     \/ /\ blocked \/ Fault("commit")
        /\ IF ~ToDirect(j) /\ Mine(p) THEN Put(j.to, Partial(FALSE, Nothing)) ELSE UNCHANGED disk
        /\ litter' = (litter \/ ToDirect(j))
        /\ End(p)
  /\ UNCHANGED <<rows, events>>

(* The size is not the expected one: the copy is deleted.                   *)
Verify(p) ==
  /\ At(p, "verify")
  /\ \/ Put(job[p].to, Nothing)
     \/ Fault("delete") /\ UNCHANGED disk
  /\ End(p)
  /\ OnlyDisk

Abort(p) ==
  LET j == job[p] IN
  /\ At(p, "abort")
  /\ \E cleaned \in {TRUE} \cup (IF Fault("cleanup") THEN {FALSE} ELSE {}) :
       /\ IF ~ToDirect(j) /\ Mine(p)
          THEN Put(j.to, IF j.fresh /\ cleaned THEN Nothing ELSE Partial(FALSE, Nothing))
          ELSE UNCHANGED disk
       /\ litter' = (litter \/ (ToDirect(j) /\ ~cleaned))
  /\ End(p)
  /\ UNCHANGED <<rows, events>>

-----------------------------------------------------------------------------
(* After the copy: the source, the recycle row.                             *)

(* A file that is being written when it is renamed stays incomplete here.   *)
Rename(p) ==
  LET j == job[p] IN
  /\ At(p, "rename")
  /\ IF Exists(j.from) /\ (ToDirect(j) \/ ~Exists(j.to))
     THEN \/ disk' = [disk EXCEPT ![j.from] = Nothing, ![j.to] = Read(j.from)]
          \/ Fault("commit") /\ UNCHANGED disk
     ELSE UNCHANGED disk
  /\ End(p)
  /\ OnlyDisk

AfterDeleteRowStays(p) ==   \* mutant: restore and purge forget the row
  IF job[p].op = "bin" THEN Go(p, "addRow") ELSE End(p)
AfterDelete(p) ==
  CASE job[p].op = "move" -> End(p)
    [] job[p].op = "bin" -> Go(p, "addRow")
    [] OTHER -> Go(p, "dropRow")

DeleteSource(p) ==
  LET j == job[p] IN
  /\ At(p, "delSource")
  /\ \/ /\ Exists(j.from)
        /\ Put(j.from, Nothing)
        /\ AfterDelete(p)
     \/ ~Exists(j.from) /\ End(p) /\ UNCHANGED disk
     \/ Fault("delete") /\ Exists(j.from) /\ End(p)
        /\ (UNCHANGED disk \/ HalfDeleted(j.from))
  /\ OnlyDisk

SlotPath(j) == j.to   \* mutant: the slot instead of the place to restore to
OriginalPath(j) == j.from

AddRow(p) ==
  /\ At(p, "addRow")
  /\ \/ rows' = [rows EXCEPT ![job[p].to] = OriginalPath(job[p])]
     \/ Fault("row") /\ UNCHANGED rows
  /\ End(p)
  /\ UNCHANGED <<disk, litter, events>>

DropRow(p) ==
  /\ At(p, "dropRow")
  /\ \/ rows' = [rows EXCEPT ![job[p].from] = Nothing]
     \/ Fault("row") /\ UNCHANGED rows
  /\ End(p)
  /\ UNCHANGED <<disk, litter, events>>

(* The process dies, screens and server with it.                            *)
Crash ==
  /\ Fault("crash")
  /\ events <= MaxEvents
  /\ events' = events + 1
  /\ job' = [p \in Jobs |-> Idle]
  /\ disk' = [x \in Paths |-> IF Exists(x) THEN [disk[x] EXCEPT !.by = Nothing] ELSE Nothing]
  /\ litter' = (litter \/ \E p \in Jobs : HasTemp(job[p]))
  /\ crossed' = {}
  /\ UNCHANGED rows

-----------------------------------------------------------------------------
Request(p) ==
  /\ events < MaxEvents
  /\ \/ \E op \in {"copy", "move"}, from \in UserPaths, d \in Dirs, mode \in Modes :
          StartTransfer(p, op, from, d, mode)
     \/ \E from \in UserPaths, id \in Ids : StartBin(p, from, id)
     \/ \E id \in Ids : StartRestore(p, id) \/ StartPurge(p, id)
     \/ \E to \in UserPaths, c \in Contents, mode \in Modes :
          StartImport(p, to, c, mode) \/ StartUpload(p, to, c, mode)
     \/ \E from \in UserPaths, name \in Names : StartRename(p, from, name)

Step(p) ==
  \/ Resolve(p) \/ Clear(p) \/ Clearing(p) \/ Check(p) \/ Stat(p)
  \/ Blit(p) \/ Blitting(p)
  \/ Open(p) \/ Fill(p) \/ Commit(p) \/ Verify(p) \/ Abort(p)
  \/ Rename(p) \/ DeleteSource(p) \/ AddRow(p) \/ DropRow(p)
Progress(p) ==
  /\ Step(p)
  /\ crossed' = IF job'[p] = Idle THEN crossed \ {p} ELSE crossed

Next == (\E p \in Jobs : Request(p) \/ Progress(p)) \/ Crash

Spec == Init /\ [][Next]_vars

(* An awaited call returns sooner or later: every job that can step, does.  *)
FairSpec == Spec /\ \A p \in Jobs : WF_vars(Progress(p))
-----------------------------------------------------------------------------
(* Properties.                                                              *)

(* A job is asked to replace, or to delete for good, what stands at x.      *)
Condemns(p, x) ==
  \/ job[p].mode = "replace" /\ job[p].to = x
  \/ job[p].op = "purge" /\ job[p].from = x
Condemned ==
  {c \in Contents : \E p \in Jobs, x \in Paths : Exists(x) /\ disk[x].c = c /\ Condemns(p, x)}

(* The data-integrity motto: whatever fails and whenever the process dies,  *)
(* the last complete copy of a content goes only by a request to replace it *)
(* or to delete it for good.  Requests that race break it.                  *)
Vault == INSTANCE FileVault WITH held <- Held, condemned <- Condemned
KeepsEveryFile == Vault!Spec

(* What stands where a job that met another one writes.                     *)
Disputed ==
  {c \in Contents : \E p \in crossed : \E x \in Writes(job[p]) :
     Exists(x) /\ disk[x].c = c}

(* What a move deletes after a copy that fell short of a size nobody told.  *)
Unverified ==
  {c \in Contents : \E p \in Jobs :
     /\ At(p, "delSource") /\ job[p].short /\ MayLackSize(job[p])
     /\ Exists(job[p].from) /\ disk[job[p].from].c = c}

Excused == Condemned \cup Disputed \cup Unverified

(* The motto as the code keeps it: besides what is replaced or deleted on   *)
(* request, the last complete copy of a content goes only where two jobs    *)
(* meet on a path that one of them writes, or in a move from a storage that *)
(* tells no size, after a stream that ended early.                          *)
LessVault == INSTANCE FileVault WITH held <- Held, condemned <- Excused
KeepsUndisputed == LessVault!Spec

Listed ==
  {c \in Contents : \E x \in Paths :
     /\ Exists(x) /\ disk[x].c = c /\ disk[x].whole
     /\ x \in Ids => rows[x] # Nothing}

(* A content leaves all that a user can see, folders and recycle bin, only  *)
(* as above, or inside a delete that holds a complete copy of it in its     *)
(* recycle slot.                                                            *)
InBin(c) ==
  \E p \in Jobs : /\ job[p].op = "bin" /\ job[p].pc = "delSource"
                  /\ disk'[job[p].to] = Full(c)
HiddenOnlyInBin ==
  [][\A c \in Listed \ Listed' : c \in Excused \/ InBin(c)]_vars

(* DeleteItemsToRecycleBin "records restore metadata": what it hides, it    *)
(* goes on to list, as long as the process lives and the database works.    *)
DeletedIsListed ==
  [][\A c \in Listed \ Listed' :
       c \in Excused \/ \E p \in Jobs : job[p].op = "bin" /\ job'[p].pc = "addRow"]_vars

(* A row of the recycle bin loses its bytes only inside a restore or a      *)
(* permanent delete that goes on to remove the row, however many of them    *)
(* are at work on it.                                                       *)
RowsHaveBytes ==
  [][\A id \in Ids : (rows[id] # Nothing /\ Exists(id) /\ disk'[id] = Nothing) =>
       \E p \in Jobs : job'[p].pc = "dropRow" /\ job'[p].from = id]_vars

(* What is complete at a path is left alone by a job that was told to       *)
(* create or to keep both.                                                  *)
LeavesAlone(p) ==
  \A x \in UserPaths :
    (Exists(x) /\ disk[x].whole /\ job[p].to = x /\ job[p].mode # "replace"
       /\ job'[p] # job[p] /\ ~At(p, "delSource"))
    => disk'[x] = disk[x]

(* ImportFiles "resolves a free name first and then writes in `create`      *)
(* mode, so even a race can never overwrite something".  It can: the rename *)
(* that commits a write looks at nothing.                                   *)
ImportNeverOverwrites ==
  [][\A p \in Jobs : job[p].op = "import" => LeavesAlone(p)]_vars

(* A job that met no other on its paths leaves alone what it was not told   *)
(* to replace: the name that was free when it looked is free when it writes. *)
FreeNameStaysFree == [][\A p \in Jobs \ crossed : LeavesAlone(p)]_vars

(* An upload to a direct root over an existing file that met no other job   *)
(* there ends, whatever ends it, with the old file or the new, complete.    *)
OldOrNew ==
  [][\A p \in Jobs \ crossed :
       (job[p].op = "upload" /\ job[p].old # Nothing /\ ToDirect(job[p])
          /\ job'[p].pc = "idle") =>
       disk'[job[p].to] \in {Full(job[p].old), job[p].data}]_vars

(* After a failure or a cancellation no temporary file is left: abort       *)
(* "discards the write and cleans up any temp state".                       *)
NoTempLeft == ~litter

(* Every request ends.                                                      *)
RequestsEnd == \A p \in Jobs : job[p].pc # "idle" ~> job[p].pc = "idle"
=============================================================================
