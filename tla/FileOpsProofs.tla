--------------------------- MODULE FileOpsProofs ---------------------------
(* Theorems about FileOps, for any number of jobs, folders, roots, contents *)
(* and recycle slots, and for every choice of operations and faults.        *)
EXTENDS FileOps, TLAPS

-----------------------------------------------------------------------------
(* Type correctness.  TypeOK is not inductive: a job's path may be Nothing, *)
(* but not at a step that uses it.  Shape says which fields each operation  *)
(* and each step has.                                                       *)

Ends(j) ==
  /\ j.op \in {"copy", "move", "bin", "rename"} => j.from \in UserPaths
  /\ j.op \in {"restore", "purge"} => j.from \in Ids
  /\ j.op \in {"import", "upload"} => j.from = Nothing
  /\ j.op \in {"copy", "move", "restore", "import", "upload", "rename"} => j.to \in UserPaths
  /\ j.op = "bin" => j.to \in Ids

StepsOf(j) ==
  /\ j.op = "none" => j.pc = "idle"
  /\ j.pc = "idle" => j = Idle
  /\ j.op = "purge" => j.pc \in {"idle", "delSource", "dropRow"}
  /\ j.op = "rename" => j.pc \in {"idle", "check", "rename"}
  /\ j.op \in {"import", "upload"} =>
       j.pc \in {"idle", "resolve", "stat", "open", "fill", "commit", "verify", "abort"}
  /\ j.op \in {"bin", "restore"} => j.pc \notin {"clear", "clearing", "rename"}
  /\ j.op \in {"copy", "move"} => j.pc \notin {"rename", "addRow", "dropRow"}
  /\ j.op \in {"copy", "import"} => j.pc # "delSource"
  /\ j.pc \in {"clear", "clearing"} => j.mode = "replace"
  /\ j.pc = "resolve" => j.op \in {"copy", "move", "import"}
  /\ j.pc = "stat" => j.op \in {"copy", "move", "upload"}
  /\ j.pc = "addRow" => j.op = "bin"
  /\ j.pc = "dropRow" => j.op \in {"restore", "purge"}

Bytes(j) ==
  /\ j.data # Nothing => j.data \in Items /\ j.data.by = Nothing
  /\ j.op \in {"import", "upload"} \/ j.pc \in {"blitting", "commit", "verify"} =>
       j.data # Nothing

Shape(j) == Ends(j) /\ StepsOf(j) /\ Bytes(j)

TypeInv == TypeOK /\ \A p \in Jobs : Shape(job[p])

LEMMA IdleShape == Idle \in JobStates /\ Shape(Idle)
BY NothingAssumption
   DEF Idle, NewJob, JobStates, Kinds, Modes, Steps, Shape, Ends, StepsOf, Bytes, Paths

LEMMA FullIsItem ==
  ASSUME NEW c \in Contents
  PROVE  Full(c) \in Items /\ Full(c).by = Nothing
BY DEF Full, Items

LEMMA PartialIsItem ==
  ASSUME NEW dir \in BOOLEAN, NEW by \in Jobs \cup {Nothing}
  PROVE  Partial(dir, by) \in Items
BY DEF Partial, Items

LEMMA ReadIsItem ==
  ASSUME TypeOK, NEW x \in Paths, Exists(x)
  PROVE  Read(x) \in Items /\ Read(x).by = Nothing
BY DEF TypeOK, Exists, Read, Items

LEMMA PrevailsType ==
  ASSUME TypeOK, NEW p \in Jobs, NEW x \in Paths
  PROVE  Prevails(p, x) \subseteq Jobs \cup {Nothing}
BY DEF TypeOK, Prevails, Exists, Items

(* A job that changes keeps the type of job if its new state has the shape. *)
LEMMA SetJob ==
  ASSUME TypeInv, NEW p \in Jobs, NEW j \in JobStates, Shape(j),
         job' = [job EXCEPT ![p] = j]
  PROVE  job' \in [Jobs -> JobStates] /\ \A q \in Jobs : Shape(job'[q])
BY DEF TypeInv, TypeOK

LEMMA EndJob ==
  ASSUME TypeInv, NEW p \in Jobs, End(p)
  PROVE  job' \in [Jobs -> JobStates] /\ \A q \in Jobs : Shape(job'[q])
BY IdleShape, SetJob DEF End

LEMMA PutItem ==
  ASSUME TypeOK, NEW x, NEW item \in Items \cup {Nothing}, Put(x, item)
  PROVE  disk' \in [Paths -> Items \cup {Nothing}]
BY DEF TypeOK, Put

LEMMA GoOn ==
  ASSUME TypeInv, NEW p \in Jobs, NEW step \in Steps, Go(p, step),
         StepsOf([job[p] EXCEPT !.pc = step]), Bytes([job[p] EXCEPT !.pc = step])
  PROVE  job' \in [Jobs -> JobStates] /\ \A q \in Jobs : Shape(job'[q])
<1> DEFINE j == [job[p] EXCEPT !.pc = step]
<1>1. job[p] \in JobStates /\ Shape(job[p])
  BY DEF TypeInv, TypeOK
<1>2. j \in JobStates
  BY <1>1 DEF JobStates
<1>3. Ends(j)
  BY <1>1 DEF Shape, Ends, JobStates
<1>4. Shape(j)
  BY <1>3 DEF Shape
<1>5. job' = [job EXCEPT ![p] = j]
  BY DEF Go
<1> QED
  BY <1>2, <1>4, <1>5, SetJob

LEMMA BeginType ==
  ASSUME TypeInv, NEW p \in Jobs, NEW j \in JobStates, Shape(j), Begin(p, j)
  PROVE  TypeInv'
<1>1. job' \in [Jobs -> JobStates] /\ \A q \in Jobs : Shape(job'[q])
  BY SetJob DEF Begin
<1>2. events' \in Nat
  BY DEF Begin, TypeInv, TypeOK
<1>3. crossed' \subseteq Jobs
  BY DEF Begin, Met, TypeInv, TypeOK
<1> QED
  BY <1>1, <1>2, <1>3 DEF Begin, TypeInv, TypeOK

LEMMA NewJobType ==
  ASSUME NEW op \in Kinds, NEW from \in Paths \cup {Nothing}, NEW to \in Paths \cup {Nothing},
         NEW mode \in Modes, NEW data \in Items \cup {Nothing}, NEW step \in Steps
  PROVE  NewJob(op, from, to, mode, data, step) \in JobStates
BY DEF NewJob, JobStates

LEMMA RequestType ==
  ASSUME TypeInv, NEW p \in Jobs, Request(p)
  PROVE  TypeInv'
<1> USE DEF Modes, Kinds, Steps, Paths
<1>1. ASSUME NEW op \in {"copy", "move"}, NEW from \in UserPaths, NEW d \in Dirs,
             NEW mode \in Modes, StartTransfer(p, op, from, d, mode)
      PROVE  TypeInv'
  <2> DEFINE to == <<d, from[2]>>
             step == IF mode = "keepBoth" THEN "resolve" ELSE CopyEntry(from, to, mode)
             j == NewJob(op, from, to, mode, Nothing, step)
  <2>1. to \in UserPaths
    BY <1>1 DEF UserPaths
  <2>2. /\ step \in {"resolve", "stat", "clear", "check"}
        /\ step = "clear" => mode = "replace"
    BY <1>1 DEF CopyEntry
  <2>3. Begin(p, j)
    BY <1>1 DEF StartTransfer
  <2> HIDE DEF to, step
  <2>4. j \in JobStates
    BY <1>1, <2>1, <2>2, NewJobType
  <2>5. Shape(j)
    BY <1>1, <2>1, <2>2 DEF Shape, Ends, StepsOf, Bytes, NewJob
  <2> QED
    BY <2>3, <2>4, <2>5, BeginType
<1>2. ASSUME NEW from \in UserPaths, NEW id \in Ids, StartBin(p, from, id)
      PROVE  TypeInv'
  <2> DEFINE j == NewJob("bin", from, id, "create", Nothing, "check")
  <2>1. j \in JobStates
    BY <1>2, NewJobType
  <2>2. Shape(j)
    BY <1>2 DEF Shape, Ends, StepsOf, Bytes, NewJob
  <2> QED
    BY <1>2, <2>1, <2>2, BeginType DEF StartBin
<1>3. ASSUME NEW id \in Ids, StartRestore(p, id)
      PROVE  TypeInv'
  <2> DEFINE j == NewJob("restore", id, rows[id], "create", Nothing, "check")
  <2>1. rows[id] \in UserPaths
    BY <1>3 DEF StartRestore, TypeInv, TypeOK
  <2>2. j \in JobStates
    BY <1>3, <2>1, NewJobType
  <2>3. Shape(j)
    BY <1>3, <2>1 DEF Shape, Ends, StepsOf, Bytes, NewJob
  <2> QED
    BY <1>3, <2>2, <2>3, BeginType DEF StartRestore
<1>4. ASSUME NEW id \in Ids, StartPurge(p, id)
      PROVE  TypeInv'
  <2> DEFINE j == NewJob("purge", id, Nothing, "create", Nothing, "delSource")
  <2>1. j \in JobStates
    BY <1>4, NewJobType
  <2>2. Shape(j)
    BY <1>4 DEF Shape, Ends, StepsOf, Bytes, NewJob
  <2> QED
    BY <1>4, <2>1, <2>2, BeginType DEF StartPurge
<1>5. ASSUME NEW to \in UserPaths, NEW c \in Contents, NEW mode \in Modes,
             StartImport(p, to, c, mode)
      PROVE  TypeInv'
  <2> DEFINE step == IF mode = "keepBoth" THEN "resolve" ELSE "open"
             j == NewJob("import", Nothing, to, mode, Full(c), step)
  <2>1. step \in {"resolve", "open"}
    OBVIOUS
  <2>2. Begin(p, j)
    BY <1>5 DEF StartImport
  <2> HIDE DEF step
  <2>3. j \in JobStates
    BY <1>5, <2>1, FullIsItem, NewJobType
  <2>4. Shape(j)
    BY <1>5, <2>1, FullIsItem, NothingAssumption DEF Shape, Ends, StepsOf, Bytes, NewJob
  <2> QED
    BY <2>2, <2>3, <2>4, BeginType
<1>6. ASSUME NEW to \in UserPaths, NEW c \in Contents, NEW mode \in Modes,
             StartUpload(p, to, c, mode)
      PROVE  TypeInv'
  <2> DEFINE j == NewJob("upload", Nothing, to, mode, Full(c), "stat")
  <2>1. j \in JobStates
    BY <1>6, FullIsItem, NewJobType
  <2>2. Shape(j)
    BY <1>6, FullIsItem, NothingAssumption DEF Shape, Ends, StepsOf, Bytes, NewJob
  <2> QED
    BY <1>6, <2>1, <2>2, BeginType DEF StartUpload
<1>7. ASSUME NEW from \in UserPaths, NEW name \in Names, StartRename(p, from, name)
      PROVE  TypeInv'
  <2> DEFINE to == <<from[1], name>>
             step == IF Direct(from, from) THEN "check" ELSE "rename"
             j == NewJob("rename", from, to, "create", Nothing, step)
  <2>1. to \in UserPaths
    BY <1>7 DEF UserPaths
  <2>2. step \in {"check", "rename"}
    OBVIOUS
  <2>3. Begin(p, j)
    BY <1>7 DEF StartRename
  <2> HIDE DEF to, step
  <2>4. j \in JobStates
    BY <1>7, <2>1, <2>2, NewJobType
  <2>5. Shape(j)
    BY <1>7, <2>1, <2>2 DEF Shape, Ends, StepsOf, Bytes, NewJob
  <2> QED
    BY <2>3, <2>4, <2>5, BeginType
<1> QED
  BY <1>1, <1>2, <1>3, <1>4, <1>5, <1>6, <1>7 DEF Request

LEMMA NoDiskType ==
  ASSUME TypeInv, NoDisk, crossed' \subseteq Jobs, job' \in [Jobs -> JobStates],
         \A q \in Jobs : Shape(job'[q])
  PROVE  TypeInv'
BY DEF TypeInv, TypeOK, NoDisk

LEMMA OnlyDiskType ==
  ASSUME TypeInv, OnlyDisk, crossed' \subseteq Jobs, disk' \in [Paths -> Items \cup {Nothing}],
         job' \in [Jobs -> JobStates], \A q \in Jobs : Shape(job'[q])
  PROVE  TypeInv'
BY DEF TypeInv, TypeOK, OnlyDisk

LEMMA HalfDeletedType ==
  ASSUME TypeOK, NEW x \in Paths, HalfDeleted(x)
  PROVE  disk' \in [Paths -> Items \cup {Nothing}]
<1>1. [disk[x] EXCEPT !.whole = FALSE] \in Items
  BY DEF HalfDeleted, IsDir, Exists, TypeOK, Items
<1> QED
  BY <1>1, PutItem DEF HalfDeleted

(* After a copy: a move, a delete and a restore go on to their source.      *)
LEMMA AfterCopyType ==
  ASSUME TypeInv, NEW p \in Jobs, AfterCopy(p),
         job[p].op \in {"copy", "move", "bin", "restore"}
  PROVE  job' \in [Jobs -> JobStates] /\ \A q \in Jobs : Shape(job'[q])
<1>1. job[p] \in JobStates /\ Shape(job[p])
  BY DEF TypeInv, TypeOK
<1>2. CASE job[p].op = "copy"
  BY <1>2, EndJob DEF AfterCopy
<1>3. CASE job[p].op # "copy"
  <2>1. Go(p, "delSource")
    BY <1>3 DEF AfterCopy
  <2>2. StepsOf([job[p] EXCEPT !.pc = "delSource"]) /\ Bytes([job[p] EXCEPT !.pc = "delSource"])
    BY <1>1, <1>3 DEF Shape, StepsOf, Bytes, JobStates
  <2> QED
    BY <2>1, <2>2, GoOn DEF Steps
<1> QED
  BY <1>2, <1>3

LEMMA ResolveType ==
  ASSUME TypeInv, NEW p \in Jobs, Resolve(p), crossed' \subseteq Jobs
  PROVE  TypeInv'
<1> DEFINE j == job[p]
           names == Candidates[j.to[2]]
           t == <<j.to[1], names[j.k]>>
<1>1. j \in JobStates /\ Shape(j) /\ j.pc = "resolve"
  BY DEF TypeInv, TypeOK, Resolve, At
<1>2. j.op \in {"copy", "move", "import"} /\ j.to \in UserPaths
  BY <1>1 DEF Shape, StepsOf, Ends
<1>3. names \in Seq(Names) /\ j.k \in Nat \ {0}
  BY <1>1, <1>2, CandidatesAssumption DEF UserPaths, JobStates
<1>4. CASE End(p)
  BY <1>4, EndJob, NoDiskType DEF Resolve
<1>5. CASE ~End(p)
  <2>1. j.k <= Len(names)
    BY <1>3, <1>5 DEF Resolve
  <2>2. t \in UserPaths
    BY <1>2, <1>3, <2>1 DEF UserPaths
  <2> DEFINE next == IF Exists(t) THEN NextTry(j)
                     ELSE IF j.op = "import"
                     THEN [j EXCEPT !.to = t, !.mode = "create", !.pc = "open"]
                     ELSE [j EXCEPT !.to = t, !.pc = CopyEntry(j.from, t, j.mode)]
  <2>3. job' = [job EXCEPT ![p] = next]
    BY <1>5 DEF Resolve
  <2> HIDE DEF t
  <2>4. CASE Exists(t)
    <3>1. NextTry(j) \in JobStates
      BY <1>1, <1>3 DEF NextTry, JobStates
    <3>2. Shape(NextTry(j))
      BY <1>1 DEF NextTry, JobStates, Shape, Ends, StepsOf, Bytes
    <3> QED
      BY <2>3, <2>4, <3>1, <3>2, SetJob, NoDiskType DEF Resolve
  <2>5. CASE ~Exists(t) /\ j.op = "import"
    <3> DEFINE n == [j EXCEPT !.to = t, !.mode = "create", !.pc = "open"]
    <3>1. n \in JobStates
      BY <1>1, <2>2 DEF JobStates, Modes, Steps, Paths
    <3>2. Shape(n)
      BY <1>1, <2>2, <2>5 DEF JobStates, Shape, Ends, StepsOf, Bytes
    <3> QED
      BY <2>3, <2>5, <3>1, <3>2, SetJob, NoDiskType DEF Resolve
  <2>6. CASE ~Exists(t) /\ j.op # "import"
    <3> DEFINE step == CopyEntry(j.from, t, j.mode)
               n == [j EXCEPT !.to = t, !.pc = step]
    <3>1. step \in {"stat", "clear", "check"} /\ (step = "clear" => j.mode = "replace")
      BY DEF CopyEntry
    <3> HIDE DEF step
    <3>2. n \in JobStates
      BY <1>1, <2>2, <3>1 DEF JobStates, Steps, Paths
    <3>3. Shape(n)
      BY <1>1, <1>2, <2>2, <2>6, <3>1 DEF JobStates, Shape, Ends, StepsOf, Bytes
    <3>4. job' = [job EXCEPT ![p] = n]
      BY <2>3, <2>6 DEF step
    <3> QED
      BY <3>2, <3>3, <3>4, SetJob, NoDiskType DEF Resolve
  <2> QED
    BY <2>4, <2>5, <2>6
<1> QED
  BY <1>4, <1>5

LEMMA ClearType ==
  ASSUME TypeInv, NEW p \in Jobs, Clear(p) \/ Clearing(p), crossed' \subseteq Jobs
  PROVE  TypeInv'
<1>1. job[p] \in JobStates /\ Shape(job[p])
  BY DEF TypeInv, TypeOK
<1>2. job[p].pc \in {"clear", "clearing"} /\ job[p].op \in {"copy", "move"}
  BY <1>1 DEF Clear, Clearing, At, Shape, StepsOf, JobStates, Kinds
<1>3. job[p].to \in Paths
  BY <1>1, <1>2 DEF Shape, Ends, Paths
<1>4. ASSUME NEW step \in {"clearing", "check"}, Go(p, step)
      PROVE  job' \in [Jobs -> JobStates] /\ \A q \in Jobs : Shape(job'[q])
  <2>1. StepsOf([job[p] EXCEPT !.pc = step]) /\ Bytes([job[p] EXCEPT !.pc = step])
    BY <1>1, <1>2 DEF Shape, StepsOf, Bytes, JobStates
  <2> QED
    BY <1>4, <2>1, GoOn DEF Steps
<1>5. CASE Clear(p)
  BY <1>4, <1>5, NoDiskType DEF Clear
<1>6. CASE Clearing(p)
  <2>1. disk' \in [Paths -> Items \cup {Nothing}]
    BY <1>3, <1>6, PutItem, HalfDeletedType DEF Clearing, TypeInv, TypeOK
  <2>2. job' \in [Jobs -> JobStates] /\ \A q \in Jobs : Shape(job'[q])
    BY <1>4, <1>6, EndJob DEF Clearing
  <2> QED
    BY <1>6, <2>1, <2>2, OnlyDiskType DEF Clearing
<1> QED
  BY <1>5, <1>6

LEMMA CheckType ==
  ASSUME TypeInv, NEW p \in Jobs, Check(p), crossed' \subseteq Jobs
  PROVE  TypeInv'
<1>1. job[p] \in JobStates /\ Shape(job[p]) /\ job[p].pc = "check"
  BY DEF TypeInv, TypeOK, Check, At
<1>2. CASE End(p)
  BY <1>2, EndJob, NoDiskType DEF Check
<1>3. ASSUME NEW step \in {"rename", "blit", "open"}, Go(p, step),
             job[p].op = "rename" <=> step = "rename"
      PROVE  TypeInv'
  <2>1. StepsOf([job[p] EXCEPT !.pc = step]) /\ Bytes([job[p] EXCEPT !.pc = step])
    BY <1>1, <1>3 DEF Shape, StepsOf, Bytes, JobStates
  <2> QED
    BY <1>3, <2>1, GoOn, NoDiskType DEF Check, Steps
<1> QED
  BY <1>2, <1>3 DEF Check

LEMMA StatType ==
  ASSUME TypeInv, NEW p \in Jobs, Stat(p), crossed' \subseteq Jobs
  PROVE  TypeInv'
<1> DEFINE j == job[p]
<1>1. j \in JobStates /\ Shape(j) /\ j.pc = "stat"
  BY DEF TypeInv, TypeOK, Stat, At
<1>2. j.op \in {"copy", "move", "upload"} /\ j.to \in Paths /\ j.from \in Paths \cup {Nothing}
  BY <1>1 DEF Shape, StepsOf, Ends, JobStates, Kinds, Paths
<1>3. CASE End(p)
  BY <1>3, EndJob, NoDiskType DEF Stat
<1>4. CASE j.op = "upload" /\ ~End(p)
  <2> DEFINE mode == IF Exists(j.to) THEN "replace" ELSE "create"
             old == IF Exists(j.to) /\ disk[j.to].whole THEN disk[j.to].c ELSE Nothing
             n == [j EXCEPT !.pc = "open", !.mode = mode, !.old = old]
  <2>1. mode \in Modes /\ old \in Contents \cup {Nothing}
    BY <1>2 DEF Modes, TypeInv, TypeOK, Exists, Items
  <2>2. job' = [job EXCEPT ![p] = n]
    BY <1>4 DEF Stat
  <2> HIDE DEF mode, old
  <2>3. n \in JobStates
    BY <1>1, <2>1 DEF JobStates, Steps
  <2>4. Shape(n)
    BY <1>1, <1>4 DEF JobStates, Shape, Ends, StepsOf, Bytes
  <2> QED
    BY <2>2, <2>3, <2>4, SetJob, NoDiskType DEF Stat
<1>5. ASSUME j.op # "upload", NEW step \in {"blit", "open"}, Go(p, step)
      PROVE  TypeInv'
  <2>1. StepsOf([job[p] EXCEPT !.pc = step]) /\ Bytes([job[p] EXCEPT !.pc = step])
    BY <1>1, <1>2, <1>5 DEF Shape, StepsOf, Bytes, JobStates
  <2> QED
    BY <1>5, <2>1, GoOn, NoDiskType DEF Stat, Steps
<1> QED
  BY <1>3, <1>4, <1>5 DEF Stat

LEMMA BlitType ==
  ASSUME TypeInv, NEW p \in Jobs, Blit(p), crossed' \subseteq Jobs
  PROVE  TypeInv'
<1> DEFINE j == job[p]
<1>1. j \in JobStates /\ Shape(j) /\ j.pc = "blit"
  BY DEF TypeInv, TypeOK, Blit, At
<1>2. j.op \in {"copy", "move", "bin", "restore"} /\ j.from \in Paths /\ j.to \in Paths
  BY <1>1 DEF Shape, StepsOf, Ends, JobStates, Kinds, Paths
<1>3. CASE End(p) /\ UNCHANGED disk
  BY <1>3, EndJob, OnlyDiskType DEF Blit, TypeInv, TypeOK
<1>4. CASE ~(End(p) /\ UNCHANGED disk)
  <2> DEFINE n == [j EXCEPT !.pc = "blitting", !.data = Read(j.from)]
  <2>1. Read(j.from) \in Items /\ Read(j.from).by = Nothing
    BY <1>2, <1>4, ReadIsItem DEF Blit, TypeInv
  <2>2. job' = [job EXCEPT ![p] = n]
    BY <1>4 DEF Blit
  <2>3. n \in JobStates
    BY <1>1, <2>1 DEF JobStates, Steps
  <2>4. Shape(n)
    BY <1>1, <1>2, <2>1, NothingAssumption DEF JobStates, Shape, Ends, StepsOf, Bytes
  <2>5. IsDir(j.from) \in BOOLEAN
    BY <1>2 DEF IsDir, Exists, TypeInv, TypeOK, Items
  <2>6. disk' \in [Paths -> Items \cup {Nothing}]
    BY <1>2, <1>4, <2>5, PrevailsType, PartialIsItem, PutItem DEF Blit, TypeInv
  <2> QED
    BY <2>2, <2>3, <2>4, <2>6, SetJob, OnlyDiskType DEF Blit
<1> QED
  BY <1>3, <1>4

LEMMA BlittingType ==
  ASSUME TypeInv, NEW p \in Jobs, Blitting(p), crossed' \subseteq Jobs
  PROVE  TypeInv'
<1> DEFINE j == job[p]
<1>1. j \in JobStates /\ Shape(j) /\ j.pc = "blitting"
  BY DEF TypeInv, TypeOK, Blitting, At
<1>2. j.op \in {"copy", "move", "bin", "restore"} /\ j.data \in Items
  BY <1>1 DEF Shape, StepsOf, Bytes, JobStates, Kinds
<1>3. job' \in [Jobs -> JobStates] /\ \A q \in Jobs : Shape(job'[q])
  BY <1>2, AfterCopyType, EndJob DEF Blitting
<1>4. \A whole \in BOOLEAN : [j.data EXCEPT !.whole = whole] \in Items
  BY <1>2 DEF Items
<1>5. j.data.whole \in BOOLEAN
  BY <1>2 DEF Items
<1>6. disk' \in [Paths -> Items \cup {Nothing}]
  <2>1. ASSUME NEW whole \in BOOLEAN, Put(j.to, [j.data EXCEPT !.whole = whole])
        PROVE  disk' \in [Paths -> Items \cup {Nothing}]
    BY <1>4, <2>1, PutItem DEF TypeInv
  <2>2. ASSUME Put(j.to, IF j.data.dir THEN Partial(TRUE, Nothing) ELSE Nothing)
        PROVE  disk' \in [Paths -> Items \cup {Nothing}]
    BY <2>2, PartialIsItem, PutItem DEF TypeInv
  <2>3. UNCHANGED disk => disk' \in [Paths -> Items \cup {Nothing}]
    BY DEF TypeInv, TypeOK
  <2> QED
    BY <1>5, <2>1, <2>2, <2>3 DEF Blitting
<1>7. litter' \in BOOLEAN
  BY DEF Blitting, TypeInv, TypeOK
<1> QED
  BY <1>3, <1>6, <1>7 DEF Blitting, TypeInv, TypeOK

LEMMA OpenType ==
  ASSUME TypeInv, NEW p \in Jobs, Open(p), crossed' \subseteq Jobs
  PROVE  TypeInv'
<1> DEFINE j == job[p]
<1>1. j \in JobStates /\ Shape(j) /\ j.pc = "open"
  BY DEF TypeInv, TypeOK, Open, At
<1>2. j.to \in Paths
  BY <1>1 DEF Shape, StepsOf, Ends, JobStates, Kinds, Paths
<1>3. \A by \in Prevails(p, j.to) : Partial(FALSE, by) \in Items
  BY <1>2, PartialIsItem, PrevailsType DEF TypeInv
<1>4. CASE End(p)
  <2>1. disk' \in [Paths -> Items \cup {Nothing}]
    BY <1>4, <1>3, PartialIsItem, PutItem DEF Open, OpenTarget, TypeInv, TypeOK
  <2> QED
    BY <1>4, <2>1, EndJob, OnlyDiskType DEF Open
<1>5. CASE ~End(p)
  <2> DEFINE fresh == ~Exists(j.to)
             n == [j EXCEPT !.pc = "fill", !.fresh = fresh]
  <2>1. fresh \in BOOLEAN
    BY DEF Exists
  <2>2. job' = [job EXCEPT ![p] = n]
    BY <1>5 DEF Open
  <2> HIDE DEF fresh
  <2>3. n \in JobStates
    BY <1>1, <2>1 DEF JobStates, Steps
  <2>4. Shape(n)
    BY <1>1 DEF JobStates, Shape, Ends, StepsOf, Bytes
  <2>5. disk' \in [Paths -> Items \cup {Nothing}]
    BY <1>5, <1>3, PutItem DEF Open, OpenTarget, TypeInv, TypeOK
  <2> QED
    BY <2>2, <2>3, <2>4, <2>5, SetJob, OnlyDiskType DEF Open
<1> QED
  BY <1>4, <1>5

LEMMA FillType ==
  ASSUME TypeInv, NEW p \in Jobs, Fill(p), crossed' \subseteq Jobs
  PROVE  TypeInv'
<1> DEFINE j == job[p]
           reads == j.from # Nothing
<1>1. j \in JobStates /\ Shape(j) /\ j.pc = "fill"
  BY DEF TypeInv, TypeOK, Fill, At
<1>2. ASSUME Go(p, "abort")
      PROVE  TypeInv'
  <2>1. StepsOf([job[p] EXCEPT !.pc = "abort"]) /\ Bytes([job[p] EXCEPT !.pc = "abort"])
    BY <1>1 DEF Shape, StepsOf, Bytes, JobStates
  <2> QED
    BY <1>2, <2>1, GoOn, NoDiskType DEF Fill, Steps
<1>3. ASSUME NEW short \in BOOLEAN, reads => Exists(j.from),
             job' = [job EXCEPT ![p].pc = "commit", ![p].short = short,
                                ![p].data = IF reads THEN Read(j.from) ELSE @]
      PROVE  TypeInv'
  <2> DEFINE data == IF reads THEN Read(j.from) ELSE j.data
             n == [j EXCEPT !.pc = "commit", !.short = short, !.data = data]
  <2>1. data \in Items /\ data.by = Nothing
    <3>1. CASE reads
      <4>1. j.from \in Paths
        BY <1>1, <3>1 DEF JobStates
      <4> QED
        BY <1>3, <3>1, <4>1, ReadIsItem DEF TypeInv
    <3>2. CASE ~reads
      <4>1. j.op \in {"import", "upload"}
        BY <1>1, <3>2, NothingAssumption
           DEF Shape, Ends, StepsOf, JobStates, Kinds, Paths
      <4> QED
        BY <1>1, <3>2, <4>1 DEF Shape, Bytes
    <3> QED
      BY <3>1, <3>2
  <2>2. job' = [job EXCEPT ![p] = n]
    BY <1>3
  <2> HIDE DEF data
  <2>3. n \in JobStates
    BY <1>1, <1>3, <2>1 DEF JobStates, Steps
  <2>4. Shape(n)
    BY <1>1, <2>1, NothingAssumption DEF JobStates, Shape, Ends, StepsOf, Bytes
  <2> QED
    BY <2>2, <2>3, <2>4, SetJob, NoDiskType DEF Fill
<1> QED
  BY <1>2, <1>3 DEF Fill

LEMMA CommitType ==
  ASSUME TypeInv, NEW p \in Jobs, Commit(p), crossed' \subseteq Jobs
  PROVE  TypeInv'
<1> DEFINE j == job[p]
<1>1. j \in JobStates /\ Shape(j) /\ j.pc = "commit"
  BY DEF TypeInv, TypeOK, Commit, At
<1>2. j.op \in {"copy", "move", "bin", "restore", "import", "upload"} /\ j.data \in Items
  BY <1>1 DEF Shape, StepsOf, Bytes, JobStates, Kinds
<1>3. job' \in [Jobs -> JobStates] /\ \A q \in Jobs : Shape(job'[q])
  <2>1. CASE AfterWrite(p)
    <3>1. CASE Go(p, "verify")
      <4>1. StepsOf([j EXCEPT !.pc = "verify"]) /\ Bytes([j EXCEPT !.pc = "verify"])
        BY <1>1, <1>2 DEF Shape, StepsOf, Bytes, JobStates
      <4> QED
        BY <3>1, <4>1, GoOn DEF Steps
    <3>2. CASE End(p)
      BY <3>2, EndJob
    <3>3. CASE AfterCopy(p) /\ j.op \notin {"import", "upload"}
      BY <1>2, <3>3, AfterCopyType
    <3> QED
      BY <2>1, <3>1, <3>2, <3>3 DEF AfterWrite, Written
  <2>2. CASE End(p)
    BY <2>2, EndJob
  <2> QED
    BY <2>1, <2>2 DEF Commit
<1>4. [j.data EXCEPT !.whole = @ /\ ~j.short] \in Items
  BY <1>1, <1>2 DEF Items, JobStates
<1>5. disk' \in [Paths -> Items \cup {Nothing}]
  BY <1>4, PartialIsItem, PutItem DEF Commit, TypeInv, TypeOK
<1>6. litter' \in BOOLEAN
  BY DEF Commit, TypeInv, TypeOK
<1> QED
  BY <1>3, <1>5, <1>6 DEF Commit, TypeInv, TypeOK

LEMMA EndType ==
  ASSUME TypeInv, NEW p \in Jobs, crossed' \subseteq Jobs,
         Verify(p) \/ Abort(p) \/ AddRow(p) \/ DropRow(p)
  PROVE  TypeInv'
<1>1. job' \in [Jobs -> JobStates] /\ \A q \in Jobs : Shape(job'[q])
  BY EndJob DEF Verify, Abort, AddRow, DropRow
<1>2. disk' \in [Paths -> Items \cup {Nothing}]
  <2>1. CASE Verify(p)
    BY <2>1, PutItem DEF Verify, TypeInv, TypeOK
  <2>2. CASE Abort(p)
    BY <2>2, PartialIsItem, PutItem DEF Abort, TypeInv, TypeOK
  <2>3. CASE AddRow(p) \/ DropRow(p)
    BY <2>3 DEF AddRow, DropRow, TypeInv, TypeOK
  <2> QED
    BY <2>1, <2>2, <2>3
<1>3. rows' \in [Ids -> UserPaths \cup {Nothing}]
  <2>1. CASE Verify(p) \/ Abort(p)
    BY <2>1 DEF Verify, OnlyDisk, Abort, TypeInv, TypeOK
  <2>2. CASE AddRow(p)
    <3>1. job[p].from \in UserPaths
      BY <2>2 DEF AddRow, At, TypeInv, Shape, StepsOf, Ends
    <3> QED
      BY <2>2, <3>1 DEF AddRow, OriginalPath, TypeInv, TypeOK
  <2>3. CASE DropRow(p)
    BY <2>3 DEF DropRow, TypeInv, TypeOK
  <2> QED
    BY <2>1, <2>2, <2>3
<1>4. litter' \in BOOLEAN /\ events' \in Nat
  BY DEF Verify, OnlyDisk, Abort, AddRow, DropRow, TypeInv, TypeOK
<1> QED
  BY <1>1, <1>2, <1>3, <1>4 DEF TypeInv, TypeOK

LEMMA RenameType ==
  ASSUME TypeInv, NEW p \in Jobs, Rename(p), crossed' \subseteq Jobs
  PROVE  TypeInv'
<1>1. job' \in [Jobs -> JobStates] /\ \A q \in Jobs : Shape(job'[q])
  BY EndJob DEF Rename
<1>2. job[p].from \in Paths
  BY DEF Rename, At, TypeInv, TypeOK, Shape, StepsOf, Ends, JobStates, Kinds, Paths
<1>3. disk' \in [Paths -> Items \cup {Nothing}]
  BY <1>2, ReadIsItem DEF Rename, TypeInv, TypeOK
<1> QED
  BY <1>1, <1>3, OnlyDiskType DEF Rename

LEMMA DeleteSourceType ==
  ASSUME TypeInv, NEW p \in Jobs, DeleteSource(p), crossed' \subseteq Jobs
  PROVE  TypeInv'
<1>1. job[p] \in JobStates /\ Shape(job[p]) /\ job[p].pc = "delSource"
  BY DEF TypeInv, TypeOK, DeleteSource, At
<1>2. job[p].op \in {"move", "bin", "restore", "purge"} /\ job[p].from \in Paths
  BY <1>1 DEF Shape, StepsOf, Ends, JobStates, Kinds, Paths
<1>3. disk' \in [Paths -> Items \cup {Nothing}]
  BY <1>2, PutItem, HalfDeletedType DEF DeleteSource, TypeInv, TypeOK
<1>4. job' \in [Jobs -> JobStates] /\ \A q \in Jobs : Shape(job'[q])
  <2>1. CASE End(p)
    BY <2>1, EndJob
  <2>2. ASSUME NEW step \in {"addRow", "dropRow"}, Go(p, step),
               step = "addRow" <=> job[p].op = "bin", job[p].op # "move"
        PROVE  job' \in [Jobs -> JobStates] /\ \A q \in Jobs : Shape(job'[q])
    <3>1. StepsOf([job[p] EXCEPT !.pc = step]) /\ Bytes([job[p] EXCEPT !.pc = step])
      BY <1>1, <1>2, <2>2 DEF Shape, StepsOf, Bytes, JobStates
    <3> QED
      BY <2>2, <3>1, GoOn DEF Steps
  <2> QED
    BY <2>1, <2>2 DEF DeleteSource, AfterDelete
<1> QED
  BY <1>3, <1>4, OnlyDiskType DEF DeleteSource

LEMMA CrashType ==
  ASSUME TypeInv, Crash
  PROVE  TypeInv'
<1>1. \A x \in Paths : Exists(x) => [disk[x] EXCEPT !.by = Nothing] \in Items
  BY ReadIsItem DEF Read, TypeInv
<1>2. disk' \in [Paths -> Items \cup {Nothing}]
  BY <1>1 DEF Crash, TypeInv, TypeOK
<1>3. job' \in [Jobs -> JobStates] /\ \A q \in Jobs : Shape(job'[q])
  BY IdleShape DEF Crash
<1>4. litter' \in BOOLEAN /\ events' \in Nat
  BY DEF Crash, HasTemp, TypeInv, TypeOK
<1> QED
  BY <1>2, <1>3, <1>4 DEF Crash, TypeInv, TypeOK

LEMMA InitType == Init => TypeInv
<1> SUFFICES ASSUME Init PROVE TypeInv
  OBVIOUS
<1>1. PICK start \in Initials :
        /\ disk = [x \in Paths |->
             IF start.there[x] # Nothing THEN Full(start.there[x]) ELSE Nothing]
        /\ rows = start.rows
  BY DEF Init
<1>2. start.there \in [Paths -> Contents \cup {Nothing}]
        /\ start.rows \in [Ids -> UserPaths \cup {Nothing}]
  BY InitialAssumption
<1>3. disk \in [Paths -> Items \cup {Nothing}] /\ rows \in [Ids -> UserPaths \cup {Nothing}]
  BY <1>1, <1>2, FullIsItem
<1>4. job \in [Jobs -> JobStates] /\ \A p \in Jobs : Shape(job[p])
  BY IdleShape DEF Init
<1> QED
  BY <1>3, <1>4 DEF Init, TypeInv, TypeOK

LEMMA NextType == TypeInv /\ [Next]_vars => TypeInv'
<1> SUFFICES ASSUME TypeInv, [Next]_vars PROVE TypeInv'
  OBVIOUS
<1>1. CASE UNCHANGED vars
  BY <1>1 DEF vars, TypeInv, TypeOK
<1>2. ASSUME NEW p \in Jobs, Request(p)
      PROVE  TypeInv'
  BY <1>2, RequestType
<1>3. ASSUME NEW p \in Jobs, Progress(p)
      PROVE  TypeInv'
  <2>1. crossed' \subseteq Jobs
    BY <1>3 DEF Progress, TypeInv, TypeOK
  <2> QED
    BY <1>3, <2>1, ResolveType, ClearType, CheckType, StatType, BlitType, BlittingType,
       OpenType, FillType, CommitType, EndType, RenameType, DeleteSourceType DEF Progress, Step
<1>4. CASE Crash
  BY <1>4, CrashType
<1> QED
  BY <1>1, <1>2, <1>3, <1>4 DEF Next

(* Every state of every behaviour has the types of TypeOK: no step uses a   *)
(* path, an item or a row that is not there.                                *)
THEOREM Typing == Spec => []TypeOK
<1>1. TypeInv => TypeOK
  BY DEF TypeInv
<1> QED
  BY <1>1, InitType, NextType, PTL DEF Spec
=============================================================================
