---------------------------- MODULE FileOpsKeeps ----------------------------
(* What FileOps promises about files, for any number of jobs, folders,      *)
(* roots and contents, whatever the jobs use, whatever fails and whenever   *)
(* the process dies: it implements FileVault, except for what jobs that met *)
(* on a path dispute; what the user sees stays to be seen with the same     *)
(* exception; the recycle bin keeps the bytes of its rows; and a job that   *)
(* met no other overwrites nothing unasked.                                 *)
EXTENDS FileOpsProofs

(* The inductive invariant.  Disjoint: a job that met no other writes       *)
(* nothing that another uses and uses nothing that another writes, so its   *)
(* view of its source and target stays true between its own steps.  Local:  *)
(* what that view is, at each step.  Writers: an item that is being written *)
(* is the target of the job that writes it.                                 *)
Disjoint == \A p \in Jobs \ crossed, q \in Jobs : p # q => Apart(job[p], job[q])

Filling(j) ==
  j.pc = "blitting" \/ (j.pc \in {"fill", "commit", "abort"} /\ ~ToDirect(j))
WriterOf(x, q) == job[q].to = x /\ Filling(job[q])
Writers ==
  \A x \in Paths : Exists(x) /\ disk[x].by # Nothing => WriterOf(x, disk[x].by)

Moves(j) == j.op \in {"move", "bin", "restore"}
TwoEnds(j) ==
  /\ j.op = "move" => j.to[1] # j.from[1]
  /\ j.op = "rename" => j.to # j.from

Complete(x) == Exists(x) /\ disk[x].whole
Writing(p) == Mine(p) /\ ~disk[job[p].to].whole
Unchanged(p) == Exists(job[p].from) /\ Read(job[p].from) = job[p].data

(* The target a job is about to fill is free, or is its own unfinished copy. *)
TargetFree(p) ==
  LET j == job[p] IN
  /\ j.pc = "blit" => ~Exists(j.to)
  /\ j.pc = "stat" /\ j.op # "upload" /\ IsDir(j.from) => ~Exists(j.to)
  /\ j.pc \in {"stat", "open"} /\ j.mode = "keepBoth" => ~Exists(j.to)
  /\ j.pc \in {"fill", "commit"} /\ ToDirect(j) /\ j.mode # "replace" =>
       ~Exists(j.to) \/ IsDir(j.to)
  /\ j.pc \in {"fill", "commit", "abort"} /\ ~ToDirect(j) => Writing(p)
  /\ j.pc = "blitting" => Writing(p)
  /\ j.pc = "verify" => ~Complete(j.to)
  /\ j.pc = "rename" /\ ToDirect(j) => ~Exists(j.to)

(* The source is what was read; when its turn to go comes, so is the copy.  *)
SourceSafe(p) ==
  LET j == job[p] IN
  /\ j.pc = "blitting" => Unchanged(p) /\ j.from # j.to
  /\ j.pc = "commit" /\ Moves(j) => Unchanged(p)
  /\ j.pc = "delSource" /\ Moves(j) /\ Complete(j.from) =>
       \/ Complete(j.to) /\ disk[j.to].c = disk[j.from].c
       \/ j.short /\ MayLackSize(j)

Local(p) == TwoEnds(job[p]) /\ TargetFree(p) /\ SourceSafe(p)

KeepInv == TypeInv /\ Disjoint /\ Writers /\ \A p \in Jobs \ crossed : Local(p)

-----------------------------------------------------------------------------
(* Frames: what a step of one job leaves of the others.                     *)

LEMMA NothingApart == Nothing \notin Paths /\ Nothing \notin Items
BY NothingAssumption

LEMMA IdleFree == Writes(Idle) = {} /\ Uses(Idle) = {}
BY DEF Writes, Uses, Targets, Idle, NewJob

(* A job's source and target are where nobody else writes.                  *)
LEMMA EndsStay ==
  ASSUME TypeInv, Disjoint, NEW p \in Jobs \ crossed, NEW q \in Jobs, p # q,
         \A x \in Paths \ Writes(job[q]) : disk'[x] = disk[x],
         NEW x \in {job[p].from, job[p].to}, x \in Paths
  PROVE  disk'[x] = disk[x]
<1>1. x \in Uses(job[p])
  BY NothingApart DEF Uses, Targets
<1>2. x \notin Writes(job[q])
  BY <1>1 DEF Disjoint, Apart
<1> QED
  BY <1>2

LEMMA Quiet ==
  ASSUME TypeInv, Disjoint, NEW p \in Jobs \ crossed, NEW q \in Jobs, p # q,
         \A x \in Paths \ Writes(job[q]) : disk'[x] = disk[x],
         job'[p] = job[p], Local(p)
  PROVE  Local(p)'
<1> DEFINE j == job[p]
<1>1. j \in JobStates /\ Shape(j)
  BY DEF TypeInv, TypeOK
<1>2. j.from \in Paths => disk'[j.from] = disk[j.from]
  BY EndsStay
<1>3. j.to \in Paths => disk'[j.to] = disk[j.to]
  BY EndsStay
<1>4. TargetFree(p)'
  <2>1. j.pc \in {"blit", "fill", "commit", "abort", "blitting", "verify", "rename", "stat", "open"} =>
          j.to \in Paths
    BY <1>1 DEF Shape, StepsOf, Ends, JobStates, Kinds, Paths
  <2>2. j.pc = "stat" /\ j.op # "upload" => j.from \in Paths
    BY <1>1 DEF Shape, StepsOf, Ends, JobStates, Kinds, Paths
  <2> QED
    BY <1>2, <1>3, <2>1, <2>2
       DEF Local, TargetFree, Exists, IsDir, Complete, Writing, Mine, ToDirect
<1>5. SourceSafe(p)'
  <2>1. j.pc = "blitting" \/ Moves(j) => j.from \in Paths /\ j.to \in Paths
    BY <1>1 DEF Shape, StepsOf, Ends, JobStates, Kinds, Paths, Moves
  <2> QED
    BY <1>2, <1>3, <2>1
       DEF Local, SourceSafe, Unchanged, Exists, Read, Complete, Moves
<1> QED
  BY <1>4, <1>5 DEF Local, TwoEnds

(* A job that met no other is the only one that may be writing its target,  *)
(* and before it opens the target nobody is.                                *)
LEMMA OwnTarget ==
  ASSUME TypeInv, Disjoint, Writers, NEW p \in Jobs \ crossed, job[p].pc = "open",
         job[p].to \in Paths
  PROVE  Prevails(p, job[p].to) = {p}
<1> DEFINE x == job[p].to
           q == disk[x].by
<1> SUFFICES ASSUME Exists(x), q # Nothing
             PROVE  FALSE
  BY DEF Prevails
<1>1. q \in Jobs /\ WriterOf(x, q)
  BY DEF Writers, TypeInv, TypeOK, Exists, Items
<1>2. q # p
  BY <1>1 DEF WriterOf, Filling
<1>3. x \in Writes(job[q]) /\ x \in Uses(job[p])
  BY <1>1, NothingApart DEF WriterOf, Writes, Uses, Targets
<1> QED
  BY <1>1, <1>2, <1>3 DEF Disjoint, Apart

(* A job that goes on with the same source and target uses nothing new.     *)
LEMMA Shrinks ==
  ASSUME NEW i, NEW j, j.op = i.op, j.from = i.from, j.to = i.to, j.pc # "resolve"
  PROVE  Writes(j) \subseteq Writes(i) /\ Uses(j) \subseteq Uses(i)
BY DEF Writes, Uses, Targets

LEMMA ResolveShrinks ==
  ASSUME TypeInv, NEW p \in Jobs, Resolve(p)
  PROVE  /\ Writes(job'[p]) \subseteq Writes(job[p])
         /\ Uses(job'[p]) \subseteq Uses(job[p])
<1> DEFINE j == job[p]
           names == Candidates[j.to[2]]
           t == <<j.to[1], names[j.k]>>
<1>1. j \in JobStates /\ Shape(j) /\ j.pc = "resolve"
  BY DEF TypeInv, TypeOK, Resolve, At
<1>2. CASE End(p)
  <2>1. job'[p] = Idle
    BY <1>2 DEF End, TypeInv, TypeOK
  <2> QED
    BY <2>1, IdleFree
<1>3. CASE ~End(p)
  <2>1. j.to \in UserPaths
    BY <1>1 DEF Shape, StepsOf, Ends
  <2>2. names \in Seq(Names) /\ j.k \in Nat \ {0}
    BY <1>1, <2>1, CandidatesAssumption DEF UserPaths, JobStates
  <2>3. j.k \in DOMAIN names
    BY <1>3, <2>2 DEF Resolve
  <2>4. t \in Tries(j)
    BY <2>3 DEF Tries
  <2>5. \/ job'[p] = NextTry(j)
        \/ /\ job'[p].op = j.op /\ job'[p].from = j.from /\ job'[p].to = t
           /\ job'[p].pc # "resolve"
    <3> HIDE DEF t
    <3>1. \/ job' = [job EXCEPT ![p] = NextTry(j)]
          \/ job' = [job EXCEPT ![p] = [j EXCEPT !.to = t, !.mode = "create", !.pc = "open"]]
          \/ job' = [job EXCEPT ![p] = [j EXCEPT !.to = t, !.pc = CopyEntry(j.from, t, j.mode)]]
      BY <1>3 DEF Resolve, t
    <3>2. CopyEntry(j.from, t, j.mode) # "resolve"
      BY DEF CopyEntry
    <3>3. \/ job'[p] = NextTry(j)
          \/ job'[p] = [j EXCEPT !.to = t, !.mode = "create", !.pc = "open"]
          \/ job'[p] = [j EXCEPT !.to = t, !.pc = CopyEntry(j.from, t, j.mode)]
      BY <3>1 DEF TypeInv, TypeOK
    <3> QED
      BY <1>1, <3>2, <3>3 DEF JobStates
  <2>6. CASE job'[p] = NextTry(j)
    BY <1>1, <2>6 DEF NextTry, JobStates, Writes, Uses, Targets, Tries
  <2>7. CASE /\ job'[p].op = j.op /\ job'[p].from = j.from /\ job'[p].to = t
             /\ job'[p].pc # "resolve"
    <3> HIDE DEF t
    <3> QED
      BY <1>1, <2>4, <2>7 DEF Writes, Uses, Targets
  <2> QED
    BY <2>5, <2>6, <2>7
<1> QED
  BY <1>2, <1>3

Steady(p) ==
  \/ job'[p] = Idle
  \/ /\ job'[p].op = job[p].op /\ job'[p].from = job[p].from /\ job'[p].to = job[p].to
     /\ job'[p].pc # "resolve"

LEMMA GoSteady ==
  ASSUME TypeInv, NEW p \in Jobs, NEW step \in Steps \ {"resolve"}, Go(p, step)
  PROVE  Steady(p)
BY DEF TypeInv, TypeOK, JobStates, Go, Steady

LEMMA EndSteady ==
  ASSUME TypeInv, NEW p \in Jobs, End(p)
  PROVE  job'[p] = Idle /\ Steady(p)
BY DEF TypeInv, TypeOK, End, Steady

LEMMA ProgressSteady ==
  ASSUME TypeInv, NEW p \in Jobs, Progress(p), ~Resolve(p)
  PROVE  Steady(p)
<1> USE GoSteady, EndSteady DEF Steps
<1>1. job \in [Jobs -> JobStates] /\ job[p] \in JobStates
  BY DEF TypeInv, TypeOK
<1>2. CASE Clear(p) \/ Clearing(p)
  BY <1>2 DEF Clear, Clearing
<1>3. CASE Check(p)
  BY <1>3 DEF Check
<1>4. CASE Stat(p)
  <2>1. CASE End(p) \/ Go(p, "blit") \/ Go(p, "open")
    BY <2>1
  <2>2. CASE ~(End(p) \/ Go(p, "blit") \/ Go(p, "open"))
    <3> DEFINE to == job[p].to
               mode == IF Exists(to) THEN "replace" ELSE "create"
               old == IF Exists(to) /\ disk[to].whole THEN disk[to].c ELSE Nothing
               n == [job[p] EXCEPT !.pc = "open", !.mode = mode, !.old = old]
    <3>1. job' = [job EXCEPT ![p] = n]
      BY <1>4, <2>2 DEF Stat
    <3> HIDE DEF mode, old
    <3> QED
      BY <1>1, <3>1 DEF JobStates, Steady
  <2> QED
    BY <2>1, <2>2
<1>5. CASE Blit(p)
  <2>1. CASE End(p)
    BY <2>1
  <2>2. CASE ~End(p)
    <3>1. job'[p] = [job[p] EXCEPT !.pc = "blitting", !.data = Read(job[p].from)]
      BY <1>1, <1>5, <2>2 DEF Blit
    <3> QED
      BY <1>1, <3>1 DEF JobStates, Steady
  <2> QED
    BY <2>1, <2>2
<1>6. CASE Blitting(p)
  BY <1>6 DEF Blitting, AfterCopy
<1>7. CASE Open(p)
  <2>1. CASE End(p)
    BY <2>1
  <2>2. CASE ~End(p)
    <3> DEFINE fresh == ~Exists(job[p].to)
    <3>1. job' = [job EXCEPT ![p].pc = "fill", ![p].fresh = fresh]
      BY <1>7, <2>2 DEF Open
    <3> HIDE DEF fresh
    <3> QED
      BY <1>1, <3>1 DEF JobStates, Steady
  <2> QED
    BY <2>1, <2>2
<1>8. CASE Fill(p)
  <2>1. CASE Go(p, "abort")
    BY <2>1
  <2>2. CASE ~Go(p, "abort")
    <3> DEFINE data == IF job[p].from # Nothing THEN Read(job[p].from) ELSE job[p].data
    <3>1. PICK short \in BOOLEAN :
            job' = [job EXCEPT ![p] = [job[p] EXCEPT !.pc = "commit", !.short = short,
                                                     !.data = data]]
      BY <1>8, <2>2 DEF Fill
    <3> HIDE DEF data
    <3> QED
      BY <1>1, <3>1 DEF JobStates, Steady
  <2> QED
    BY <2>1, <2>2
<1>9. CASE Commit(p)
  BY <1>9 DEF Commit, AfterWrite, Written, AfterCopy
<1>10. CASE Verify(p) \/ Abort(p) \/ Rename(p) \/ AddRow(p) \/ DropRow(p)
  BY <1>10 DEF Verify, Abort, Rename, AddRow, DropRow
<1>11. CASE DeleteSource(p)
  BY <1>11 DEF DeleteSource, AfterDelete
<1> QED
  BY <1>2, <1>3, <1>4, <1>5, <1>6, <1>7, <1>8, <1>9, <1>10, <1>11 DEF Progress, Step

LEMMA PutFrame ==
  ASSUME TypeOK, NEW x, NEW item, Put(x, item)
  PROVE  \A y \in Paths \ {x} : disk'[y] = disk[y]
BY DEF TypeOK, Put

LEMMA DiskFrame ==
  ASSUME TypeInv, NEW p \in Jobs, Progress(p)
  PROVE  \A x \in Paths \ Writes(job[p]) : disk'[x] = disk[x]
<1> DEFINE j == job[p]
<1> SUFFICES ASSUME NEW x \in Paths \ Writes(j), disk'[x] # disk[x]
             PROVE  FALSE
  OBVIOUS
<1>1. j \in JobStates /\ Shape(j) /\ TypeOK
  BY DEF TypeInv, TypeOK
<1>2. x # Nothing /\ x # j.to
  BY NothingApart DEF Writes, Targets
<1>3. j.op # "copy" => x # j.from
  BY <1>2 DEF Writes
<1>4. ASSUME NEW y \in {j.to} \cup (IF j.op = "copy" THEN {} ELSE {j.from}), NEW item,
             Put(y, item)
      PROVE  FALSE
  BY <1>1, <1>2, <1>3, <1>4, PutFrame
<1>5. CASE UNCHANGED disk
  BY <1>5
<1>6. CASE Clearing(p)
  BY <1>4, <1>5, <1>6 DEF Clearing, HalfDeleted
<1>7. CASE Blit(p)
  BY <1>4, <1>5, <1>7 DEF Blit
<1>8. CASE Blitting(p)
  BY <1>4, <1>5, <1>8 DEF Blitting
<1>9. CASE Open(p)
  BY <1>4, <1>5, <1>9 DEF Open, OpenTarget
<1>10. CASE Commit(p)
  BY <1>4, <1>5, <1>10 DEF Commit
<1>11. CASE Verify(p) \/ Abort(p)
  BY <1>4, <1>5, <1>11 DEF Verify, Abort
<1>12. CASE Rename(p)
  <2>1. j.op = "rename"
    BY <1>1, <1>12 DEF Rename, At, Shape, StepsOf, JobStates, Kinds
  <2> QED
    BY <1>1, <1>2, <1>3, <1>12, <2>1 DEF Rename, TypeOK
<1>13. CASE DeleteSource(p)
  <2>1. j.op # "copy"
    BY <1>1, <1>13 DEF DeleteSource, At, Shape, StepsOf
  <2> QED
    BY <1>4, <1>5, <1>13, <2>1 DEF DeleteSource, HalfDeleted
<1>14. CASE Resolve(p) \/ Clear(p) \/ Check(p) \/ Stat(p) \/ Fill(p) \/ AddRow(p) \/ DropRow(p)
  BY <1>5, <1>14 DEF Resolve, Clear, Check, Stat, Fill, AddRow, DropRow, NoDisk
<1> QED
  BY <1>6, <1>7, <1>8, <1>9, <1>10, <1>11, <1>12, <1>13, <1>14 DEF Progress, Step

LEMMA OthersStay ==
  ASSUME TypeInv, NEW p \in Jobs, Progress(p), NEW q \in Jobs \ {p}
  PROVE  job'[q] = job[q]
<1>1. ASSUME NEW j, job' = [job EXCEPT ![p] = j]
      PROVE  job'[q] = job[q]
  BY <1>1 DEF TypeInv, TypeOK
<1>2. End(p) \/ (\E step : Go(p, step)) => job'[q] = job[q]
  BY <1>1 DEF End, Go
<1>3. CASE Resolve(p) \/ Clear(p) \/ Clearing(p) \/ Check(p)
  BY <1>1, <1>2, <1>3 DEF Resolve, Clear, Clearing, Check
<1>4. CASE Stat(p) \/ Blit(p) \/ Blitting(p)
  BY <1>1, <1>2, <1>4 DEF Stat, Blit, Blitting, AfterCopy
<1>5. CASE Open(p)
  BY <1>1, <1>2, <1>5 DEF Open
<1>6. CASE Fill(p) \/ Commit(p)
  BY <1>1, <1>2, <1>6 DEF Fill, Commit, AfterWrite, Written, AfterCopy
<1>7. CASE \/ Verify(p) \/ Abort(p) \/ Rename(p) \/ DeleteSource(p) \/ AddRow(p)
           \/ DropRow(p)
  BY <1>2, <1>7 DEF Verify, Abort, Rename, DeleteSource, AfterDelete, AddRow, DropRow
<1> QED
  BY <1>3, <1>4, <1>5, <1>6, <1>7 DEF Progress, Step

LEMMA Footprint ==
  ASSUME TypeInv, NEW p \in Jobs, Progress(p)
  PROVE  Writes(job'[p]) \subseteq Writes(job[p]) /\ Uses(job'[p]) \subseteq Uses(job[p])
<1>1. CASE Resolve(p)
  BY <1>1, ResolveShrinks
<1>2. CASE ~Resolve(p)
  BY <1>2, ProgressSteady, Shrinks, IdleFree DEF Steady
<1> QED
  BY <1>1, <1>2

-----------------------------------------------------------------------------
(* Each step keeps the local invariant of its own job.                      *)

LEMMA IdleLocal ==
  ASSUME NEW p \in Jobs, job'[p] = Idle
  PROVE  Local(p)'
BY DEF Local, TwoEnds, TargetFree, SourceSafe, Moves, Idle, NewJob

LEMMA EndLocal ==
  ASSUME TypeInv, NEW p \in Jobs, End(p)
  PROVE  Local(p)'
BY EndSteady, IdleLocal

(* What a job that goes on to a step without a clause has to keep.          *)
LEMMA GoLocal ==
  ASSUME TypeInv, NEW p \in Jobs, Local(p),
         job'[p].op = job[p].op, job'[p].from = job[p].from, job'[p].to = job[p].to,
         job'[p].pc \in {"clearing", "check", "open", "addRow", "dropRow"},
         job'[p].pc = "open" /\ job'[p].mode = "keepBoth" => disk'[job[p].to] = Nothing
  PROVE  Local(p)'
BY DEF Local, TwoEnds, TargetFree, SourceSafe, Exists

LEMMA GoFields ==
  ASSUME TypeInv, NEW p \in Jobs, NEW step, Go(p, step)
  PROVE  /\ job'[p].op = job[p].op /\ job'[p].from = job[p].from /\ job'[p].to = job[p].to
         /\ job'[p].mode = job[p].mode /\ job'[p].data = job[p].data
         /\ job'[p].short = job[p].short /\ job'[p].pc = step
BY DEF TypeInv, TypeOK, JobStates, Go

LEMMA ResolveLocal ==
  ASSUME TypeInv, NEW p \in Jobs, Local(p), Resolve(p)
  PROVE  Local(p)'
<1> DEFINE j == job[p]
           t == <<j.to[1], Candidates[j.to[2]][j.k]>>
<1>1. j \in JobStates /\ Shape(j) /\ j.pc = "resolve"
  BY DEF TypeInv, TypeOK, Resolve, At
<1>2. CASE End(p)
  BY <1>2, EndLocal
<1>3. CASE ~End(p)
  <2>1. t[1] = j.to[1]
    OBVIOUS
  <2>2. UNCHANGED disk
    BY DEF Resolve, NoDisk
  <2> HIDE DEF t
  <2>3. \/ job'[p] = NextTry(j)
        \/ job'[p] = [j EXCEPT !.to = t, !.mode = "create", !.pc = "open"]
        \/ /\ ~Exists(t)
           /\ job'[p] = [j EXCEPT !.to = t, !.pc = CopyEntry(j.from, t, j.mode)]
    <3>1. \/ job' = [job EXCEPT ![p] = NextTry(j)]
          \/ job' = [job EXCEPT ![p] = [j EXCEPT !.to = t, !.mode = "create", !.pc = "open"]]
          \/ /\ ~Exists(t)
             /\ job' = [job EXCEPT ![p] = [j EXCEPT !.to = t, !.pc = CopyEntry(j.from, t, j.mode)]]
      BY <1>3 DEF Resolve, t
    <3> QED
      BY <3>1 DEF TypeInv, TypeOK
  <2>4. j.op # "rename" /\ j.op # "bin"
    BY <1>1 DEF Shape, StepsOf
  <2>5. CASE job'[p] = NextTry(j)
    BY <1>1, <2>5 DEF NextTry, JobStates, Local, TwoEnds, TargetFree, SourceSafe
  <2>6. CASE job'[p] = [j EXCEPT !.to = t, !.mode = "create", !.pc = "open"]
    BY <1>1, <2>1, <2>4, <2>6 DEF JobStates, Local, TwoEnds, TargetFree, SourceSafe
  <2>7. CASE /\ ~Exists(t)
             /\ job'[p] = [j EXCEPT !.to = t, !.pc = CopyEntry(j.from, t, j.mode)]
    <3>1. CopyEntry(j.from, t, j.mode) \in {"stat", "clear", "check"}
      BY DEF CopyEntry
    <3>2. job'[p].op = j.op /\ job'[p].from = j.from /\ job'[p].to = t
          /\ job'[p].pc \in {"stat", "clear", "check"}
      BY <1>1, <2>7, <3>1 DEF JobStates
    <3>3. disk'[t] = Nothing
      BY <2>2, <2>7 DEF Exists
    <3> QED
      BY <2>1, <2>4, <3>2, <3>3 DEF Local, TwoEnds, TargetFree, SourceSafe, Exists
  <2> QED
    BY <2>3, <2>5, <2>6, <2>7
<1> QED
  BY <1>2, <1>3

LEMMA ClearCheckStatLocal ==
  ASSUME TypeInv, NEW p \in Jobs, Local(p), Clear(p) \/ Clearing(p) \/ Check(p) \/ Stat(p)
  PROVE  Local(p)'
<1> DEFINE j == job[p]
<1>1. j \in JobStates /\ Shape(j)
  BY DEF TypeInv, TypeOK
<1>2. CASE End(p)
  BY <1>2, EndLocal
<1>3. ASSUME NEW step \in {"clearing", "check"}, Go(p, step)
      PROVE  Local(p)'
  BY <1>3, GoFields, GoLocal
<1>4. CASE Clear(p) \/ Clearing(p)
  BY <1>2, <1>3, <1>4 DEF Clear, Clearing
<1>5. CASE Check(p)
  <2>1. UNCHANGED disk
    BY <1>5 DEF Check, NoDisk
  <2>2. CASE Go(p, "blit") \/ Go(p, "rename")
    <3>1. ~Exists(j.to)
      BY <1>5, <2>2, EndSteady, GoFields DEF Check, Refuses, Idle, NewJob
    <3> QED
      BY <1>1, <2>1, <2>2, <3>1, GoFields
         DEF Local, TwoEnds, TargetFree, SourceSafe, Exists
  <2>3. CASE Go(p, "open")
    <3>1. ~Exists(j.to)
      BY <1>5, <2>3, EndSteady, GoFields DEF Check, Refuses, Idle, NewJob
    <3> QED
      BY <2>1, <2>3, <3>1, GoFields, GoLocal DEF Exists
  <2> QED
    BY <1>2, <1>5, <2>2, <2>3 DEF Check
<1>6. CASE Stat(p)
  <2>1. UNCHANGED disk /\ j.pc = "stat"
    BY <1>6 DEF Stat, NoDisk, At
  <2>2. CASE j.op = "upload" /\ ~End(p)
    <3> DEFINE mode == IF Exists(j.to) THEN "replace" ELSE "create"
               old == IF Exists(j.to) /\ disk[j.to].whole THEN disk[j.to].c ELSE Nothing
               n == [j EXCEPT !.pc = "open", !.mode = mode, !.old = old]
    <3>1. job' = [job EXCEPT ![p] = n]
      BY <1>6, <2>2 DEF Stat
    <3>2. job'[p] = n
      BY <3>1 DEF TypeInv, TypeOK
    <3>3. mode # "keepBoth"
      OBVIOUS
    <3> HIDE DEF mode, old
    <3> QED
      BY <1>1, <3>2, <3>3, GoLocal DEF JobStates
  <2>3. CASE j.op # "upload" /\ IsDir(j.from) /\ Go(p, "blit")
    BY <1>1, <2>1, <2>3, GoFields DEF Local, TwoEnds, TargetFree, SourceSafe, Exists
  <2>4. CASE j.op # "upload" /\ Go(p, "open")
    <3>1. j.mode = "keepBoth" => disk'[j.to] = Nothing
      BY <2>1 DEF Local, TargetFree, Exists
    <3> QED
      BY <2>4, <3>1, GoFields, GoLocal
  <2> QED
    BY <1>2, <1>6, <2>2, <2>3, <2>4 DEF Stat
<1> QED
  BY <1>4, <1>5, <1>6

(* Where a copy's source and target are.                                    *)
LEMMA CopyEnds ==
  ASSUME TypeInv, NEW p \in Jobs, Local(p), job[p].pc \in {"blit", "blitting"} \/ Moves(job[p])
  PROVE  /\ job[p].from \in Paths /\ job[p].to \in Paths
         /\ Moves(job[p]) => job[p].from # job[p].to
<1> DEFINE j == job[p]
<1>1. j \in JobStates /\ Shape(j)
  BY DEF TypeInv, TypeOK
<1>2. j.op \in {"copy", "move", "bin", "restore"}
  BY <1>1 DEF Moves, Shape, StepsOf, JobStates, Kinds
<1>3. CASE j.op = "bin"
  BY <1>1, <1>3, PathsAssumption DEF Shape, Ends, Paths
<1>4. CASE j.op = "restore"
  BY <1>1, <1>4, PathsAssumption DEF Shape, Ends, Paths
<1>5. CASE j.op \in {"copy", "move"}
  BY <1>1, <1>5 DEF Shape, Ends, Paths, Local, TwoEnds, Moves
<1> QED
  BY <1>2, <1>3, <1>4, <1>5

LEMMA BlitLocal ==
  ASSUME TypeInv, NEW p \in Jobs, Local(p), Blit(p)
  PROVE  Local(p)'
<1> DEFINE j == job[p]
           item == Partial(IsDir(j.from), p)
<1>1. j \in JobStates /\ Shape(j) /\ j.pc = "blit"
  BY DEF TypeInv, TypeOK, Blit, At
<1>2. CASE End(p)
  BY <1>2, EndLocal
<1>3. CASE ~End(p)
  <2>1. j.from \in Paths /\ j.to \in Paths
    BY <1>1, CopyEnds
  <2>2. Exists(j.from) /\ ~Exists(j.to)
    BY <1>1, <1>3 DEF Blit, Local, TargetFree
  <2>3. disk' = [disk EXCEPT ![j.to] = item]
    BY <1>3, <2>2 DEF Blit, Put, Prevails
  <2>4. job'[p] = [j EXCEPT !.pc = "blitting", !.data = Read(j.from)]
    BY <1>3 DEF Blit, TypeInv, TypeOK
  <2>5. /\ job'[p].op = j.op /\ job'[p].from = j.from /\ job'[p].to = j.to
        /\ job'[p].pc = "blitting" /\ job'[p].data = Read(j.from)
    <3> DEFINE data == Read(j.from)
    <3> HIDE DEF data
    <3>1. job'[p] = [j EXCEPT !.pc = "blitting", !.data = data]
      BY <2>4 DEF data
    <3>2. /\ job'[p].op = j.op /\ job'[p].from = j.from /\ job'[p].to = j.to
          /\ job'[p].pc = "blitting" /\ job'[p].data = data
      BY <1>1, <3>1 DEF JobStates
    <3> QED
      BY <3>2 DEF data
  <2>6. disk'[j.to] = item /\ disk'[j.from] = disk[j.from] /\ j.from # j.to
    BY <2>1, <2>2, <2>3 DEF TypeInv, TypeOK, Exists
  <2>7. item # Nothing /\ item.by = p /\ item.whole = FALSE
    <3>1. IsDir(j.from) \in BOOLEAN
      BY <2>1, <2>2 DEF IsDir, Exists, TypeInv, TypeOK, Items
    <3> QED
      BY <3>1, PartialIsItem, NothingApart DEF Partial
  <2>8. Writing(p)'
    BY <2>5, <2>6, <2>7 DEF Writing, Mine, Exists
  <2>9. Unchanged(p)'
    BY <2>2, <2>5, <2>6 DEF Unchanged, Exists, Read
  <2> QED
    BY <2>5, <2>6, <2>8, <2>9 DEF Local, TwoEnds, TargetFree, SourceSafe
<1> QED
  BY <1>2, <1>3

(* A copy that went through leaves two complete copies, or ends the job.    *)
LEMMA AfterCopyLocal ==
  ASSUME TypeInv, NEW p \in Jobs, Local(p), AfterCopy(p),
         Moves(job[p]) \/ job[p].op = "copy",
         Moves(job[p]) =>
           /\ Unchanged(p) /\ disk'[job[p].from] = disk[job[p].from]
           /\ disk'[job[p].to] # Nothing
           /\ \/ disk'[job[p].to].whole = job[p].data.whole
              \/ job[p].short /\ MayLackSize(job[p])
           /\ disk'[job[p].to].c = job[p].data.c
  PROVE  Local(p)'
<1> DEFINE j == job[p]
<1>1. CASE j.op = "copy"
  BY <1>1, EndLocal DEF AfterCopy
<1>2. CASE j.op # "copy"
  <2>1. /\ job'[p].op = j.op /\ job'[p].from = j.from /\ job'[p].to = j.to
        /\ job'[p].pc = "delSource" /\ job'[p].short = j.short
    BY <1>2, GoFields DEF AfterCopy
  <2>2. j.from \in Paths /\ Moves(j)
    BY <1>2, CopyEnds
  <2>3. disk[j.from] \in Items
    BY <1>2, <2>2 DEF Unchanged, Exists, TypeInv, TypeOK
  <2>4. disk[j.from].whole = j.data.whole /\ disk[j.from].c = j.data.c
    BY <1>2, <2>2, <2>3 DEF Unchanged, Read, Items
  <2> QED
    BY <1>2, <2>1, <2>2, <2>4
       DEF Local, TwoEnds, TargetFree, SourceSafe, Complete, Exists, Moves, MayLackSize
<1> QED
  BY <1>1, <1>2

LEMMA BlittingLocal ==
  ASSUME TypeInv, NEW p \in Jobs, Local(p), Blitting(p)
  PROVE  Local(p)'
<1> DEFINE j == job[p]
<1>1. j \in JobStates /\ Shape(j) /\ j.pc = "blitting"
  BY DEF TypeInv, TypeOK, Blitting, At
<1>2. CASE End(p)
  BY <1>2, EndLocal
<1>3. CASE ~End(p)
  <2>1. Mine(p) /\ Unchanged(p) /\ j.from # j.to
    BY <1>1 DEF Local, TargetFree, SourceSafe, Writing
  <2>2. j.from \in Paths /\ j.to \in Paths /\ j.data \in Items
    BY <1>1, CopyEnds DEF Shape, Bytes
  <2>3. AfterCopy(p) /\ Put(j.to, [j.data EXCEPT !.whole = j.data.whole])
    BY <1>3, <2>1 DEF Blitting, Unchanged
  <2>4. [j.data EXCEPT !.whole = j.data.whole] = j.data
    BY <2>2 DEF Items
  <2>5. disk'[j.to] = j.data /\ disk'[j.from] = disk[j.from]
    BY <2>1, <2>2, <2>3, <2>4 DEF Put, TypeInv, TypeOK
  <2>6. Moves(j) \/ j.op = "copy"
    BY <1>1 DEF Moves, Shape, StepsOf, JobStates, Kinds
  <2> QED
    BY <2>1, <2>2, <2>3, <2>5, <2>6, NothingApart, AfterCopyLocal
<1> QED
  BY <1>2, <1>3

LEMMA OpenLocal ==
  ASSUME TypeInv, Disjoint, Writers, NEW p \in Jobs \ crossed, Local(p), Open(p)
  PROVE  Local(p)'
<1> DEFINE j == job[p]
<1>1. j \in JobStates /\ Shape(j) /\ j.pc = "open"
  BY DEF TypeInv, TypeOK, Open, At
<1>2. CASE End(p)
  BY <1>2, EndLocal
<1>3. CASE ~End(p)
  <2>1. job'[p] = [j EXCEPT !.pc = "fill", !.fresh = ~Exists(j.to)]
    BY <1>3 DEF Open, TypeInv, TypeOK
  <2>2. /\ job'[p].op = j.op /\ job'[p].from = j.from /\ job'[p].to = j.to
        /\ job'[p].mode = j.mode /\ job'[p].pc = "fill"
    BY <1>1, <2>1 DEF JobStates
  <2>3. j.to \in Paths
    BY <1>1 DEF Shape, StepsOf, Ends, JobStates, Kinds, Paths
  <2>4. CASE ToDirect(j)
    <3>1. UNCHANGED disk /\ (j.mode = "create" => ~Exists(j.to) \/ IsDir(j.to))
      BY <1>3, <2>4 DEF Open, OpenTarget, Creates
    <3>2. j.mode = "keepBoth" => ~Exists(j.to)
      BY <1>1 DEF Local, TargetFree
    <3>3. j.mode \in {"create", "replace", "keepBoth"}
      BY <1>1 DEF JobStates, Modes
    <3> QED
      BY <2>2, <2>4, <3>1, <3>2, <3>3
         DEF Local, TwoEnds, TargetFree, SourceSafe, Exists, IsDir, ToDirect
  <2>5. CASE ~ToDirect(j)
    <3>1. disk' = [disk EXCEPT ![j.to] = Partial(FALSE, p)]
      BY <1>1, <1>3, <2>3, <2>5, OwnTarget DEF Open, OpenTarget, Put
    <3>2. disk'[j.to] = Partial(FALSE, p)
      BY <2>3, <3>1 DEF TypeInv, TypeOK
    <3>3. Partial(FALSE, p) # Nothing
      BY PartialIsItem, NothingApart
    <3>4. Writing(p)'
      BY <2>2, <3>2, <3>3 DEF Writing, Mine, Exists, Partial
    <3> QED
      BY <2>2, <2>5, <3>4 DEF Local, TwoEnds, TargetFree, SourceSafe, ToDirect
  <2> QED
    BY <2>4, <2>5
<1> QED
  BY <1>2, <1>3

LEMMA FillLocal ==
  ASSUME TypeInv, NEW p \in Jobs, Local(p), Fill(p)
  PROVE  Local(p)'
<1> DEFINE j == job[p]
<1>1. j \in JobStates /\ Shape(j) /\ j.pc = "fill" /\ UNCHANGED disk
  BY DEF TypeInv, TypeOK, Fill, At, NoDisk
<1>2. CASE Go(p, "abort")
  BY <1>1, <1>2, GoFields
     DEF Local, TwoEnds, TargetFree, SourceSafe, Writing, Mine, Exists, ToDirect
<1>3. CASE ~Go(p, "abort")
  <2> DEFINE data == IF j.from # Nothing THEN Read(j.from) ELSE j.data
  <2>1. PICK short \in BOOLEAN :
          job' = [job EXCEPT ![p] = [j EXCEPT !.pc = "commit", !.short = short, !.data = data]]
    BY <1>3 DEF Fill
  <2>2. j.from # Nothing => Exists(j.from)
    BY <1>3 DEF Fill
  <2>3. /\ job'[p].op = j.op /\ job'[p].from = j.from /\ job'[p].to = j.to
        /\ job'[p].mode = j.mode /\ job'[p].pc = "commit" /\ job'[p].data = data
    <3> HIDE DEF data
    <3> QED
      BY <1>1, <2>1 DEF TypeInv, TypeOK, JobStates
  <2>4. Moves(j) => Unchanged(p)'
    <3>1. Moves(j) => j.from # Nothing
      BY CopyEnds, NothingApart
    <3> QED
      BY <1>1, <2>2, <2>3, <3>1 DEF Unchanged, Exists, Read
  <2>5. TargetFree(p)'
    BY <1>1, <2>3 DEF Local, TargetFree, Writing, Mine, Exists, IsDir, ToDirect
  <2> QED
    BY <2>3, <2>4, <2>5 DEF Local, TwoEnds, SourceSafe, Moves
<1> QED
  BY <1>2, <1>3

LEMMA CommitLocal ==
  ASSUME TypeInv, NEW p \in Jobs, Local(p), Commit(p)
  PROVE  Local(p)'
<1> DEFINE j == job[p]
           item == [j.data EXCEPT !.whole = @ /\ ~j.short]
<1>1. j \in JobStates /\ Shape(j) /\ j.pc = "commit"
  BY DEF TypeInv, TypeOK, Commit, At
<1>2. CASE End(p)
  BY <1>2, EndLocal
<1>3. CASE ~End(p)
  <2>1. AfterWrite(p) /\ Put(j.to, item)
    BY <1>1, <1>3 DEF Commit, Local, TargetFree, Writing
  <2>2. j.data \in Items /\ j.short \in BOOLEAN
    BY <1>1 DEF Shape, Bytes, JobStates
  <2>3. item \in Items /\ item.c = j.data.c /\ item.whole = (j.data.whole /\ ~j.short)
    BY <2>2 DEF Items
  <2>4. j.to \in Paths
    BY <1>1 DEF Shape, StepsOf, Ends, JobStates, Kinds, Paths
  <2> HIDE DEF item
  <2>5. disk'[j.to] = item /\ (j.from \in Paths /\ j.from # j.to => disk'[j.from] = disk[j.from])
    BY <2>1, <2>4 DEF Put, TypeInv, TypeOK
  <2>6. CASE j.short /\ Go(p, "verify")
    <3>1. Go(p, "verify")
      BY <2>6
    <3>2. ~item.whole
      BY <2>3, <2>6
    <3>3. job'[p].to = j.to /\ job'[p].pc = "verify"
      BY <3>1, GoFields
    <3>4. ~Complete(job[p].to)'
      BY <2>5, <3>2, <3>3 DEF Complete
    <3>5. TwoEnds(job[p])'
      BY <3>1, GoFields DEF Local, TwoEnds
    <3> QED
      BY <3>3, <3>4, <3>5 DEF Local, TargetFree, SourceSafe
  <2>7. CASE Written(p) /\ (j.short => MayLackSize(j))
    <3>1. AfterCopy(p) /\ (Moves(j) \/ j.op = "copy")
      BY <1>1, <1>3, <2>7 DEF Written, Moves, Shape, StepsOf, JobStates, Kinds
    <3>2. Moves(j) => Unchanged(p) /\ j.from \in Paths /\ j.from # j.to
      BY <1>1, CopyEnds DEF Local, SourceSafe
    <3>3. item.whole = j.data.whole \/ (j.short /\ MayLackSize(j))
      BY <2>2, <2>3, <2>7 DEF Items
    <3> QED
      BY <2>3, <2>5, <3>1, <3>2, <3>3, NothingApart, AfterCopyLocal
  <2> QED
    BY <2>1, <2>6, <2>7 DEF AfterWrite
<1> QED
  BY <1>2, <1>3

LEMMA ProgressLocal ==
  ASSUME TypeInv, Disjoint, Writers, NEW p \in Jobs \ crossed, Local(p), Progress(p)
  PROVE  Local(p)'
<1>1. CASE Verify(p) \/ Abort(p) \/ Rename(p) \/ AddRow(p) \/ DropRow(p)
  BY <1>1, EndLocal DEF Verify, Abort, Rename, AddRow, DropRow
<1>2. CASE DeleteSource(p)
  <2>1. End(p) \/ Go(p, "addRow") \/ Go(p, "dropRow")
    BY <1>2 DEF DeleteSource, AfterDelete
  <2> QED
    BY <2>1, EndLocal, GoFields, GoLocal
<1> QED
  BY <1>1, <1>2, ResolveLocal, ClearCheckStatLocal, BlitLocal, BlittingLocal, OpenLocal,
     FillLocal, CommitLocal DEF Progress, Step

-----------------------------------------------------------------------------
(* Who writes what, from step to step.                                      *)

(* A step of p leaves the marks of other jobs, and its own only where it    *)
(* goes on writing.                                                         *)
LEMMA Marks ==
  ASSUME TypeInv, Writers, NEW p \in Jobs, \A q \in Jobs \ {p} : job'[q] = job[q],
         \A x \in Paths : disk'[x] # Nothing /\ disk'[x].by # Nothing =>
           \/ disk'[x].by = p /\ job'[p].to = x /\ Filling(job'[p])
           \/ Exists(x) /\ disk'[x].by = disk[x].by /\ disk[x].by # p
  PROVE  Writers'
<1> SUFFICES ASSUME NEW x \in Paths, disk'[x] # Nothing, disk'[x].by # Nothing
             PROVE  WriterOf(x, disk[x].by)'
  BY DEF Writers, Exists
<1>1. CASE disk'[x].by = p /\ job'[p].to = x /\ Filling(job'[p])
  BY <1>1 DEF WriterOf, Filling, ToDirect
<1>2. CASE Exists(x) /\ disk'[x].by = disk[x].by /\ disk[x].by # p
  <2>1. disk[x].by \in Jobs \ {p} /\ WriterOf(x, disk[x].by)
    BY <1>2 DEF Writers, TypeInv, TypeOK, Exists, Items
  <2>2. PICK q \in Jobs \ {p} : q = disk[x].by
    BY <2>1
  <2>3. job'[q] = job[q] /\ WriterOf(x, q)
    BY <2>1, <2>2
  <2>4. disk'[x].by = q
    BY <1>2, <2>2
  <2> QED
    BY <2>3, <2>4 DEF WriterOf, Filling, ToDirect
<1> QED
  BY <1>1, <1>2

LEMMA WritersStay ==
  ASSUME TypeInv, Writers, NEW p \in Jobs, Progress(p)
  PROVE  Writers'
<1> DEFINE j == job[p]
           Kept(x) == Exists(x) /\ disk'[x].by = disk[x].by /\ disk[x].by # p
           Clean(x) == disk'[x] = Nothing \/ disk'[x].by = Nothing
           Mark(x) == disk'[x].by = p /\ job'[p].to = x /\ Filling(job'[p])
           Own == j.to \in Paths /\ Mine(p)
<1>1. j \in JobStates /\ Shape(j) /\ TypeOK /\ job \in [Jobs -> JobStates]
  BY DEF TypeInv, TypeOK
<1>2. \A q \in Jobs \ {p} : job'[q] = job[q]
  BY OthersStay
<1>3. \A x \in Paths : Exists(x) /\ disk[x].by = p => x = j.to /\ Filling(j)
  BY NothingApart, NothingAssumption DEF Writers, WriterOf
<1> SUFFICES \A x \in Paths : Clean(x) \/ Mark(x) \/ Kept(x)
  BY <1>2, Marks
<1>4. ASSUME UNCHANGED disk, Own => Filling(job'[p]) /\ job'[p].to = j.to
      PROVE  \A x \in Paths : Clean(x) \/ Mark(x) \/ Kept(x)
  BY <1>3, <1>4 DEF Exists, Mine
<1>5. ASSUME NEW y, NEW item, Put(y, item), item = Nothing \/ item.by = Nothing,
             Own => y = j.to
      PROVE  \A x \in Paths : Clean(x) \/ Mark(x) \/ Kept(x)
  <2> SUFFICES ASSUME NEW x \in Paths
               PROVE  Clean(x) \/ Kept(x)
    OBVIOUS
  <2>1. CASE x = y
    BY <1>1, <1>5, <2>1 DEF Put, TypeOK
  <2>2. CASE x # y
    <3>1. disk'[x] = disk[x]
      BY <1>1, <1>5, <2>2, PutFrame
    <3> QED
      BY <1>3, <1>5, <2>2, <3>1 DEF Exists, Mine
  <2> QED
    BY <2>1, <2>2
<1>6. ASSUME NEW y, HalfDeleted(y), ~Own
      PROVE  \A x \in Paths : Clean(x) \/ Mark(x) \/ Kept(x)
  <2> SUFFICES ASSUME NEW x \in Paths
               PROVE  Clean(x) \/ Kept(x)
    OBVIOUS
  <2>1. CASE x = y /\ Exists(x)
    <3>1. disk[x] \in Items /\ disk'[x] = [disk[x] EXCEPT !.whole = FALSE]
      BY <1>1, <1>6, <2>1 DEF HalfDeleted, Put, TypeOK, Exists
    <3>2. disk'[x].by = disk[x].by
      BY <3>1 DEF Items
    <3> QED
      BY <1>3, <1>6, <2>1, <3>2 DEF Mine
  <2>2. CASE ~(x = y /\ Exists(x))
    <3>1. disk'[x] = disk[x]
      BY <1>1, <1>6, <2>2, PutFrame DEF HalfDeleted, IsDir
    <3> QED
      BY <1>3, <1>6, <3>1 DEF Exists, Mine
  <2> QED
    BY <2>1, <2>2
<1>7. ASSUME NEW dir, NEW by \in Prevails(p, j.to), Put(j.to, Partial(dir, by)),
             j.pc \in {"open", "blit"}, Filling(job'[p]), job'[p].to = j.to
      PROVE  \A x \in Paths : Clean(x) \/ Mark(x) \/ Kept(x)
  <2> SUFFICES ASSUME NEW x \in Paths
               PROVE  Clean(x) \/ Mark(x) \/ Kept(x)
    OBVIOUS
  <2>1. CASE x = j.to
    <3>1. disk'[x] = Partial(dir, by)
      BY <1>1, <1>7, <2>1 DEF Put, TypeOK
    <3>2. disk'[x].by = by
      BY <3>1 DEF Partial
    <3>3. by = p \/ by = Nothing \/ (Exists(x) /\ by = disk[x].by)
      BY <1>7, <2>1 DEF Prevails
    <3> QED
      BY <1>7, <2>1, <3>2, <3>3
  <2>2. CASE x # j.to
    <3>1. disk'[x] = disk[x]
      BY <1>1, <1>7, <2>2, PutFrame
    <3> QED
      BY <1>3, <2>2, <3>1 DEF Exists
  <2> QED
    BY <2>1, <2>2
<1>8. ~Filling(j) => ~Own
  BY <1>3 DEF Mine
<1>9. j.data # Nothing => j.data.by = Nothing
  BY <1>1 DEF Shape, Bytes
<1>10. \A whole : j.data # Nothing => [j.data EXCEPT !.whole = whole].by = Nothing
  BY <1>1, <1>9 DEF JobStates, Items
<1>11. \A dir : Partial(dir, Nothing).by = Nothing
  BY DEF Partial
<1> HIDE DEF Kept, Clean, Mark
<1>12. CASE Clearing(p) \/ Verify(p) \/ DeleteSource(p)
  <2>1. ~Own
    BY <1>8, <1>12 DEF Clearing, Verify, DeleteSource, At, Filling
  <2> QED
    BY <1>4, <1>5, <1>6, <1>12, <2>1 DEF Clearing, Verify, DeleteSource
<1>13. CASE Blit(p)
  <2>1. j.pc = "blit" /\ ~Own
    BY <1>8, <1>13 DEF Blit, At, Filling
  <2>2. CASE UNCHANGED disk
    BY <1>4, <2>1, <2>2
  <2>3. CASE ~UNCHANGED disk
    <3> DEFINE dir == IsDir(j.from)
               data == Read(j.from)
    <3>1. PICK by \in Prevails(p, j.to) : Put(j.to, Partial(dir, by))
      BY <1>13, <2>3 DEF Blit
    <3>2. job' = [job EXCEPT ![p].pc = "blitting", ![p].data = data]
      BY <1>13, <2>3 DEF Blit
    <3> HIDE DEF dir, data
    <3>3. job'[p].pc = "blitting" /\ job'[p].to = j.to
      BY <1>1, <3>2 DEF JobStates
    <3> QED
      BY <1>7, <2>1, <3>1, <3>3 DEF Filling
  <2> QED
    BY <2>2, <2>3
<1>14. CASE Blitting(p)
  <2>1. j.data # Nothing
    BY <1>1, <1>14 DEF Blitting, At, Shape, Bytes
  <2>2. CASE ~Mine(p)
    BY <1>4, <1>14, <2>2 DEF Blitting
  <2>3. CASE Mine(p)
    <3>1. \E item : Put(j.to, item) /\ (item = Nothing \/ item.by = Nothing)
      BY <1>10, <1>11, <1>14, <2>1, <2>3 DEF Blitting
    <3> QED
      BY <1>5, <3>1
  <2> QED
    BY <2>2, <2>3
<1>15. CASE Open(p)
  <2>1. j.pc = "open" /\ ~Own
    BY <1>8, <1>15 DEF Open, At, Filling
  <2>2. CASE UNCHANGED disk
    BY <1>4, <2>1, <2>2
  <2>3. CASE ~UNCHANGED disk /\ OpenTarget(p) /\ ~End(p)
    <3> DEFINE fresh == ~Exists(j.to)
    <3>1. ~ToDirect(j) /\ \E by \in Prevails(p, j.to) : Put(j.to, Partial(FALSE, by))
      BY <2>3 DEF OpenTarget
    <3>2. job' = [job EXCEPT ![p].pc = "fill", ![p].fresh = fresh]
      BY <1>15, <2>3 DEF Open
    <3> HIDE DEF fresh
    <3>3. job'[p].pc = "fill" /\ job'[p].to = j.to /\ job'[p].from = j.from
      BY <1>1, <3>2 DEF JobStates
    <3>4. Filling(job'[p])
      BY <3>1, <3>3 DEF Filling, ToDirect
    <3> QED
      BY <1>7, <2>1, <3>1, <3>3, <3>4
  <2>4. CASE Put(j.to, Partial(FALSE, Nothing))
    BY <1>5, <1>11, <2>1, <2>4
  <2> DEFINE going == job' = [job EXCEPT ![p].pc = "fill", ![p].fresh = ~Exists(j.to)]
  <2>6. \/ UNCHANGED disk \/ Put(j.to, Partial(FALSE, Nothing))
        \/ OpenTarget(p) /\ going
    BY <1>15 DEF Open
  <2>5. going => job'[p].pc = "fill"
    <3> DEFINE fresh == ~Exists(j.to)
    <3>1. going => job' = [job EXCEPT ![p].pc = "fill", ![p].fresh = fresh]
      OBVIOUS
    <3> HIDE DEF fresh, going
    <3> QED
      BY <1>1, <3>1 DEF JobStates
  <2> HIDE DEF going
  <2>7. going => ~End(p)
    BY <2>5, EndSteady DEF Idle, NewJob
  <2> QED
    BY <2>2, <2>3, <2>4, <2>6, <2>7
<1>16. CASE Fill(p)
  <2>1. UNCHANGED disk /\ j.pc = "fill"
    BY <1>16 DEF Fill, At, NoDisk
  <2>2. job'[p].pc \in {"commit", "abort"} /\ job'[p].to = j.to /\ job'[p].from = j.from
    <3>1. CASE Go(p, "abort")
      BY <3>1, GoFields
    <3>2. CASE ~Go(p, "abort")
      <4> DEFINE data == IF j.from # Nothing THEN Read(j.from) ELSE j.data
      <4>1. PICK short \in BOOLEAN :
              job' = [job EXCEPT ![p].pc = "commit", ![p].short = short, ![p].data = data]
        BY <1>16, <3>2 DEF Fill
      <4> HIDE DEF data
      <4> QED
        BY <1>1, <4>1 DEF JobStates
    <3> QED
      BY <3>1, <3>2
  <2>3. CASE ToDirect(j)
    <3>1. ~Own
      BY <1>8, <2>1, <2>3 DEF Filling
    <3> QED
      BY <1>4, <2>1, <3>1
  <2>4. CASE ~ToDirect(j)
    <3>1. Filling(job'[p])
      BY <2>2, <2>4 DEF Filling, ToDirect
    <3> QED
      BY <1>4, <2>1, <2>2, <3>1
  <2> QED
    BY <2>3, <2>4
<1>17. CASE Commit(p) \/ Abort(p)
  <2>1. CASE UNCHANGED disk
    <3>1. ~Own
      <4>1. CASE ToDirect(j)
        BY <1>8, <1>17, <4>1 DEF Commit, Abort, At, Filling
      <4>2. CASE ~ToDirect(j)
        <5> SUFFICES ASSUME Own PROVE FALSE
          OBVIOUS
        <5>1. j.to \in Paths /\ disk[j.to].by = p
          BY <1>1, <1>17, <4>2 DEF Commit, Abort, At, Shape, StepsOf, Ends, JobStates, Kinds, Paths, Mine
        <5>2. \E item : Put(j.to, item) /\ (item = Nothing \/ item.by = Nothing)
          <6>1. Commit(p) => j.data # Nothing
            BY <1>1 DEF Commit, At, Shape, Bytes
          <6> QED
            BY <1>10, <1>11, <1>17, <4>2, <6>1 DEF Commit, Abort
        <5>3. disk'[j.to] = Nothing \/ disk'[j.to].by = Nothing
          BY <1>1, <5>1, <5>2 DEF Put, TypeOK
        <5> QED
          BY <2>1, <5>1, <5>3, NothingAssumption DEF Mine, Exists
      <4> QED
        BY <4>1, <4>2
    <3> QED
      BY <1>4, <2>1, <3>1
  <2>2. CASE ~UNCHANGED disk
    <3>1. Commit(p) => j.data # Nothing
      BY <1>1 DEF Commit, At, Shape, Bytes
    <3>2. \E item : Put(j.to, item) /\ (item = Nothing \/ item.by = Nothing)
      BY <1>10, <1>11, <1>17, <2>2, <3>1 DEF Commit, Abort
    <3> QED
      BY <1>5, <3>2
  <2> QED
    BY <2>1, <2>2
<1>18. CASE Rename(p)
  <2>1. ~Own /\ j.op = "rename"
    BY <1>1, <1>8, <1>18 DEF Rename, At, Filling, Shape, StepsOf, JobStates, Kinds
  <2>2. CASE UNCHANGED disk
    BY <1>4, <2>1, <2>2
  <2>3. CASE ~UNCHANGED disk
    <3>1. disk' = [disk EXCEPT ![j.from] = Nothing, ![j.to] = Read(j.from)] /\ Exists(j.from)
      BY <1>18, <2>3 DEF Rename
    <3>2. j.from \in Paths /\ Read(j.from).by = Nothing
      BY <1>1, <2>1, <3>1, ReadIsItem DEF Shape, Ends, Paths
    <3> DEFINE item == Read(j.from)
    <3> HIDE DEF item
    <3>3. ASSUME NEW x \in Paths
          PROVE  Clean(x) \/ Kept(x)
      <4>1. disk' = [disk EXCEPT ![j.from] = Nothing, ![j.to] = item] /\ item.by = Nothing
        BY <3>1, <3>2 DEF item
      <4>2. disk'[x] = Nothing \/ disk'[x] = item \/ disk'[x] = disk[x]
        BY <1>1, <4>1 DEF TypeOK
      <4>3. disk'[x] = disk[x] => Clean(x) \/ Kept(x)
        <5>1. Exists(x) => disk[x].by # p
          BY <1>3, <1>8, <2>1 DEF Mine
        <5> QED
          BY <5>1 DEF Clean, Kept, Exists
      <4> QED
        BY <4>1, <4>2, <4>3 DEF Clean
    <3> QED
      BY <3>3
  <2> QED
    BY <2>2, <2>3
<1>19. CASE Resolve(p) \/ Clear(p) \/ Check(p) \/ Stat(p) \/ AddRow(p) \/ DropRow(p)
  <2>1. UNCHANGED disk
    BY <1>19 DEF Resolve, Clear, Check, Stat, AddRow, DropRow, NoDisk
  <2>2. ~Own
    BY <1>8, <1>19 DEF Resolve, Clear, Check, Stat, AddRow, DropRow, At, Filling
  <2> QED
    BY <1>4, <2>1, <2>2
<1> QED
  BY <1>12, <1>13, <1>14, <1>15, <1>16, <1>17, <1>18, <1>19 DEF Progress, Step

-----------------------------------------------------------------------------
(* KeepInv is inductive.                                                    *)

LEMMA ApartBothWays ==
  ASSUME NEW i, NEW j, Apart(i, j)
  PROVE  Apart(j, i)
BY DEF Apart

LEMMA RequestLocal ==
  ASSUME KeepInv, NEW p \in Jobs, Request(p)
  PROVE  \E j : Begin(p, j) /\ job'[p] = j /\ Local(p)'
<1> DEFINE Goal == \E j : Begin(p, j) /\ job'[p] = j /\ Local(p)'
<1> USE DEF NewJob
<1>1. ASSUME NEW j, Begin(p, j), TwoEnds(j),
             j.pc \in {"resolve", "clear", "check", "stat", "open", "rename", "delSource"},
             j.pc = "stat" /\ j.op # "upload" /\ IsDir(j.from) => ~Exists(j.to),
             j.pc \in {"stat", "open"} => j.mode # "keepBoth",
             j.pc = "rename" => ~ToDirect(j),
             j.pc = "delSource" => ~Moves(j)
      PROVE  Goal
  <2>1. job'[p] = j /\ UNCHANGED disk
    BY <1>1 DEF Begin, KeepInv, TypeInv, TypeOK
  <2>2. TargetFree(p)'
    BY <1>1, <2>1 DEF TargetFree, IsDir, Exists, ToDirect
  <2>3. SourceSafe(p)'
    BY <1>1, <2>1 DEF SourceSafe, Moves
  <2> QED
    BY <1>1, <2>1, <2>2, <2>3 DEF Local
<1> HIDE DEF Goal
<1>2. ASSUME NEW op \in {"copy", "move"}, NEW from \in UserPaths, NEW d \in Dirs,
             NEW mode \in Modes, StartTransfer(p, op, from, d, mode)
      PROVE  Goal
  <2> DEFINE to == <<d, from[2]>>
             step == IF mode = "keepBoth" THEN "resolve" ELSE CopyEntry(from, to, mode)
             j == NewJob(op, from, to, mode, Nothing, step)
  <2>1. to[1] = d /\ (op = "move" => d # from[1])
    BY <1>2 DEF StartTransfer
  <2>2. step \in {"resolve", "clear", "check", "stat"}
    BY DEF CopyEntry
  <2>3. step = "stat" /\ IsDir(from) => ~Exists(to)
    BY <1>2 DEF StartTransfer, CopyEntry
  <2>4. Begin(p, j)
    BY <1>2 DEF StartTransfer
  <2>6. step = "stat" => mode # "keepBoth"
    OBVIOUS
  <2> HIDE DEF to, step
  <2>5. TwoEnds(j)
    BY <2>1 DEF TwoEnds
  <2> QED
    BY <1>1, <2>2, <2>3, <2>4, <2>5, <2>6
<1>3. ASSUME NEW from \in UserPaths, NEW id \in Ids, StartBin(p, from, id)
      PROVE  Goal
  BY <1>1, <1>3 DEF StartBin, TwoEnds
<1>4. ASSUME NEW id \in Ids, StartRestore(p, id) \/ StartPurge(p, id)
      PROVE  Goal
  <2>1. CASE StartRestore(p, id)
    BY <1>1, <2>1 DEF StartRestore, TwoEnds
  <2>2. CASE StartPurge(p, id)
    BY <1>1, <2>2 DEF StartPurge, TwoEnds, Moves
  <2> QED
    BY <1>4, <2>1, <2>2
<1>5. ASSUME NEW to \in UserPaths, NEW c \in Contents, NEW mode \in Modes,
             StartImport(p, to, c, mode) \/ StartUpload(p, to, c, mode)
      PROVE  Goal
  <2>1. CASE StartImport(p, to, c, mode)
    <3> DEFINE step == IF mode = "keepBoth" THEN "resolve" ELSE "open"
               j == NewJob("import", Nothing, to, mode, Full(c), step)
    <3>1. Begin(p, j) /\ step \in {"resolve", "open"} /\ (step = "open" => mode # "keepBoth")
      BY <2>1 DEF StartImport
    <3> HIDE DEF step
    <3> QED
      BY <1>1, <3>1 DEF TwoEnds
  <2>2. CASE StartUpload(p, to, c, mode)
    BY <1>1, <2>2 DEF StartUpload, TwoEnds
  <2> QED
    BY <1>5, <2>1, <2>2
<1>6. ASSUME NEW from \in UserPaths, NEW name \in Names, StartRename(p, from, name)
      PROVE  Goal
  <2> DEFINE to == <<from[1], name>>
             step == IF Direct(from, from) THEN "check" ELSE "rename"
             j == NewJob("rename", from, to, "create", Nothing, step)
  <2>1. Begin(p, j)
    BY <1>6 DEF StartRename
  <2>2. to \in UserPaths /\ to # from /\ to[1] = from[1]
    BY <1>6 DEF StartRename, UserPaths
  <2>3. step \in {"check", "rename"} /\ (step = "rename" => ~Direct(from, from))
    OBVIOUS
  <2> HIDE DEF to, step
  <2>4. ToDirect(j) = Direct(from, from)
    BY <2>2 DEF ToDirect, Direct, Fold
  <2>5. TwoEnds(j)
    BY <2>2 DEF TwoEnds
  <2> QED
    BY <1>1, <2>1, <2>3, <2>4, <2>5
<1>7. Goal
  BY <1>2, <1>3, <1>4, <1>5, <1>6 DEF Request
<1> QED
  BY <1>7 DEF Goal

(* A new job and those it meets are crossed; the others keep their paths.   *)
LEMMA RequestKeeps ==
  ASSUME KeepInv, NEW p \in Jobs, Request(p)
  PROVE  KeepInv'
<1>1. TypeInv'
  BY RequestType DEF KeepInv
<1>2. PICK j : Begin(p, j) /\ job'[p] = j /\ Local(p)'
  BY RequestLocal
<1>3. UNCHANGED disk /\ \A q \in Jobs \ {p} : job'[q] = job[q]
  BY <1>2 DEF Begin, KeepInv, TypeInv, TypeOK
<1>4. /\ \A q \in Jobs \ crossed' : q \notin crossed
      /\ \A q \in Jobs \ crossed' : q # p => Apart(j, job[q])
      /\ p \notin crossed' => \A q \in Jobs \ {p} : Apart(j, job[q])
  BY <1>2 DEF Begin, Met
<1>5. Disjoint'
  <2> SUFFICES ASSUME NEW q \in Jobs, q \notin crossed', NEW r \in Jobs, q # r
               PROVE  Apart(job'[q], job'[r])
    BY DEF Disjoint, Apart, Writes, Uses, Targets, Tries
  <2>1. CASE q # p /\ r # p
    BY <1>3, <1>4, <2>1 DEF KeepInv, Disjoint
  <2>2. CASE q = p
    BY <1>2, <1>3, <1>4, <2>2
  <2>3. CASE r = p
    BY <1>2, <1>3, <1>4, <2>3, ApartBothWays
  <2> QED
    BY <2>1, <2>2, <2>3
<1>6. ASSUME NEW q \in Jobs \ {p}, q \notin crossed'
      PROVE  Local(q)'
  BY <1>3, <1>4, <1>6, Quiet DEF KeepInv
<1>7. Writers'
  <2>1. job[p] = Idle
    BY <1>2 DEF Begin
  <2>2. \A x \in Paths : Exists(x) => disk[x].by # p
    BY <2>1, NothingApart, NothingAssumption
       DEF KeepInv, Writers, WriterOf, Filling, Idle, NewJob
  <2> QED
    BY <1>3, <2>2, Marks DEF KeepInv, Exists
<1> QED
  BY <1>1, <1>2, <1>5, <1>6, <1>7 DEF KeepInv

LEMMA ProgressKeeps ==
  ASSUME KeepInv, NEW p \in Jobs, Progress(p)
  PROVE  KeepInv'
<1> USE DEF KeepInv
<1>1. TypeInv'
  BY NextType DEF Next
<1>2. /\ Writes(job'[p]) \subseteq Writes(job[p])
      /\ Uses(job'[p]) \subseteq Uses(job[p])
  BY Footprint
<1>3. \A q \in Jobs \ {p} : job'[q] = job[q]
  BY OthersStay
<1>4. \A q \in Jobs \ crossed' : q \notin crossed \/ (q = p /\ job'[p] = Idle)
  BY DEF Progress
<1>5. Disjoint'
  <2> SUFFICES ASSUME NEW q \in Jobs, q \notin crossed', NEW r \in Jobs, q # r
               PROVE  Apart(job'[q], job'[r])
    BY DEF Disjoint, Apart, Writes, Uses, Targets, Tries
  <2>1. CASE q = p /\ job'[p] = Idle
    BY <2>1, IdleFree DEF Apart
  <2>2. CASE q \notin crossed
    <3>1. Apart(job[q], job[r])
      BY <2>2 DEF Disjoint
    <3>2. /\ Writes(job'[q]) \subseteq Writes(job[q]) /\ Uses(job'[q]) \subseteq Uses(job[q])
          /\ Writes(job'[r]) \subseteq Writes(job[r]) /\ Uses(job'[r]) \subseteq Uses(job[r])
      BY <1>2, <1>3
    <3> QED
      BY <3>1, <3>2 DEF Apart
  <2> QED
    BY <1>4, <2>1, <2>2
<1>6. p \notin crossed' => Local(p)'
  BY <1>4, ProgressLocal, IdleLocal
<1>7. ASSUME NEW q \in Jobs \ {p}, q \notin crossed'
      PROVE  Local(q)'
  BY <1>3, <1>4, <1>7, DiskFrame, Quiet
<1> QED
  BY <1>1, <1>5, <1>6, <1>7, WritersStay

LEMMA IdleKeeps ==
  ASSUME \A p \in Jobs : job'[p] = Idle, TypeInv',
         \A x \in Paths : disk'[x] # Nothing => disk'[x].by = Nothing
  PROVE  KeepInv'
<1>1. Disjoint'
  <2> SUFFICES ASSUME NEW q \in Jobs, NEW r \in Jobs
               PROVE  Apart(job'[q], job'[r])
    BY DEF Disjoint, Apart, Writes, Uses, Targets, Tries
  <2> QED
    BY IdleFree DEF Apart
<1>2. Writers'
  BY DEF Writers, Exists
<1> QED
  BY <1>1, <1>2, IdleLocal DEF KeepInv

LEMMA InitKeeps == Init => KeepInv
<1> SUFFICES ASSUME Init PROVE KeepInv
  OBVIOUS
<1>1. \A p \in Jobs : job[p] = Idle
  BY DEF Init
<1>2. ASSUME NEW p \in Jobs
      PROVE  Local(p)
  <2>1. job[p].pc = "idle" /\ job[p].op = "none"
    BY <1>1 DEF Idle, NewJob
  <2> QED
    BY <2>1 DEF Local, TwoEnds, TargetFree, SourceSafe, Moves
<1>3. Disjoint
  BY <1>1, IdleFree DEF Disjoint, Apart
<1>4. Writers
  <2>1. \A x \in Paths : disk[x] = Nothing \/ \E c : disk[x] = Full(c)
    BY DEF Init
  <2>2. \A c : Full(c).by = Nothing
    BY DEF Full
  <2>3. \A x \in Paths : Exists(x) => disk[x].by = Nothing
    BY <2>1, <2>2 DEF Exists
  <2> QED
    BY <2>3 DEF Writers
<1> QED
  BY <1>2, <1>3, <1>4, InitType DEF KeepInv

LEMMA NextKeeps ==
  ASSUME KeepInv, [Next]_vars
  PROVE  KeepInv'
<1>1. CASE UNCHANGED vars
  <2>1. TypeInv'
    BY <1>1, NextType DEF KeepInv
  <2>2. Disjoint'
    BY <1>1 DEF vars, KeepInv, Disjoint, Apart, Writes, Uses, Targets, Tries
  <2>3. \A p \in Jobs \ crossed' : Local(p)'
    BY <1>1 DEF vars, KeepInv, Local, TwoEnds, TargetFree, SourceSafe, Writing, Mine,
                Unchanged, Complete, Exists, IsDir, Read, ToDirect, Moves, MayLackSize
  <2>4. Writers'
    BY <1>1 DEF vars, KeepInv, Writers, WriterOf, Filling, Exists, ToDirect
  <2> QED
    BY <2>1, <2>2, <2>3, <2>4 DEF KeepInv
<1>2. CASE Crash
  <2>1. ASSUME NEW x \in Paths, disk'[x] # Nothing
        PROVE  disk'[x].by = Nothing
    <3>1. Exists(x) /\ disk'[x] = Read(x)
      BY <1>2, <2>1 DEF Crash, Read
    <3> QED
      BY <3>1, ReadIsItem DEF KeepInv, TypeInv
  <2> QED
    BY <1>2, <2>1, CrashType, IdleKeeps DEF Crash, KeepInv
<1>3. ASSUME NEW p \in Jobs, Request(p) \/ Progress(p)
      PROVE  KeepInv'
  BY <1>3, RequestKeeps, ProgressKeeps
<1> QED
  BY <1>1, <1>2, <1>3 DEF Next

-----------------------------------------------------------------------------
(* No step loses the last complete copy of a content nobody condemned,      *)
(* disputes, or deletes unverified.                                         *)

InDispute(x) == \E p \in crossed : x \in Writes(job[p])
DeletedUnverified(x) ==
  \E p \in Jobs : /\ At(p, "delSource") /\ job[p].short /\ MayLackSize(job[p])
                  /\ job[p].from = x
ExcusedAt(x) == (\E p \in Jobs : Condemns(p, x)) \/ InDispute(x) \/ DeletedUnverified(x)

LEMMA ExcusedThere ==
  ASSUME TypeOK, NEW x \in Paths, Exists(x), disk[x].c \in Contents, ExcusedAt(x)
  PROVE  disk[x].c \in Excused
BY DEF ExcusedAt, InDispute, DeletedUnverified, Excused, Condemned, Disputed, Unverified, TypeOK

(* A job disputes the paths that it writes, once it has met another there.  *)
LEMMA WritesEnds ==
  ASSUME TypeInv, NEW p \in crossed
  PROVE  /\ job[p].to \in Paths => InDispute(job[p].to)
         /\ job[p].from \in Paths /\ job[p].op # "copy" => InDispute(job[p].from)
BY NothingApart DEF InDispute, Writes, Targets

LEMMA SameDisk ==
  ASSUME UNCHANGED disk
  PROVE  Held \ Held' \subseteq Excused
BY DEF Held, Exists

(* Putting an item at x costs at most what was complete at x.               *)
LEMMA PutCosts ==
  ASSUME TypeOK, NEW x, NEW item, Put(x, item),
         x \in Paths /\ Complete(x) =>
           \/ ExcusedAt(x)
           \/ \E y \in Paths \ {x} : Complete(y) /\ disk[y].c = disk[x].c
  PROVE  Held \ Held' \subseteq Excused
<1> SUFFICES ASSUME NEW c \in Held, c \notin Held'
             PROVE  c \in Excused
  OBVIOUS
<1>1. PICK y \in Paths : Exists(y) /\ disk[y].c = c /\ disk[y].whole
  BY DEF Held
<1>2. c \in Contents
  BY DEF Held
<1>3. \A z \in Paths : Exists(z) /\ disk[z].c = c /\ disk[z].whole => z = x
  BY <1>2, PutFrame DEF Held, Exists
<1>4. y = x /\ Complete(x)
  BY <1>1, <1>3 DEF Complete
<1>5. \A z \in Paths \ {x} : ~(Complete(z) /\ disk[z].c = disk[x].c)
  BY <1>1, <1>3, <1>4 DEF Complete
<1>6. ExcusedAt(x)
  BY <1>1, <1>4, <1>5
<1> QED
  BY <1>1, <1>2, <1>4, <1>6, ExcusedThere

Targeting(p) ==
  Clearing(p) \/ Blit(p) \/ Blitting(p) \/ Open(p) \/ Commit(p) \/ Verify(p) \/ Abort(p)

LEMMA PutsAtTarget ==
  ASSUME NEW p \in Jobs, Targeting(p)
  PROVE  UNCHANGED disk \/ \E item : Put(job[p].to, item)
<1>1. CASE Clearing(p)
  BY <1>1 DEF Clearing, HalfDeleted
<1>2. CASE Blit(p)
  BY <1>2 DEF Blit
<1>3. CASE Blitting(p)
  BY <1>3 DEF Blitting
<1>4. CASE Open(p)
  BY <1>4 DEF Open, OpenTarget
<1>5. CASE Commit(p)
  BY <1>5 DEF Commit
<1>6. CASE Verify(p) \/ Abort(p)
  BY <1>6 DEF Verify, Abort
<1> QED
  BY <1>1, <1>2, <1>3, <1>4, <1>5, <1>6 DEF Targeting

(* What a job that met no other writes at its target costs nothing, unless  *)
(* it may replace what is there.                                            *)
LEMMA PutsTarget ==
  ASSUME KeepInv, NEW p \in Jobs \ crossed,
         Targeting(p)
  PROVE  \/ UNCHANGED disk
         \/ /\ \E item : Put(job[p].to, item)
            /\ Complete(job[p].to) => job[p].mode = "replace"
<1> DEFINE j == job[p]
           Puts == \E item : Put(j.to, item)
<1>1. j \in JobStates /\ Shape(j) /\ TypeOK /\ TargetFree(p)
  BY DEF KeepInv, TypeInv, TypeOK, Local
<1>2. \A item : Put(j.to, item) => Puts
  OBVIOUS
<1> HIDE DEF Puts
<1> SUFFICES UNCHANGED disk \/ (Puts /\ (Complete(j.to) => j.mode = "replace"))
  BY DEF Puts
<1>3. CASE Clearing(p)
  <2>1. j.mode = "replace"
    BY <1>1, <1>3 DEF Clearing, At, Shape, StepsOf
  <2> QED
    BY <1>2, <1>3, <2>1 DEF Clearing, HalfDeleted
<1>4. CASE Blit(p)
  <2>1. ~Complete(j.to)
    BY <1>1, <1>4 DEF Blit, At, TargetFree, Complete
  <2> QED
    BY <1>2, <1>4, <2>1 DEF Blit
<1>5. CASE Blitting(p)
  <2>1. ~Complete(j.to)
    BY <1>1, <1>5 DEF Blitting, At, TargetFree, Writing, Complete
  <2> QED
    BY <1>2, <1>5, <2>1 DEF Blitting
<1>6. CASE Open(p)
  <2>1. UNCHANGED disk \/ (Puts /\ (Exists(j.to) => ~Creates(j)))
    BY <1>2, <1>6 DEF Open, OpenTarget
  <2>2. Exists(j.to) /\ ~Creates(j) => j.mode = "replace"
    BY <1>1, <1>6 DEF Open, At, TargetFree, Creates, JobStates, Modes
  <2> QED
    BY <1>2, <2>1, <2>2 DEF Complete
<1>7. CASE Verify(p)
  <2>1. ~Complete(j.to)
    BY <1>1, <1>7 DEF Verify, At, TargetFree
  <2> QED
    BY <1>2, <1>7, <2>1 DEF Verify
<1>8. CASE Abort(p)
  <2>1. ~ToDirect(j) => ~Complete(j.to)
    BY <1>1, <1>8 DEF Abort, At, TargetFree, Writing, Complete
  <2> QED
    BY <1>2, <1>8, <2>1 DEF Abort
<1>9. CASE Commit(p)
  <2>1. CASE ToDirect(j) /\ IsDir(j.to)
    BY <1>9, <2>1 DEF Commit
  <2>2. CASE ToDirect(j) /\ ~IsDir(j.to)
    <3>1. Complete(j.to) => j.mode = "replace"
      BY <1>1, <1>9, <2>2 DEF Commit, At, TargetFree, Complete
    <3> QED
      BY <1>2, <1>9, <2>2, <3>1 DEF Commit
  <2>3. CASE ~ToDirect(j)
    <3>1. ~Complete(j.to)
      BY <1>1, <1>9, <2>3 DEF Commit, At, TargetFree, Writing, Complete
    <3> QED
      BY <1>2, <1>9, <2>3, <3>1 DEF Commit
  <2> QED
    BY <2>1, <2>2, <2>3
<1> QED
  BY <1>3, <1>4, <1>5, <1>6, <1>7, <1>8, <1>9 DEF Targeting

LEMMA TargetCosts ==
  ASSUME KeepInv, NEW p \in Jobs, Targeting(p)
  PROVE  Held \ Held' \subseteq Excused
<1>1. TypeOK /\ TypeInv
  BY DEF KeepInv, TypeInv
<1>2. CASE p \in crossed
  BY <1>1, <1>2, WritesEnds, PutsAtTarget, PutCosts, SameDisk DEF ExcusedAt
<1>3. CASE p \notin crossed
  <2>1. Complete(job[p].to) /\ job[p].mode = "replace" => ExcusedAt(job[p].to)
    BY DEF Condemns, ExcusedAt
  <2> QED
    BY <1>1, <1>3, <2>1, PutsTarget, PutCosts, SameDisk
<1> QED
  BY <1>2, <1>3

LEMMA DeleteCosts ==
  ASSUME KeepInv, NEW p \in Jobs, DeleteSource(p)
  PROVE  Held \ Held' \subseteq Excused
<1> DEFINE j == job[p]
<1>1. j \in JobStates /\ Shape(j) /\ TypeOK /\ TypeInv /\ (p \notin crossed => Local(p))
  BY DEF KeepInv, TypeInv, TypeOK
<1>2. CASE UNCHANGED disk
  BY <1>2, SameDisk
<1>3. j.pc = "delSource"
  BY DEF DeleteSource, At
<1>4. j.op = "purge" \/ Moves(j)
  BY <1>1, <1>3 DEF Shape, StepsOf, JobStates, Kinds, Moves
<1>5. j.from \in Paths /\ Complete(j.from) =>
        \/ ExcusedAt(j.from)
        \/ \E y \in Paths \ {j.from} : Complete(y) /\ disk[y].c = disk[j.from].c
  <2>1. CASE j.op = "purge"
    BY <2>1 DEF Condemns, ExcusedAt
  <2>2. CASE p \in crossed
    BY <1>1, <1>4, <2>2, WritesEnds DEF ExcusedAt, Moves
  <2>3. CASE Moves(j) /\ p \notin crossed
    <3>1. CASE j.short /\ MayLackSize(j)
      BY <1>3, <3>1 DEF ExcusedAt, DeletedUnverified, At
    <3>2. CASE ~(j.short /\ MayLackSize(j))
      BY <1>1, <1>3, <2>3, <3>2, CopyEnds DEF Local, SourceSafe
    <3> QED
      BY <3>1, <3>2
  <2> QED
    BY <1>4, <2>1, <2>2, <2>3
<1>6. ASSUME NEW item, Put(j.from, item)
      PROVE  Held \ Held' \subseteq Excused
  BY <1>1, <1>5, <1>6, PutCosts
<1> QED
  BY <1>2, <1>6 DEF DeleteSource, HalfDeleted

(* A rename takes what is complete with it, over what stands at the target. *)
LEMMA RenameMoves ==
  ASSUME TypeInv, NEW p \in Jobs, Rename(p), ~UNCHANGED disk
  PROVE  /\ job[p].op = "rename" /\ job[p].from \in UserPaths /\ job[p].to \in UserPaths
         /\ Exists(job[p].from) /\ (ToDirect(job[p]) \/ ~Exists(job[p].to))
         /\ disk' = [disk EXCEPT ![job[p].from] = Nothing, ![job[p].to] = Read(job[p].from)]
         /\ disk'[job[p].to] # Nothing /\ disk'[job[p].to].c = disk[job[p].from].c
         /\ disk'[job[p].to].whole = disk[job[p].from].whole
<1> DEFINE j == job[p]
           item == Read(j.from)
<1>1. j \in JobStates /\ Shape(j) /\ TypeOK
  BY DEF TypeInv, TypeOK
<1>2. j.op = "rename"
  BY <1>1 DEF Rename, At, Shape, StepsOf, JobStates, Kinds
<1>3. j.from \in UserPaths /\ j.to \in UserPaths
  BY <1>1, <1>2 DEF Shape, Ends
<1>4. /\ Exists(j.from) /\ (ToDirect(j) \/ ~Exists(j.to))
      /\ disk' = [disk EXCEPT ![j.from] = Nothing, ![j.to] = item]
  BY DEF Rename
<1>5. disk[j.from] \in Items /\ item \in Items
  BY <1>1, <1>3, <1>4, ReadIsItem DEF TypeOK, Exists, Paths
<1>6. item.c = disk[j.from].c /\ item.whole = disk[j.from].whole
  BY <1>5 DEF Read, Items
<1> HIDE DEF item
<1>7. disk'[j.to] = item
  BY <1>1, <1>3, <1>4 DEF TypeOK, Paths
<1> QED
  BY <1>2, <1>3, <1>4, <1>5, <1>6, <1>7, NothingApart DEF item

LEMMA RenameCosts ==
  ASSUME KeepInv, NEW p \in Jobs, Rename(p)
  PROVE  Held \ Held' \subseteq Excused
<1> DEFINE j == job[p]
           item == Read(j.from)
<1>1. TypeOK /\ TypeInv /\ (p \notin crossed => Local(p)) /\ j.pc = "rename"
  BY DEF KeepInv, TypeInv, TypeOK, Rename, At
<1>2. CASE UNCHANGED disk
  BY <1>2, SameDisk
<1>3. CASE ~UNCHANGED disk
  <2>1. /\ j.op = "rename" /\ j.from \in Paths /\ j.to \in Paths
        /\ ToDirect(j) \/ ~Exists(j.to)
        /\ disk' = [disk EXCEPT ![j.from] = Nothing, ![j.to] = item]
        /\ disk'[j.to] # Nothing /\ disk'[j.to].c = disk[j.from].c
        /\ disk'[j.to].whole = disk[j.from].whole
    BY <1>1, <1>3, RenameMoves DEF Paths
  <2>2. Exists(j.to) => ExcusedAt(j.to)
    <3>1. CASE p \in crossed
      BY <1>1, <2>1, <3>1, WritesEnds DEF ExcusedAt
    <3>2. CASE p \notin crossed
      BY <1>1, <2>1, <3>2 DEF Local, TargetFree
    <3> QED
      BY <3>1, <3>2
  <2> HIDE DEF item
  <2>3. ASSUME NEW c \in Held, c \notin Held'
        PROVE  c \in Excused
    <3>1. PICK x \in Paths : Exists(x) /\ disk[x].c = c /\ disk[x].whole
      BY DEF Held
    <3>2. c \in Contents
      BY DEF Held
    <3>3. x # j.from
      <4>1. ASSUME x = j.from
            PROVE  FALSE
        BY <2>1, <2>3, <3>1, <3>2, <4>1 DEF Held, Exists
      <4> QED
        BY <4>1
    <3>4. x = j.to
      <4>1. ASSUME x # j.to
            PROVE  disk'[x] = disk[x]
        BY <1>1, <2>1, <3>3, <4>1 DEF TypeOK
      <4> QED
        BY <2>3, <3>1, <3>2, <4>1 DEF Held, Exists
    <3> QED
      BY <1>1, <2>2, <3>1, <3>2, <3>4, ExcusedThere
  <2> QED
    BY <2>3
<1> QED
  BY <1>2, <1>3

LEMMA StepCosts ==
  ASSUME KeepInv, [Next]_vars
  PROVE  Held \ Held' \subseteq Excused
<1>1. CASE UNCHANGED disk
  BY <1>1, SameDisk
<1>2. CASE Crash
  <2>1. ASSUME NEW x \in Paths, Exists(x)
        PROVE  disk'[x] # Nothing /\ disk'[x].c = disk[x].c /\ disk'[x].whole = disk[x].whole
    <3>1. disk'[x] = Read(x)
      BY <1>2, <2>1 DEF Crash, Read
    <3>2. disk[x] \in Items /\ Read(x) \in Items
      BY <2>1, ReadIsItem DEF Exists, KeepInv, TypeInv, TypeOK
    <3> QED
      BY <3>1, <3>2, NothingApart DEF Read, Items
  <2>2. Held \subseteq Held'
    BY <2>1 DEF Held, Exists
  <2> QED
    BY <2>2
<1>3. ASSUME NEW p \in Jobs, Request(p)
      PROVE  UNCHANGED disk
  BY <1>3, RequestLocal DEF Begin
<1>4. ASSUME NEW p \in Jobs, Progress(p)
      PROVE  Held \ Held' \subseteq Excused
  <2>1. CASE Resolve(p) \/ Clear(p) \/ Check(p) \/ Stat(p) \/ Fill(p) \/ AddRow(p) \/ DropRow(p)
    BY <1>1, <2>1 DEF Resolve, Clear, Check, Stat, Fill, AddRow, DropRow, NoDisk
  <2> QED
    BY <1>4, <2>1, TargetCosts, DeleteCosts, RenameCosts DEF Progress, Step, Targeting
<1> QED
  BY <1>1, <1>2, <1>3, <1>4 DEF Next, vars

(* FileOps implements FileVault: every copy, move, delete, restore, import, *)
(* upload, rename, fault and crash keeps the last complete copy of every    *)
(* content that nobody asks to replace or to delete for good, that no two   *)
(* jobs dispute, and that no move deletes after a copy it could not verify. *)
THEOREM Keeping == Spec => KeepsUndisputed
<1>1. Init => LessVault!Init
  <2> SUFFICES ASSUME Init PROVE LessVault!Init
    OBVIOUS
  <2>1. \A p \in Jobs, x \in Paths : ~Condemns(p, x)
    BY DEF Init, Idle, NewJob, Condemns
  <2>2. crossed = {} /\ \A p \in Jobs : ~At(p, "delSource")
    BY DEF Init, Idle, NewJob, At
  <2> QED
    BY <2>1, <2>2 DEF LessVault!Init, Excused, Condemned, Disputed, Unverified, Held
<1>2. KeepInv /\ [Next]_vars => [LessVault!Next]_(LessVault!vvars)
  <2> SUFFICES ASSUME KeepInv, [Next]_vars PROVE LessVault!Next
    OBVIOUS
  <2>1. Held' \subseteq Contents /\ Excused' \subseteq Contents
    BY DEF Held, Excused, Condemned, Disputed, Unverified
  <2> QED
    BY <2>1, StepCosts DEF LessVault!Next
<1>3. KeepInv /\ [Next]_vars => KeepInv'
  BY NextKeeps
<1> QED
  BY <1>1, <1>2, <1>3, InitKeeps, PTL DEF Spec, KeepsUndisputed, LessVault!Spec

-----------------------------------------------------------------------------
(* What the other properties of the runs rest on.  Intact: whole items, on  *)
(* disk and in a job's hands, are those that there were, and nobody writes  *)
(* them.  SlotAlone, Slots: a slot is filled by one job, before its row     *)
(* comes, and, if no other job meets that one, emptied before its row goes. *)
(* OldStays: a file that an upload replaces is not touched before the       *)
(* commit, if the upload met no other job there.                            *)
Sound(item) == item # Nothing /\ item.whole => item = Full(item.c)
Intact == (\A x \in Paths : Sound(disk[x])) /\ \A p \in Jobs : Sound(job[p].data)
SlotAlone ==
  \A p, q \in Jobs :
    p # q /\ job[p].op = "bin" /\ job[q].op = "bin" => job[p].to # job[q].to
Slots(p) ==
  LET j == job[p] IN
  /\ j.op = "bin" => rows[j.to] = Nothing
  /\ j.pc = "dropRow" /\ p \notin crossed => ~Exists(j.from)
OldStays(p) ==
  LET j == job[p] IN
  j.op = "upload" =>
    /\ ~j.short /\ j.pc # "verify"
    /\ j.old # Nothing /\ ToDirect(j) /\ p \notin crossed => disk[j.to] = Full(j.old)
FilesInv == KeepInv /\ Intact /\ SlotAlone /\ \A p \in Jobs : Slots(p) /\ OldStays(p)

LEMMA Fresh ==
  ASSUME NEW p \in Jobs, Request(p)
  PROVE  \E j : /\ Begin(p, j) /\ Sound(j.data) /\ ~j.short /\ j.old = Nothing
                /\ j.pc \notin {"dropRow", "verify"}
                /\ j.op = "bin" => rows[j.to] = Nothing /\ \A q \in Jobs : j.to \notin Uses(job[q])
<1> DEFINE Brings(j) ==
             /\ Begin(p, j) /\ Sound(j.data) /\ ~j.short /\ j.old = Nothing
             /\ j.pc \notin {"dropRow", "verify"}
             /\ j.op = "bin" => rows[j.to] = Nothing /\ \A q \in Jobs : j.to \notin Uses(job[q])
<1>1. ASSUME NEW op, NEW from, NEW to, NEW mode, NEW data, NEW step,
             Begin(p, NewJob(op, from, to, mode, data, step)),
             data = Nothing \/ \E c : data = Full(c),
             step \notin {"dropRow", "verify"},
             op = "bin" => rows[to] = Nothing /\ \A q \in Jobs : to \notin Uses(job[q])
      PROVE  \E j : Brings(j)
  <2>1. Sound(data)
    BY <1>1 DEF Sound, Full
  <2> QED
    BY <1>1, <2>1 DEF NewJob
<1> HIDE DEF Brings
<1>2. ASSUME NEW op \in {"copy", "move"}, NEW from \in UserPaths, NEW d \in Dirs,
             NEW mode \in Modes, StartTransfer(p, op, from, d, mode)
      PROVE  \E j : Brings(j)
  <2> DEFINE to == <<d, from[2]>>
             step == IF mode = "keepBoth" THEN "resolve" ELSE CopyEntry(from, to, mode)
  <2>1. Begin(p, NewJob(op, from, to, mode, Nothing, step))
    BY <1>2 DEF StartTransfer
  <2>2. step \notin {"dropRow", "verify"}
    BY DEF CopyEntry
  <2> HIDE DEF to, step
  <2> QED
    BY <1>1, <2>1, <2>2
<1>3. ASSUME NEW from \in UserPaths, NEW id \in Ids, StartBin(p, from, id)
      PROVE  \E j : Brings(j)
  BY <1>1, <1>3 DEF StartBin
<1>4. ASSUME NEW id \in Ids, StartRestore(p, id) \/ StartPurge(p, id)
      PROVE  \E j : Brings(j)
  BY <1>1, <1>4 DEF StartRestore, StartPurge
<1>5. ASSUME NEW to \in UserPaths, NEW c \in Contents, NEW mode \in Modes,
             StartImport(p, to, c, mode) \/ StartUpload(p, to, c, mode)
      PROVE  \E j : Brings(j)
  <2> DEFINE step == IF mode = "keepBoth" THEN "resolve" ELSE "open"
  <2>1. \/ Begin(p, NewJob("import", Nothing, to, mode, Full(c), step))
        \/ Begin(p, NewJob("upload", Nothing, to, mode, Full(c), "stat"))
    BY <1>5 DEF StartImport, StartUpload
  <2>2. step \notin {"dropRow", "verify"}
    OBVIOUS
  <2> HIDE DEF step
  <2> QED
    BY <1>1, <2>1, <2>2
<1>6. ASSUME NEW from \in UserPaths, NEW name \in Names, StartRename(p, from, name)
      PROVE  \E j : Brings(j)
  <2> DEFINE step == IF Direct(from, from) THEN "check" ELSE "rename"
  <2>1. Begin(p, NewJob("rename", from, <<from[1], name>>, "create", Nothing, step))
    BY <1>6 DEF StartRename
  <2>2. step \notin {"dropRow", "verify"}
    OBVIOUS
  <2> HIDE DEF step
  <2> QED
    BY <1>1, <2>1, <2>2
<1>7. \E j : Brings(j)
  BY <1>2, <1>3, <1>4, <1>5, <1>6 DEF Request
<1> QED
  BY <1>7 DEF Brings

(* A step ends its job, goes on to another step with the same locals, or    *)
(* changes them: what a job has in its hands it brought, or it read it from *)
(* its source.                                                              *)
Onward(p) ==
  /\ job'[p].op = job[p].op /\ job'[p].pc \notin {"dropRow", "verify"}
  /\ \/ job'[p].data = job[p].data
     \/ /\ job[p].from \in Paths /\ Exists(job[p].from)
        /\ job'[p].data = Read(job[p].from)

LEMMA Goes ==
  ASSUME TypeInv, NEW p \in Jobs, Progress(p)
  PROVE  \/ End(p)
         \/ \E step : Go(p, step) /\ (step = "dropRow" => DeleteSource(p))
         \/ Onward(p)
<1> DEFINE j == job[p]
<1>1. j \in JobStates /\ Shape(j) /\ job \in [Jobs -> JobStates]
  BY DEF TypeInv, TypeOK
<1> DEFINE Same == \/ End(p)
                   \/ \E step : Go(p, step) /\ (step = "dropRow" => DeleteSource(p))
<1>2. /\ End(p) => Same
      /\ \A step : Go(p, step) /\ (step = "dropRow" => DeleteSource(p)) => Same
  OBVIOUS
<1> SUFFICES Same \/ Onward(p)
  OBVIOUS
<1> HIDE DEF Same
<1>3. CASE Resolve(p) /\ ~Same
  <2> DEFINE t == <<j.to[1], Candidates[j.to[2]][j.k]>>
             step == CopyEntry(j.from, t, j.mode)
  <2>1. \/ job' = [job EXCEPT ![p] = NextTry(j)]
        \/ job' = [job EXCEPT ![p] = [j EXCEPT !.to = t, !.mode = "create", !.pc = "open"]]
        \/ job' = [job EXCEPT ![p] = [j EXCEPT !.to = t, !.pc = step]]
    BY <1>2, <1>3 DEF Resolve
  <2>2. step \notin {"dropRow", "verify"} /\ j.pc = "resolve"
    BY <1>3 DEF CopyEntry, Resolve, At
  <2> HIDE DEF t, step
  <2>3. \/ job'[p] = NextTry(j)
        \/ job'[p] = [j EXCEPT !.to = t, !.mode = "create", !.pc = "open"]
        \/ job'[p] = [j EXCEPT !.to = t, !.pc = step]
    BY <1>1, <2>1
  <2>4. job'[p].op = j.op /\ job'[p].data = j.data /\ job'[p].pc \in {"resolve", "open", step}
    BY <1>1, <2>2, <2>3 DEF NextTry, JobStates
  <2> QED
    BY <2>2, <2>4 DEF Onward
<1>4. CASE Stat(p) /\ ~Same
  <2> DEFINE mode == IF Exists(j.to) THEN "replace" ELSE "create"
             old == IF Exists(j.to) /\ disk[j.to].whole THEN disk[j.to].c ELSE Nothing
  <2>1. job' = [job EXCEPT ![p] = [j EXCEPT !.pc = "open", !.mode = mode, !.old = old]]
    BY <1>2, <1>4 DEF Stat
  <2> HIDE DEF mode, old
  <2> QED
    BY <1>1, <2>1 DEF JobStates, Onward
<1>5. CASE Blit(p) /\ ~Same
  <2> DEFINE data == Read(j.from)
  <2>1. Exists(j.from) /\ job' = [job EXCEPT ![p].pc = "blitting", ![p].data = data]
    BY <1>2, <1>5 DEF Blit
  <2>2. j.from \in Paths
    BY <1>1, <1>5 DEF Blit, At, Shape, StepsOf, Ends, JobStates, Kinds, Paths
  <2> HIDE DEF data
  <2>3. job'[p].data = data /\ job'[p].op = j.op /\ job'[p].pc = "blitting"
    BY <1>1, <2>1 DEF JobStates
  <2> QED
    BY <2>1, <2>2, <2>3 DEF data, Onward
<1>6. CASE Open(p) /\ ~Same
  <2> DEFINE fresh == ~Exists(j.to)
  <2>1. job' = [job EXCEPT ![p].pc = "fill", ![p].fresh = fresh]
    BY <1>2, <1>6 DEF Open
  <2> HIDE DEF fresh
  <2> QED
    BY <1>1, <2>1 DEF JobStates, Onward
<1>7. CASE Fill(p) /\ ~Same
  <2> DEFINE data == IF j.from # Nothing THEN Read(j.from) ELSE j.data
  <2>4. ~Go(p, "abort")
    BY <1>2, <1>7
  <2>1. PICK short \in BOOLEAN :
          job' = [job EXCEPT ![p].pc = "commit", ![p].short = short, ![p].data = data]
    BY <1>7, <2>4 DEF Fill
  <2>2. j.from # Nothing => Exists(j.from) /\ j.from \in Paths
    BY <1>1, <1>7, <2>4 DEF Fill, JobStates
  <2> HIDE DEF data
  <2>3. job'[p].data = data /\ job'[p].op = j.op /\ job'[p].pc = "commit"
    BY <1>1, <2>1 DEF JobStates
  <2> QED
    BY <2>2, <2>3 DEF data, Onward
<1>8. CASE Check(p)
  <2>1. End(p) \/ Go(p, "rename") \/ Go(p, "blit") \/ Go(p, "open")
    BY <1>8 DEF Check
  <2> QED
    BY <1>2, <2>1
<1>9. CASE Clear(p) \/ Clearing(p) \/ Verify(p) \/ Abort(p) \/ Rename(p) \/ AddRow(p) \/ DropRow(p)
  <2>1. End(p) \/ Go(p, "clearing") \/ Go(p, "check")
    BY <1>9 DEF Clear, Clearing, Verify, Abort, Rename, AddRow, DropRow
  <2> QED
    BY <1>2, <2>1
<1>10. CASE Blitting(p) \/ Commit(p)
  <2>1. End(p) \/ Go(p, "delSource") \/ Go(p, "verify")
    BY <1>10 DEF Blitting, Commit, AfterCopy, AfterWrite, Written
  <2> QED
    BY <1>2, <2>1
<1>11. CASE DeleteSource(p)
  <2>1. End(p) \/ Go(p, "addRow") \/ Go(p, "dropRow")
    BY <1>11 DEF DeleteSource, AfterDelete
  <2> QED
    BY <1>2, <1>11, <2>1
<1> QED
  BY <1>3, <1>4, <1>5, <1>6, <1>7, <1>8, <1>9, <1>10, <1>11 DEF Progress, Step

LEMMA SameOp ==
  ASSUME TypeInv, NEW p \in Jobs, Progress(p)
  PROVE  job'[p] = Idle \/ job'[p].op = job[p].op
BY Goes, EndSteady, GoFields DEF Onward

LEMMA SoundItems ==
  ASSUME TypeInv, Intact
  PROVE  /\ Sound(Nothing)
         /\ \A dir, by : Sound(Partial(dir, by))
         /\ \A x \in Paths : Exists(x) => Sound(Read(x)) /\ Sound([disk[x] EXCEPT !.whole = FALSE])
         /\ \A p \in Jobs : job[p].data # Nothing =>
              \A whole \in BOOLEAN : (whole => job[p].data.whole)
                => Sound([job[p].data EXCEPT !.whole = whole])
<1>1. Sound(Nothing) /\ \A dir, by : Sound(Partial(dir, by))
  BY DEF Sound, Partial
<1>2. ASSUME NEW x \in Paths, Exists(x)
      PROVE  Sound(Read(x)) /\ Sound([disk[x] EXCEPT !.whole = FALSE])
  <2>1. disk[x] \in Items /\ Sound(disk[x])
    BY <1>2 DEF TypeInv, TypeOK, Exists, Intact
  <2>2. CASE disk[x].whole
    <3>1. disk[x] = Full(disk[x].c)
      BY <2>1, <2>2, <1>2 DEF Sound, Exists
    <3>2. disk[x].by = Nothing
      BY <3>1 DEF Full
    <3>3. Read(x) = disk[x]
      BY <2>1, <3>2 DEF Read, Items
    <3> QED
      BY <2>1, <3>3 DEF Sound, Items
  <2>3. CASE ~disk[x].whole
    BY <2>1, <2>3 DEF Sound, Read, Items
  <2> QED
    BY <2>2, <2>3
<1>3. ASSUME NEW p \in Jobs, job[p].data # Nothing, NEW whole \in BOOLEAN,
             whole => job[p].data.whole
      PROVE  Sound([job[p].data EXCEPT !.whole = whole])
  <2>1. job[p].data \in Items /\ Sound(job[p].data)
    BY <1>3 DEF TypeInv, TypeOK, JobStates, Intact
  <2>2. CASE whole
    <3>1. [job[p].data EXCEPT !.whole = whole] = job[p].data
      BY <1>3, <2>1, <2>2 DEF Items
    <3> QED
      BY <2>1, <3>1
  <2>3. CASE ~whole
    BY <2>1, <2>3 DEF Sound, Items
  <2> QED
    BY <2>2, <2>3
<1> QED
  BY <1>1, <1>2, <1>3

LEMMA SoundPut ==
  ASSUME TypeInv, Intact, NEW x, NEW item, Put(x, item), Sound(item)
  PROVE  \A y \in Paths : Sound(disk'[y])
BY DEF TypeInv, TypeOK, Put, Intact

LEMMA ProgressSound ==
  ASSUME TypeInv, Intact, NEW p \in Jobs, Progress(p)
  PROVE  \A y \in Paths : Sound(disk'[y])
<1> DEFINE j == job[p]
<1>1. j \in JobStates /\ Shape(j) /\ TypeOK
  BY DEF TypeInv, TypeOK
<1>2. CASE UNCHANGED disk
  BY <1>2 DEF Intact
<1>3. ASSUME NEW x, Put(x, Nothing) \/ HalfDeleted(x) \/ \E dir, by : Put(x, Partial(dir, by))
      PROVE  \A y \in Paths : Sound(disk'[y])
  <2>1. CASE Put(x, Nothing) \/ \E dir, by : Put(x, Partial(dir, by))
    BY <2>1, SoundItems, SoundPut
  <2>2. CASE HalfDeleted(x) /\ x \in Paths
    BY <2>2, SoundItems, SoundPut DEF HalfDeleted, IsDir
  <2>3. CASE HalfDeleted(x) /\ x \notin Paths
    BY <1>1, <1>2, <2>3 DEF HalfDeleted, Put, TypeOK
  <2> QED
    BY <1>3, <2>1, <2>2, <2>3
<1>4. CASE Clearing(p) \/ Verify(p) \/ DeleteSource(p)
  BY <1>2, <1>3, <1>4 DEF Clearing, Verify, DeleteSource
<1>5. CASE Blit(p) \/ Open(p) \/ Abort(p)
  <2>1. UNCHANGED disk \/ Put(j.to, Nothing) \/ \E dir, by : Put(j.to, Partial(dir, by))
    BY <1>5 DEF Blit, Open, OpenTarget, Abort
  <2> QED
    BY <1>2, <1>3, <2>1
<1>6. CASE Blitting(p)
  <2>1. j.data # Nothing /\ j.data \in Items
    BY <1>1, <1>6 DEF Blitting, At, Shape, Bytes
  <2>2. \/ UNCHANGED disk \/ Put(j.to, Nothing) \/ (\E dir, by : Put(j.to, Partial(dir, by)))
        \/ \E whole \in BOOLEAN : (whole => j.data.whole) /\ Put(j.to, [j.data EXCEPT !.whole = whole])
    <3>1. CASE \E whole \in {FALSE, j.data.whole} :
                 Put(j.to, [j.data EXCEPT !.whole = whole]) \/ UNCHANGED disk
      BY <2>1, <3>1 DEF Items
    <3>2. CASE ~\E whole \in {FALSE, j.data.whole} :
                 Put(j.to, [j.data EXCEPT !.whole = whole]) \/ UNCHANGED disk
      BY <1>6, <3>2 DEF Blitting
    <3> QED
      BY <3>1, <3>2
  <2>3. ASSUME NEW whole \in BOOLEAN, whole => j.data.whole,
               Put(j.to, [j.data EXCEPT !.whole = whole])
        PROVE  \A y \in Paths : Sound(disk'[y])
    BY <2>1, <2>3, SoundItems, SoundPut
  <2> QED
    BY <1>2, <1>3, <2>2, <2>3
<1>7. CASE Commit(p)
  <2>1. j.data # Nothing /\ j.data \in Items /\ j.short \in BOOLEAN
    BY <1>1, <1>7 DEF Commit, At, Shape, Bytes, JobStates
  <2> DEFINE whole == j.data.whole /\ ~j.short
             item == [j.data EXCEPT !.whole = @ /\ ~j.short]
  <2>2. UNCHANGED disk \/ (\E dir, by : Put(j.to, Partial(dir, by))) \/ Put(j.to, item)
    BY <1>7 DEF Commit
  <2>3. item = [j.data EXCEPT !.whole = whole]
    OBVIOUS
  <2>4. whole \in BOOLEAN /\ (whole => j.data.whole)
    OBVIOUS
  <2> HIDE DEF whole, item
  <2>5. Sound(item)
    BY <2>1, <2>3, <2>4, SoundItems
  <2> QED
    BY <1>2, <1>3, <2>2, <2>5, SoundPut
<1>8. CASE Rename(p)
  <2>1. CASE ~UNCHANGED disk
    <3> DEFINE item == Read(j.from)
    <3>1. disk' = [disk EXCEPT ![j.from] = Nothing, ![j.to] = item] /\ Exists(j.from)
      BY <1>8, <2>1, RenameMoves
    <3>2. j.from \in Paths
      BY <1>8, <2>1, RenameMoves DEF Paths
    <3>3. Sound(Nothing) /\ Sound(item)
      BY <3>1, <3>2, SoundItems
    <3> HIDE DEF item
    <3> QED
      BY <1>1, <3>1, <3>3 DEF TypeOK, Intact
  <2> QED
    BY <1>2, <2>1
<1>9. CASE Resolve(p) \/ Clear(p) \/ Check(p) \/ Stat(p) \/ Fill(p) \/ AddRow(p) \/ DropRow(p)
  BY <1>2, <1>9 DEF Resolve, Clear, Check, Stat, Fill, AddRow, DropRow, NoDisk
<1> QED
  BY <1>4, <1>5, <1>6, <1>7, <1>8, <1>9 DEF Progress, Step

LEMMA IdleSound == Sound(Idle.data)
BY DEF Sound, Idle, NewJob

LEMMA IntactStays ==
  ASSUME KeepInv, Intact, [Next]_vars
  PROVE  Intact'
<1>1. TypeInv /\ TypeOK
  BY DEF KeepInv, TypeInv
<1>2. CASE UNCHANGED vars
  BY <1>2 DEF vars, Intact
<1>3. CASE Crash
  <2>1. ASSUME NEW x \in Paths
        PROVE  Sound(disk'[x])
    BY <1>1, <1>3, SoundItems DEF Crash, Read
  <2>2. \A p \in Jobs : Sound(job'[p].data)
    BY <1>3, IdleSound DEF Crash
  <2> QED
    BY <2>1, <2>2 DEF Intact
<1>4. ASSUME NEW p \in Jobs, Request(p)
      PROVE  Intact'
  <2>1. PICK j : Begin(p, j) /\ Sound(j.data)
    BY <1>4, Fresh
  <2>2. \A q \in Jobs : Sound(job'[q].data)
    BY <1>1, <2>1 DEF Begin, Intact, TypeOK
  <2> QED
    BY <2>1, <2>2 DEF Begin, Intact
<1>5. ASSUME NEW p \in Jobs, Progress(p)
      PROVE  Intact'
  <2>1. Sound(job'[p].data)
    <3>1. CASE End(p) \/ \E step : Go(p, step)
      BY <1>1, <3>1, EndSteady, GoFields, IdleSound DEF Intact
    <3>2. CASE Onward(p)
      BY <1>1, <3>2, SoundItems DEF Onward, Intact
    <3> QED
      BY <1>1, <1>5, <3>1, <3>2, Goes
  <2>2. \A q \in Jobs \ {p} : Sound(job'[q].data)
    BY <1>1, <1>5, OthersStay DEF Intact
  <2>3. \A x \in Paths : Sound(disk'[x])
    BY <1>1, <1>5, ProgressSound
  <2> QED
    BY <2>1, <2>2, <2>3 DEF Intact
<1> QED
  BY <1>2, <1>3, <1>4, <1>5 DEF Next

(* No step but the deletion of the source leads to dropRow.                 *)
LEMMA NoDropRow ==
  ASSUME TypeInv, NEW p \in Jobs, Progress(p), job'[p].pc = "dropRow"
  PROVE  /\ Put(job[p].from, Nothing) /\ job[p].from \in Paths
         /\ job'[p].from = job[p].from
<1> DEFINE j == job[p]
<1>1. j \in JobStates /\ Shape(j) /\ job \in [Jobs -> JobStates]
  BY DEF TypeInv, TypeOK
<1>2. ~End(p)
  BY EndSteady DEF Idle, NewJob
<1>3. DeleteSource(p)
  BY <1>2, Goes, GoFields DEF Onward
<1>4. Put(j.from, Nothing) /\ AfterDelete(p)
  BY <1>2, <1>3 DEF DeleteSource
<1>5. \E step : Go(p, step)
  BY <1>2, <1>4 DEF AfterDelete
<1>6. j.from \in Paths
  BY <1>1, <1>3 DEF DeleteSource, At, Shape, StepsOf, Ends, JobStates, Kinds, Paths
<1> QED
  BY <1>4, <1>5, <1>6, GoFields

(* Whose rows a step changes: AddRow that of its slot, DropRow takes one.   *)
LEMMA RowFrame ==
  ASSUME TypeInv, NEW p \in Jobs, Progress(p)
  PROVE  \/ UNCHANGED rows
         \/ /\ job'[p] = Idle /\ UNCHANGED disk
            /\ \/ job[p].op = "bin" /\ rows' = [rows EXCEPT ![job[p].to] = job[p].from]
               \/ job[p].pc = "dropRow" /\ rows' = [rows EXCEPT ![job[p].from] = Nothing]
<1>1. CASE AddRow(p)
  <2>1. job[p].op = "bin"
    BY <1>1 DEF AddRow, At, TypeInv, Shape, StepsOf
  <2> QED
    BY <1>1, <2>1, EndSteady DEF AddRow, OriginalPath
<1>2. CASE DropRow(p)
  BY <1>2, EndSteady DEF DropRow, At
<1>3. CASE ~AddRow(p) /\ ~DropRow(p)
  BY <1>3 DEF Progress, Step, Resolve, Clear, Clearing, Check, Stat, Blit, Blitting, Open, Fill, Commit,
              Verify, Abort, Rename, DeleteSource, NoDisk, OnlyDisk
<1> QED
  BY <1>1, <1>2, <1>3

LEMMA BinSlot ==
  ASSUME TypeInv, NEW p \in Jobs, job[p].op = "bin"
  PROVE  job[p].to \in Ids /\ job[p].to \in Writes(job[p]) /\ job[p].to \in Uses(job[p])
<1>1. job[p].to \in Ids
  BY DEF TypeInv, Shape, Ends
<1> QED
  BY <1>1, NothingApart DEF Writes, Uses, Targets, Paths

LEMMA BinStays ==
  ASSUME TypeInv, NEW p \in Jobs, Progress(p), job'[p].op = "bin"
  PROVE  job[p].op = "bin" /\ job'[p].to = job[p].to /\ UNCHANGED rows
<1>1. job'[p] # Idle
  BY DEF Idle, NewJob
<1>2. job[p].op = "bin"
  BY <1>1, SameOp
<1>3. ~Resolve(p)
  BY <1>2 DEF Resolve, At, TypeInv, Shape, StepsOf
<1> QED
  BY <1>1, <1>2, <1>3, ProgressSteady, RowFrame DEF Steady

LEMMA SlotAloneStays ==
  ASSUME FilesInv, NEW p \in Jobs, Progress(p)
  PROVE  SlotAlone'
<1>1. TypeInv /\ SlotAlone
  BY DEF FilesInv, KeepInv
<1>2. \A q \in Jobs : job'[q].op = "bin" => job[q].op = "bin" /\ job'[q].to = job[q].to
  BY <1>1, BinStays, OthersStay
<1> QED
  BY <1>1, <1>2 DEF SlotAlone

(* Whether a job stays apart from the others until its last step.           *)
LEMMA StaysApart ==
  ASSUME NEW p \in Jobs, Progress(p), NEW q \in Jobs, q \notin crossed', job'[q] # Idle
  PROVE  q \notin crossed
BY DEF Progress

LEMMA SlotsStay ==
  ASSUME FilesInv, NEW p \in Jobs, Progress(p), NEW q \in Jobs
  PROVE  Slots(q)'
<1>1. TypeInv /\ TypeOK /\ Disjoint /\ SlotAlone /\ Slots(q)
  BY DEF FilesInv, KeepInv, TypeInv
<1>2. CASE q # p
  <2>1. job'[q] = job[q]
    BY <1>1, <1>2, OthersStay
  <2>2. job[q].op = "bin" => rows'[job[q].to] = Nothing
    <3> SUFFICES ASSUME job[q].op = "bin" PROVE rows'[job[q].to] = Nothing
      OBVIOUS
    <3>1. rows[job[q].to] = Nothing
      BY <1>1 DEF Slots
    <3>2. job[p].op = "bin" => job[p].to # job[q].to
      BY <1>1, <1>2 DEF SlotAlone
    <3>3. job[q].to \in Ids
      BY <1>1, BinSlot
    <3> QED
      BY <1>1, <3>1, <3>2, <3>3, RowFrame DEF TypeOK
  <2>3. job[q].pc = "dropRow" /\ q \notin crossed' => ~Exists(job[q].from)'
    <3> SUFFICES ASSUME job[q].pc = "dropRow", q \notin crossed'
                 PROVE  disk'[job[q].from] = Nothing
      BY <2>1 DEF Exists
    <3>1. job[q].from \in Paths
      BY <1>1 DEF TypeInv, Shape, StepsOf, Ends, Paths
    <3>2. q \notin crossed
      BY <2>1, StaysApart DEF Idle, NewJob
    <3>3. disk'[job[q].from] = disk[job[q].from]
      BY <1>1, <1>2, <3>1, <3>2, DiskFrame, EndsStay
    <3> QED
      BY <1>1, <3>2, <3>3 DEF Slots, Exists
  <2> QED
    BY <2>1, <2>2, <2>3 DEF Slots
<1>3. CASE q = p
  <2>1. job'[p].op = "bin" => rows'[job'[p].to] = Nothing
    BY <1>1, <1>3, BinStays DEF Slots
  <2>2. job'[p].pc = "dropRow" => disk'[job'[p].from] = Nothing
    BY <1>1, NoDropRow DEF Put, TypeOK
  <2> QED
    BY <1>3, <2>1, <2>2 DEF Slots, Exists
<1> QED
  BY <1>2, <1>3

(* An upload touches its target in Commit only, if the root is direct.      *)
LEMMA UploadStep ==
  ASSUME TypeInv, NEW p \in Jobs, Progress(p), job[p].op = "upload", OldStays(p),
         job'[p] # Idle
  PROVE  /\ job'[p].op = "upload" /\ job'[p].from = job[p].from /\ job'[p].to = job[p].to
         /\ ~job'[p].short /\ job'[p].pc # "verify"
         /\ ToDirect(job[p]) => UNCHANGED disk
         /\ \/ job'[p].old = job[p].old
            \/ /\ Complete(job[p].to) /\ UNCHANGED disk
               /\ job'[p].old = disk[job[p].to].c
            \/ job'[p].old = Nothing
<1> DEFINE j == job[p]
<1>1. j \in JobStates /\ Shape(j) /\ job \in [Jobs -> JobStates] /\ ~j.short /\ j.pc # "verify"
  BY DEF TypeInv, TypeOK, OldStays
<1>2. ~End(p)
  BY EndSteady
<1>3. j.pc \in {"stat", "open", "fill", "commit", "abort"}
  BY <1>1, <1>2 DEF Shape, StepsOf, Progress, Step, Resolve, Clear, Clearing, Check, Stat, Blit,
     Blitting, Open, Fill, Commit, Verify, Abort, Rename, DeleteSource, AddRow, DropRow, At,
     Idle, NewJob
<1>4. CASE Stat(p)
  <2> DEFINE mode == IF Exists(j.to) THEN "replace" ELSE "create"
             old == IF Exists(j.to) /\ disk[j.to].whole THEN disk[j.to].c ELSE Nothing
  <2>1. job' = [job EXCEPT ![p] = [j EXCEPT !.pc = "open", !.mode = mode, !.old = old]]
    BY <1>2, <1>4 DEF Stat
  <2>2. old = Nothing \/ (Complete(j.to) /\ old = disk[j.to].c)
    BY DEF Complete
  <2> HIDE DEF mode, old
  <2>3. /\ job'[p].op = j.op /\ job'[p].from = j.from /\ job'[p].to = j.to
        /\ job'[p].short = j.short /\ job'[p].pc = "open" /\ job'[p].old = old
    BY <1>1, <2>1 DEF JobStates
  <2> QED
    BY <1>1, <1>4, <2>2, <2>3 DEF Stat, NoDisk
<1>5. CASE Open(p)
  <2> DEFINE fresh == ~Exists(j.to)
  <2>1. job' = [job EXCEPT ![p].pc = "fill", ![p].fresh = fresh] /\ OpenTarget(p)
    BY <1>2, <1>5 DEF Open
  <2> HIDE DEF fresh
  <2> QED
    BY <1>1, <2>1 DEF JobStates, OpenTarget
<1>6. CASE Fill(p)
  <2>1. CASE Go(p, "abort")
    BY <1>1, <1>6, <2>1 DEF Go, JobStates, Fill, NoDisk
  <2>2. CASE ~Go(p, "abort")
    <3> DEFINE data == IF j.from # Nothing THEN Read(j.from) ELSE j.data
    <3>1. job' = [job EXCEPT ![p].pc = "commit", ![p].short = FALSE, ![p].data = data]
      BY <1>6, <2>2 DEF Fill
    <3> HIDE DEF data
    <3>2. UNCHANGED disk
      BY <1>6 DEF Fill, NoDisk
    <3> QED
      BY <1>1, <3>1, <3>2 DEF JobStates
  <2> QED
    BY <2>1, <2>2
<1>7. ~Commit(p) /\ ~Abort(p)
  BY <1>1, <1>2 DEF Commit, AfterWrite, Written, Abort
<1>8. Stat(p) \/ Open(p) \/ Fill(p)
  BY <1>3, <1>7 DEF Progress, Step, Resolve, Clear, Clearing, Check, Blit,
     Blitting, Verify, Rename, DeleteSource, AddRow, DropRow, At
<1> QED
  BY <1>4, <1>5, <1>6, <1>8

LEMMA OldStaysOn ==
  ASSUME KeepInv, Intact, NEW p \in Jobs, Progress(p), NEW q \in Jobs, OldStays(q)
  PROVE  OldStays(q)'
<1>1. TypeInv /\ TypeOK /\ Disjoint
  BY DEF KeepInv, TypeInv
<1>2. CASE q # p
  <2>1. job'[q] = job[q]
    BY <1>1, <1>2, OthersStay
  <2>2. job[q].op = "upload" /\ q \notin crossed' =>
          q \notin crossed /\ disk'[job[q].to] = disk[job[q].to]
    <3>1. job[q].op = "upload" => job[q].to \in Paths
      BY <1>1 DEF TypeInv, Shape, Ends, Paths
    <3>2. job[q].op = "upload" /\ q \notin crossed' => q \notin crossed
      BY <2>1, StaysApart DEF Idle, NewJob
    <3> QED
      BY <1>1, <1>2, <3>1, <3>2, DiskFrame, EndsStay
  <2> QED
    BY <2>1, <2>2 DEF OldStays, ToDirect
<1>3. CASE q = p
  <2>1. CASE job'[p] = Idle
    BY <1>3, <2>1 DEF OldStays, Idle, NewJob
  <2>2. CASE job[p].op = "upload" /\ job'[p] # Idle
    <3>1. job[p].to \in Paths
      BY <1>1, <2>2 DEF TypeInv, Shape, Ends, Paths
    <3>2. Complete(job[p].to) => disk[job[p].to] = Full(disk[job[p].to].c)
      BY <3>1 DEF Complete, Exists, Intact, Sound
    <3>3. ToDirect(job[p])' => ToDirect(job[p])
      BY <1>1, <1>3, <2>2, UploadStep DEF ToDirect
    <3>4. p \notin crossed' => p \notin crossed
      BY <2>2, StaysApart
    <3> QED
      BY <1>1, <1>3, <2>2, <3>2, <3>3, <3>4, UploadStep DEF OldStays
  <2>3. CASE job[p].op # "upload" /\ job'[p] # Idle
    <3>1. job'[p].op = job[p].op
      BY <1>1, <2>3, SameOp
    <3> QED
      BY <1>3, <2>3, <3>1 DEF OldStays
  <2> QED
    BY <2>1, <2>2, <2>3
<1> QED
  BY <1>2, <1>3

LEMMA FilesInit == Init => FilesInv
<1> SUFFICES ASSUME Init PROVE FilesInv
  OBVIOUS
<1>1. KeepInv
  BY InitKeeps
<1>2. \A p \in Jobs : job[p] = Idle
  BY DEF Init
<1>3. ASSUME NEW x \in Paths
      PROVE  Sound(disk[x])
  <2>1. disk[x] = Nothing \/ \E c : disk[x] = Full(c)
    BY DEF Init
  <2>2. \A c : Full(c).c = c
    BY DEF Full
  <2> QED
    BY <2>1, <2>2 DEF Sound
<1>4. ASSUME NEW p \in Jobs
      PROVE  Sound(job[p].data) /\ Slots(p) /\ OldStays(p) /\ job[p].op # "bin"
  <2>1. job[p].op = "none" /\ job[p].pc = "idle"
    BY <1>2 DEF Idle, NewJob
  <2>2. Slots(p) /\ OldStays(p)
    BY <2>1 DEF Slots, OldStays
  <2> QED
    BY <1>2, <2>1, <2>2, IdleSound
<1> QED
  BY <1>1, <1>3, <1>4 DEF FilesInv, Intact, SlotAlone

LEMMA FilesRequest ==
  ASSUME FilesInv, NEW p \in Jobs, Request(p), NEW q \in Jobs
  PROVE  Slots(q)' /\ OldStays(q)' /\ SlotAlone'
<1>1. TypeInv /\ TypeOK /\ SlotAlone /\ Slots(q) /\ OldStays(q)
  BY DEF FilesInv, KeepInv, TypeInv
<1>2. PICK j : /\ Begin(p, j) /\ ~j.short /\ j.old = Nothing
               /\ j.pc \notin {"dropRow", "verify"}
               /\ j.op = "bin" =>
                    rows[j.to] = Nothing /\ \A r \in Jobs : j.to \notin Uses(job[r])
  BY Fresh
<1>3. /\ UNCHANGED <<disk, rows>> /\ job'[p] = j /\ crossed \subseteq crossed'
      /\ \A r \in Jobs \ {p} : job'[r] = job[r]
  BY <1>1, <1>2 DEF Begin, TypeOK
<1>4. SlotAlone'
  BY <1>1, <1>2, <1>3, BinSlot DEF SlotAlone
<1>5. CASE q = p
  BY <1>2, <1>3, <1>4, <1>5 DEF Slots, OldStays
<1>6. CASE q # p
  BY <1>1, <1>3, <1>4, <1>6 DEF Slots, OldStays, Exists, ToDirect
<1> QED
  BY <1>5, <1>6

LEMMA FilesNext ==
  ASSUME FilesInv, [Next]_vars
  PROVE  FilesInv'
<1> USE DEF FilesInv
<1>1. KeepInv' /\ Intact'
  BY NextKeeps, IntactStays
<1>2. CASE UNCHANGED vars
  BY <1>1, <1>2 DEF vars, SlotAlone, Slots, OldStays, Exists, ToDirect
<1>3. CASE Crash
  <2>1. \A q \in Jobs : job'[q] = Idle
    BY <1>3 DEF Crash
  <2>2. Idle.op = "none" /\ Idle.pc = "idle"
    BY DEF Idle, NewJob
  <2> QED
    BY <1>1, <2>1, <2>2 DEF SlotAlone, Slots, OldStays
<1>4. ASSUME NEW p \in Jobs, Request(p)
      PROVE  FilesInv'
  BY <1>1, <1>4, FilesRequest
<1>5. ASSUME NEW p \in Jobs, Progress(p)
      PROVE  FilesInv'
  <2>1. ASSUME NEW q \in Jobs
        PROVE  Slots(q)' /\ OldStays(q)'
    BY <1>5, SlotsStay, OldStaysOn
  <2> QED
    BY <1>1, <1>5, <2>1, SlotAloneStays
<1> QED
  BY <1>2, <1>3, <1>4, <1>5 DEF Next

LEMMA FilesHold == Spec => []FilesInv
<1>1. FilesInv /\ [Next]_vars => FilesInv'
  BY FilesNext
<1> QED
  BY <1>1, FilesInit, PTL DEF Spec

-----------------------------------------------------------------------------
(* What follows from it.                                                    *)

(* Check, Open, receive and rename look at the target before they write, so *)
(* no job that was told to create or to keep both changes a whole item,     *)
(* unless it met another job on one of its paths.                           *)
THEOREM Creating == Spec => FreeNameStaysFree
<1> DEFINE Spares(p, x) ==
             Exists(x) /\ disk[x].whole /\ job[p].to = x /\ job[p].mode # "replace"
               /\ job'[p] # job[p] /\ ~At(p, "delSource")
             => disk'[x] = disk[x]
<1>1. ASSUME FilesInv, [Next]_vars, NEW p \in Jobs \ crossed, NEW x \in UserPaths
      PROVE  Spares(p, x)
  <2> SUFFICES ASSUME Complete(x), job[p].to = x, job[p].mode # "replace",
                      job'[p] # job[p], job[p].pc # "delSource"
               PROVE  disk'[x] = disk[x]
    BY DEF Complete, At
  <2>1. KeepInv /\ TypeInv /\ x \in Paths
    BY <1>1 DEF FilesInv, KeepInv, Paths
  <2>2. CASE UNCHANGED vars
    BY <2>2 DEF vars
  <2>3. CASE Crash
    <3>1. Sound(disk[x])
      BY <1>1, <2>1 DEF FilesInv, Intact
    <3>2. disk[x].by = Nothing
      BY <3>1 DEF Sound, Complete, Exists, Full
    <3>3. disk[x] \in Items
      BY <2>1 DEF Complete, Exists, TypeInv, TypeOK
    <3>4. disk'[x] = [disk[x] EXCEPT !.by = Nothing]
      BY <2>1, <2>3 DEF Crash, Complete, Exists
    <3> QED
      BY <3>2, <3>3, <3>4 DEF Items
  <2>4. ASSUME NEW q \in Jobs, Request(q)
        PROVE  disk'[x] = disk[x]
    BY <2>4, Fresh DEF Begin
  <2>5. ASSUME NEW q \in Jobs, Progress(q)
        PROVE  disk'[x] = disk[x]
    <3>1. q = p
      BY <2>1, <2>5, OthersStay
    <3>2. CASE \/ Clearing(p) \/ Blit(p) \/ Blitting(p) \/ Open(p) \/ Commit(p)
               \/ Verify(p) \/ Abort(p)
      BY <2>1, <3>2, PutsTarget DEF Targeting
    <3>3. CASE Rename(p)
      <4>1. ~Exists(x) \/ UNCHANGED disk
        BY <2>1, <3>3 DEF KeepInv, Local, TargetFree, Rename, At
      <4> QED
        BY <4>1 DEF Complete
    <3>4. CASE \/ Resolve(p) \/ Clear(p) \/ Check(p) \/ Stat(p) \/ Fill(p) \/ AddRow(p)
               \/ DropRow(p)
      BY <3>4 DEF Resolve, Clear, Check, Stat, Fill, AddRow, DropRow, NoDisk
    <3>5. ~DeleteSource(p)
      BY DEF DeleteSource, At
    <3> QED
      BY <2>5, <3>1, <3>2, <3>3, <3>4, <3>5 DEF Progress, Step
  <2> QED
    BY <1>1, <2>2, <2>3, <2>4, <2>5 DEF Next
<1>2. FilesInv /\ [Next]_vars => [\A p \in Jobs \ crossed : LeavesAlone(p)]_vars
  BY <1>1 DEF LeavesAlone
<1> QED
  BY <1>2, FilesHold, PTL DEF Spec, FreeNameStaysFree

(* The steps that clean up after a delete to the bin do so in a slot that   *)
(* has no row yet; only a restore and a purge empty a slot that has one.    *)
LEMMA SlotFrees ==
  ASSUME FilesInv, NEW p \in Jobs, Progress(p), NEW id \in Ids,
         rows[id] # Nothing, Exists(id), disk'[id] = Nothing
  PROVE  job'[p].pc = "dropRow" /\ job'[p].from = id
<1> DEFINE j == job[p]
           Goal == job'[p].pc = "dropRow" /\ job'[p].from = id
<1>1. j \in JobStates /\ Shape(j) /\ TypeInv /\ TypeOK /\ KeepInv /\ id \in Paths /\ id \notin UserPaths
  BY PathsAssumption DEF FilesInv, KeepInv, TypeInv, TypeOK, Paths
<1>2. ~UNCHANGED disk
  BY DEF Exists
<1>3. ASSUME NEW x, NEW item, Put(x, item)
      PROVE  x = id
  BY <1>1, <1>3, PutFrame DEF Exists
<1>4. j.op \notin {"purge", "none"} => j.to # id
  BY <1>1 DEF FilesInv, Slots, Shape, Ends, JobStates, Kinds
<1>5. CASE \/ Clearing(p) \/ Blit(p) \/ Blitting(p) \/ Open(p) \/ Commit(p)
           \/ Verify(p) \/ Abort(p)
  <2>1. j.op \notin {"purge", "none"}
    BY <1>1, <1>5 DEF Shape, StepsOf, Clearing, Blit, Blitting, Open, Commit, Verify, Abort, At
  <2> QED
    BY <1>1, <1>2, <1>3, <1>4, <1>5, <2>1, PutsAtTarget DEF Targeting
<1>6. CASE Rename(p)
  <2> DEFINE item == Read(j.from)
  <2>1. /\ j.from \in UserPaths /\ j.to \in UserPaths
        /\ disk' = [disk EXCEPT ![j.from] = Nothing, ![j.to] = item]
    BY <1>1, <1>2, <1>6, RenameMoves
  <2> HIDE DEF item
  <2> QED
    BY <1>1, <2>1 DEF TypeOK, Exists
<1>7. CASE DeleteSource(p)
  <2>1. j.from = id
    BY <1>2, <1>3, <1>7 DEF DeleteSource, HalfDeleted
  <2>2. [disk[id] EXCEPT !.whole = FALSE] # Nothing
    BY <1>1, NothingApart DEF Exists, TypeOK, Items
  <2>3. ~HalfDeleted(id)
    BY <1>1, <2>2 DEF HalfDeleted, Put, TypeOK
  <2>4. AfterDelete(p)
    BY <1>2, <1>7, <2>1, <2>3 DEF DeleteSource
  <2>5. j.op \in {"restore", "purge"}
    BY <1>1, <1>7, <2>1, NothingApart DEF DeleteSource, At, Shape, StepsOf, Ends, JobStates, Kinds
  <2>6. Go(p, "dropRow")
    BY <2>4, <2>5 DEF AfterDelete
  <2> QED
    BY <1>1, <2>1, <2>6, GoFields
<1>8. CASE Resolve(p) \/ Clear(p) \/ Check(p) \/ Stat(p) \/ Fill(p) \/ AddRow(p) \/ DropRow(p)
  BY <1>2, <1>8 DEF Resolve, Clear, Check, Stat, Fill, AddRow, DropRow, NoDisk
<1> QED
  BY <1>5, <1>6, <1>7, <1>8 DEF Progress, Step

(* An item of the recycle bin keeps its bytes until a restore or a purge of *)
(* that very item takes them, which goes on to DropRow, whoever else is at  *)
(* work on it.                                                              *)
THEOREM RowsAndBytes == Spec => RowsHaveBytes
<1> DEFINE Owned(id) ==
             (rows[id] # Nothing /\ Exists(id) /\ disk'[id] = Nothing) =>
               \E p \in Jobs : job'[p].pc = "dropRow" /\ job'[p].from = id
<1>1. ASSUME FilesInv, [Next]_vars, NEW id \in Ids
      PROVE  Owned(id)
  <2> SUFFICES ASSUME rows[id] # Nothing, Exists(id), disk'[id] = Nothing
               PROVE  \E p \in Jobs : job'[p].pc = "dropRow" /\ job'[p].from = id
    OBVIOUS
  <2>1. ~UNCHANGED disk
    BY DEF Exists
  <2>2. ~Crash
    <3>1. TypeOK /\ id \in Paths
      BY <1>1 DEF FilesInv, KeepInv, TypeInv, Paths
    <3>2. [disk[id] EXCEPT !.by = Nothing] # Nothing
      BY <3>1, NothingApart DEF Exists, TypeOK, Items
    <3> QED
      BY <3>1, <3>2 DEF Crash
  <2>3. \A p \in Jobs : ~Request(p)
    BY <2>1, Fresh DEF Begin
  <2> QED
    BY <1>1, <2>1, <2>2, <2>3, SlotFrees DEF Next, vars
<1>2. FilesInv /\ [Next]_vars => [\A id \in Ids : Owned(id)]_vars
  BY <1>1
<1> QED
  BY <1>2, FilesHold, PTL DEF Spec, RowsHaveBytes

-----------------------------------------------------------------------------
(* What the user can see.                                                   *)

Seen(x) == Complete(x) /\ (x \in Ids => rows[x] # Nothing)

LEMMA SeenIsListed ==
  /\ \A c : c \in Listed <=> c \in Contents /\ \E x \in Paths : Seen(x) /\ disk[x].c = c
  /\ \A x \in Paths : Complete(x)' <=> disk'[x] # Nothing /\ disk'[x].whole
BY DEF Listed, Seen, Complete, Exists

(* Putting an item at x hides at most what was seen at x.                   *)
LEMMA PutHides ==
  ASSUME TypeOK, UNCHANGED rows, NEW x, NEW item, Put(x, item),
         x \in Paths /\ Seen(x) =>
           \/ ExcusedAt(x)
           \/ \E y \in Paths \ {x} : Seen(y) /\ disk[y].c = disk[x].c
           \/ InBin(disk[x].c)
  PROVE  \A c \in Listed \ Listed' : c \in Excused \/ InBin(c)
<1> SUFFICES ASSUME NEW c \in Listed, c \notin Listed', ~InBin(c)
             PROVE  c \in Excused
  OBVIOUS
<1>1. c \in Contents /\ \A z \in Paths : Seen(z)' => disk'[z].c # c
  BY DEF Listed, Seen, Complete, Exists
<1>2. \A z \in Paths \ {x} : Seen(z) => Seen(z)' /\ disk'[z] = disk[z]
  BY PutFrame DEF Seen, Complete, Exists
<1>3. PICK y \in Paths : Seen(y) /\ disk[y].c = c
  BY SeenIsListed
<1>4. y = x
  BY <1>1, <1>2, <1>3
<1>5. ExcusedAt(x)
  BY <1>1, <1>2, <1>3, <1>4
<1> QED
  BY <1>1, <1>3, <1>4, <1>5, ExcusedThere DEF Seen, Complete

LEMMA NothingHides ==
  ASSUME \A x \in Paths : Seen(x) => \E y \in Paths : Seen(y)' /\ disk'[y].c = disk[x].c
  PROVE  Listed \subseteq Listed'
<1> SUFFICES ASSUME NEW c \in Listed
             PROVE  c \in Listed'
  OBVIOUS
<1>1. PICK x \in Paths : Seen(x) /\ disk[x].c = c
  BY SeenIsListed
<1>2. PICK y \in Paths : Seen(y)' /\ disk'[y].c = c
  BY <1>1
<1> QED
  BY <1>2 DEF Listed, Seen, Complete, Exists

(* Before the source goes there is a copy that can be seen, or the slot of  *)
(* the recycle bin holds one.                                               *)
LEMMA DeleteHides ==
  ASSUME FilesInv, NEW p \in Jobs, DeleteSource(p)
  PROVE  \A c \in Listed \ Listed' : c \in Excused \/ InBin(c)
<1> DEFINE j == job[p]
           Goal == \A c \in Listed \ Listed' : c \in Excused \/ InBin(c)
<1>1. /\ j \in JobStates /\ Shape(j) /\ TypeOK /\ TypeInv /\ Intact
      /\ p \notin crossed => Local(p)
  BY DEF FilesInv, KeepInv, TypeInv, TypeOK
<1>2. j.pc = "delSource" /\ UNCHANGED rows
  BY DEF DeleteSource, At, OnlyDisk
<1>3. j.op = "purge" \/ Moves(j)
  BY <1>1, <1>2 DEF Shape, StepsOf, JobStates, Kinds, Moves
<1>4. CASE UNCHANGED disk
  <2>1. Listed' = Listed
    BY <1>2, <1>4 DEF Listed, Exists
  <2> QED
    BY <2>1
<1>5. ASSUME NEW item, Put(j.from, item)
      PROVE  Goal
  <2> SUFFICES ASSUME j.from \in Paths, Seen(j.from)
               PROVE  \/ ExcusedAt(j.from)
                      \/ \E y \in Paths \ {j.from} : Seen(y) /\ disk[y].c = disk[j.from].c
                      \/ InBin(disk[j.from].c)
    <3> HIDE DEF j
    <3> QED
      BY <1>1, <1>2, <1>5, PutHides DEF j
  <2>1. CASE j.op = "purge"
    BY <2>1 DEF Condemns, ExcusedAt
  <2>2. CASE p \in crossed
    BY <1>1, <1>3, <2>2, WritesEnds DEF ExcusedAt, Moves
  <2>3. CASE j.short /\ MayLackSize(j)
    BY <1>2, <2>3 DEF ExcusedAt, DeletedUnverified, At
  <2>4. CASE Moves(j) /\ p \notin crossed /\ ~(j.short /\ MayLackSize(j))
    <3>1. /\ j.to \in Paths \ {j.from}
          /\ Complete(j.to) /\ disk[j.to].c = disk[j.from].c
      BY <1>1, <1>2, <2>4, CopyEnds DEF Local, SourceSafe, Seen
    <3>2. CASE j.op # "bin"
      <4>1. j.to \notin Ids
        BY <1>1, <2>4, <3>2, PathsAssumption DEF Moves, Shape, Ends
      <4> QED
        BY <3>1, <4>1 DEF Seen
    <3>3. CASE j.op = "bin"
      <4>1. disk'[j.to] = disk[j.to]
        BY <1>1, <1>5, <3>1, PutFrame
      <4>2. disk[j.to] = Full(disk[j.to].c)
        BY <1>1, <3>1 DEF Intact, Sound, Complete, Exists
      <4>3. disk'[j.to] = Full(disk[j.from].c)
        BY <3>1, <4>1, <4>2
      <4> QED
        BY <1>2, <3>3, <4>3 DEF InBin
    <3> QED
      BY <3>2, <3>3
  <2> QED
    BY <1>3, <2>1, <2>4, <2>2, <2>3
<1> QED
  BY <1>4, <1>5 DEF DeleteSource, HalfDeleted

LEMMA ProgressHides ==
  ASSUME FilesInv, NEW p \in Jobs, Progress(p)
  PROVE  \A c \in Listed \ Listed' : c \in Excused \/ InBin(c)
<1> DEFINE j == job[p]
<1>1. /\ j \in JobStates /\ Shape(j) /\ TypeInv /\ TypeOK /\ KeepInv /\ Slots(p)
      /\ p \notin crossed => Local(p)
  BY DEF FilesInv, KeepInv, TypeInv, TypeOK
<1>2. CASE UNCHANGED <<disk, rows>>
  <2>1. Listed' = Listed
    BY <1>2 DEF Listed, Exists
  <2> QED
    BY <2>1
<1>3. CASE ~UNCHANGED rows
  <2>1. /\ UNCHANGED disk
        /\ \/ j.op = "bin" /\ rows' = [rows EXCEPT ![j.to] = j.from]
           \/ j.pc = "dropRow" /\ rows' = [rows EXCEPT ![j.from] = Nothing]
    BY <1>1, <1>3, RowFrame
  <2>2. ASSUME NEW x \in Paths, Seen(x), ~(j.pc = "dropRow" /\ x = j.from)
        PROVE  Seen(x)' /\ disk'[x].c = disk[x].c
    <3>1. CASE j.op = "bin" /\ rows' = [rows EXCEPT ![j.to] = j.from]
      <4>1. j.from # Nothing
        BY <1>1, <3>1, NothingApart DEF Shape, Ends, Paths
      <4> QED
        BY <1>1, <2>1, <2>2, <3>1, <4>1 DEF Seen, Complete, Exists, TypeOK
    <3>2. CASE j.pc = "dropRow" /\ rows' = [rows EXCEPT ![j.from] = Nothing]
      BY <1>1, <2>1, <2>2, <3>2 DEF Seen, Complete, Exists, TypeOK
    <3> QED
      BY <2>1, <3>1, <3>2
  <2>3. ASSUME NEW c \in Listed, c \notin Listed'
        PROVE  c \in Excused
    <3>1. c \in Contents /\ \A z \in Paths : Seen(z)' => disk'[z].c # c
      BY <2>3 DEF Listed, Seen, Complete, Exists
    <3>2. PICK x \in Paths : Seen(x) /\ disk[x].c = c
      BY SeenIsListed
    <3>3. j.pc = "dropRow" /\ x = j.from
      BY <2>2, <3>1, <3>2
    <3>4. j.op # "copy"
      BY <1>1, <3>3 DEF Shape, StepsOf
    <3>5. p \in crossed
      BY <1>1, <3>2, <3>3 DEF Slots, Seen, Complete
    <3> QED
      BY <1>1, <3>1, <3>2, <3>3, <3>4, <3>5, WritesEnds, ExcusedThere
         DEF ExcusedAt, Seen, Complete
  <2> QED
    BY <2>3
<1>4. CASE \/ Clearing(p) \/ Blit(p) \/ Blitting(p) \/ Open(p) \/ Commit(p)
           \/ Verify(p) \/ Abort(p)
  <2>1. UNCHANGED rows
    BY <1>4 DEF Clearing, Blit, Blitting, Open, Commit, Verify, Abort, OnlyDisk
  <2>2. CASE ~UNCHANGED disk
    <3>1. PICK item : Put(j.to, item)
      BY <1>4, <2>2, PutsAtTarget DEF Targeting
    <3>2. j.to \in Paths /\ Seen(j.to) => ExcusedAt(j.to)
      <4>1. CASE p \in crossed
        BY <1>1, <4>1, WritesEnds DEF ExcusedAt
      <4>2. CASE p \notin crossed
        BY <1>1, <1>4, <2>2, <4>2, PutsTarget DEF Targeting, Seen, Condemns, ExcusedAt
      <4> QED
        BY <4>1, <4>2
    <3> QED
      BY <1>1, <2>1, <3>1, <3>2, PutHides
  <2> QED
    BY <1>2, <2>1, <2>2
<1>5. CASE Rename(p)
  <2>1. j.pc = "rename" /\ UNCHANGED rows
    BY <1>5 DEF Rename, At, OnlyDisk
  <2>2. CASE ~UNCHANGED disk
    <3> DEFINE item == Read(j.from)
    <3>1. /\ j.from \in Paths /\ j.to \in Paths /\ j.from \notin Ids /\ j.to \notin Ids
          /\ ToDirect(j) \/ ~Exists(j.to)
          /\ disk' = [disk EXCEPT ![j.from] = Nothing, ![j.to] = item]
          /\ disk'[j.to] # Nothing /\ disk'[j.to].c = disk[j.from].c
          /\ disk'[j.to].whole = disk[j.from].whole
      BY <1>1, <1>5, <2>2, RenameMoves, PathsAssumption DEF Paths
    <3>2. Exists(j.to) => ExcusedAt(j.to)
      <4>1. CASE p \in crossed
        BY <1>1, <3>1, <4>1, WritesEnds DEF ExcusedAt
      <4>2. CASE p \notin crossed
        BY <1>1, <2>1, <3>1, <4>2 DEF Local, TargetFree
      <4> QED
        BY <4>1, <4>2
    <3> HIDE DEF item
    <3>3. ASSUME NEW c \in Listed, c \notin Listed'
          PROVE  c \in Excused
      <4>1. c \in Contents /\ \A z \in Paths : Seen(z)' => disk'[z].c # c
        BY <3>3 DEF Listed, Seen, Complete, Exists
      <4>2. PICK x \in Paths : Seen(x) /\ disk[x].c = c
        BY SeenIsListed
      <4>3. x # j.from
        <5>1. PICK y \in Paths : y = j.to
          BY <3>1
        <5>2. x = j.from => Seen(y)' /\ disk'[y].c = c
          BY <3>1, <4>2, <5>1 DEF Seen, Complete, Exists
        <5> QED
          BY <4>1, <5>2
      <4>4. x = j.to
        <5>1. x # j.to => disk'[x] = disk[x]
          BY <1>1, <3>1, <4>3 DEF TypeOK
        <5>2. x # j.to => Seen(x)' /\ disk'[x].c = c
          BY <2>1, <4>2, <5>1 DEF Seen, Complete, Exists
        <5> QED
          BY <4>1, <5>2
      <4> QED
        BY <1>1, <3>2, <4>1, <4>2, <4>4, ExcusedThere DEF Seen, Complete
    <3> QED
      BY <3>3
  <2> QED
    BY <1>2, <2>1, <2>2
<1>6. CASE Resolve(p) \/ Clear(p) \/ Check(p) \/ Stat(p) \/ Fill(p)
  BY <1>2, <1>6 DEF Resolve, Clear, Check, Stat, Fill, NoDisk
<1>7. CASE AddRow(p) \/ DropRow(p)
  BY <1>2, <1>3, <1>7 DEF AddRow, DropRow
<1> QED
  BY <1>4, <1>5, <1>6, <1>7, DeleteHides DEF Progress, Step

(* What the user can see, in the folders and in the recycle bin, goes only  *)
(* on request, where two jobs meet, from a storage that tells no size, or   *)
(* in the middle of a delete whose slot holds a whole copy.                 *)
THEOREM Hiding == Spec => HiddenOnlyInBin
<1> DEFINE Hides == \A c \in Listed \ Listed' : c \in Excused \/ InBin(c)
<1>1. ASSUME FilesInv, [Next]_vars
      PROVE  Hides
  <2>1. CASE UNCHANGED <<disk, rows>>
    <3>1. Listed' = Listed
      BY <2>1 DEF Listed, Exists
    <3> QED
      BY <3>1
  <2>2. CASE Crash
    <3>1. TypeOK
      BY <1>1 DEF FilesInv, KeepInv, TypeInv
    <3>2. ASSUME NEW x \in Paths, Seen(x)
          PROVE  Seen(x)' /\ disk'[x].c = disk[x].c
      <4>1. disk'[x] = [disk[x] EXCEPT !.by = Nothing] /\ disk[x] \in Items
        BY <2>2, <3>1, <3>2 DEF Crash, Seen, Complete, Exists, TypeOK
      <4>2. [disk[x] EXCEPT !.by = Nothing] # Nothing
        BY <4>1, NothingApart DEF Items
      <4>3. disk'[x] # Nothing /\ disk'[x].c = disk[x].c /\ disk'[x].whole = disk[x].whole
        BY <4>1, <4>2 DEF Items
      <4> QED
        BY <2>2, <3>2, <4>3 DEF Crash, Seen, Complete, Exists
    <3> QED
      BY <3>2, NothingHides
  <2>3. ASSUME NEW p \in Jobs, Request(p)
        PROVE  UNCHANGED <<disk, rows>>
    BY <2>3, Fresh DEF Begin
  <2> QED
    BY <1>1, <2>1, <2>2, <2>3, ProgressHides DEF Next, vars
<1>2. FilesInv /\ [Next]_vars => [Hides]_vars
  BY <1>1
<1> QED
  BY <1>2, FilesHold, PTL DEF Spec, HiddenOnlyInBin

(* On a direct root an upload over a file ends with the old file or the new *)
(* one, whatever fails, unless it met another job there: until Commit the   *)
(* bytes go to a file of their own.                                         *)
THEOREM Replacing == Spec => OldOrNew
<1> DEFINE OldOr(p) ==
             (job[p].op = "upload" /\ job[p].old # Nothing /\ ToDirect(job[p])
                /\ job'[p].pc = "idle") =>
               disk'[job[p].to] \in {Full(job[p].old), job[p].data}
<1>1. ASSUME FilesInv, [Next]_vars, NEW p \in Jobs \ crossed
      PROVE  OldOr(p)
  <2> DEFINE j == job[p]
  <2> SUFFICES ASSUME j.op = "upload", j.old # Nothing, ToDirect(j), job'[p].pc = "idle"
               PROVE  disk'[j.to] = Full(j.old) \/ disk'[j.to] = j.data
    OBVIOUS
  <2>1. /\ j \in JobStates /\ Shape(j) /\ KeepInv /\ TypeInv /\ TypeOK
        /\ ~j.short /\ j.pc # "verify" /\ j.pc # "idle"
    BY <1>1 DEF FilesInv, OldStays, KeepInv, TypeInv, TypeOK, Shape, StepsOf, Idle, NewJob
  <2>2. j.to \in Paths /\ ToDirect(j)
    BY <2>1 DEF Shape, Ends, Paths
  <2>3. disk[j.to] = Full(j.old)
    BY <1>1, <2>2 DEF FilesInv, OldStays
  <2>4. CASE UNCHANGED disk
    BY <2>3, <2>4
  <2>5. CASE Crash
    <3>1. Full(j.old) \in Items /\ Full(j.old).by = Nothing
      BY <2>1, FullIsItem DEF JobStates
    <3>2. Full(j.old) # Nothing
      BY <3>1, NothingApart
    <3>3. disk'[j.to] = [disk[j.to] EXCEPT !.by = Nothing]
      BY <2>2, <2>3, <2>5, <3>2 DEF Crash, Exists
    <3>4. [Full(j.old) EXCEPT !.by = Nothing] = Full(j.old)
      BY <3>1 DEF Items
    <3> QED
      BY <2>3, <3>3, <3>4
  <2>6. ASSUME NEW q \in Jobs, Request(q)
        PROVE  UNCHANGED disk
    BY <2>6, Fresh DEF Begin
  <2>7. ASSUME NEW q \in Jobs, Progress(q)
        PROVE  disk'[j.to] = Full(j.old) \/ disk'[j.to] = j.data
    <3>1. q = p
      BY <2>1, <2>7, OthersStay
    <3>2. CASE Commit(p)
      <4> DEFINE item == [j.data EXCEPT !.whole = @ /\ ~j.short]
      <4>1. j.data \in Items
        BY <2>1 DEF Shape, Bytes
      <4>2. item = j.data
        BY <2>1, <4>1 DEF Items
      <4>3. UNCHANGED disk \/ Put(j.to, item)
        BY <2>2, <3>2 DEF Commit
      <4> HIDE DEF item
      <4> QED
        BY <2>1, <2>2, <2>4, <4>2, <4>3 DEF Put, TypeOK
    <3>3. CASE ~Commit(p)
      <4>1. Stat(p) \/ Open(p) \/ Fill(p) \/ Abort(p)
        BY <2>1, <2>7, <3>1, <3>3 DEF Progress, Step, Resolve, Clear, Clearing, Check, Blit, Blitting,
           Verify, Rename, DeleteSource, AddRow, DropRow, At, Shape, StepsOf
      <4>2. UNCHANGED disk
        BY <2>2, <4>1 DEF Stat, Open, OpenTarget, Fill, Abort, NoDisk
      <4> QED
        BY <2>4, <4>2
    <3> QED
      BY <3>2, <3>3
  <2> QED
    BY <1>1, <2>4, <2>5, <2>6, <2>7 DEF Next, vars
<1>2. FilesInv /\ [Next]_vars => [\A p \in Jobs \ crossed : OldOr(p)]_vars
  BY <1>1
<1> QED
  BY <1>2, FilesHold, PTL DEF Spec, OldOrNew
=============================================================================
