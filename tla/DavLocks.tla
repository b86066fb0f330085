------------------------------ MODULE DavLocks ------------------------------
(***************************************************************************)
(* The WebDAV handlers that change files (webdav_handler.dart) and the     *)
(* table of locks they look at (dav_locks.dart).                           *)
(*                                                                         *)
(* A handler looks at the locks once, before its awaits; meanwhile others  *)
(* take, refresh and give up locks, locks expire, and files come and go.   *)
(* One action is the code between two awaits.  What a backend does in one  *)
(* call is one step here, which happens or fails; FileOps has its details. *)
(***************************************************************************)
EXTENDS Naturals, Sequences, FiniteSets

CONSTANTS
  Accounts,
  Paths,         \* of one root: sequences of names, each with its prefixes
  Jobs,          \* requests under way at a time
  MaxLocks,      \* maxLocks
  Timeouts,      \* what _clamp may yield
  MaxTime,       \* bound: of the clock
  MaxRequests,   \* bound: requests
  MaxChanges,    \* bound: requests other than for locks
  Disks          \* what may be there at first: Paths to Kinds

Kinds == {"none", "file", "folder"}
None == [is |-> "none", by |-> 0]
Items == {None} \cup [is : {"file", "folder"}, by : 0..MaxRequests]

VARIABLES
  now,
  locks,      \* the table, with what has expired since the last purge
  disk,       \* what is under a path, and the request that put it there
  job,
  given,      \* history: the tokens that a LOCK has answered with
  requests,   \* how many there were; the number of one is also its lock's token
  changes     \* how many of them not for locks

vars == <<now, locks, disk, job, given, requests, changes>>

Below(x, p) == Len(p) < Len(x) /\ SubSeq(x, 1, Len(p)) = p     \* _isBelow
Tree(p) == {x \in Paths : x = p \/ Below(x, p)}
At(x, p, t) == t \o SubSeq(x, Len(p) + 1, Len(x))     \* x of Tree(p) when p is at t
IsFolder(p) == p # <<>> => disk[p].is = "folder"
Parent(p) == SubSeq(p, 1, Len(p) - 1)

ASSUME PathsAssumption ==
  /\ Paths \subseteq Seq(STRING) \ {<<>>}
  /\ \A p \in Paths : Parent(p) = <<>> \/ Parent(p) \in Paths
ASSUME BoundsAssumption ==
  /\ MaxLocks \in Nat \ {0} /\ Timeouts \subseteq Nat \ {0}
  /\ MaxTime \in Nat /\ MaxRequests \in Nat /\ MaxChanges \in Nat
ASSUME DisksAssumption ==
  /\ Disks \subseteq [Paths -> Kinds]
  /\ \A d \in Disks, p \in Paths : d[p] = "none" \/ Parent(p) = <<>> \/ d[Parent(p)] = "folder"

LocksOf == [token : 1..MaxRequests, who : Accounts, path : Paths, deep : BOOLEAN,
            exclusive : BOOLEAN, expires : Nat]

(* A request: "over" is Overwrite, or for PUT that there is no              *)
(* If-None-Match; "source" and "found" are what it saw of its two ends.     *)
(* "foreign" is history: the tokens of the locks that were there when it    *)
(* was checked, and that it may not write under.                            *)
Methods == {"put", "mkcol", "delete", "copy", "move", "lock"}
Steps == {"stat", "parent", "target", "recycle", "apply", "remove"}
Requests == [n : 1..MaxRequests, method : Methods, step : Steps, path : Paths, to : Paths,
             over : BOOLEAN, source : Kinds, found : Kinds, foreign : SUBSET (1..MaxRequests)]
Idle == [n |-> 0]

TypeOK ==
  /\ now \in 0..MaxTime /\ requests \in 0..MaxRequests /\ changes \in 0..MaxChanges
  /\ locks \subseteq LocksOf /\ IsFiniteSet(locks) /\ Cardinality(locks) <= MaxLocks
  /\ disk \in [Paths -> Items]
  /\ job \in [Jobs -> {Idle} \cup Requests]
  /\ given \subseteq 1..MaxRequests

Init ==
  /\ now = 0 /\ locks = {} /\ given = {} /\ requests = 0 /\ changes = 0
  /\ \E d \in Disks : disk = [p \in Paths |-> [is |-> d[p], by |-> 0]]
  /\ job = [q \in Jobs |-> Idle]

-----------------------------------------------------------------------------
(* DavLockManager.                                                          *)

Live == {l \in locks : now < l.expires}      \* _purge

RoomForOneMore == Cardinality(Live) <= MaxLocks      \* mutant: one lock too many
Room == Cardinality(Live) < MaxLocks

Covers(l, p) == l.path = p \/ (l.deep /\ Below(p, l.path))

ConflictsAbove(l, p, deep, exclusive) ==      \* mutant: locks below are not looked at
  Covers(l, p) /\ (l.exclusive \/ exclusive)
Conflicts(l, p, deep, exclusive) ==
  /\ Covers(l, p) \/ (deep /\ Below(l.path, p))
  /\ l.exclusive \/ exclusive

MayModify(who, p, mine, descendants) ==
  \A l \in Live : Covers(l, p) \/ (descendants /\ Below(l.path, p)) => l.who = who /\ l.token \in mine

-----------------------------------------------------------------------------
(* The handlers.                                                            *)

Goes(q, step) == job' = [job EXCEPT ![q].step = step]
Ends(q) == job' = [job EXCEPT ![q] = Idle]
Busy(q, step) == job[q] # Idle /\ job[q].step = step
Target(r) == IF r.method \in {"copy", "move"} THEN r.to ELSE r.path

FailsWithLock(q) ==      \* mutant: it keeps the lock
  Ends(q) /\ UNCHANGED <<disk, locks, given>>
(* A request ends with an error.  A LOCK gives its lock back.               *)
Fails(q) ==
  /\ Ends(q)
  /\ locks' = IF job[q].method = "lock" THEN {l \in Live : l.token # job[q].n} ELSE locks
  /\ UNCHANGED <<disk, given>>

(* A LOCK answers with its lock; other requests just end.                   *)
Answers(q) ==
  /\ Ends(q)
  /\ given' = IF job[q].method = "lock" THEN given \cup {job[q].n} ELSE given
  /\ UNCHANGED locks

(* _requireUnlocked of each method, by an account that presents the tokens  *)
(* of the locks "mine"; and what a path may not be copied or moved to.      *)
AllowedAbove(m, who, mine, p, t) ==      \* mutant: locks below are not looked at
  /\ MayModify(who, IF m = "copy" THEN t ELSE p, mine, FALSE)
  /\ m = "move" => MayModify(who, t, mine, FALSE)
  /\ m \in {"copy", "move"} => t \notin Tree(p)
Allowed(m, who, mine, p, t) ==
  /\ m \in {"put", "mkcol"} => MayModify(who, p, mine, FALSE)
  /\ m \in {"delete", "move"} => MayModify(who, p, mine, TRUE)
  /\ m \in {"copy", "move"} => MayModify(who, t, mine, FALSE) /\ t \notin Tree(p)

Begin(q, m, who, mine, p, t, over) ==
  /\ changes' = changes + 1
  /\ Allowed(m, who, mine, p, t)
  /\ locks' = Live
  /\ job' = [job EXCEPT ![q] =
       [n |-> requests', method |-> m,
        step |-> IF m = "mkcol" \/ (m = "put" /\ over) THEN "parent" ELSE "stat",
        path |-> p, to |-> t, over |-> over, source |-> "none", found |-> "none",
        foreign |-> {l.token : l \in {k \in Live : k.who # who \/ k.token \notin mine}}]]

(* LOCK, which takes its lock before it sees whether there is a file.       *)
Lock(q, who, p, deep, exclusive, timeout) ==
  /\ UNCHANGED changes
  /\ Room
  /\ \A l \in Live : ~Conflicts(l, p, deep, exclusive)
  /\ locks' = Live \cup {[token |-> requests', who |-> who, path |-> p, deep |-> deep,
                          exclusive |-> exclusive, expires |-> now + timeout]}
  /\ job' = [job EXCEPT ![q] =
       [n |-> requests', method |-> "lock", step |-> "stat", path |-> p, to |-> p, over |-> FALSE,
        source |-> "none", found |-> "none", foreign |-> {l.token : l \in {k \in Live : k.exclusive}}]]

RefreshAnew(l, timeout) ==      \* mutant: the lock is there twice
  /\ UNCHANGED <<job, changes>>
  /\ locks' = Live \cup {[l EXCEPT !.expires = now + timeout]}
Refresh(l, timeout) ==
  /\ UNCHANGED <<job, changes>>
  /\ locks' = (Live \ {l}) \cup {[l EXCEPT !.expires = now + timeout]}

Unlock(l) ==
  /\ UNCHANGED <<job, changes>>
  /\ locks' = Live \ {l}

-----------------------------------------------------------------------------
(* From one await to the next.                                              *)

Stat(q) ==
  LET r == job[q] there == disk[r.path] # None IN
  /\ Busy(q, "stat") /\ UNCHANGED disk
  /\ \/ /\ IF r.method = "put" THEN ~there ELSE r.method \in {"copy", "move"} /\ there
        /\ job' = [job EXCEPT ![q].step = "parent", ![q].source = disk[r.path].is]
        /\ UNCHANGED <<locks, given>>
     \/ r.method = "delete" /\ there /\ Goes(q, "recycle") /\ UNCHANGED <<locks, given>>
     \/ r.method = "lock" /\ ~there /\ Goes(q, "parent") /\ UNCHANGED <<locks, given>>
     \/ r.method = "lock" /\ there /\ Answers(q)
     \/ (r.method = "put" <=> there) /\ r.method # "lock" /\ Ends(q) /\ UNCHANGED <<locks, given>>

(* requireDirectory.                                                        *)
LookAtParent(q) ==
  /\ Busy(q, "parent") /\ UNCHANGED <<disk, given>>
  /\ IF IsFolder(Parent(Target(job[q]))) THEN Goes(q, "target") /\ UNCHANGED locks ELSE Fails(q)

(* What is at the target decides: it is refused, replaced, or put in the    *)
(* recycle bin before.                                                      *)
Sees(q, there, step) ==
  job' = [job EXCEPT ![q].found = there, ![q].step = step] /\ UNCHANGED locks

LookAtTarget(q) ==
  LET r == job[q]
      there == disk[Target(r)].is
      moves == r.method \in {"copy", "move"} IN
  /\ Busy(q, "target") /\ UNCHANGED <<disk, given>>
  /\ \/ there = "none" /\ Sees(q, there, "apply")
     \/ r.method = "put" /\ there = "file" /\ Sees(q, there, "apply")
     \/ moves /\ r.over /\ there = "file" /\ r.source = "file" /\ Sees(q, there, "apply")
     \/ /\ moves /\ r.over /\ there # "none" /\ "folder" \in {there, r.source}
        /\ Sees(q, there, "recycle")
     \/ /\ there # "none"
        /\ r.method \in {"mkcol", "lock"} \/ (r.method = "put" /\ there = "folder") \/ (moves /\ ~r.over)
        /\ Fails(q)

Without(d, p) == [x \in Paths |-> IF x \in Tree(p) THEN None ELSE d[x]]
With(d, p, t, n) ==      \* a copy of p is at t
  [x \in Paths |-> LET y == At(x, t, p) IN
     IF x \notin Tree(t) THEN d[x]
     ELSE IF y \in Paths /\ d[y] # None THEN [is |-> d[y].is, by |-> n] ELSE None]

(* _delete: to the recycle bin.                                             *)
Recycle(q) ==
  LET r == job[q] IN
  /\ Busy(q, "recycle") /\ disk[Target(r)] # None
  /\ disk' = Without(disk, Target(r))
  /\ IF r.method = "delete" THEN Ends(q) ELSE Goes(q, "apply")
  /\ UNCHANGED <<locks, given>>

(* What a PUT, a LOCK or a MKCOL makes.                                     *)
Make(q) ==
  LET r == job[q] IN
  /\ Busy(q, "apply") /\ r.method \in {"put", "lock", "mkcol"}
  /\ IsFolder(Parent(r.path)) /\ disk[r.path].is # "folder"
  /\ r.method = "mkcol" => disk[r.path] = None
  /\ disk' = [disk EXCEPT ![r.path] =
                [is |-> IF r.method = "mkcol" THEN "folder" ELSE "file", by |-> r.n]]
  /\ Answers(q)

(* copySingle and renameSingle, and for Depth: 0 createDirectory.  Of two   *)
(* files, the old one is deleted first; otherwise the backend refuses a     *)
(* target that exists.                                                      *)
Copy(q) ==
  LET r == job[q]
      renames == r.method = "move" /\ Parent(r.path) = Parent(r.to) /\ r.found = "none" IN
  /\ Busy(q, "apply") /\ r.method \in {"copy", "move"}
  /\ IsFolder(Parent(r.to))
  /\ disk[r.to] = None \/ (r.found = "file" /\ r.source = "file")
  /\ LET d == With(disk, r.path, r.to, r.n) IN
     \/ disk[r.path] # None /\ disk' = IF renames THEN Without(d, r.path) ELSE d
     \/ /\ r.method = "copy" /\ r.source = "folder"
        /\ disk' = [disk EXCEPT ![r.to] = [is |-> "folder", by |-> r.n]]
  /\ IF r.method = "copy" \/ renames THEN Ends(q) ELSE Goes(q, "remove")
  /\ UNCHANGED <<locks, given>>

(* deletePermanently.                                                       *)
Remove(q) ==
  /\ Busy(q, "remove")
  /\ disk' = Without(disk, job[q].path) /\ Ends(q)
  /\ UNCHANGED <<locks, given>>

(* Any await may throw.                                                     *)
Throws(q) == job[q] # Idle /\ Fails(q)

Runs(q) ==
  /\ \/ Stat(q) \/ LookAtParent(q) \/ LookAtTarget(q) \/ Recycle(q)
     \/ Make(q) \/ Copy(q) \/ Remove(q) \/ Throws(q)
  /\ UNCHANGED <<now, requests, changes>>

Tick == now < MaxTime /\ now' = now + 1 /\ UNCHANGED <<locks, disk, job, given, requests, changes>>

Arrives ==
  /\ requests < MaxRequests /\ requests' = requests + 1
  /\ UNCHANGED <<now, disk, given>>
  /\ \/ \E q \in {j \in Jobs : job[j] = Idle}, who \in Accounts, p \in Paths :
          \/ /\ changes < MaxChanges
             /\ \E t \in Paths, m \in Methods \ {"lock"}, over \in BOOLEAN :
                  /\ m \notin {"copy", "move"} => t = p
                  /\ m \in {"mkcol", "delete"} => over
                  /\ {At(x, p, t) : x \in Tree(p)} \subseteq Paths   \* bound: t has room for all of p
                  /\ \E mine \in SUBSET {l.token : l \in {k \in Live : k.who = who}} :
                       Begin(q, m, who, mine, p, t, over)
          \/ \E deep, exclusive \in BOOLEAN, timeout \in Timeouts :
               (deep => Tree(p) # {p}) /\ Lock(q, who, p, deep, exclusive, timeout)
     \/ \E l \in Live : Unlock(l) \/ \E timeout \in Timeouts : Refresh(l, timeout)

Next == Arrives \/ Tick \/ \E q \in Jobs : Runs(q)

Spec == Init /\ [][Next]_vars

-----------------------------------------------------------------------------
(* No lock covers what another one covers, unless both are shared,          *)
(* whichever locks were taken, refreshed and ran out before.                *)
NoConflict ==
  \A k, l \in Live : k # l /\ (Covers(k, l.path) \/ Covers(l, k.path)) => ~k.exclusive /\ ~l.exclusive

(* The lock of a LOCK that failed does not stay: whoever has a lock was     *)
(* told its token, or is about to be.                                       *)
NoOrphanLock ==
  \A l \in Live : l.token \in given \/ \E q \in Jobs : job[q] # Idle /\ job[q].n = l.token

(* A request changes nothing under a lock that was there when it was        *)
(* checked, unless its account holds the lock and it presented the token;   *)
(* for as long as the lock lasts, however late the change is made.          *)
Respects(q, l) ==
  job'[q] # job[q] /\ l.token \in job[q].foreign => \A p \in Paths : Covers(l, p) => disk'[p] = disk[p]
ReplacesOver(r, l) == r.method \in {"copy", "move"} /\ Below(l.path, r.to)
LocksRespected ==
  [][\A q \in Jobs : job[q] # Idle =>
       \A l \in Live : ReplacesOver(job[q], l) \/ Respects(q, l)]_vars

(* The same without the exception.  TLC refutes it: the destination of a    *)
(* COPY or MOVE is checked without what is below it, and a folder there is  *)
(* put in the recycle bin with all that is locked in it.                    *)
LocksBelowRespected ==
  [][\A q \in Jobs : job[q] # Idle => \A l \in Live : Respects(q, l)]_vars
=============================================================================
