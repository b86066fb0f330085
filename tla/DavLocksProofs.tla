--------------------------- MODULE DavLocksProofs ---------------------------
(***************************************************************************)
(* The locks of DavLocks, for any accounts, paths, requests and bounds:    *)
(* types, that locks do not conflict, that none is left behind, and that   *)
(* no request writes under a lock that was there when it was checked.      *)
(***************************************************************************)
EXTENDS DavLocks, FiniteSetTheorems, SequenceTheorems, TLAPS

(* What the check of a request r found out of a lock l that is not its own. *)
Clears(r, l) ==
  /\ r.method \in {"put", "mkcol", "lock"} => ~Covers(l, r.path)
  /\ r.method \in {"delete", "move"} => ~Covers(l, r.path) /\ ~Below(l.path, r.path)
  /\ r.method \in {"copy", "move"} => ~Covers(l, r.to)

StepOK(r) ==
  /\ r.step = "recycle" => r.method \in {"delete", "copy", "move"}
  /\ r.step = "remove" => r.method = "move"

JobOK(r, live, count) ==
  /\ r.n <= count /\ r.foreign \subseteq 1..count
  /\ \A l \in live : /\ l.token \in r.foreign => Clears(r, l)
                     /\ l.token = r.n => r.method = "lock"
  /\ StepOK(r)

(* No two locks have one token.                                             *)
TokensOK ==
  /\ \A l \in locks : l.token <= requests
  /\ \A k, l \in locks : k.token = l.token => k = l

Inv ==
  /\ TypeOK /\ TokensOK
  /\ \A q \in Jobs : job[q] # Idle => JobOK(job[q], Live, requests)

-----------------------------------------------------------------------------
(* Paths.                                                                   *)

(* Two folders that a path is in: one is in the other.                      *)
LEMMA Nested ==
  ASSUME NEW x \in Paths, NEW p \in Paths, NEW r \in Paths, Below(x, p), Below(x, r)
  PROVE  p = r \/ Below(p, r) \/ Below(r, p)
<1>1. /\ x \in Seq(STRING) /\ p \in Seq(STRING) /\ r \in Seq(STRING)
      /\ Len(p) \in Nat /\ Len(r) \in Nat /\ Len(x) \in Nat
  BY PathsAssumption, LenProperties
<1>2. ASSUME NEW a \in Paths, NEW b \in Paths, Below(x, a), Below(x, b), Len(a) < Len(b)
      PROVE  Below(b, a)
  <2>1. /\ a \in Seq(STRING) /\ Len(a) \in Nat /\ Len(b) \in Nat
        /\ SubSeq(x, 1, Len(a)) = a /\ SubSeq(x, 1, Len(b)) = b /\ Len(b) < Len(x)
    BY <1>2, PathsAssumption, LenProperties DEF Below
  <2>2. SubSeq(SubSeq(x, 1, Len(b)), 1, Len(a)) = SubSeq(x, 1, Len(a))
    <3>1. CASE Len(a) = 0
      BY <1>1, <2>1, <3>1, SubSeqEmpty
    <3>2. CASE Len(a) # 0
      BY <1>1, <1>2, <2>1, <3>2, SubSeqOfSubSeq
    <3>. QED  BY <3>1, <3>2
  <2>. QED  BY <1>2, <2>1, <2>2 DEF Below
<1>3. CASE Len(p) = Len(r)
  BY <1>3 DEF Below
<1>. QED  BY <1>1, <1>2, <1>3

(* A lock that neither covers a folder nor is in it covers nothing in it.   *)
LEMMA ClearOfTree ==
  ASSUME NEW l \in LocksOf, NEW r \in Paths, ~Covers(l, r), ~Below(l.path, r), NEW x \in Tree(r)
  PROVE  ~Covers(l, x)
<1>1. x \in Paths /\ l.path \in Paths /\ (x = r \/ Below(x, r))
  BY DEF Tree, LocksOf
<1>2. CASE x = r
  BY <1>2
<1>3. CASE Below(x, r) /\ l.path = x
  BY <1>3
<1>4. CASE Below(x, r) /\ l.path # x
  BY <1>1, <1>4, Nested DEF Covers
<1>. QED  BY <1>1, <1>2, <1>3, <1>4

-----------------------------------------------------------------------------
(* Steps.                                                                   *)

(* What a request is keeps, but for its step and what it saw.               *)
Same(r, s) ==
  s.n = r.n /\ s.method = r.method /\ s.path = r.path /\ s.to = r.to /\ s.foreign = r.foreign

(* The request q goes on.                                                   *)
GoesOn(q) ==
  \E s \in Requests : job' = [job EXCEPT ![q] = s] /\ Same(job[q], s) /\ StepOK(s)

(* What is under a path may change by a step of the request r.              *)
May(r, x) ==
  \/ r.method \in {"put", "mkcol", "lock"} /\ x = r.path
  \/ r.method \in {"delete", "move"} /\ x \in Tree(r.path)
  \/ r.method \in {"copy", "move"} /\ x \in Tree(r.to)

(* A step of q, as far as the properties go.                                *)
Step(q) ==
  /\ job[q] # Idle
  /\ GoesOn(q) \/ Ends(q)
  /\ locks' \subseteq locks
  /\ UNCHANGED <<now, requests, changes>>
  /\ disk' \in [Paths -> Items] /\ \A x \in Paths : disk'[x] # disk[x] => May(job[q], x)
  /\ given \subseteq given' /\ given' \subseteq 1..MaxRequests
  /\ Ends(q) /\ job[q].method = "lock" =>
       job[q].n \in given' \/ \A l \in locks' : l.token # job[q].n

LEMMA AJob ==
  ASSUME Inv, NEW q \in Jobs, job[q] # Idle
  PROVE  job[q] \in Requests /\ JobOK(job[q], Live, requests)
BY DEF Inv, TypeOK

LEMMA Onward ==
  ASSUME Inv, NEW q \in Jobs, job[q] # Idle, NEW step \in Steps, NEW source \in Kinds, NEW found \in Kinds,
         LET s == [job[q] EXCEPT !.step = step, !.source = source, !.found = found] IN
         StepOK(s) /\ job' = [job EXCEPT ![q] = s]
  PROVE  GoesOn(q)
<1>. DEFINE r == job[q]
            s == [r EXCEPT !.step = step, !.source = source, !.found = found]
<1>1. r \in Requests
  BY AJob
<1>2. s \in Requests /\ Same(r, s)
  BY <1>1 DEF Requests, Same
<1>. QED  BY <1>2 DEF GoesOn

LEMMA FailsStep ==
  ASSUME Inv, NEW q \in Jobs, job[q] # Idle, Fails(q), UNCHANGED <<now, requests, changes>>
  PROVE  Step(q)
<1>1. locks' \subseteq locks
  BY DEF Fails, Live
<1>2. disk' \in [Paths -> Items] /\ given' \subseteq 1..MaxRequests /\ UNCHANGED <<disk, given>>
  BY DEF Fails, Inv, TypeOK
<1>. QED  BY <1>1, <1>2 DEF Fails, Step

LEMMA AStat ==
  ASSUME Inv, NEW q \in Jobs, Stat(q), UNCHANGED <<now, requests, changes>>
  PROVE  Step(q)
<1>. DEFINE r == job[q]
<1>1. r # Idle /\ r \in Requests /\ JobOK(r, Live, requests) /\ disk' = disk /\ job \in [Jobs -> {Idle} \cup Requests]
  BY AJob DEF Stat, Busy, Inv, TypeOK
<1>2. disk \in [Paths -> Items] /\ given \subseteq 1..MaxRequests
  BY DEF Inv, TypeOK
<1>3. disk[r.path].is \in Kinds /\ r.path \in Paths /\ r.source \in Kinds /\ r.found \in Kinds /\ r.n \in 1..MaxRequests
  BY <1>1, <1>2 DEF Items, Requests, Kinds, None
<1>4. CASE /\ r.method \in {"put", "copy", "move"}
           /\ job' = [job EXCEPT ![q].step = "parent", ![q].source = disk[r.path].is]
           /\ UNCHANGED <<locks, given>>
  <2>1. job' = [job EXCEPT ![q] = [r EXCEPT !.step = "parent", !.source = disk[r.path].is, !.found = r.found]]
    BY <1>1, <1>4 DEF Requests
  <2>2. StepOK([r EXCEPT !.step = "parent", !.source = disk[r.path].is, !.found = r.found])
    BY <1>1 DEF Requests, StepOK
  <2>3. GoesOn(q)
    BY <1>1, <1>3, <2>1, <2>2, Onward DEF Steps
  <2>4. ~Ends(q) \/ r.method # "lock"
    BY <1>4
  <2>. QED  BY <1>1, <1>2, <1>4, <2>3, <2>4 DEF Step
<1>5. CASE /\ r.method \in {"delete", "lock"} /\ UNCHANGED <<locks, given>>
           /\ (r.method = "delete" /\ Goes(q, "recycle")) \/ (r.method = "lock" /\ Goes(q, "parent"))
  <2>1. PICK step \in {"recycle", "parent"} : Goes(q, step) /\ (step = "recycle" <=> r.method = "delete")
    BY <1>5
  <2>2. job' = [job EXCEPT ![q] = [r EXCEPT !.step = step, !.source = r.source, !.found = r.found]]
    BY <1>1, <2>1 DEF Requests, Goes
  <2>3. StepOK([r EXCEPT !.step = step, !.source = r.source, !.found = r.found])
    BY <1>1, <1>5, <2>1 DEF Requests, StepOK
  <2>4. GoesOn(q)
    BY <1>1, <1>3, <2>2, <2>3, Onward DEF Steps
  <2>5. ~Ends(q)
    BY <1>1, <2>2 DEF Ends, Requests, Idle
  <2>. QED  BY <1>1, <1>2, <1>5, <2>4, <2>5 DEF Step
<1>6. CASE r.method = "lock" /\ Answers(q)
  BY <1>1, <1>2, <1>3, <1>6 DEF Step, Answers
<1>7. CASE r.method # "lock" /\ Ends(q) /\ UNCHANGED <<locks, given>>
  BY <1>1, <1>2, <1>7 DEF Step
<1>. QED  BY <1>4, <1>5, <1>6, <1>7 DEF Stat

LEMMA ALookAtParent ==
  ASSUME Inv, NEW q \in Jobs, LookAtParent(q), UNCHANGED <<now, requests, changes>>
  PROVE  Step(q)
<1>. DEFINE r == job[q]
<1>1. r # Idle /\ r \in Requests /\ JobOK(r, Live, requests) /\ job \in [Jobs -> {Idle} \cup Requests]
  BY AJob DEF LookAtParent, Busy, Inv, TypeOK
<1>2. disk \in [Paths -> Items] /\ given \subseteq 1..MaxRequests /\ UNCHANGED <<disk, given>>
  BY DEF Inv, TypeOK, LookAtParent
<1>3. r.source \in Kinds /\ r.found \in Kinds
  BY <1>1 DEF Requests
<1>4. CASE Goes(q, "target") /\ UNCHANGED locks
  <2>1. job' = [job EXCEPT ![q] = [r EXCEPT !.step = "target", !.source = r.source, !.found = r.found]]
    BY <1>1, <1>4 DEF Requests, Goes
  <2>2. StepOK([r EXCEPT !.step = "target", !.source = r.source, !.found = r.found])
    BY <1>1 DEF Requests, StepOK
  <2>3. GoesOn(q)
    BY <1>1, <1>3, <2>1, <2>2, Onward DEF Steps
  <2>4. ~Ends(q)
    BY <1>1, <2>1 DEF Ends, Requests, Idle
  <2>. QED  BY <1>1, <1>2, <1>4, <2>3, <2>4 DEF Step
<1>5. CASE Fails(q)
  BY <1>1, <1>5, FailsStep
<1>. QED  BY <1>4, <1>5 DEF LookAtParent

LEMMA ALookAtTarget ==
  ASSUME Inv, NEW q \in Jobs, LookAtTarget(q), UNCHANGED <<now, requests, changes>>
  PROVE  Step(q)
<1>. DEFINE r == job[q]
            there == disk[Target(r)].is
<1>1. r # Idle /\ r \in Requests /\ JobOK(r, Live, requests) /\ job \in [Jobs -> {Idle} \cup Requests]
  BY AJob DEF LookAtTarget, Busy, Inv, TypeOK
<1>2. disk \in [Paths -> Items] /\ given \subseteq 1..MaxRequests /\ UNCHANGED <<disk, given>>
  BY DEF Inv, TypeOK, LookAtTarget
<1>3. r.source \in Kinds /\ there \in Kinds /\ Target(r) \in Paths
  <2>1. Target(r) \in Paths /\ r.source \in Kinds
    BY <1>1 DEF Requests, Target
  <2>. QED  BY <1>2, <2>1 DEF Items, Kinds, None
<1>4. ASSUME NEW step \in {"apply", "recycle"}, Sees(q, there, step),
             step = "recycle" => r.method \in {"copy", "move"}
      PROVE  Step(q)
  <2>1. job' = [job EXCEPT ![q] = [r EXCEPT !.step = step, !.source = r.source, !.found = there]]
    BY <1>1, <1>4 DEF Requests, Sees
  <2>2. StepOK([r EXCEPT !.step = step, !.source = r.source, !.found = there])
    BY <1>1, <1>4 DEF Requests, StepOK
  <2>3. GoesOn(q)
    BY <1>1, <1>3, <2>1, <2>2, Onward DEF Steps
  <2>4. ~Ends(q)
    BY <1>1, <2>1 DEF Ends, Requests, Idle
  <2>5. UNCHANGED locks
    BY <1>4 DEF Sees
  <2>. QED  BY <1>1, <1>2, <2>3, <2>4, <2>5 DEF Step
<1>5. CASE Fails(q)
  BY <1>1, <1>5, FailsStep
<1>. QED  BY <1>4, <1>5 DEF LookAtTarget

(* What the disk is after a step.                                           *)
LEMMA AfterWithout ==
  ASSUME NEW d \in [Paths -> Items], NEW p \in Paths
  PROVE  Without(d, p) \in [Paths -> Items] /\ \A x \in Paths : Without(d, p)[x] # d[x] => x \in Tree(p)
<1>1. None \in Items
  BY DEF Items
<1>2. \A x \in Paths : d[x] \in Items
  OBVIOUS
<1>. QED  BY <1>1, <1>2 DEF Without

LEMMA AfterWith ==
  ASSUME NEW d \in [Paths -> Items], NEW p \in Paths, NEW t \in Paths, NEW n \in 1..MaxRequests
  PROVE  With(d, p, t, n) \in [Paths -> Items] /\ \A x \in Paths : With(d, p, t, n)[x] # d[x] => x \in Tree(t)
<1>1. ASSUME NEW x \in Paths
      PROVE  With(d, p, t, n)[x] \in Items /\ (With(d, p, t, n)[x] # d[x] => x \in Tree(t))
  <2>. DEFINE y == At(x, t, p)
  <2>1. CASE x \notin Tree(t)
    BY <2>1 DEF With
  <2>2. CASE x \in Tree(t) /\ y \in Paths /\ d[y] # None
    <3>1. d[y] \in [is : {"file", "folder"}, by : 0..MaxRequests]
      BY <2>2 DEF Items
    <3>2. d[y].is \in {"file", "folder"} /\ n \in 0..MaxRequests
      BY <3>1, BoundsAssumption
    <3>3. [is |-> d[y].is, by |-> n] \in Items
      BY <3>2 DEF Items
    <3>4. With(d, p, t, n)[x] = [is |-> d[y].is, by |-> n]
      BY <2>2 DEF With
    <3>. QED  BY <2>2, <3>3, <3>4
  <2>3. CASE x \in Tree(t) /\ ~(y \in Paths /\ d[y] # None)
    <3>1. With(d, p, t, n)[x] = None
      BY <2>3 DEF With
    <3>. QED  BY <2>3, <3>1 DEF Items
  <2>. QED  BY <2>1, <2>2, <2>3
<1>2. With(d, p, t, n) = [x \in Paths |-> With(d, p, t, n)[x]]
  BY DEF With
<1>. QED  BY <1>1, <1>2

LEMMA GoesOnTo ==
  ASSUME Inv, NEW q \in Jobs, job[q] # Idle, NEW step \in Steps, Goes(q, step), StepOK([job[q] EXCEPT !.step = step])
  PROVE  GoesOn(q) /\ ~Ends(q)
<1>. DEFINE r == job[q]
<1>1. r \in Requests /\ job \in [Jobs -> {Idle} \cup Requests]
  BY AJob DEF Inv, TypeOK
<1>2. /\ r.source \in Kinds /\ r.found \in Kinds
      /\ [r EXCEPT !.step = step] = [r EXCEPT !.step = step, !.source = r.source, !.found = r.found]
  BY <1>1 DEF Requests
<1>3. job' = [job EXCEPT ![q] = [r EXCEPT !.step = step, !.source = r.source, !.found = r.found]]
  BY <1>1, <1>2 DEF Goes
<1>4. GoesOn(q)
  BY <1>1, <1>2, <1>3, Onward
<1>5. ~Ends(q)
  BY <1>1, <1>3 DEF Ends, Requests, Idle
<1>. QED  BY <1>4, <1>5

LEMMA ARecycle ==
  ASSUME Inv, NEW q \in Jobs, Recycle(q), UNCHANGED <<now, requests, changes>>
  PROVE  Step(q)
<1>. DEFINE r == job[q]
<1>1. r # Idle /\ r \in Requests /\ JobOK(r, Live, requests) /\ UNCHANGED <<locks, given>> /\ disk' = Without(disk, Target(r))
  BY AJob DEF Recycle, Busy
<1>2. disk \in [Paths -> Items] /\ given \subseteq 1..MaxRequests
  BY DEF Inv, TypeOK
<1>3. r.method \in {"delete", "copy", "move"}
  BY <1>1 DEF JobOK, StepOK, Recycle, Busy
<1>4. Target(r) \in Paths
  BY <1>1 DEF Requests, Target
<1>5. disk' \in [Paths -> Items] /\ \A x \in Paths : disk'[x] # disk[x] => x \in Tree(Target(r))
  BY <1>1, <1>2, <1>4, AfterWithout
<1>6. \A x \in Paths : disk'[x] # disk[x] => May(r, x)
  BY <1>3, <1>5 DEF May, Target
<1>7. CASE Goes(q, "apply")
  <2>1. StepOK([r EXCEPT !.step = "apply"])
    BY <1>1 DEF Requests, StepOK
  <2>2. GoesOn(q) /\ ~Ends(q)
    BY <1>1, <1>7, <2>1, GoesOnTo DEF Steps
  <2>. QED  BY <1>1, <1>2, <1>5, <1>6, <2>2 DEF Step
<1>8. CASE Ends(q)
  BY <1>1, <1>2, <1>3, <1>5, <1>6, <1>8 DEF Step
<1>. QED  BY <1>7, <1>8 DEF Recycle

LEMMA AMake ==
  ASSUME Inv, NEW q \in Jobs, Make(q), UNCHANGED <<now, requests, changes>>
  PROVE  Step(q)
<1>. DEFINE r == job[q]
            item == [is |-> IF r.method = "mkcol" THEN "folder" ELSE "file", by |-> r.n]
<1>1. /\ r # Idle /\ r \in Requests /\ Answers(q) /\ disk' = [disk EXCEPT ![r.path] = item]
      /\ r.method \in {"put", "lock", "mkcol"}
  BY AJob DEF Make, Busy
<1>2. disk \in [Paths -> Items] /\ given \subseteq 1..MaxRequests
  BY DEF Inv, TypeOK
<1>3. r.path \in Paths /\ r.n \in 1..MaxRequests /\ r.n \in 0..MaxRequests
  BY <1>1, BoundsAssumption DEF Requests
<1>4. item \in Items
  BY <1>3 DEF Items
<1>5. disk' \in [Paths -> Items] /\ \A x \in Paths : disk'[x] # disk[x] => x = r.path
  BY <1>1, <1>2, <1>3, <1>4
<1>6. \A x \in Paths : disk'[x] # disk[x] => May(r, x)
  BY <1>1, <1>5 DEF May
<1>7. /\ Ends(q) /\ locks' \subseteq locks /\ given \subseteq given' /\ given' \subseteq 1..MaxRequests
      /\ r.method = "lock" => r.n \in given'
  BY <1>1, <1>2, <1>3 DEF Answers
<1>. QED  BY <1>1, <1>5, <1>6, <1>7 DEF Step

LEMMA ACopy ==
  ASSUME Inv, NEW q \in Jobs, Copy(q), UNCHANGED <<now, requests, changes>>
  PROVE  Step(q)
<1>. DEFINE r == job[q]
            d == With(disk, r.path, r.to, r.n)
<1>1. r # Idle /\ r \in Requests /\ r.method \in {"copy", "move"} /\ UNCHANGED <<locks, given>>
  BY AJob DEF Copy, Busy
<1>2. disk \in [Paths -> Items] /\ given \subseteq 1..MaxRequests
  BY DEF Inv, TypeOK
<1>3. r.path \in Paths /\ r.to \in Paths /\ r.n \in 1..MaxRequests /\ r.n \in 0..MaxRequests
  BY <1>1, BoundsAssumption DEF Requests
<1>4. d \in [Paths -> Items] /\ \A x \in Paths : d[x] # disk[x] => x \in Tree(r.to)
  BY <1>2, <1>3, AfterWith
<1>5. disk' \in [Paths -> Items] /\ \A x \in Paths : disk'[x] # disk[x] => May(r, x)
  <2>1. CASE disk' = d
    BY <1>1, <1>4, <2>1 DEF May
  <2>2. CASE r.method = "move" /\ disk' = Without(d, r.path)
    <3>1. /\ Without(d, r.path) \in [Paths -> Items]
          /\ \A x \in Paths : Without(d, r.path)[x] # d[x] => x \in Tree(r.path)
      BY <1>3, <1>4, AfterWithout
    <3>. QED  BY <1>4, <2>2, <3>1 DEF May
  <2>3. CASE disk' = [disk EXCEPT ![r.to] = [is |-> "folder", by |-> r.n]]
    <3>1. [is |-> "folder", by |-> r.n] \in Items
      BY <1>3 DEF Items
    <3>2. r.to \in Tree(r.to)
      BY <1>3 DEF Tree
    <3>3. disk' \in [Paths -> Items] /\ \A x \in Paths : disk'[x] # disk[x] => x = r.to
      BY <1>2, <1>3, <2>3, <3>1
    <3>. QED  BY <1>1, <3>2, <3>3 DEF May
  <2>. QED  BY <2>1, <2>2, <2>3 DEF Copy
<1>6. CASE Ends(q)
  BY <1>1, <1>2, <1>5, <1>6 DEF Step
<1>7. CASE r.method = "move" /\ Goes(q, "remove")
  <2>1. StepOK([r EXCEPT !.step = "remove"])
    BY <1>1, <1>7 DEF Requests, StepOK
  <2>2. GoesOn(q) /\ ~Ends(q)
    BY <1>1, <1>7, <2>1, GoesOnTo DEF Steps
  <2>. QED  BY <1>1, <1>2, <1>5, <2>2 DEF Step
<1>. QED  BY <1>1, <1>6, <1>7 DEF Copy

LEMMA ARemove ==
  ASSUME Inv, NEW q \in Jobs, Remove(q), UNCHANGED <<now, requests, changes>>
  PROVE  Step(q)
<1>. DEFINE r == job[q]
<1>1. /\ r # Idle /\ r \in Requests /\ JobOK(r, Live, requests) /\ UNCHANGED <<locks, given>> /\ Ends(q)
      /\ disk' = Without(disk, r.path)
  BY AJob DEF Remove, Busy
<1>2. disk \in [Paths -> Items] /\ given \subseteq 1..MaxRequests
  BY DEF Inv, TypeOK
<1>3. r.method = "move" /\ r.path \in Paths
  BY <1>1 DEF JobOK, StepOK, Remove, Busy, Requests
<1>4. disk' \in [Paths -> Items] /\ \A x \in Paths : disk'[x] # disk[x] => x \in Tree(r.path)
  BY <1>1, <1>2, <1>3, AfterWithout
<1>5. \A x \in Paths : disk'[x] # disk[x] => May(r, x)
  BY <1>3, <1>4 DEF May
<1>. QED  BY <1>1, <1>2, <1>3, <1>4, <1>5 DEF Step

LEMMA RunsStep ==
  ASSUME Inv, NEW q \in Jobs, Runs(q)
  PROVE  Step(q)
<1>1. UNCHANGED <<now, requests, changes>>
  BY DEF Runs
<1>2. ASSUME Throws(q)
      PROVE  Step(q)
  BY <1>1, <1>2, FailsStep DEF Throws
<1>. QED  BY <1>1, <1>2, AStat, ALookAtParent, ALookAtTarget, ARecycle, AMake, ACopy, ARemove DEF Runs

-----------------------------------------------------------------------------
(* The invariant.                                                           *)

(* What is in the table afterwards, was in it: but for when it expires.     *)
From(l, live) == \E k \in live : l.token = k.token /\ l.path = k.path /\ l.deep = k.deep

LEMMA StaysOK ==
  ASSUME NEW r, NEW live, NEW new, NEW a \in Nat, NEW b \in Nat, a <= b, r.n \in 1..a,
         JobOK(r, live, a), \A l \in new : l.token \notin 1..a \/ From(l, live)
  PROVE  JobOK(r, new, b)
<1>1. r.n <= b /\ r.foreign \subseteq 1..a /\ r.foreign \subseteq 1..b /\ StepOK(r)
  BY DEF JobOK
<1>2. ASSUME NEW l \in new
      PROVE  (l.token \in r.foreign => Clears(r, l)) /\ (l.token = r.n => r.method = "lock")
  <2>1. CASE l.token \notin 1..a
    BY <1>1, <2>1
  <2>2. CASE From(l, live)
    <3>1. PICK k \in live : l.token = k.token /\ l.path = k.path /\ l.deep = k.deep
      BY <2>2 DEF From
    <3>2. (k.token \in r.foreign => Clears(r, k)) /\ (k.token = r.n => r.method = "lock")
      BY DEF JobOK
    <3>3. Clears(r, k) => Clears(r, l)
      BY <3>1 DEF Clears, Covers
    <3>. QED  BY <3>1, <3>2, <3>3
  <2>. QED  BY <1>2, <2>1, <2>2
<1>. QED  BY <1>1, <1>2 DEF JobOK

LEMMA LiveIs ==
  ASSUME Inv
  PROVE  /\ Live \subseteq locks /\ Live \subseteq LocksOf /\ IsFiniteSet(Live)
         /\ Cardinality(Live) \in Nat /\ Cardinality(Live) <= MaxLocks
<1>1. Live \subseteq locks /\ locks \subseteq LocksOf /\ IsFiniteSet(locks) /\ Cardinality(locks) <= MaxLocks
  BY DEF Live, Inv, TypeOK
<1>2. IsFiniteSet(Live) /\ Cardinality(Live) <= Cardinality(locks)
  BY <1>1, FS_Subset
<1>3. Cardinality(Live) \in Nat /\ Cardinality(locks) \in Nat
  BY <1>1, <1>2, FS_CardinalityType
<1>. QED  BY <1>1, <1>2, <1>3, BoundsAssumption

LEMMA NoMore ==
  ASSUME NEW S, S \subseteq locks, Inv
  PROVE  IsFiniteSet(S) /\ Cardinality(S) <= MaxLocks
<1>1. IsFiniteSet(locks) /\ Cardinality(locks) <= MaxLocks
  BY DEF Inv, TypeOK
<1>2. IsFiniteSet(S) /\ Cardinality(S) <= Cardinality(locks)
  BY <1>1, FS_Subset
<1>3. Cardinality(S) \in Nat /\ Cardinality(locks) \in Nat
  BY <1>1, <1>2, FS_CardinalityType
<1>. QED  BY <1>1, <1>2, <1>3, BoundsAssumption

(* The jobs that a step leaves alone.                                       *)
LEMMA OthersStay ==
  ASSUME Inv, NEW q \in Jobs, job'[q] = job[q], requests' \in {requests, requests + 1},
         \A l \in Live' : l.token \notin 1..requests \/ From(l, Live)
  PROVE  job'[q] # Idle => JobOK(job'[q], Live', requests')
<1>. SUFFICES ASSUME job[q] # Idle
              PROVE  JobOK(job[q], Live', requests')
  OBVIOUS
<1>1. job[q] \in Requests /\ JobOK(job[q], Live, requests) /\ requests \in Nat
  BY AJob, BoundsAssumption DEF Inv, TypeOK
<1>2. job[q].n \in 1..requests
  BY <1>1 DEF Requests, JobOK
<1>3. requests' \in Nat /\ requests <= requests'
  BY <1>1
<1>. QED  BY <1>1, <1>2, <1>3, StaysOK

LEMMA InvInit ==
  ASSUME Init
  PROVE  Inv
<1>1. PICK d \in Disks : disk = [p \in Paths |-> [is |-> d[p], by |-> 0]]
  BY DEF Init
<1>2. disk \in [Paths -> Items]
  <2>1. ASSUME NEW p \in Paths
        PROVE  [is |-> d[p], by |-> 0] \in Items
    <3>1. d[p] \in Kinds /\ 0 \in 0..MaxRequests
      BY DisksAssumption, BoundsAssumption
    <3>. QED  BY <3>1 DEF Kinds, Items, None
  <2>. QED  BY <1>1, <2>1
<1>3. IsFiniteSet(locks) /\ Cardinality(locks) = 0
  BY FS_EmptySet DEF Init
<1>4. TypeOK
  BY <1>2, <1>3, BoundsAssumption DEF Init, TypeOK
<1>. QED  BY <1>4 DEF Init, Inv, TokensOK

LEMMA InvStep ==
  ASSUME Inv, NEW q \in Jobs, Step(q)
  PROVE  Inv'
<1>1. locks' \subseteq locks /\ now' = now /\ requests' = requests /\ changes' = changes
  BY DEF Step
<1>2. Live' \subseteq Live
  BY <1>1 DEF Live
<1>3. TypeOK'
  <2>1. job' \in [Jobs -> {Idle} \cup Requests]
    BY DEF Step, GoesOn, Ends, Inv, TypeOK
  <2>2. given' \subseteq 1..MaxRequests /\ disk' \in [Paths -> Items]
    BY DEF Step
  <2>3. IsFiniteSet(locks') /\ Cardinality(locks') <= MaxLocks
    BY <1>1, NoMore
  <2>. QED  BY <1>1, <2>1, <2>2, <2>3 DEF TypeOK, Inv
<1>4. TokensOK'
  BY <1>1 DEF TokensOK, Inv
<1>5. ASSUME NEW j \in Jobs
      PROVE  job'[j] # Idle => JobOK(job'[j], Live', requests')
  <2>1. \A l \in Live' : From(l, Live)
    BY <1>2 DEF From
  <2>2. CASE j # q
    <3>1. job'[j] = job[j]
      BY <2>2 DEF Step, GoesOn, Ends, Inv, TypeOK
    <3>. QED  BY <1>1, <2>1, <3>1, OthersStay
  <2>3. CASE j = q
    <3>1. CASE Ends(q)
      BY <2>3, <3>1 DEF Ends, Inv, TypeOK
    <3>2. CASE GoesOn(q)
      <4>1. PICK s \in Requests : job' = [job EXCEPT ![q] = s] /\ Same(job[q], s) /\ StepOK(s)
        BY <3>2 DEF GoesOn
      <4>2. job'[q] = s
        BY <4>1 DEF Inv, TypeOK
      <4>3. JobOK(job[q], Live, requests)
        BY AJob DEF Step
      <4>4. \A l \in Live : Clears(job[q], l) => Clears(s, l)
        BY <4>1 DEF Same, Clears
      <4>5. JobOK(s, Live', requests)
        BY <1>2, <4>1, <4>3, <4>4 DEF JobOK, Same
      <4>. QED  BY <1>1, <2>3, <4>2, <4>5
    <3>. QED  BY <3>1, <3>2 DEF Step
  <2>. QED  BY <2>2, <2>3
<1>. QED  BY <1>3, <1>4, <1>5 DEF Inv

LEMMA InvTick ==
  ASSUME Inv, Tick
  PROVE  Inv'
<1>1. UNCHANGED <<locks, disk, job, given, requests, changes>> /\ now < now' /\ now' \in 0..MaxTime
  BY BoundsAssumption DEF Tick, Inv, TypeOK
<1>2. Live' \subseteq Live
  <2>1. \A l \in locks : l.expires \in Nat
    BY DEF Inv, TypeOK, LocksOf
  <2>2. now \in Nat /\ now' \in Nat
    BY <1>1, BoundsAssumption DEF Inv, TypeOK
  <2>. QED  BY <1>1, <2>1, <2>2 DEF Live
<1>3. TypeOK' /\ TokensOK'
  BY <1>1 DEF Inv, TypeOK, TokensOK
<1>4. \A l \in Live' : From(l, Live)
  BY <1>2 DEF From
<1>5. ASSUME NEW j \in Jobs
      PROVE  job'[j] # Idle => JobOK(job'[j], Live', requests')
  <2>1. job'[j] = job[j] /\ requests' \in {requests, requests + 1}
    BY <1>1
  <2>. QED  BY <1>4, <2>1, OthersStay
<1>. QED  BY <1>3, <1>5 DEF Inv

(* A request that arrives; the job it gets, if any, is r.                   *)
LEMMA Arrival ==
  ASSUME Inv, requests < MaxRequests, requests' = requests + 1, UNCHANGED <<now, disk, given>>
  PROVE  /\ requests' \in 1..MaxRequests /\ requests \in Nat /\ requests' \in 0..MaxRequests
         /\ \A l \in locks : l.token \in 1..requests
         /\ now \in 0..MaxTime /\ disk \in [Paths -> Items] /\ given \subseteq 1..MaxRequests
         /\ job \in [Jobs -> {Idle} \cup Requests] /\ changes \in 0..MaxChanges
BY BoundsAssumption DEF Inv, TypeOK, TokensOK, LocksOf

LEMMA InvBegin ==
  ASSUME Inv, requests < MaxRequests, requests' = requests + 1, UNCHANGED <<now, disk, given>>,
         NEW q \in Jobs, job[q] = Idle, changes < MaxChanges,
         NEW who \in Accounts, NEW p \in Paths, NEW t \in Paths, NEW m \in Methods \ {"lock"},
         NEW over \in BOOLEAN, NEW mine, Begin(q, m, who, mine, p, t, over)
  PROVE  Inv'
<1>. DEFINE foreign == {l.token : l \in {k \in Live : k.who # who \/ k.token \notin mine}}
            step == IF m = "mkcol" \/ (m = "put" /\ over) THEN "parent" ELSE "stat"
            r == [n |-> requests', method |-> m, step |-> step, path |-> p, to |-> t, over |-> over,
                  source |-> "none", found |-> "none", foreign |-> foreign]
<1>1. /\ requests' \in 1..MaxRequests /\ requests \in Nat /\ requests' \in 0..MaxRequests
      /\ \A l \in locks : l.token \in 1..requests
      /\ now \in 0..MaxTime /\ disk \in [Paths -> Items] /\ given \subseteq 1..MaxRequests
      /\ job \in [Jobs -> {Idle} \cup Requests] /\ changes \in 0..MaxChanges
  BY Arrival
<1>2. /\ changes' = changes + 1 /\ Allowed(m, who, mine, p, t) /\ locks' = Live
      /\ job' = [job EXCEPT ![q] = r]
  BY DEF Begin
<1>3. Live \subseteq locks /\ Live \subseteq LocksOf /\ IsFiniteSet(Live) /\ Cardinality(Live) <= MaxLocks
  BY LiveIs
<1>4. Live' = Live
  BY <1>2 DEF Live
<1>5. foreign \subseteq 1..requests /\ foreign \subseteq 1..MaxRequests
  <2>1. \A n \in foreign : n \in 1..requests
    BY <1>1, <1>3
  <2>2. 1..requests \subseteq 1..MaxRequests
    BY <1>1, BoundsAssumption
  <2>. QED  BY <2>1, <2>2
<1>6. r \in Requests
  <2>1. step \in Steps /\ m \in Methods /\ "none" \in Kinds
    BY DEF Steps, Kinds
  <2>. QED  BY <1>1, <1>5, <2>1 DEF Requests
<1>7. job' \in [Jobs -> {Idle} \cup Requests] /\ job'[q] = r
  BY <1>1, <1>2, <1>6
<1>8. TypeOK'
  <2>1. changes' \in 0..MaxChanges
    BY <1>1, <1>2, BoundsAssumption
  <2>. QED  BY <1>1, <1>2, <1>3, <1>7, <2>1 DEF TypeOK
<1>9. TokensOK'
  <2>1. \A l \in locks' : l.token <= requests'
    BY <1>1, <1>2, <1>3
  <2>. QED  BY <1>2, <1>3, <2>1 DEF Inv, TokensOK
<1>10. JobOK(r, Live', requests')
  <2>1. r.n <= requests' /\ r.foreign \subseteq 1..requests'
    BY <1>1, <1>5
  <2>2. StepOK(r)
    BY DEF StepOK
  <2>3. ASSUME NEW l \in Live
        PROVE  (l.token \in foreign => Clears(r, l)) /\ l.token # r.n
    <3>1. l.token # r.n
      BY <1>1, <1>3
    <3>2. ASSUME l.token \in foreign
          PROVE  l.who # who \/ l.token \notin mine
      <4>1. PICK k \in Live : l.token = k.token /\ (k.who # who \/ k.token \notin mine)
        BY <3>2
      <4>2. k = l
        BY <1>3, <4>1 DEF Inv, TokensOK
      <4>. QED  BY <4>1, <4>2
    <3>3. l.token \in foreign => Clears(r, l)
      BY <1>2, <3>2 DEF Clears, Allowed, MayModify
    <3>. QED  BY <3>1, <3>3
  <2>. QED  BY <1>4, <2>1, <2>2, <2>3 DEF JobOK
<1>11. ASSUME NEW j \in Jobs
       PROVE  job'[j] # Idle => JobOK(job'[j], Live', requests')
  <2>1. CASE j = q
    BY <1>7, <1>10, <2>1
  <2>2. CASE j # q
    <3>1. job'[j] = job[j] /\ requests' \in {requests, requests + 1}
      BY <1>1, <1>2, <2>2
    <3>2. \A l \in Live' : From(l, Live)
      BY <1>4 DEF From
    <3>. QED  BY <3>1, <3>2, OthersStay
  <2>. QED  BY <2>1, <2>2
<1>. QED  BY <1>8, <1>9, <1>11 DEF Inv

LEMMA InvLock ==
  ASSUME Inv, requests < MaxRequests, requests' = requests + 1, UNCHANGED <<now, disk, given>>,
         NEW q \in Jobs, job[q] = Idle, NEW who \in Accounts, NEW p \in Paths,
         NEW deep \in BOOLEAN, NEW exclusive \in BOOLEAN, NEW timeout \in Timeouts,
         Lock(q, who, p, deep, exclusive, timeout)
  PROVE  Inv'
<1>. DEFINE foreign == {l.token : l \in {k \in Live : k.exclusive}}
            lock == [token |-> requests', who |-> who, path |-> p, deep |-> deep,
                     exclusive |-> exclusive, expires |-> now + timeout]
            r == [n |-> requests', method |-> "lock", step |-> "stat", path |-> p, to |-> p,
                  over |-> FALSE, source |-> "none", found |-> "none", foreign |-> foreign]
<1>1. /\ requests' \in 1..MaxRequests /\ requests \in Nat /\ requests' \in 0..MaxRequests
      /\ \A l \in locks : l.token \in 1..requests
      /\ now \in 0..MaxTime /\ disk \in [Paths -> Items] /\ given \subseteq 1..MaxRequests
      /\ job \in [Jobs -> {Idle} \cup Requests] /\ changes \in 0..MaxChanges
  BY Arrival
<1>2. /\ changes' = changes /\ Room /\ locks' = Live \cup {lock} /\ job' = [job EXCEPT ![q] = r]
      /\ \A l \in Live : ~Conflicts(l, p, deep, exclusive)
  BY DEF Lock
<1>3. /\ Live \subseteq locks /\ Live \subseteq LocksOf /\ IsFiniteSet(Live)
      /\ Cardinality(Live) \in Nat /\ Cardinality(Live) < MaxLocks
  BY <1>2, LiveIs DEF Room
<1>4. lock \in LocksOf
  <2>1. now \in Nat /\ timeout \in Nat /\ now + timeout \in Nat
    BY <1>1, BoundsAssumption
  <2>. QED  BY <1>1, <2>1 DEF LocksOf
<1>5. foreign \subseteq 1..requests /\ foreign \subseteq 1..MaxRequests
  <2>1. \A n \in foreign : n \in 1..requests
    BY <1>1, <1>3
  <2>2. 1..requests \subseteq 1..MaxRequests
    BY <1>1, BoundsAssumption
  <2>. QED  BY <2>1, <2>2
<1>6. r \in Requests
  BY <1>1, <1>5 DEF Requests, Methods, Steps, Kinds
<1>7. job' \in [Jobs -> {Idle} \cup Requests] /\ job'[q] = r
  BY <1>1, <1>2, <1>6
<1>8. TypeOK'
  <2>1. IsFiniteSet(Live \cup {lock}) /\ Cardinality(Live \cup {lock}) \in Nat
    BY <1>3, FS_AddElement, FS_CardinalityType
  <2>2. Cardinality(Live \cup {lock}) \in {Cardinality(Live), Cardinality(Live) + 1}
    BY <1>3, FS_AddElement
  <2>3. IsFiniteSet(locks') /\ Cardinality(locks') <= MaxLocks
    BY <1>2, <1>3, <2>1, <2>2, BoundsAssumption
  <2>. QED  BY <1>1, <1>2, <1>3, <1>4, <1>7, <2>3 DEF TypeOK
<1>9. TokensOK'
  <2>1. lock.token = requests' /\ \A l \in Live : l.token # lock.token /\ l.token <= requests'
    BY <1>1, <1>3
  <2>2. \A k, l \in Live : k.token = l.token => k = l
    BY <1>3 DEF Inv, TokensOK
  <2>. QED  BY <1>1, <1>2, <2>1, <2>2 DEF TokensOK
<1>10. Live' \subseteq Live \cup {lock}
  BY <1>2 DEF Live
<1>11. JobOK(r, Live', requests')
  <2>1. r.n <= requests' /\ r.foreign \subseteq 1..requests'
    BY <1>1, <1>5
  <2>2. StepOK(r)
    BY DEF StepOK
  <2>3. ASSUME NEW l \in Live, l.token \in foreign
        PROVE  Clears(r, l)
    <3>1. PICK k \in Live : l.token = k.token /\ k.exclusive
      BY <2>3
    <3>2. k = l
      BY <1>3, <3>1 DEF Inv, TokensOK
    <3>. QED  BY <1>2, <3>1, <3>2 DEF Conflicts, Clears
  <2>4. lock.token \notin foreign
    BY <1>1, <1>5
  <2>. QED  BY <1>10, <2>1, <2>2, <2>3, <2>4 DEF JobOK
<1>12. ASSUME NEW j \in Jobs
       PROVE  job'[j] # Idle => JobOK(job'[j], Live', requests')
  <2>1. CASE j = q
    BY <1>7, <1>11, <2>1
  <2>2. CASE j # q
    <3>1. job'[j] = job[j] /\ requests' \in {requests, requests + 1}
      BY <1>1, <1>2, <2>2
    <3>2. \A l \in Live' : l.token \notin 1..requests \/ From(l, Live)
      BY <1>1, <1>10 DEF From
    <3>. QED  BY <3>1, <3>2, OthersStay
  <2>. QED  BY <2>1, <2>2
<1>. QED  BY <1>8, <1>9, <1>12 DEF Inv

LEMMA InvRefresh ==
  ASSUME Inv, requests < MaxRequests, requests' = requests + 1, UNCHANGED <<now, disk, given>>,
         NEW l \in Live, NEW timeout \in Timeouts, Refresh(l, timeout)
  PROVE  Inv'
<1>. DEFINE lock == [l EXCEPT !.expires = now + timeout]
<1>1. /\ requests' \in 1..MaxRequests /\ requests \in Nat /\ requests' \in 0..MaxRequests
      /\ \A k \in locks : k.token \in 1..requests
      /\ now \in 0..MaxTime /\ disk \in [Paths -> Items] /\ given \subseteq 1..MaxRequests
      /\ job \in [Jobs -> {Idle} \cup Requests] /\ changes \in 0..MaxChanges
  BY Arrival
<1>2. locks' = (Live \ {l}) \cup {lock} /\ UNCHANGED <<job, changes>>
  BY DEF Refresh
<1>3. /\ Live \subseteq locks /\ Live \subseteq LocksOf /\ IsFiniteSet(Live)
      /\ Cardinality(Live) \in Nat /\ Cardinality(Live) <= MaxLocks
  BY LiveIs
<1>4. lock \in LocksOf /\ lock.token = l.token /\ lock.path = l.path /\ lock.deep = l.deep
  <2>1. now \in Nat /\ timeout \in Nat /\ now + timeout \in Nat
    BY <1>1, BoundsAssumption
  <2>2. l \in LocksOf
    BY <1>3
  <2>. QED  BY <2>1, <2>2 DEF LocksOf
<1>5. TypeOK'
  <2>. DEFINE rest == Live \ {l}
  <2>1. IsFiniteSet(rest) /\ Cardinality(rest) = Cardinality(Live) - 1
    BY <1>3, FS_RemoveElement
  <2>2. /\ IsFiniteSet(rest \cup {lock})
        /\ Cardinality(rest \cup {lock}) \in {Cardinality(rest), Cardinality(rest) + 1}
    BY <2>1, FS_AddElement
  <2>3. IsFiniteSet(locks') /\ Cardinality(locks') <= MaxLocks
    BY <1>2, <1>3, <2>1, <2>2, BoundsAssumption
  <2>4. locks' \subseteq LocksOf
    BY <1>2, <1>3, <1>4
  <2>. QED  BY <1>1, <1>2, <2>3, <2>4 DEF TypeOK
<1>6. TokensOK'
  <2>1. \A j, k \in Live : j.token = k.token => j = k
    BY <1>3 DEF Inv, TokensOK
  <2>2. \A k \in locks' : k.token <= requests'
    <3>1. \A k \in Live : k.token \in 1..requests /\ k.token <= requests'
      BY <1>1, <1>3
    <3>2. lock.token <= requests'
      BY <1>4, <3>1
    <3>. QED  BY <1>2, <3>1, <3>2
  <2>3. \A k \in Live \ {l} : k.token # lock.token
    BY <1>4, <2>1
  <2>. QED  BY <1>2, <2>1, <2>2, <2>3 DEF TokensOK
<1>7. \A k \in Live' : From(k, Live)
  <2>1. Live' \subseteq locks'
    BY DEF Live
  <2>. QED  BY <1>2, <1>4, <2>1 DEF From
<1>8. ASSUME NEW j \in Jobs
      PROVE  job'[j] # Idle => JobOK(job'[j], Live', requests')
  <2>1. job'[j] = job[j] /\ requests' \in {requests, requests + 1}
    BY <1>2
  <2>. QED  BY <1>7, <2>1, OthersStay
<1>. QED  BY <1>5, <1>6, <1>8 DEF Inv

LEMMA InvUnlock ==
  ASSUME Inv, requests < MaxRequests, requests' = requests + 1, UNCHANGED <<now, disk, given>>,
         NEW l \in Live, Unlock(l)
  PROVE  Inv'
<1>1. /\ requests' \in 1..MaxRequests /\ requests \in Nat /\ requests' \in 0..MaxRequests
      /\ \A k \in locks : k.token \in 1..requests
      /\ now \in 0..MaxTime /\ disk \in [Paths -> Items] /\ given \subseteq 1..MaxRequests
      /\ job \in [Jobs -> {Idle} \cup Requests] /\ changes \in 0..MaxChanges
  BY Arrival
<1>2. locks' \subseteq Live /\ UNCHANGED <<job, changes>>
  BY DEF Unlock
<1>3. Live \subseteq locks /\ Live \subseteq LocksOf
  BY LiveIs
<1>4. TypeOK'
  <2>1. IsFiniteSet(locks') /\ Cardinality(locks') <= MaxLocks
    BY <1>2, <1>3, NoMore
  <2>. QED  BY <1>1, <1>2, <1>3, <2>1 DEF TypeOK
<1>5. TokensOK'
  <2>1. \A k \in locks' : k \in locks /\ k.token <= requests'
    BY <1>1, <1>2, <1>3
  <2>. QED  BY <2>1 DEF Inv, TokensOK
<1>6. \A k \in Live' : From(k, Live)
  <2>1. Live' \subseteq locks'
    BY DEF Live
  <2>. QED  BY <1>2, <2>1 DEF From
<1>7. ASSUME NEW j \in Jobs
      PROVE  job'[j] # Idle => JobOK(job'[j], Live', requests')
  <2>1. job'[j] = job[j] /\ requests' \in {requests, requests + 1}
    BY <1>2
  <2>. QED  BY <1>6, <2>1, OthersStay
<1>. QED  BY <1>4, <1>5, <1>7 DEF Inv

(* The steps there are.                                                     *)
Begins ==
  \E q \in Jobs, who \in Accounts, p, t \in Paths, m \in Methods \ {"lock"}, over \in BOOLEAN :
    \E mine \in SUBSET {l.token : l \in {k \in Live : k.who = who}} :
      job[q] = Idle /\ changes < MaxChanges /\ Begin(q, m, who, mine, p, t, over)
Locks ==
  \E q \in Jobs, who \in Accounts, p \in Paths, deep, exclusive \in BOOLEAN, timeout \in Timeouts :
    job[q] = Idle /\ Lock(q, who, p, deep, exclusive, timeout)

LEMMA ArrivesIs ==
  ASSUME Arrives
  PROVE  /\ requests < MaxRequests /\ requests' = requests + 1 /\ UNCHANGED <<now, disk, given>>
         /\ \/ Begins \/ Locks
            \/ \E l \in Live : Unlock(l)
            \/ \E l \in Live, timeout \in Timeouts : Refresh(l, timeout)
BY DEF Arrives, Begins, Locks

LEMMA InvNext ==
  ASSUME Inv, [Next]_vars
  PROVE  Inv'
<1>1. CASE Arrives
  <2>1. requests < MaxRequests /\ requests' = requests + 1 /\ UNCHANGED <<now, disk, given>>
    BY <1>1, ArrivesIs
  <2>2. CASE Begins
    <3>1. PICK q \in Jobs, who \in Accounts, p \in Paths, t \in Paths, m \in Methods \ {"lock"}, over \in BOOLEAN :
            \E mine \in SUBSET {l.token : l \in {k \in Live : k.who = who}} :
              job[q] = Idle /\ changes < MaxChanges /\ Begin(q, m, who, mine, p, t, over)
      BY <2>2 DEF Begins
    <3>2. PICK mine \in SUBSET {l.token : l \in {k \in Live : k.who = who}} :
            job[q] = Idle /\ changes < MaxChanges /\ Begin(q, m, who, mine, p, t, over)
      BY <3>1
    <3>. QED  BY <2>1, <3>2, InvBegin
  <2>3. CASE Locks
    <3>1. PICK q \in Jobs, who \in Accounts, p \in Paths, deep \in BOOLEAN, exclusive \in BOOLEAN,
               timeout \in Timeouts : job[q] = Idle /\ Lock(q, who, p, deep, exclusive, timeout)
      BY <2>3 DEF Locks
    <3>. QED  BY <2>1, <3>1, InvLock
  <2>. QED  BY <1>1, <2>1, <2>2, <2>3, ArrivesIs, InvUnlock, InvRefresh
<1>2. CASE Tick
  BY <1>2, InvTick
<1>3. ASSUME NEW q \in Jobs, Runs(q)
      PROVE  Inv'
  BY <1>3, RunsStep, InvStep
<1>4. CASE UNCHANGED vars
  BY <1>4 DEF vars, Inv, TypeOK, TokensOK, Live
<1>. QED  BY <1>1, <1>2, <1>3, <1>4 DEF Next

LEMMA Invariance == Spec => []Inv
<1>. QED  BY InvInit, InvNext, PTL DEF Spec

-----------------------------------------------------------------------------
(* The properties.                                                          *)

(* The types of the lock table and of the handlers, with the bound of the   *)
(* table that LOCK looks at, hold always.                                   *)
THEOREM Locking == Spec => []TypeOK
<1>1. Inv => TypeOK
  BY DEF Inv
<1>. QED  BY <1>1, Invariance, PTL

LEMMA Shrinks ==
  ASSUME Inv, [Next]_vars, ~Arrives
  PROVE  Live' \subseteq Live
<1>1. CASE Tick
  <2>1. \A l \in locks : l.expires \in Nat
    BY DEF Inv, TypeOK, LocksOf
  <2>2. now \in Nat /\ now' \in Nat /\ now <= now' /\ locks' = locks
    BY <1>1, BoundsAssumption DEF Inv, TypeOK, Tick
  <2>. QED  BY <2>1, <2>2 DEF Live
<1>2. ASSUME NEW q \in Jobs, Runs(q)
      PROVE  Live' \subseteq Live
  BY <1>2, RunsStep DEF Step, Live
<1>3. CASE UNCHANGED vars
  BY <1>3 DEF vars, Live
<1>. QED  BY <1>1, <1>2, <1>3 DEF Next

LEMMA ApartStays ==
  ASSUME Inv, [Next]_vars, NoConflict
  PROVE  NoConflict'
<1>1. CASE Live' \subseteq Live
  BY <1>1 DEF NoConflict, Covers
<1>2. CASE Arrives
  <2>1. UNCHANGED now
    BY <1>2, ArrivesIs
  <2>2. CASE Begins
    <3>1. locks' = Live
      BY <2>2 DEF Begins, Begin
    <3>. QED  BY <1>1, <3>1 DEF Live
  <2>3. CASE Locks
    <3>1. PICK q \in Jobs, who \in Accounts, p \in Paths, deep \in BOOLEAN, exclusive \in BOOLEAN,
               timeout \in Timeouts : Lock(q, who, p, deep, exclusive, timeout)
      BY <2>3 DEF Locks
    <3>. DEFINE lock == [token |-> requests', who |-> who, path |-> p, deep |-> deep,
                         exclusive |-> exclusive, expires |-> now + timeout]
    <3>2. Live' \subseteq Live \cup {lock} /\ \A l \in Live : ~Conflicts(l, p, deep, exclusive)
      BY <3>1 DEF Lock, Live
    <3>3. ASSUME NEW l \in Live, Covers(lock, l.path) \/ Covers(l, p)
          PROVE  ~l.exclusive /\ ~exclusive
      <4>1. Covers(lock, l.path) => l.path = p \/ (deep /\ Below(l.path, p))
        BY DEF Covers
      <4>2. Covers(l, p) \/ (deep /\ Below(l.path, p))
        BY <3>3, <4>1 DEF Covers
      <4>. QED  BY <3>2, <4>2 DEF Conflicts
    <3>4. lock.path = p /\ lock.exclusive = exclusive
      OBVIOUS
    <3>5. ASSUME NEW k \in Live', NEW l \in Live', k # l, Covers(k, l.path) \/ Covers(l, k.path)
          PROVE  ~k.exclusive /\ ~l.exclusive
      <4>1. CASE k \in Live /\ l \in Live
        BY <3>5, <4>1 DEF NoConflict
      <4>2. CASE k \in Live /\ l = lock
        BY <3>3, <3>4, <3>5, <4>2
      <4>3. CASE k = lock /\ l \in Live
        BY <3>3, <3>4, <3>5, <4>3
      <4>. QED  BY <3>2, <3>5, <4>1, <4>2, <4>3
    <3>. QED  BY <3>5 DEF NoConflict, Covers
  <2>4. ASSUME NEW l \in Live, Unlock(l)
        PROVE  NoConflict'
    BY <1>1, <2>4 DEF Unlock, Live
  <2>5. ASSUME NEW l \in Live, NEW timeout \in Timeouts, Refresh(l, timeout)
        PROVE  NoConflict'
    <3>. DEFINE lock == [l EXCEPT !.expires = now + timeout]
    <3>1. Live' \subseteq (Live \ {l}) \cup {lock}
      BY <2>5 DEF Refresh, Live
    <3>2. lock.path = l.path /\ lock.deep = l.deep /\ lock.exclusive = l.exclusive
      BY LiveIs DEF LocksOf
    <3>3. ASSUME NEW j \in Live', NEW k \in Live', j # k, Covers(j, k.path) \/ Covers(k, j.path)
          PROVE  ~j.exclusive /\ ~k.exclusive
      <4>1. CASE j \in Live /\ k \in Live
        BY <3>3, <4>1 DEF NoConflict
      <4>2. CASE j \in Live \ {l} /\ k = lock
        <5>1. Covers(j, l.path) \/ Covers(l, j.path)
          BY <3>2, <3>3, <4>2 DEF Covers
        <5>. QED  BY <3>2, <4>2, <5>1 DEF NoConflict
      <4>3. CASE j = lock /\ k \in Live \ {l}
        <5>1. Covers(l, k.path) \/ Covers(k, l.path)
          BY <3>2, <3>3, <4>3 DEF Covers
        <5>. QED  BY <3>2, <4>3, <5>1 DEF NoConflict
      <4>. QED  BY <3>1, <3>3, <4>1, <4>2, <4>3
    <3>. QED  BY <3>3 DEF NoConflict, Covers
  <2>. QED  BY <1>2, <2>2, <2>3, <2>4, <2>5, ArrivesIs
<1>. QED  BY <1>1, <1>2, Shrinks

(* Two locks never cover one resource unless both are shared, whichever     *)
(* locks were taken, refreshed and ran out.                                 *)
THEOREM LocksApart == Spec => []NoConflict
<1>1. Init => NoConflict
  BY DEF Init, NoConflict, Live
<1>2. Inv /\ [Next]_vars /\ NoConflict => NoConflict'
  BY ApartStays
<1>. QED  BY <1>1, <1>2, Invariance, PTL DEF Spec

LEMMA KnownStays ==
  ASSUME Inv, [Next]_vars, NoOrphanLock
  PROVE  NoOrphanLock'
<1>. DEFINE Known(n) == n \in given \/ \E q \in Jobs : job[q] # Idle /\ job[q].n = n
<1>0. job \in [Jobs -> {Idle} \cup Requests] /\ \A l \in Live : Known(l.token)
  BY DEF Inv, TypeOK, NoOrphanLock
<1>1. CASE Arrives
  <2>1. given' = given /\ now' = now /\ requests' = requests + 1
    BY <1>1, ArrivesIs
  <2>2. ASSUME NEW q \in Jobs, job[q] = Idle, NEW r, job' = [job EXCEPT ![q] = r],
               NEW n, Known(n)
        PROVE  Known(n)'
    <3>1. ASSUME NEW j \in Jobs, job[j] # Idle, job[j].n = n
          PROVE  job'[j] # Idle /\ job'[j].n = n
      BY <1>0, <2>2, <3>1
    <3>. QED  BY <2>1, <2>2, <3>1
  <2>3. CASE Begins
    <3>1. PICK q \in Jobs, who \in Accounts, p \in Paths, t \in Paths, m \in Methods \ {"lock"}, over \in BOOLEAN :
            \E mine \in SUBSET {l.token : l \in {k \in Live : k.who = who}} :
              job[q] = Idle /\ changes < MaxChanges /\ Begin(q, m, who, mine, p, t, over)
      BY <2>3 DEF Begins
    <3>2. job[q] = Idle /\ \E r : job' = [job EXCEPT ![q] = r]
      BY <3>1 DEF Begin
    <3>3. Live' \subseteq Live
      BY <2>1, <3>1 DEF Begin, Live
    <3>. QED  BY <1>0, <2>2, <3>2, <3>3 DEF NoOrphanLock
  <2>4. CASE Locks
    <3>1. PICK q \in Jobs, who \in Accounts, p \in Paths, deep \in BOOLEAN, exclusive \in BOOLEAN,
               timeout \in Timeouts : job[q] = Idle /\ Lock(q, who, p, deep, exclusive, timeout)
      BY <2>4 DEF Locks
    <3>. DEFINE r == [n |-> requests', method |-> "lock", step |-> "stat", path |-> p, to |-> p,
                      over |-> FALSE, source |-> "none", found |-> "none",
                      foreign |-> {l.token : l \in {k \in Live : k.exclusive}}]
    <3>2. job[q] = Idle /\ job' = [job EXCEPT ![q] = r]
      BY <3>1 DEF Lock
    <3>3. \A l \in Live' : l \in Live \/ l.token = requests'
      BY <3>1 DEF Lock, Live
    <3>4. r # Idle /\ r.n = requests' /\ job'[q] = r
      BY <1>0, <3>2 DEF Idle
    <3>5. \A n : Known(n) => Known(n)'
      BY <2>2, <3>2
    <3>. QED  BY <1>0, <3>3, <3>4, <3>5 DEF NoOrphanLock
  <2>5. ASSUME NEW l \in Live, Unlock(l)
        PROVE  NoOrphanLock'
    BY <2>1, <2>5 DEF Unlock, Live, NoOrphanLock
  <2>6. ASSUME NEW l \in Live, NEW timeout \in Timeouts, Refresh(l, timeout)
        PROVE  NoOrphanLock'
    <3>1. \A k \in Live' : \E j \in Live : k.token = j.token
      <4>1. [l EXCEPT !.expires = now + timeout].token = l.token
        BY LiveIs DEF LocksOf
      <4>. QED  BY <2>6, <4>1 DEF Refresh, Live
    <3>. QED  BY <2>1, <2>6, <3>1 DEF Refresh, NoOrphanLock
  <2>. QED  BY <1>1, <2>3, <2>4, <2>5, <2>6, ArrivesIs
<1>2. ASSUME NEW q \in Jobs, Runs(q)
      PROVE  NoOrphanLock'
  <2>1. Step(q) /\ Live' \subseteq Live /\ locks' \subseteq locks /\ given \subseteq given'
    BY <1>2, RunsStep DEF Step, Live
  <2>2. ASSUME NEW l \in Live', NEW j \in Jobs, job[j] # Idle, job[j].n = l.token
        PROVE  l.token \in given' \/ (job'[j] # Idle /\ job'[j].n = l.token)
    <3>1. CASE j # q
      BY <1>0, <2>1, <2>2, <3>1 DEF Step, GoesOn, Ends
    <3>2. CASE j = q /\ GoesOn(q)
      <4>1. PICK s \in Requests : job' = [job EXCEPT ![q] = s] /\ Same(job[q], s)
        BY <3>2 DEF GoesOn
      <4>2. job'[q] = s /\ s # Idle
        BY <1>0, <4>1 DEF Requests, Idle
      <4>. QED  BY <2>2, <3>2, <4>1, <4>2 DEF Same
    <3>3. CASE j = q /\ Ends(q)
      <4>1. l \in Live /\ l \in locks'
        BY <2>1 DEF Live
      <4>2. job[q].method = "lock"
        BY <2>2, <3>3, <4>1, AJob DEF JobOK
      <4>. QED  BY <2>1, <2>2, <3>3, <4>1, <4>2 DEF Step
    <3>. QED  BY <2>1, <3>1, <3>2, <3>3 DEF Step
  <2>. QED  BY <1>0, <2>1, <2>2 DEF NoOrphanLock
<1>3. CASE Tick
  BY <1>3, Shrinks DEF Tick, NoOrphanLock, Next, Arrives
<1>4. CASE UNCHANGED vars
  BY <1>4 DEF vars, NoOrphanLock, Live
<1>. QED  BY <1>1, <1>2, <1>3, <1>4 DEF Next

(* No lock outlives a LOCK that failed: its token was told to whoever took  *)
(* it, or is about to be.                                                   *)
THEOREM LocksKnown == Spec => []NoOrphanLock
<1>1. Init => NoOrphanLock
  BY DEF Init, NoOrphanLock, Live
<1>2. Inv /\ [Next]_vars /\ NoOrphanLock => NoOrphanLock'
  BY KnownStays
<1>. QED  BY <1>1, <1>2, Invariance, PTL DEF Spec

LEMMA StepRespects ==
  ASSUME Inv, [Next]_vars, NEW q \in Jobs, job[q] # Idle, NEW l \in Live, ~ReplacesOver(job[q], l)
  PROVE  Respects(q, l)
<1>. SUFFICES ASSUME job'[q] # job[q], l.token \in job[q].foreign, NEW x \in Paths, Covers(l, x),
                     disk'[x] # disk[x]
              PROVE  FALSE
  BY DEF Respects
<1>. DEFINE r == job[q]
<1>1. ~Arrives /\ ~Tick /\ ~UNCHANGED vars
  BY ArrivesIs DEF Tick, vars
<1>2. PICK j \in Jobs : Runs(j)
  BY <1>1 DEF Next
<1>3. Step(j) /\ job \in [Jobs -> {Idle} \cup Requests]
  BY <1>2, RunsStep DEF Inv, TypeOK
<1>4. j = q
  BY <1>3 DEF Step, GoesOn, Ends
<1>5. May(r, x)
  BY <1>3, <1>4 DEF Step
<1>6. r \in Requests /\ Clears(r, l)
  BY AJob DEF JobOK
<1>7. r.path \in Paths /\ r.to \in Paths /\ l \in LocksOf
  BY <1>6, LiveIs DEF Requests
<1>8. CASE r.method \in {"put", "mkcol", "lock"} /\ x = r.path
  BY <1>6, <1>8 DEF Clears
<1>9. CASE r.method \in {"delete", "move"} /\ x \in Tree(r.path)
  BY <1>6, <1>7, <1>9, ClearOfTree DEF Clears
<1>10. CASE r.method \in {"copy", "move"} /\ x \in Tree(r.to)
  BY <1>6, <1>7, <1>10, ClearOfTree DEF Clears, ReplacesOver
<1>. QED  BY <1>5, <1>8, <1>9, <1>10 DEF May

(* A request writes nothing under a lock that was there when it was         *)
(* checked and that is not its own, but for what is in a folder that a      *)
(* COPY or MOVE replaces.                                                   *)
THEOREM LocksHold == Spec => LocksRespected
<1>1. Inv /\ [Next]_vars =>
        [\A q \in Jobs : job[q] # Idle => \A l \in Live : ReplacesOver(job[q], l) \/ Respects(q, l)]_vars
  BY StepRespects
<1>. QED  BY <1>1, Invariance, PTL DEF Spec, LocksRespected
=============================================================================
