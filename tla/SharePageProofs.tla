-------------------------- MODULE SharePageProofs --------------------------
(***************************************************************************)
(* Theorems about SharePage, for any visitors, links and bounds.           *)
(*                                                                         *)
(* TypeOK is not inductive: that a check which ends finds the count above  *)
(* zero is what ChecksReturn says, and that one rests on requests not      *)
(* falling together: reqs is a set, and two equal checks would be one.  So *)
(* Inv says which requests cannot have a double.                           *)
(***************************************************************************)
EXTENDS SharePage, TLAPS, FiniteSetTheorems, WellFoundedInduction

(* Which requests reach which stage, and what they carry there.             *)
ReqOK(r) ==
  /\ r.kind = "put" => r.item \in Items
  /\ r.kind = "get" => ~r.heard
  /\ r.stage = "verify" => r.kind = "unlock"
  /\ r.stage \in {"planned", "claiming"} => r.kind \in {"get", "put"}
  /\ r.stage \in {"used", "named", "writing"} => r.kind = "put"
  /\ r.stage \in {"named", "writing"} => r.name \in 1..MaxFiles
  /\ r.stage = "answered" => r.heard

(* A page that loads or checks a password waits for one request.            *)
AsksForLink(r) == r.heard /\ r.kind \in {"info", "unlock"}
OneForm ==
  \A r \in reqs : AsksForLink(r) =>
    /\ r.kind = "info" => view[r.who] = "loading"
    /\ r.kind = "unlock" => view[r.who] = "checking"
    /\ \A q \in reqs : AsksForLink(q) /\ q.who = r.who => q = r

Orphan(r) == ~r.heard /\ r.kind # "get"
OneOrphan == \A q, r \in reqs : Orphan(q) /\ Orphan(r) => q = r

Verifying == {r \in reqs : r.stage = "verify"}
ChecksOK == IsFiniteSet(Verifying) /\ checks = Cardinality(Verifying)

Inv == TypeOK /\ (\A r \in reqs : ReqOK(r)) /\ OneForm /\ OneOrphan /\ ChecksOK

-----------------------------------------------------------------------------
(* Min of the library is a choice: that there is a least element is due to  *)
(* the order of the naturals.                                               *)
LEMMA MinIsLeast ==
  ASSUME NEW S \in SUBSET Nat, S # {}
  PROVE  Min(S) \in S /\ \A y \in S : Min(S) <= y
<1>. DEFINE T == {1..n : n \in S}
<1>1. T \subseteq FiniteSubsetsOf(Nat) /\ T # {}
  <2>1. ASSUME NEW n \in S
        PROVE  1..n \in FiniteSubsetsOf(Nat)
    <3>1. IsFiniteSet(1..n)
      BY FS_Interval
    <3>2. 1..n \in SUBSET Nat
      OBVIOUS
    <3>. QED  BY <3>1, <3>2 DEF FiniteSubsetsOf
  <2>. QED  BY <2>1
<1>2. PICK X \in T : \A Y \in T : ~ (<<Y, X>> \in StrictSubsetOrdering(Nat))
  BY <1>1, FS_StrictSubsetOrderingWellFounded, WFMin, Zenon
<1>3. PICK x \in S : X = 1..x
  OBVIOUS
<1>4. ASSUME NEW y \in S, y < x
      PROVE  FALSE
  <2>1. 1..y \in T /\ 1..y \subseteq 1..x /\ 1..x \subseteq Nat
    BY <1>4
  <2>2. x \in 1..x /\ x \notin 1..y
    BY <1>4
  <2>3. <<1..y, X>> \in StrictSubsetOrdering(Nat)
    BY <1>3, <2>1, <2>2 DEF StrictSubsetOrdering
  <2>. QED  BY <1>2, <2>1, <2>3
<1>5. \A y \in S : x <= y
  BY <1>4
<1>. QED  BY <1>5 DEF Min

LEMMA FreeName ==
  ASSUME FreeNames # {}
  PROVE  Min(FreeNames) \in 1..MaxFiles /\ dir[Min(FreeNames)] = Free
<1>1. FreeNames \in SUBSET Nat
  BY CountsAssumption DEF FreeNames
<1>. QED  BY <1>1, MinIsLeast DEF FreeNames

(* A request that moves on keeps its visitor, its question and its listener. *)
MovesTo(r, s) ==
  s \in Requests /\ ReqOK(s) /\ s.who = r.who /\ s.kind = r.kind /\ s.heard = r.heard

Moves(r) == reqs' = reqs \ {r} \/ \E s \in Requests : Becomes(r, s) /\ MovesTo(r, s)

LEMMA MovesKeeps ==
  ASSUME Inv, NEW r \in reqs, Moves(r), UNCHANGED view
  PROVE  /\ reqs' \subseteq Requests /\ (\A q \in reqs' : ReqOK(q)')
         /\ OneForm' /\ OneOrphan'
<1>1. reqs' \subseteq Requests /\ \A q \in reqs' : ReqOK(q)'
  BY DEF Inv, TypeOK, Moves, Becomes, MovesTo, ReqOK
<1>2. OneForm'
  BY DEF Inv, TypeOK, Moves, Becomes, MovesTo, OneForm, AsksForLink
<1>3. OneOrphan'
  BY DEF Inv, TypeOK, Moves, Becomes, MovesTo, OneOrphan, Orphan
<1>. QED  BY <1>1, <1>2, <1>3

LEMMA AnswerMoves ==
  ASSUME Inv, NEW r \in reqs, NEW a \in {"ok", "locked", "error"}, Answer(r, a)
  PROVE  /\ Moves(r)
         /\ \/ reqs' = reqs \ {r}
            \/ \E s \in Requests : s.stage = "answered" /\ Becomes(r, s)
<1>. DEFINE s == [r EXCEPT !.stage = "answered", !.answer = a]
<1>1. r \in Requests /\ ReqOK(r)
  BY DEF Inv, TypeOK
<1>2. s \in Requests /\ s.stage = "answered"
  BY <1>1 DEF Requests
<1>3. CASE r.heard
  <2>1. Becomes(r, s)
    BY <1>3 DEF Answer
  <2>2. MovesTo(r, s)
    BY <1>1, <1>2, <1>3 DEF MovesTo, ReqOK, Requests
  <2>. QED  BY <1>2, <2>1, <2>2 DEF Moves
<1>4. CASE ~r.heard
  BY <1>4 DEF Answer, Moves
<1>. QED  BY <1>3, <1>4

LEMMA VerifyingStays ==
  ASSUME Inv, NEW r \in reqs, r.stage # "verify",
         reqs' = reqs \ {r} \/ \E s \in Requests : s.stage # "verify" /\ Becomes(r, s)
  PROVE  Verifying' = Verifying
BY DEF Verifying, Becomes

-----------------------------------------------------------------------------
(* Steps of handlers.                                                       *)

ServerTypes ==
  /\ link \in Links /\ row \in {"live", "expired", "deleted"} /\ used \in 0..MaxUses
  /\ proofs \subseteq Visitors /\ checks \in 0..MaxChecks
  /\ dir \in [1..MaxFiles -> Files]

PageTypes ==
  /\ view \in [Visitors -> {"loading", "error", "password", "checking"} \cup Kinds]
  /\ {unlock, loading, failed, sending} \subseteq [Visitors -> BOOLEAN]
  /\ path \in [Visitors -> Folders] /\ rows \in [Visitors -> SUBSET Folders]
  /\ items \in [Visitors -> [Items -> {"unused", "waiting", "sending", "sent", "failed"}]]

HistoryTypes == served \in Nat /\ typed \subseteq Visitors

LEMMA TypeParts == TypeOK <=> ServerTypes /\ PageTypes /\ HistoryTypes /\ reqs \subseteq Requests
BY DEF TypeOK, ServerTypes, PageTypes, HistoryTypes

LEMMA TypePartsNext ==
  TypeOK' <=> ServerTypes' /\ PageTypes' /\ HistoryTypes' /\ reqs' \subseteq Requests
BY DEF TypeOK, ServerTypes, PageTypes, HistoryTypes

LEMMA ServerStep ==
  ASSUME Inv, NEW r \in reqs, Moves(r), UNCHANGED page,
         ServerTypes', HistoryTypes', ChecksOK'
  PROVE  Inv'
<1>1. PageTypes' /\ view' = view
  BY TypeParts DEF Inv, page, PageTypes
<1>. QED  BY <1>1, MovesKeeps, TypePartsNext DEF Inv

(* A step that neither begins nor ends a check, nor touches the folder.     *)
LEMMA QuietStep ==
  ASSUME Inv, NEW r \in reqs, r.stage # "verify", Moves(r), UNCHANGED <<page, checks>>,
         reqs' = reqs \ {r} \/ \E s \in Requests : s.stage # "verify" /\ Becomes(r, s),
         ServerTypes', HistoryTypes'
  PROVE  Inv'
<1>1. ChecksOK'
  BY VerifyingStays DEF Inv, ChecksOK
<1>. QED  BY <1>1, ServerStep

LEMMA AnswerStep ==
  ASSUME Inv, NEW r \in reqs, r.stage # "verify",
         NEW a \in {"ok", "locked", "error"}, Answer(r, a), UNCHANGED <<page, checks>>,
         ServerTypes', HistoryTypes'
  PROVE  Inv'
<1>1. Moves(r) /\ (reqs' = reqs \ {r} \/ \E s \in Requests : s.stage = "answered" /\ Becomes(r, s))
  BY AnswerMoves
<1>2. reqs' = reqs \ {r} \/ \E s \in Requests : s.stage # "verify" /\ Becomes(r, s)
  BY <1>1
<1>. QED  BY <1>1, <1>2, QuietStep

(* A handler goes on to another stage, under another name perhaps.          *)
LEMMA StageStep ==
  ASSUME Inv, NEW r \in reqs, r.stage # "verify",
         NEW st \in {"opened", "planned", "claiming", "used", "named", "writing", "sending",
                     "resuming"},
         NEW n \in 0..MaxFiles,
         st \in {"planned", "claiming"} => r.kind \in {"get", "put"},
         st \in {"used", "named", "writing"} => r.kind = "put",
         st \in {"named", "writing"} => n \in 1..MaxFiles,
         Becomes(r, [r EXCEPT !.stage = st, !.name = n]), UNCHANGED <<page, checks>>,
         ServerTypes', HistoryTypes'
  PROVE  Inv'
<1>. DEFINE s == [r EXCEPT !.stage = st, !.name = n]
<1>1. r \in Requests /\ ReqOK(r)
  BY DEF Inv, TypeOK
<1>2. /\ s \in Requests /\ s.stage = st /\ s.name = n /\ s.who = r.who /\ s.kind = r.kind
      /\ s.heard = r.heard /\ s.item = r.item
  BY <1>1 DEF Requests
<1>3. MovesTo(r, s)
  BY <1>1, <1>2 DEF MovesTo, ReqOK
<1>4. Moves(r)
  BY <1>2, <1>3 DEF Moves
<1>. HIDE DEF s
<1>5. \E q \in Requests : q.stage # "verify" /\ Becomes(r, q)
  BY <1>2 DEF s
<1>. QED  BY <1>4, <1>5, QuietStep

(* The same, under the name it has.                                         *)
LEMMA SameName ==
  ASSUME NEW r \in Requests, NEW st
  PROVE  [r EXCEPT !.stage = st] = [r EXCEPT !.stage = st, !.name = r.name]
BY DEF Requests

LEMMA GoesStep ==
  ASSUME Inv, NEW r \in reqs, r.stage # "verify",
         NEW st \in {"opened", "planned", "claiming", "used", "sending", "resuming"},
         st = "used" => r.kind = "put",
         st \in {"planned", "claiming"} => r.kind \in {"get", "put"},
         Goes(r, st), UNCHANGED <<page, checks>>, ServerTypes', HistoryTypes'
  PROVE  Inv'
<1>1. r \in Requests
  BY DEF Inv, TypeOK
<1>2. r.name \in 0..MaxFiles
  BY <1>1 DEF Requests
<1>3. Becomes(r, [r EXCEPT !.stage = st, !.name = r.name])
  BY <1>1, SameName DEF Goes
<1>. QED  BY <1>2, <1>3, StageStep

LEMMA OpenLinkKeeps ==
  ASSUME Inv, NEW r \in reqs, OpenLink(r)
  PROVE  Inv'
<1>1. r.stage = "sent" /\ UNCHANGED <<server, page, history>>
  BY DEF OpenLink
<1>2. ServerTypes' /\ HistoryTypes' /\ UNCHANGED <<page, checks>>
  BY <1>1, TypeParts DEF Inv, server, history, ServerTypes, HistoryTypes
<1>3. CASE Answer(r, "error")
  BY <1>1, <1>2, <1>3, AnswerStep
<1>4. CASE Goes(r, "opened")
  BY <1>1, <1>2, <1>4, GoesStep
<1>. QED  BY <1>3, <1>4 DEF OpenLink

LEMMA HandlerKeeps ==
  ASSUME Inv, NEW r \in reqs,
         Refuse(r) \/ Info(r) \/ Entries(r) \/ Plan(r) \/ StartDownload(r)
  PROVE  Inv'
<1>1. r.stage # "verify" /\ UNCHANGED <<server, page, history>>
  BY DEF Refuse, Info, Entries, Plan, StartDownload
<1>2. ServerTypes' /\ HistoryTypes' /\ UNCHANGED <<page, checks>>
  BY <1>1, TypeParts DEF Inv, server, history, ServerTypes, HistoryTypes
<1>3. \/ \E a \in {"ok", "locked", "error"} : Answer(r, a)
      \/ r.kind \in {"get", "put"} /\ \E st \in {"planned", "claiming", "resuming"} : Goes(r, st)
  <2>1. CASE Refuse(r) \/ Info(r) \/ Entries(r)
    BY <2>1 DEF Refuse, Info, Entries
  <2>2. CASE Plan(r)
    BY <2>2 DEF Plan, Claim
  <2>3. CASE StartDownload(r)
    (* Only downloads and uploads are planned.                              *)
    BY <2>3 DEF StartDownload, Claim, Inv, ReqOK
  <2>. QED  BY <2>1, <2>2, <2>3
<1>4. CASE \E a \in {"ok", "locked", "error"} : Answer(r, a)
  BY <1>1, <1>2, <1>4, AnswerStep
<1>5. ASSUME r.kind \in {"get", "put"}, NEW st \in {"planned", "claiming", "resuming"}, Goes(r, st)
      PROVE  Inv'
  BY <1>1, <1>2, <1>5, GoesStep
<1>. QED  BY <1>3, <1>4, <1>5

LEMMA StartCheckKeeps ==
  ASSUME Inv, NEW r \in reqs, StartCheck(r)
  PROVE  Inv'
<1>1. r \in Requests /\ ReqOK(r) /\ r.stage = "opened" /\ r.kind = "unlock"
  BY DEF Inv, TypeOK, StartCheck
<1>2. CASE ~link.locked
  <2>1. Answer(r, "ok") /\ UNCHANGED <<server, page, history>>
    BY <1>2 DEF StartCheck, server
  <2>2. ServerTypes' /\ HistoryTypes' /\ UNCHANGED <<page, checks>>
    BY <2>1, TypeParts DEF Inv, server, history, ServerTypes, HistoryTypes
  <2>. QED  BY <1>1, <2>1, <2>2, AnswerStep
<1>3. CASE link.locked
  <2>. DEFINE s == [r EXCEPT !.stage = "verify"]
  <2>1. Becomes(r, s) /\ checks < MaxChecks /\ checks' = checks + 1
    BY <1>3 DEF StartCheck, Goes
  <2>2. /\ s \in Requests /\ s.stage = "verify" /\ s.who = r.who /\ s.kind = r.kind
        /\ s.heard = r.heard /\ s.item = r.item
    BY <1>1 DEF Requests
  <2>. HIDE DEF s
  <2>3. Moves(r)
    BY <1>1, <2>1, <2>2 DEF Moves, MovesTo, ReqOK
  <2>4. s \notin reqs
    (* No request has a double: s would be another one of the same page.    *)
    <3>1. CASE r.heard
      BY <1>1, <2>2, <3>1 DEF Inv, OneForm, AsksForLink
    <3>2. CASE ~r.heard
      BY <1>1, <2>2, <3>2 DEF Inv, OneOrphan, Orphan
    <3>. QED  BY <3>1, <3>2
  <2>5. Verifying' = Verifying \cup {s} /\ s \notin Verifying
    BY <1>1, <2>1, <2>2, <2>4 DEF Verifying, Becomes
  <2>6. ChecksOK'
    BY <2>1, <2>5, FS_AddElement DEF Inv, ChecksOK
  <2>7. UNCHANGED <<link, row, used, proofs, dir, page, history>>
    BY DEF StartCheck
  <2>8. ServerTypes' /\ HistoryTypes'
    BY <2>1, <2>7, TypeParts, CountsAssumption DEF Inv, history, ServerTypes, HistoryTypes
  <2>. QED  BY <2>3, <2>6, <2>7, <2>8, ServerStep
<1>. QED  BY <1>2, <1>3

LEMMA VerifiedKeeps ==
  ASSUME Inv, NEW r \in reqs, Verified(r)
  PROVE  Inv'
<1>1. r \in Requests /\ r.stage = "verify" /\ r \in Verifying
  BY DEF Inv, TypeOK, Verified, Verifying
<1>2. PICK ok \in {r.right, FALSE} :
        /\ checks' = checks - 1
        /\ proofs' = IF ok THEN proofs \cup {r.who} ELSE proofs
        /\ typed' = IF ok THEN typed \cup {r.who} ELSE typed
        /\ Answer(r, IF ok THEN "ok" ELSE "error")
  BY DEF Verified, ChecksLeft
<1>3. PICK a \in {"ok", "locked", "error"} : Answer(r, a)
  BY <1>2
<1>4. Moves(r) /\ (reqs' = reqs \ {r} \/ \E s \in Requests : s.stage = "answered" /\ Becomes(r, s))
  BY <1>3, AnswerMoves
<1>5. Verifying' = Verifying \ {r}
  BY <1>4 DEF Verifying, Becomes
<1>6. ChecksOK' /\ checks \in Nat /\ checks # 0
  BY <1>1, <1>2, <1>5, FS_RemoveElement, FS_EmptySet, FS_CardinalityType DEF Inv, ChecksOK
<1>7. UNCHANGED <<link, row, used, dir, page, served>>
  BY DEF Verified
<1>8. r.who \in Visitors /\ r.right \in BOOLEAN
  BY <1>1 DEF Requests
<1>9. ServerTypes'
  BY <1>2, <1>6, <1>7, <1>8, TypeParts, CountsAssumption DEF Inv, ServerTypes
<1>10. HistoryTypes'
  BY <1>2, <1>7, <1>8, TypeParts DEF Inv, HistoryTypes
<1>. QED  BY <1>4, <1>6, <1>7, <1>9, <1>10, ServerStep

LEMMA TryUseKeeps ==
  ASSUME Inv, NEW r \in reqs, TryUse(r)
  PROVE  Inv'
<1>1. /\ r.stage = "claiming" /\ UNCHANGED <<link, row, proofs, checks, dir, page, history>>
      /\ r \in Requests
  BY DEF TryUse, Inv, TypeOK
<1>2. used' \in 0..MaxUses
  BY TypeParts, CountsAssumption DEF TryUse, Usable, Inv, ServerTypes
<1>3. ServerTypes' /\ HistoryTypes' /\ UNCHANGED <<page, checks>>
  BY <1>1, <1>2, TypeParts DEF Inv, history, ServerTypes, HistoryTypes
<1>4. CASE Goes(r, IF r.kind = "get" THEN "sending" ELSE "used")
  <2>1. r.kind # "get" => r.kind = "put"
    (* Only downloads and uploads claim a use.                              *)
    BY <1>1 DEF Inv, ReqOK
  <2>. QED  BY <1>1, <1>3, <1>4, <2>1, GoesStep
<1>5. CASE Answer(r, "error")
  BY <1>1, <1>3, <1>5, AnswerStep
<1>. QED  BY <1>4, <1>5 DEF TryUse

LEMMA SentKeeps ==
  ASSUME Inv, NEW r \in reqs, Sent(r)
  PROVE  Inv'
<1>1. r.stage \in {"sending", "resuming"} /\ UNCHANGED <<server, page, typed>> /\ Answer(r, "ok")
  BY DEF Sent
<1>2. ServerTypes' /\ HistoryTypes' /\ UNCHANGED <<page, checks>>
  BY <1>1, TypeParts DEF Inv, Sent, server, ServerTypes, HistoryTypes
<1>. QED  BY <1>1, <1>2, AnswerStep

LEMMA ResolveNameKeeps ==
  ASSUME Inv, NEW r \in reqs, ResolveName(r)
  PROVE  Inv'
<1>1. r.stage = "used" /\ UNCHANGED <<server, page, history>> /\ r.kind = "put"
  BY DEF ResolveName, Inv, ReqOK
<1>2. ServerTypes' /\ HistoryTypes' /\ UNCHANGED <<page, checks>>
  BY <1>1, TypeParts DEF Inv, server, history, ServerTypes, HistoryTypes
<1>3. CASE Answer(r, "error")
  BY <1>1, <1>2, <1>3, AnswerStep
<1>4. ASSUME r.name < MaxFiles, NEW st \in {"named", "used"},
             Becomes(r, [r EXCEPT !.stage = st, !.name = r.name + 1])
      PROVE  Inv'
  <2>1. r.name + 1 \in 1..MaxFiles /\ r.name + 1 \in 0..MaxFiles
    BY <1>4, CountsAssumption DEF Inv, TypeOK, Requests
  <2>. QED  BY <1>1, <1>2, <1>4, <2>1, StageStep
<1>. QED  BY <1>3, <1>4 DEF ResolveName

(* The name a document or temporary file is opened for is free.             *)
LEMMA Opened ==
  ASSUME Inv, NEW r \in reqs, OpenWrite(r)
  PROVE  \/ Answer(r, "error") /\ UNCHANGED dir
         \/ \E n \in 1..MaxFiles :
              /\ dir[n] = Free
              /\ \/ Becomes(r, [r EXCEPT !.stage = "writing", !.name = n])
                 \/ Answer(r, "error")
              /\ dir' = IF link.direct THEN dir ELSE [dir EXCEPT ![n] = Part(r.who, r.item)]
<1>1. CASE Accepts(r)
  BY <1>1 DEF Accepts, OpenWrite, Inv, ReqOK
<1>2. CASE ~Accepts(r)
  BY <1>2, FreeName DEF OpenWrite
<1>. QED  BY <1>1, <1>2

LEMMA PutFiles ==
  ASSUME Inv, NEW r \in reqs, r.kind = "put"
  PROVE  File(r.who, r.item) \in Files /\ Part(r.who, r.item) \in Files /\ Free \in Files
<1>1. r.who \in Visitors /\ r.item \in Items
  BY DEF Inv, TypeOK, ReqOK, Requests
<1>. QED  BY <1>1 DEF File, Part, Free, Files

LEMMA OpenWriteKeeps ==
  ASSUME Inv, NEW r \in reqs, OpenWrite(r)
  PROVE  Inv'
<1>1. /\ r.stage = "named" /\ UNCHANGED <<link, row, used, proofs, checks, page, history>>
      /\ r.kind = "put"
  BY DEF OpenWrite, Inv, ReqOK
<1>2. dir' \in [1..MaxFiles -> Files]
  BY <1>1, Opened, PutFiles, TypeParts DEF Inv, ServerTypes
<1>3. ServerTypes' /\ HistoryTypes' /\ UNCHANGED <<page, checks>>
  BY <1>1, <1>2, TypeParts DEF Inv, history, ServerTypes, HistoryTypes
<1>4. CASE Answer(r, "error")
  BY <1>1, <1>3, <1>4, AnswerStep
<1>5. ASSUME NEW n \in 1..MaxFiles, Becomes(r, [r EXCEPT !.stage = "writing", !.name = n])
      PROVE  Inv'
  <2>1. n \in 0..MaxFiles
    OBVIOUS
  <2>. QED  BY <1>1, <1>3, <1>5, <2>1, StageStep
<1>. QED  BY <1>4, <1>5, Opened

LEMMA TransferEndKeeps ==
  ASSUME Inv, NEW r \in reqs, Commit(r) \/ Abort(r)
  PROVE  Inv'
<1>1. /\ r.stage = "writing" /\ UNCHANGED <<link, row, used, proofs, checks, page, typed>>
      /\ r.kind = "put"
  BY DEF Commit, Abort, Inv, ReqOK, history
<1>2. dir' \in [1..MaxFiles -> Files]
  BY <1>1, PutFiles, TypeParts DEF Inv, ServerTypes, Commit, Abort
<1>3. served' \in Nat
  BY TypeParts DEF Inv, HistoryTypes, Commit, Abort, history
<1>4. ServerTypes' /\ HistoryTypes' /\ UNCHANGED <<page, checks>>
  BY <1>1, <1>2, <1>3, TypeParts DEF Inv, ServerTypes, HistoryTypes
<1>5. PICK a \in {"ok", "locked", "error"} : Answer(r, a)
  BY DEF Commit, Abort
<1>. QED  BY <1>1, <1>4, <1>5, AnswerStep

LEMMA ServeKeeps ==
  ASSUME Inv, NEW r \in reqs, Serve(r)
  PROVE  Inv'
BY OpenLinkKeeps, HandlerKeeps, StartCheckKeeps, VerifiedKeeps, TryUseKeeps, SentKeeps,
   ResolveNameKeeps, OpenWriteKeeps, TransferEndKeeps DEF Serve

LEMMA EndsKeep ==
  ASSUME Inv, LinkEnds \/ \E v \in Visitors : ProofEnds(v)
  PROVE  Inv'
<1>1. UNCHANGED <<link, used, checks, dir, reqs, page, history>>
  BY DEF LinkEnds, ProofEnds
<1>2. TypeOK'
  BY <1>1 DEF Inv, TypeOK, LinkEnds, ProofEnds, page, history
<1>. QED  BY <1>1, <1>2 DEF Inv, page, OneForm, AsksForLink, OneOrphan, Orphan, ChecksOK,
                            Verifying, ReqOK

-----------------------------------------------------------------------------
(* Steps of pages.  others are the requests that stay, all that are there   *)
(* when a visitor acts, or those left when the page deals with an answer.   *)

Staying(others) ==
  /\ others \subseteq Requests /\ \A q \in others : ReqOK(q)
  /\ \A q \in others : AsksForLink(q) => q \in reqs
  /\ \A p, q \in others : Orphan(p) /\ Orphan(q) => p = q
  /\ LET verifying == {q \in others : q.stage = "verify"} IN
       IsFiniteSet(verifying) /\ checks = Cardinality(verifying)

LEMMA AllStay ==
  ASSUME Inv
  PROVE  Staying(reqs)
BY DEF Inv, TypeOK, OneOrphan, ChecksOK, Verifying, Staying

(* A new request, which nobody has begun to serve.                          *)
Fresh(v, s) ==
  s \in Requests /\ ReqOK(s) /\ s.who = v /\ s.stage = "sent" /\ ~Orphan(s)

Adds(v, others) ==
  \/ reqs' = others
  \/ \E s \in Requests : Fresh(v, s) /\ ~AsksForLink(s) /\ reqs' = others \cup {s}

(* What does not touch the form: requests for lists and files.              *)
LEMMA AddsKeeps ==
  ASSUME Inv, NEW v \in Visitors, NEW others, Staying(others), Adds(v, others),
         PageTypes', UNCHANGED <<server, history, view>>
  PROVE  Inv'
<1>1. reqs' \subseteq Requests /\ \A q \in reqs' : ReqOK(q)'
  BY DEF Adds, Staying, Fresh, ReqOK
<1>2. OneForm'
  BY DEF Adds, Staying, Inv, OneForm, AsksForLink
<1>3. OneOrphan'
  BY DEF Adds, Staying, Fresh, OneOrphan, Orphan
<1>4. Verifying' = {q \in others : q.stage = "verify"}
  BY DEF Adds, Fresh, Verifying
<1>5. ChecksOK'
  BY <1>4 DEF Staying, ChecksOK, server
<1>6. ServerTypes' /\ HistoryTypes'
  BY TypeParts DEF Inv, server, history, ServerTypes, HistoryTypes
<1>. QED  BY <1>1, <1>2, <1>3, <1>5, <1>6, TypePartsNext DEF Inv

(* The form is left: its request r is gone, and perhaps another comes.      *)
LEMMA FormKeeps ==
  ASSUME Inv, NEW v \in Visitors, NEW others, Staying(others),
         \A q \in others : AsksForLink(q) => q.who # v,
         NEW what, view' = [view EXCEPT ![v] = what],
         \/ Adds(v, others)
         \/ \E s \in Requests : /\ Fresh(v, s) /\ reqs' = others \cup {s}
                               /\ \/ s.kind = "info" /\ what = "loading"
                                  \/ s.kind = "unlock" /\ what = "checking",
         PageTypes', UNCHANGED <<server, history>>
  PROVE  Inv'
<1>1. reqs' \subseteq Requests /\ \A q \in reqs' : ReqOK(q)'
  BY DEF Adds, Staying, Fresh, ReqOK
<1>2. \A q \in others : q.who \in Visitors
  BY DEF Staying, Requests
<1>3. view \in [Visitors -> {"loading", "error", "password", "checking"} \cup Kinds]
  BY TypeParts DEF Inv, PageTypes
<1>4. OneForm'
  <2>1. ASSUME NEW q \in others, AsksForLink(q)
        PROVE  /\ q.kind = "info" => view'[q.who] = "loading"
               /\ q.kind = "unlock" => view'[q.who] = "checking"
               /\ \A p \in others : AsksForLink(p) /\ p.who = q.who => p = q
    BY <1>2, <1>3, <2>1 DEF Staying, Inv, OneForm
  <2>2. CASE Adds(v, others)
    BY <2>1, <2>2 DEF Adds, OneForm, AsksForLink
  <2>3. ASSUME NEW s \in Requests, Fresh(v, s), reqs' = others \cup {s},
               \/ s.kind = "info" /\ what = "loading"
               \/ s.kind = "unlock" /\ what = "checking"
        PROVE  OneForm'
    <3>1. s.who = v /\ view'[v] = what
      BY <1>3, <2>3 DEF Fresh
    <3>. QED  BY <2>1, <2>3, <3>1 DEF OneForm, AsksForLink
  <2>. QED  BY <2>2, <2>3
<1>5. OneOrphan'
  BY DEF Adds, Staying, Fresh, OneOrphan, Orphan
<1>6. Verifying' = {q \in others : q.stage = "verify"}
  BY DEF Adds, Fresh, Verifying
<1>7. ChecksOK'
  BY <1>6 DEF Staying, ChecksOK, server
<1>8. ServerTypes' /\ HistoryTypes'
  BY TypeParts DEF Inv, server, history, ServerTypes, HistoryTypes
<1>. QED  BY <1>1, <1>4, <1>5, <1>7, <1>8, TypePartsNext DEF Inv

LEMMA Asked ==
  ASSUME NEW v \in Visitors, NEW kind \in {"info", "unlock", "list", "get", "put"},
         unlock' \in [Visitors -> BOOLEAN]
  PROVE  /\ Ask(v, kind) \in Requests /\ Ask(v, kind).who = v /\ Ask(v, kind).kind = kind
         /\ Ask(v, kind).stage = "sent" /\ Ask(v, kind).heard
BY CountsAssumption DEF Ask, Requests, Folders

LEMMA LoadFolderAdds ==
  ASSUME PageTypes, NEW v \in Visitors, NEW f \in Folders, NEW reset \in BOOLEAN, NEW others,
         unlock' \in [Visitors -> BOOLEAN], LoadFolder(v, f, reset, others)
  PROVE  /\ Adds(v, others)
         /\ path' \in [Visitors -> Folders] /\ rows' \in [Visitors -> SUBSET Folders]
         /\ {loading', failed'} \subseteq [Visitors -> BOOLEAN]
<1>. DEFINE a == Ask(v, "list")
            s == [a EXCEPT !.folder = f]
<1>1. a \in Requests /\ a.who = v /\ a.kind = "list" /\ a.stage = "sent" /\ a.heard
  BY Asked
<1>2. reqs' = others \cup {s}
  BY DEF LoadFolder
<1>. HIDE DEF a
<1>3. s \in Requests /\ s.who = v /\ s.kind = "list" /\ s.stage = "sent" /\ s.heard
  BY <1>1 DEF Requests
<1>4. Fresh(v, s) /\ ~AsksForLink(s)
  BY <1>3 DEF Fresh, ReqOK, Orphan, AsksForLink
<1>5. Adds(v, others)
  BY <1>2, <1>3, <1>4 DEF Adds
<1>. QED  BY <1>5 DEF LoadFolder, PageTypes

ItemStates == {"unused", "waiting", "sending", "sent", "failed"}

LEMMA PumpAdds ==
  ASSUME PageTypes, NEW v \in Visitors, NEW st \in [Items -> ItemStates], NEW busy \in BOOLEAN,
         NEW others, unlock' = unlock, Pump(v, st, busy, others)
  PROVE  /\ Adds(v, others)
         /\ items' \in [Visitors -> [Items -> ItemStates]] /\ sending' \in [Visitors -> BOOLEAN]
<1>. DEFINE waiting == {i \in Items : st[i] = "waiting"}
            m == Min(waiting)
            a == Ask(v, "put")
            s == [a EXCEPT !.item = m]
<1>1. CASE Holds(busy, waiting)
  BY <1>1 DEF Pump, PageTypes, ItemStates, Adds
<1>2. CASE ~Holds(busy, waiting)
  <2>1. waiting # {} /\ waiting \in SUBSET Nat
    BY <1>2, CountsAssumption DEF Holds, Items
  <2>2. m \in waiting
    BY <2>1, MinIsLeast
  <2>3. a \in Requests /\ a.who = v /\ a.kind = "put" /\ a.stage = "sent" /\ a.heard
    BY Asked DEF PageTypes
  <2>4. /\ items' = [items EXCEPT ![v] = [st EXCEPT ![m] = "sending"]]
        /\ sending' = [sending EXCEPT ![v] = TRUE] /\ reqs' = others \cup {s}
    BY <1>2 DEF Pump
  <2>. HIDE DEF a, m
  <2>5. m \in Items /\ m \in 0..MaxItems
    BY <2>2, CountsAssumption DEF Items
  <2>6. s \in Requests /\ s.who = v /\ s.kind = "put" /\ s.stage = "sent" /\ s.heard /\ s.item = m
    BY <2>3, <2>5 DEF Requests
  <2>7. Fresh(v, s) /\ ~AsksForLink(s)
    BY <2>5, <2>6 DEF Fresh, ReqOK, Orphan, AsksForLink
  <2>8. Adds(v, others)
    BY <2>4, <2>6, <2>7 DEF Adds
  <2>9. [st EXCEPT ![m] = "sending"] \in [Items -> ItemStates]
    BY DEF ItemStates
  <2>. QED  BY <2>4, <2>8, <2>9 DEF PageTypes, ItemStates
<1>. QED  BY <1>1, <1>2

LEMMA LoadedKeeps ==
  ASSUME Inv, NEW r \in reqs, r.heard, NEW answer, NEW others, Staying(others), r \notin others,
         Loaded(r, answer, others), UNCHANGED <<server, history>>
  PROVE  Inv'
<1>1. r.kind = "info" /\ r.who \in Visitors /\ link.kind \in Kinds
  BY LinksAssumption DEF Loaded, Inv, TypeOK, Requests
<1>2. \A q \in others : AsksForLink(q) => q.who # r.who
  BY <1>1 DEF Staying, Inv, OneForm, AsksForLink
<1>3. PICK what \in {"password", "error"} \cup Kinds : view' = [view EXCEPT ![r.who] = what]
  BY <1>1 DEF Loaded, Shows
<1>4. PageTypes
  BY TypeParts DEF Inv
<1>5. UNCHANGED <<unlock, items, sending>>
  BY DEF Loaded
<1>6. view' \in [Visitors -> {"loading", "error", "password", "checking"} \cup Kinds]
  BY <1>3, <1>4 DEF PageTypes
<1>7. CASE answer = "ok" /\ link.kind = "folder"
  <2>1. LoadFolder(r.who, "/", TRUE, others) /\ "/" \in Folders /\ unlock' \in [Visitors -> BOOLEAN]
    BY <1>4, <1>5, <1>7 DEF Loaded, Folders, PageTypes
  <2>2. Adds(r.who, others) /\ PageTypes'
    BY <1>1, <1>4, <1>5, <1>6, <2>1, LoadFolderAdds DEF PageTypes
  <2>. QED  BY <1>1, <1>2, <1>3, <2>2, FormKeeps
<1>8. CASE ~ (answer = "ok" /\ link.kind = "folder")
  <2>1. reqs' = others /\ UNCHANGED <<path, rows, loading, failed>>
    BY <1>8 DEF Loaded
  <2>2. Adds(r.who, others) /\ PageTypes'
    BY <1>4, <1>5, <1>6, <2>1 DEF PageTypes, Adds
  <2>. QED  BY <1>1, <1>2, <1>3, <2>2, FormKeeps
<1>. QED  BY <1>7, <1>8

LEMMA UnlockAnswerKeeps ==
  ASSUME Inv, NEW r \in reqs, r.heard, NEW answer, NEW others, Staying(others), r \notin others,
         UnlockAnswer(r, answer, others), UNCHANGED <<server, history>>
  PROVE  Inv'
<1>1. r.kind = "unlock" /\ r.who \in Visitors
  BY DEF UnlockAnswer, Inv, TypeOK, Requests
<1>2. \A q \in others : AsksForLink(q) => q.who # r.who
  BY <1>1 DEF Staying, Inv, OneForm, AsksForLink
<1>3. PageTypes
  BY TypeParts DEF Inv
<1>4. PageTypes'
  <2>1. view' \in [Visitors -> {"loading", "error", "password", "checking"} \cup Kinds]
    BY <1>3 DEF PageTypes, UnlockAnswer, Shows
  <2>2. unlock' \in [Visitors -> BOOLEAN]
    BY <1>3 DEF PageTypes, UnlockAnswer
  <2>. QED  BY <1>3, <2>1, <2>2 DEF PageTypes, UnlockAnswer
<1>5. CASE answer = "ok"
  <2>. DEFINE a == Ask(r.who, "info")
  <2>1. view' = [view EXCEPT ![r.who] = "loading"] /\ reqs' = others \cup {a}
    BY <1>5 DEF UnlockAnswer, Shows
  <2>2. /\ a \in Requests /\ a.who = r.who /\ a.kind = "info" /\ a.stage = "sent" /\ a.heard
    BY <1>1, <1>4, Asked DEF PageTypes
  <2>. HIDE DEF a
  <2>3. Fresh(r.who, a)
    BY <2>2 DEF Fresh, ReqOK, Orphan
  <2>. QED  BY <1>1, <1>2, <1>4, <2>1, <2>2, <2>3, FormKeeps
<1>6. CASE answer # "ok"
  <2>1. view' = [view EXCEPT ![r.who] = "password"] /\ Adds(r.who, others)
    BY <1>6 DEF UnlockAnswer, Shows, Adds
  <2>. QED  BY <1>1, <1>2, <1>4, <2>1, FormKeeps
<1>. QED  BY <1>5, <1>6

LEMMA OtherAnswerKeeps ==
  ASSUME Inv, NEW r \in reqs, NEW answer, NEW others, Staying(others),
         ListAnswer(r, answer, others) \/ PutAnswer(r, answer, others), UNCHANGED <<server, history>>
  PROVE  Inv'
<1>1. r.who \in Visitors /\ r.folder \in Folders /\ PageTypes
  BY TypeParts DEF Inv, TypeOK, Requests
<1>2. CASE ListAnswer(r, answer, others)
  <2>1. reqs' = others /\ UNCHANGED <<view, unlock, path, items, sending>>
    BY <1>2 DEF ListAnswer
  <2>2. PageTypes'
    <3>1. rows' \in [Visitors -> SUBSET Folders]
      BY <1>1, <1>2 DEF ListAnswer, PageTypes
    <3>2. {loading', failed'} \subseteq [Visitors -> BOOLEAN]
      BY <1>1, <1>2 DEF ListAnswer, PageTypes
    <3>. QED  BY <1>1, <2>1, <3>1, <3>2 DEF PageTypes
  <2>3. Adds(r.who, others)
    BY <2>1 DEF Adds
  <2>. QED  BY <1>1, <2>1, <2>2, <2>3, AddsKeeps
<1>3. CASE PutAnswer(r, answer, others)
  <2>. DEFINE st == [items[r.who] EXCEPT ![r.item] = IF answer = "ok" THEN "sent" ELSE "failed"]
  <2>1. Pump(r.who, st, FALSE, others) /\ UNCHANGED <<view, unlock, path, rows, loading, failed>>
    BY <1>3 DEF PutAnswer
  <2>2. st \in [Items -> ItemStates]
    BY <1>1 DEF PageTypes, ItemStates
  <2>. HIDE DEF st
  <2>3. /\ Adds(r.who, others)
        /\ items' \in [Visitors -> [Items -> ItemStates]] /\ sending' \in [Visitors -> BOOLEAN]
    BY <1>1, <2>1, <2>2, PumpAdds
  <2>4. PageTypes'
    BY <1>1, <2>1, <2>3 DEF PageTypes, ItemStates
  <2>. QED  BY <1>1, <2>1, <2>3, <2>4, AddsKeeps
<1>. QED  BY <1>2, <1>3

LEMMA ReactKeeps ==
  ASSUME Inv, NEW r \in reqs, r.heard, NEW answer, NEW others, Staying(others), r \notin others,
         React(r, answer, others)
  PROVE  Inv'
BY LoadedKeeps, UnlockAnswerKeeps, OtherAnswerKeeps DEF React

LEMMA RestStay ==
  ASSUME Inv, NEW r \in reqs, r.stage # "verify"
  PROVE  Staying(reqs \ {r})
<1>1. {q \in reqs \ {r} : q.stage = "verify"} = Verifying
  BY DEF Verifying
<1>. QED  BY <1>1, AllStay DEF Staying, Inv, ChecksOK

LEMMA ReceiveKeeps ==
  ASSUME Inv, NEW r \in reqs, Receive(r)
  PROVE  Inv'
<1>1. r.stage = "answered" /\ r.heard
  BY DEF Receive, Inv, ReqOK
<1>. QED  BY <1>1, RestStay, ReactKeeps DEF Receive

(* The handler goes on without a listener: if it checks a password, it      *)
(* counts as before.                                                        *)
LEMMA UnheardStay ==
  ASSUME Inv, NEW r \in reqs, r.heard, r.kind \in {"unlock", "put"}, r.stage \notin {"sent", "answered"},
         \A q \in reqs : q.heard \/ q.kind = "get"
  PROVE  /\ Staying((reqs \ {r}) \cup {[r EXCEPT !.heard = FALSE]})
         /\ r \notin (reqs \ {r}) \cup {[r EXCEPT !.heard = FALSE]}
<1>. DEFINE s == [r EXCEPT !.heard = FALSE]
            others == (reqs \ {r}) \cup {s}
            verifying == {q \in others : q.stage = "verify"}
<1>1. reqs \subseteq Requests /\ \A q \in reqs : ReqOK(q)
  BY DEF Inv, TypeOK
<1>2. /\ s \in Requests /\ ~s.heard /\ s.kind = r.kind /\ s.stage = r.stage /\ s.item = r.item
      /\ s.name = r.name /\ s \notin reqs
  BY <1>1 DEF Requests
<1>. HIDE DEF s
<1>3. ReqOK(s)
  BY <1>1, <1>2 DEF ReqOK
<1>4. IsFiniteSet(verifying) /\ checks = Cardinality(verifying)
  <2>1. CASE r.stage = "verify"
    <3>1. verifying = (Verifying \ {r}) \cup {s} /\ s \notin Verifying \ {r} /\ r \in Verifying
      BY <1>2, <2>1 DEF Verifying
    <3>2. /\ IsFiniteSet(Verifying \ {r}) /\ checks \in Nat /\ checks # 0
          /\ Cardinality(Verifying \ {r}) = checks - 1
      BY <3>1, FS_RemoveElement, FS_EmptySet, FS_CardinalityType DEF Inv, ChecksOK
    <3>. QED  BY <3>1, <3>2, FS_AddElement
  <2>2. CASE r.stage # "verify"
    <3>1. verifying = Verifying
      BY <1>2, <2>2 DEF Verifying
    <3>. QED  BY <3>1 DEF Inv, ChecksOK
  <2>. QED  BY <2>1, <2>2
<1>5. \A q \in others : AsksForLink(q) => q \in reqs
  BY <1>2 DEF AsksForLink
<1>6. \A p, q \in others : Orphan(p) /\ Orphan(q) => p = q
  BY DEF Orphan
<1>7. r # s
  BY <1>2
<1>. QED  BY <1>1, <1>2, <1>3, <1>4, <1>5, <1>6, <1>7 DEF Staying, s

LEMMA LostKeeps ==
  ASSUME Inv, NEW r \in reqs, Lost(r)
  PROVE  Inv'
<1>1. r.heard /\ ReqOK(r)
  BY DEF Lost, Inv
<1>2. CASE /\ r.kind \in {"info", "list"} \/ r.stage \in {"sent", "answered"}
           /\ React(r, "error", reqs \ {r})
  <2>1. r.stage # "verify"
    BY <1>1, <1>2 DEF ReqOK
  <2>. QED  BY <1>1, <1>2, <2>1, RestStay, ReactKeeps
<1>3. CASE /\ r.kind \in {"unlock", "put"} /\ r.stage \notin {"sent", "answered"}
           /\ \A q \in reqs : q.heard \/ q.kind = "get"
           /\ React(r, "error", (reqs \ {r}) \cup {[r EXCEPT !.heard = FALSE]})
  BY <1>1, <1>3, UnheardStay, ReactKeeps
<1>. QED  BY <1>2, <1>3 DEF Lost

-----------------------------------------------------------------------------
(* Visitors, and the theorem.                                               *)

LEMMA SubmitKeeps ==
  ASSUME Inv, NEW v \in Visitors, NEW right \in BOOLEAN, SubmitPassword(v, right)
  PROVE  Inv'
<1>. DEFINE a == Ask(v, "unlock")
            s == [a EXCEPT !.right = right]
<1>1. PageTypes /\ view[v] = "password"
  BY TypeParts DEF Inv, SubmitPassword
<1>2. /\ view' = [view EXCEPT ![v] = "checking"] /\ reqs' = reqs \cup {s}
      /\ UNCHANGED <<unlock, server, path, rows, loading, failed, items, sending, history>>
  BY DEF SubmitPassword, Shows
<1>3. PageTypes'
  BY <1>1, <1>2 DEF PageTypes
<1>4. a \in Requests /\ a.who = v /\ a.kind = "unlock" /\ a.stage = "sent" /\ a.heard
  BY <1>3, Asked DEF PageTypes
<1>. HIDE DEF a
<1>5. s \in Requests /\ s.who = v /\ s.kind = "unlock" /\ s.stage = "sent" /\ s.heard
  BY <1>4 DEF Requests
<1>6. Fresh(v, s)
  BY <1>5 DEF Fresh, ReqOK, Orphan
<1>7. \A q \in reqs : AsksForLink(q) => q.who # v
  BY <1>1 DEF Inv, OneForm, AsksForLink
<1>. HIDE DEF s
<1>. QED  BY <1>2, <1>3, <1>5, <1>6, <1>7, AllStay, FormKeeps

LEMMA VisitorKeeps ==
  ASSUME Inv, NEW v \in Visitors,
         \/ ClickMore(v) \/ Download(v)
         \/ \E f \in Folders : OpenFolder(v, f)
         \/ \E i \in Items : Queue(v, i)
  PROVE  Inv'
<1>1. PageTypes /\ Staying(reqs)
  BY TypeParts, AllStay DEF Inv
<1>2. ASSUME NEW f \in Folders, NEW reset \in BOOLEAN, LoadFolder(v, f, reset, reqs),
             UNCHANGED <<server, view, unlock, items, sending, history>>
      PROVE  Inv'
  <2>1. unlock' \in [Visitors -> BOOLEAN]
    BY <1>1, <1>2 DEF PageTypes
  <2>2. Adds(v, reqs) /\ PageTypes'
    BY <1>1, <1>2, <2>1, LoadFolderAdds DEF PageTypes
  <2>. QED  BY <1>1, <1>2, <2>2, AddsKeeps
<1>3. CASE ClickMore(v)
  BY <1>1, <1>2, <1>3 DEF ClickMore, PageTypes
<1>4. CASE \E f \in Folders : OpenFolder(v, f)
  BY <1>2, <1>4 DEF OpenFolder
<1>5. CASE Download(v)
  <2>. DEFINE a == Ask(v, "get")
              spare == Items \ {r.item : r \in {q \in reqs : q.who = v /\ q.kind = "get"}}
              s == [a EXCEPT !.heard = FALSE, !.item = Min(spare)]
  <2>1. UNCHANGED <<server, page, history>> /\ reqs' = reqs \cup {s} /\ spare # {}
    BY <1>5 DEF Download
  <2>2. spare \in SUBSET Nat /\ spare \subseteq 0..MaxItems
    BY CountsAssumption DEF Items
  <2>. HIDE DEF spare
  <2>3. Min(spare) \in 0..MaxItems
    BY <2>1, <2>2, MinIsLeast
  <2>4. PageTypes' /\ view' = view
    BY <1>1, <2>1 DEF PageTypes, page
  <2>5. a \in Requests /\ a.who = v /\ a.kind = "get" /\ a.stage = "sent"
    BY <2>4, Asked DEF PageTypes
  <2>. HIDE DEF a
  <2>6. s \in Requests /\ s.who = v /\ s.kind = "get" /\ s.stage = "sent" /\ ~s.heard
    BY <2>5, <2>3 DEF Requests
  <2>7. Fresh(v, s) /\ ~AsksForLink(s)
    BY <2>6 DEF Fresh, ReqOK, Orphan, AsksForLink
  <2>. HIDE DEF s
  <2>8. Adds(v, reqs)
    BY <2>1, <2>6, <2>7 DEF Adds
  <2>. QED  BY <1>1, <2>1, <2>4, <2>8, AddsKeeps
<1>6. ASSUME NEW i \in Items, Queue(v, i)
      PROVE  Inv'
  <2>. DEFINE st == [items[v] EXCEPT ![i] = "waiting"]
  <2>1. /\ Pump(v, st, sending[v], reqs)
        /\ UNCHANGED <<server, view, unlock, path, rows, loading, failed, history>>
    BY <1>6 DEF Queue
  <2>2. st \in [Items -> ItemStates] /\ sending[v] \in BOOLEAN
    BY <1>1 DEF PageTypes, ItemStates
  <2>. HIDE DEF st
  <2>3. /\ Adds(v, reqs)
        /\ items' \in [Visitors -> [Items -> ItemStates]] /\ sending' \in [Visitors -> BOOLEAN]
    BY <1>1, <2>1, <2>2, PumpAdds
  <2>4. PageTypes'
    BY <1>1, <2>1, <2>3 DEF PageTypes, ItemStates
  <2>. QED  BY <1>1, <2>1, <2>3, <2>4, AddsKeeps
<1>. QED  BY <1>3, <1>4, <1>5, <1>6

LEMMA InitInv ==
  ASSUME Init
  PROVE  Inv
<1>. DEFINE a(v) == [who |-> v, kind |-> "info", stage |-> "sent", answer |-> "none", heard |-> TRUE,
                     proof |-> FALSE, right |-> FALSE, folder |-> "/", item |-> 0, name |-> 0]
<1>1. reqs = {a(v) : v \in Visitors} /\ view = [v \in Visitors |-> "loading"]
  BY DEF Init
<1>2. \A v \in Visitors : /\ a(v) \in Requests /\ ReqOK(a(v)) /\ a(v).heard /\ a(v).who = v
                          /\ a(v).stage = "sent" /\ a(v).kind = "info"
  BY CountsAssumption DEF Requests, Folders, ReqOK
<1>. HIDE DEF a
<1>3. reqs \subseteq Requests /\ \A q \in reqs : ReqOK(q)
  BY <1>1, <1>2
<1>4. OneForm /\ OneOrphan
  BY <1>1, <1>2 DEF OneForm, OneOrphan, AsksForLink, Orphan
<1>5. Verifying = {}
  BY <1>1, <1>2 DEF Verifying
<1>6. ChecksOK
  BY <1>5, FS_EmptySet DEF ChecksOK, Init
<1>7. ServerTypes
  BY CountsAssumption DEF ServerTypes, Init, Files, Free, Owners
<1>8. PageTypes /\ HistoryTypes
  BY DEF PageTypes, HistoryTypes, Init, Folders
<1>. QED  BY <1>3, <1>4, <1>6, <1>7, <1>8, TypeParts DEF Inv

LEMMA StutterKeeps ==
  ASSUME Inv, UNCHANGED vars
  PROVE  Inv'
BY DEF vars, server, page, history, Inv, TypeOK, OneForm, AsksForLink, OneOrphan, Orphan,
       ChecksOK, Verifying, ReqOK

LEMMA NextKeeps ==
  ASSUME Inv, [Next]_vars
  PROVE  Inv'
<1>1. ASSUME NEW r \in reqs, Serve(r) \/ Receive(r) \/ Lost(r)
      PROVE  Inv'
  BY <1>1, ServeKeeps, ReceiveKeeps, LostKeeps
<1>2. CASE LinkEnds \/ \E v \in Visitors : ProofEnds(v)
  BY <1>2, EndsKeep
<1>3. ASSUME NEW v \in Visitors, NEW right \in BOOLEAN, SubmitPassword(v, right)
      PROVE  Inv'
  BY <1>3, SubmitKeeps
<1>4. ASSUME NEW v \in Visitors,
             \/ ClickMore(v) \/ Download(v)
             \/ \E f \in Folders : OpenFolder(v, f)
             \/ \E i \in Items : Queue(v, i)
      PROVE  Inv'
  BY <1>4, VisitorKeeps
<1>. QED  BY <1>1, <1>2, <1>3, <1>4, StutterKeeps DEF Next

LEMMA Invariance == Spec => []Inv
BY InitInv, NextKeeps, PTL DEF Spec

(* Every state has its type: the counts of uses and checks stay in their    *)
(* bounds, and no page shows anything there is not.                         *)
THEOREM SharingTyping == Spec => []TypeOK
<1>1. Inv => TypeOK
  BY DEF Inv
<1>. QED  BY <1>1, Invariance, PTL

(* The count of password checks is that of the checks that run, also of     *)
(* those nobody listens to any more.                                        *)
THEOREM Counting == Spec => []ChecksReturn
<1>1. Inv => ChecksReturn
  BY DEF Inv, ChecksOK, Verifying, ChecksReturn
<1>. QED  BY <1>1, Invariance, PTL
=============================================================================
