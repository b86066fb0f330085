--------------------------- MODULE SharePageKeeps ---------------------------
(***************************************************************************)
(* What a share link keeps, for any visitors, links and bounds: its count  *)
(* of uses, its password, the files that are in the folder, and the order  *)
(* in which a page sends its files.                                        *)
(***************************************************************************)
EXTENDS SharePageProofs

-----------------------------------------------------------------------------
(* What pages do to the requests: some stay, one may be gone or unheard     *)
(* from now on, and new ones are sent.                                      *)

Sends(others) == \A q \in reqs' \ others : q.stage = "sent"
Unheard(r) == [r EXCEPT !.heard = FALSE]
Left(others) ==
  \/ others = reqs
  \/ \E r \in reqs : others = reqs \ {r} \/ others = (reqs \ {r}) \cup {Unheard(r)}

PageStep == UNCHANGED <<server, history>> /\ \E others : Left(others) /\ Sends(others)

LEMMA LoadFolderSends ==
  ASSUME NEW v, NEW f, NEW reset, NEW others, LoadFolder(v, f, reset, others)
  PROVE  Sends(others)
<1>. DEFINE s == [Ask(v, "list") EXCEPT !.folder = f]
<1>1. s.stage = "sent"
  BY DEF Ask
<1>2. reqs' = others \cup {s}
  BY DEF LoadFolder
<1>. QED  BY <1>1, <1>2 DEF Sends

LEMMA PumpSends ==
  ASSUME NEW v, NEW st, NEW busy, NEW others, Pump(v, st, busy, others)
  PROVE  Sends(others)
<1>. DEFINE m == Min({i \in Items : st[i] = "waiting"})
            s == [Ask(v, "put") EXCEPT !.item = m]
<1>1. s.stage = "sent"
  BY DEF Ask
<1>2. reqs' = others \/ reqs' = others \cup {s}
  BY DEF Pump
<1>. QED  BY <1>1, <1>2 DEF Sends

LEMMA NothingSent ==
  ASSUME NEW others, reqs' = others
  PROVE  Sends(others)
BY DEF Sends

LEMMA ReactSends ==
  ASSUME NEW r, NEW answer, NEW others, React(r, answer, others)
  PROVE  Sends(others)
<1>1. CASE Loaded(r, answer, others)
  BY <1>1, LoadFolderSends, NothingSent DEF Loaded
<1>2. CASE UnlockAnswer(r, answer, others)
  <2>1. Ask(r.who, "info").stage = "sent"
    BY DEF Ask
  <2>. QED  BY <1>2, <2>1, NothingSent DEF UnlockAnswer, Sends
<1>3. CASE ListAnswer(r, answer, others)
  BY <1>3, NothingSent DEF ListAnswer
<1>4. CASE PutAnswer(r, answer, others)
  BY <1>4, PumpSends DEF PutAnswer
<1>. QED  BY <1>1, <1>2, <1>3, <1>4 DEF React

LEMMA VisitorSends ==
  ASSUME NEW v,
         \/ ClickMore(v) \/ Download(v)
         \/ \E right \in BOOLEAN : SubmitPassword(v, right)
         \/ \E f \in Folders : OpenFolder(v, f)
         \/ \E i \in Items : Queue(v, i)
  PROVE  Sends(reqs)
<1>1. CASE ClickMore(v) \/ \E f \in Folders : OpenFolder(v, f)
  BY <1>1, LoadFolderSends DEF ClickMore, OpenFolder
<1>2. CASE \E i \in Items : Queue(v, i)
  BY <1>2, PumpSends DEF Queue
<1>3. CASE Download(v)
  <2>1. \A i : [Ask(v, "get") EXCEPT !.heard = FALSE, !.item = i].stage = "sent"
    BY DEF Ask
  <2>2. \E i : reqs' = reqs \cup {[Ask(v, "get") EXCEPT !.heard = FALSE, !.item = i]}
    BY <1>3 DEF Download
  <2>. QED  BY <2>1, <2>2 DEF Sends
<1>4. ASSUME NEW right \in BOOLEAN, SubmitPassword(v, right)
      PROVE  Sends(reqs)
  <2>1. [Ask(v, "unlock") EXCEPT !.right = right].stage = "sent"
    BY DEF Ask
  <2>. QED  BY <1>4, <2>1 DEF SubmitPassword, Sends
<1>. QED  BY <1>1, <1>2, <1>3, <1>4

(* Every step is one of a handler, of time, or of a page.                   *)
LEMMA Steps ==
  ASSUME [Next]_vars
  PROVE  \/ \E r \in reqs : Serve(r)
         \/ LinkEnds \/ \E v \in Visitors : ProofEnds(v)
         \/ PageStep
<1>1. ASSUME NEW r \in reqs, Receive(r)
      PROVE  PageStep
  BY <1>1, ReactSends DEF Receive, PageStep, Left, React
<1>2. ASSUME NEW r \in reqs, Lost(r)
      PROVE  PageStep
  BY <1>2, ReactSends DEF Lost, PageStep, Left, Unheard, React
<1>3. ASSUME NEW v \in Visitors,
             \/ ClickMore(v) \/ Download(v)
             \/ \E right \in BOOLEAN : SubmitPassword(v, right)
             \/ \E f \in Folders : OpenFolder(v, f)
             \/ \E i \in Items : Queue(v, i)
      PROVE  PageStep
  <2>1. UNCHANGED <<server, history>>
    BY <1>3 DEF ClickMore, Download, SubmitPassword, OpenFolder, Queue
  <2>. QED  BY <1>3, <2>1, VisitorSends DEF PageStep, Left
<1>4. CASE UNCHANGED vars
  BY <1>4, NothingSent DEF vars, PageStep, Left
<1>. QED  BY <1>1, <1>2, <1>3, <1>4 DEF Next

-----------------------------------------------------------------------------
(* The count of uses.  Every transfer holds a use, from tryUse to its end.  *)

Holding == {r \in reqs : r.stage \in {"used", "named", "writing", "sending"}}
UsesOK == IsFiniteSet(Holding) /\ served + Cardinality(Holding) <= used

LEMMA Counts ==
  ASSUME NEW S, IsFiniteSet(S), NEW T, NEW r, NEW s
  PROVE  /\ Cardinality(S) \in Nat
         /\ T \subseteq S => IsFiniteSet(T) /\ Cardinality(T) \in Nat /\ Cardinality(T) <= Cardinality(S)
         /\ T \subseteq S \cup {s} =>
              IsFiniteSet(T) /\ Cardinality(T) \in Nat /\ Cardinality(T) <= Cardinality(S) + 1
         /\ r \in S /\ T \subseteq S \ {r} =>
              IsFiniteSet(T) /\ Cardinality(T) \in Nat /\ Cardinality(T) + 1 <= Cardinality(S)
         /\ r \in S /\ T \subseteq (S \ {r}) \cup {s} =>
              IsFiniteSet(T) /\ Cardinality(T) \in Nat /\ Cardinality(T) <= Cardinality(S)
<1>1. ASSUME NEW X, IsFiniteSet(X), NEW Y \in SUBSET X
      PROVE  IsFiniteSet(Y) /\ Cardinality(Y) \in Nat /\ Cardinality(Y) <= Cardinality(X)
  BY <1>1, FS_Subset, FS_CardinalityType
<1>2. Cardinality(S) \in Nat
  BY FS_CardinalityType
<1>3. IsFiniteSet(S \cup {s}) /\ Cardinality(S \cup {s}) <= Cardinality(S) + 1
  BY <1>2, FS_AddElement
<1>4. r \in S => IsFiniteSet(S \ {r}) /\ Cardinality(S \ {r}) + 1 = Cardinality(S)
  BY <1>2, FS_RemoveElement
<1>5. r \in S =>
        IsFiniteSet((S \ {r}) \cup {s}) /\ Cardinality((S \ {r}) \cup {s}) <= Cardinality(S)
  <2>. SUFFICES ASSUME r \in S
                PROVE  /\ IsFiniteSet((S \ {r}) \cup {s})
                       /\ Cardinality((S \ {r}) \cup {s}) <= Cardinality(S)
    OBVIOUS
  <2>. DEFINE X == S \ {r}
  <2>1. IsFiniteSet(X) /\ Cardinality(X) + 1 = Cardinality(S) /\ Cardinality(X) \in Nat
    BY <1>4, FS_CardinalityType
  <2>. HIDE DEF X
  <2>2. /\ IsFiniteSet(X \cup {s})
        /\ Cardinality(X \cup {s}) = IF s \in X THEN Cardinality(X) ELSE Cardinality(X) + 1
    BY <2>1, FS_AddElement
  <2>3. Cardinality(X \cup {s}) <= Cardinality(S)
    BY <1>2, <2>1, <2>2
  <2>. QED  BY <2>2, <2>3 DEF X
<1>6. Cardinality(S \cup {s}) \in Nat /\ (r \in S => Cardinality(S \ {r}) \in Nat
        /\ Cardinality((S \ {r}) \cup {s}) \in Nat)
  BY <1>3, <1>4, <1>5, FS_CardinalityType
<1>7. T \subseteq S => IsFiniteSet(T) /\ Cardinality(T) \in Nat /\ Cardinality(T) <= Cardinality(S)
  BY <1>1
<1>8. T \subseteq S \cup {s} =>
        IsFiniteSet(T) /\ Cardinality(T) \in Nat /\ Cardinality(T) <= Cardinality(S) + 1
  BY <1>1, <1>2, <1>3, <1>6
<1>9. r \in S /\ T \subseteq S \ {r} =>
        IsFiniteSet(T) /\ Cardinality(T) \in Nat /\ Cardinality(T) + 1 <= Cardinality(S)
  BY <1>1, <1>2, <1>4, <1>6
<1>10. r \in S /\ T \subseteq (S \ {r}) \cup {s} =>
         IsFiniteSet(T) /\ Cardinality(T) \in Nat /\ Cardinality(T) <= Cardinality(S)
  BY <1>1, <1>2, <1>5, <1>6
<1>. QED  BY <1>2, <1>7, <1>8, <1>9, <1>10

(* The request that takes the place of r.                                   *)
Follows(r, s, st, n) ==
  /\ s.stage = st /\ s.name = n /\ s.who = r.who /\ s.kind = r.kind
  /\ s.item = r.item /\ s.heard = r.heard
  /\ reqs' = (reqs \ {r}) \cup {s}

LEMMA GoesOnAs ==
  ASSUME Inv, NEW r \in reqs, NEW st, NEW n, Becomes(r, [r EXCEPT !.stage = st, !.name = n])
  PROVE  \E s : Follows(r, s, st, n)
<1>. DEFINE s == [r EXCEPT !.stage = st, !.name = n]
<1>1. /\ s.stage = st /\ s.name = n /\ s.who = r.who /\ s.kind = r.kind
      /\ s.item = r.item /\ s.heard = r.heard
  BY DEF Inv, TypeOK, Requests
<1>. QED  BY <1>1 DEF Becomes, Follows

LEMMA GoesOn ==
  ASSUME Inv, NEW r \in reqs, NEW st, Goes(r, st)
  PROVE  \E s : Follows(r, s, st, r.name)
<1>. DEFINE s == [r EXCEPT !.stage = st]
<1>1. /\ s.stage = st /\ s.name = r.name /\ s.who = r.who /\ s.kind = r.kind
      /\ s.item = r.item /\ s.heard = r.heard
  BY DEF Inv, TypeOK, Requests
<1>. QED  BY <1>1 DEF Goes, Becomes, Follows

LEMMA IsAnswered ==
  ASSUME Inv, NEW r \in reqs, NEW a \in {"ok", "locked", "error"}, Answer(r, a)
  PROVE  \/ ~r.heard /\ reqs' = reqs \ {r}
         \/ \E s : s.answer = a /\ Follows(r, s, "answered", r.name)
<1>. DEFINE s == [r EXCEPT !.stage = "answered", !.answer = a]
<1>1. /\ s.stage = "answered" /\ s.name = r.name /\ s.who = r.who /\ s.kind = r.kind
      /\ s.item = r.item /\ s.heard = r.heard /\ s.answer = a
  BY DEF Inv, TypeOK, Requests
<1>. QED  BY <1>1 DEF Answer, Becomes, Follows

LEMMA AnswerEndsHold ==
  ASSUME Inv, NEW r \in reqs, NEW a \in {"ok", "locked", "error"}, Answer(r, a)
  PROVE  Holding' \subseteq Holding \ {r}
BY IsAnswered DEF Holding, Follows

(* How the request r changes the transfers under way, and what is counted.  *)
Trades(r) ==
  \/ Holding' \subseteq Holding /\ UNCHANGED <<served, used>>
  \/ \E s : Holding' \subseteq Holding \cup {s} /\ served' = served /\ used' = used + 1
  \/ /\ r \in Holding /\ Holding' \subseteq Holding \ {r}
     /\ served' \in {served, served + 1} /\ used' = used
  \/ /\ r \in Holding /\ \E s : Holding' \subseteq (Holding \ {r}) \cup {s}
     /\ UNCHANGED <<served, used>>

LEMMA ServeHolds ==
  ASSUME Inv, NEW r \in reqs, Serve(r)
  PROVE  Trades(r)
<1>1. CASE OpenLink(r) \/ Refuse(r) \/ Info(r) \/ Entries(r) \/ Plan(r) \/ StartDownload(r)
  <2>1. UNCHANGED <<served, used>>
    BY <1>1 DEF OpenLink, Refuse, Info, Entries, Plan, StartDownload, server, history
  <2>2. \/ \E a \in {"ok", "locked", "error"} : Answer(r, a)
        \/ \E st \in {"opened", "planned", "claiming", "resuming"} : Goes(r, st)
    BY <1>1 DEF OpenLink, Refuse, Info, Entries, Plan, StartDownload, Claim
  <2>3. Holding' \subseteq Holding
    BY <2>2, AnswerEndsHold, GoesOn DEF Holding, Follows
  <2>. QED  BY <2>1, <2>3 DEF Trades
<1>2. CASE StartCheck(r) \/ Verified(r)
  <2>1. UNCHANGED <<served, used>>
    BY <1>2 DEF StartCheck, Verified, history
  <2>2. (\E a \in {"ok", "locked", "error"} : Answer(r, a)) \/ Goes(r, "verify")
    BY <1>2 DEF StartCheck, Verified
  <2>3. Holding' \subseteq Holding
    BY <2>2, AnswerEndsHold, GoesOn DEF Holding, Follows
  <2>. QED  BY <2>1, <2>3 DEF Trades
<1>3. CASE TryUse(r)
  <2>1. served' = served
    BY <1>3 DEF TryUse, history
  <2>2. CASE Usable
    <3>1. used' = used + 1 /\ \E st : Goes(r, st)
      BY <1>3, <2>2 DEF TryUse
    <3>2. \E s : reqs' = (reqs \ {r}) \cup {s}
      BY <3>1, GoesOn DEF Follows
    <3>. QED  BY <2>1, <3>1, <3>2 DEF Holding, Trades
  <2>3. CASE ~Usable
    BY <1>3, <2>1, <2>3, AnswerEndsHold DEF TryUse, Trades
  <2>. QED  BY <2>2, <2>3
<1>4. CASE Sent(r) \/ Commit(r) \/ Abort(r)
  <2>1. /\ r \in Holding \/ served' = served
        /\ served' \in {served, served + 1} /\ used' = used
    (* Only a download that was resumed holds no use.                       *)
    BY <1>4 DEF Sent, Commit, Abort, Holding, server, history
  <2>2. \E a \in {"ok", "locked", "error"} : Answer(r, a)
    BY <1>4 DEF Sent, Commit, Abort
  <2>. QED  BY <2>1, <2>2, AnswerEndsHold DEF Trades
<1>5. CASE ResolveName(r) \/ OpenWrite(r)
  <2>1. r \in Holding /\ UNCHANGED <<served, used>>
    BY <1>5 DEF ResolveName, OpenWrite, Holding, server, history
  <2>2. \/ Answer(r, "error")
        \/ \E st, n : Becomes(r, [r EXCEPT !.stage = st, !.name = n])
    <3>1. CASE ResolveName(r)
      BY <3>1 DEF ResolveName
    <3>2. CASE OpenWrite(r)
      BY <3>2, Opened
    <3>. QED  BY <1>5, <3>1, <3>2
  <2>3. CASE Answer(r, "error")
    BY <2>1, <2>3, AnswerEndsHold DEF Trades
  <2>4. CASE \E st, n : Becomes(r, [r EXCEPT !.stage = st, !.name = n])
    <3>1. \E s : reqs' = (reqs \ {r}) \cup {s}
      BY <2>4, GoesOnAs DEF Follows
    <3>. QED  BY <2>1, <3>1 DEF Holding, Trades
  <2>. QED  BY <2>2, <2>3, <2>4
<1>. QED  BY <1>1, <1>2, <1>3, <1>4, <1>5 DEF Serve

LEMMA PageHolds ==
  ASSUME Inv, PageStep
  PROVE  \E r : Trades(r)
<1>1. UNCHANGED <<served, used>>
  BY DEF PageStep, server, history
<1>2. PICK others : Left(others) /\ Sends(others)
  BY DEF PageStep
<1>3. Holding' \subseteq {q \in others : q.stage \in {"used", "named", "writing", "sending"}}
  BY <1>2 DEF Sends, Holding
<1>4. CASE others = reqs \/ \E r \in reqs : others = reqs \ {r}
  BY <1>1, <1>3, <1>4 DEF Holding, Trades
<1>5. ASSUME NEW r \in reqs, others = (reqs \ {r}) \cup {Unheard(r)}
      PROVE  Trades(r)
  <2>1. Unheard(r).stage = r.stage
    BY DEF Unheard, Inv, TypeOK, Requests
  <2>2. CASE r \in Holding
    <3>1. Holding' \subseteq (Holding \ {r}) \cup {Unheard(r)}
      BY <1>3, <1>5, <2>2 DEF Holding
    <3>. QED  BY <1>1, <2>2, <3>1 DEF Trades
  <2>3. CASE r \notin Holding
    <3>1. Holding' \subseteq Holding
      BY <1>3, <1>5, <2>1, <2>3 DEF Holding
    <3>. QED  BY <1>1, <3>1 DEF Trades
  <2>. QED  BY <2>2, <2>3
<1>. QED  BY <1>2, <1>4, <1>5 DEF Left

LEMMA UsesKept ==
  ASSUME Inv, UsesOK, [Next]_vars
  PROVE  UsesOK'
<1>1. /\ served \in Nat /\ used \in Nat
      /\ IsFiniteSet(Holding) /\ Cardinality(Holding) \in Nat /\ served + Cardinality(Holding) <= used
  BY TypeParts, FS_CardinalityType DEF Inv, ServerTypes, HistoryTypes, UsesOK
<1>2. PICK r : Trades(r)
  <2>1. CASE LinkEnds \/ \E v \in Visitors : ProofEnds(v)
    BY <2>1 DEF LinkEnds, ProofEnds, Holding, history, Trades
  <2>. QED  BY <2>1, ServeHolds, PageHolds, Steps
<1>3. CASE Holding' \subseteq Holding /\ UNCHANGED <<served, used>>
  <2>1. IsFiniteSet(Holding') /\ Cardinality(Holding') \in Nat
        /\ Cardinality(Holding') <= Cardinality(Holding)
    BY <1>1, <1>3, Counts
  <2>. QED  BY <1>1, <1>3, <2>1 DEF UsesOK
<1>4. ASSUME NEW s, Holding' \subseteq Holding \cup {s}, served' = served, used' = used + 1
      PROVE  UsesOK'
  <2>1. IsFiniteSet(Holding') /\ Cardinality(Holding') \in Nat
        /\ Cardinality(Holding') <= Cardinality(Holding) + 1
    BY <1>1, <1>4, Counts
  <2>. QED  BY <1>1, <1>4, <2>1 DEF UsesOK
<1>5. CASE /\ r \in Holding /\ Holding' \subseteq Holding \ {r}
           /\ served' \in {served, served + 1} /\ used' = used
  <2>1. IsFiniteSet(Holding') /\ Cardinality(Holding') \in Nat
        /\ Cardinality(Holding') + 1 <= Cardinality(Holding)
    BY <1>1, <1>5, Counts
  <2>. QED  BY <1>1, <1>5, <2>1 DEF UsesOK
<1>6. ASSUME r \in Holding, NEW s, Holding' \subseteq (Holding \ {r}) \cup {s},
             UNCHANGED <<served, used>>
      PROVE  UsesOK'
  <2>1. IsFiniteSet(Holding') /\ Cardinality(Holding') \in Nat
        /\ Cardinality(Holding') <= Cardinality(Holding)
    BY <1>1, <1>6, Counts
  <2>. QED  BY <1>1, <1>6, <2>1 DEF UsesOK
<1>. QED  BY <1>2, <1>3, <1>4, <1>5, <1>6 DEF Trades

(* However many visitors hold the link, whatever they do at a time and      *)
(* whichever connections break, no more files are fetched from their start  *)
(* or sent in than it allows.  A download that is resumed counts nothing.   *)
THEOREM LinkUses == Spec => []NeverMoreUses
<1>1. Init => UsesOK
  <2>1. SUFFICES ASSUME Init
                 PROVE  UsesOK
    OBVIOUS
  <2>2. Holding = {} /\ served = 0 /\ used = 0
    BY <2>1 DEF Init, Holding
  <2>. QED  BY <2>2, FS_EmptySet DEF UsesOK
<1>2. Inv /\ UsesOK => NeverMoreUses
  BY TypeParts, FS_CardinalityType DEF Inv, ServerTypes, HistoryTypes, UsesOK, NeverMoreUses
<1>. QED  BY <1>1, <1>2, UsesKept, Invariance, PTL DEF Spec

-----------------------------------------------------------------------------
(* The password.                                                            *)

(* Who was let through, or told what the link is of, gave the password.     *)
Vouched(r) ==
  /\ r.stage \in {"planned", "claiming", "used", "named", "writing", "sending", "resuming"}
       => r.who \in typed
  /\ r.kind = "info" /\ r.stage = "answered" /\ r.answer = "ok" => r.who \in typed

LockOK ==
  link.locked => /\ proofs \subseteq typed
                 /\ \A r \in reqs : Vouched(r)
                 /\ \A v \in Visitors : view[v] \in Kinds => v \in typed

LEMMA StaysVouched ==
  ASSUME NEW r \in reqs, link.locked, LockOK, typed \subseteq typed'
  PROVE  Vouched(r)'
BY DEF LockOK, Vouched

LEMMA AnswerVouched ==
  ASSUME Inv, NEW r \in reqs, NEW a \in {"ok", "locked", "error"}, Answer(r, a),
         link.locked, LockOK, typed \subseteq typed',
         r.kind = "info" /\ a = "ok" => r.who \in typed'
  PROVE  \A q \in reqs' : Vouched(q)'
<1>1. CASE reqs' = reqs \ {r}
  BY <1>1, StaysVouched
<1>2. ASSUME NEW s, s.answer = a, Follows(r, s, "answered", r.name)
      PROVE  \A q \in reqs' : Vouched(q)'
  <2>1. Vouched(s)'
    BY <1>2 DEF Follows, Vouched
  <2>. QED  BY <1>2, <2>1, StaysVouched DEF Follows
<1>. QED  BY <1>1, <1>2, IsAnswered

LEMMA StageVouched ==
  ASSUME Inv, NEW r \in reqs, NEW st, NEW n, NEW s, Follows(r, s, st, n),
         link.locked, LockOK, typed \subseteq typed', st # "answered",
         \/ st \in {"opened", "verify"}
         \/ r.who \in typed'
  PROVE  \A q \in reqs' : Vouched(q)'
<1>1. Vouched(s)'
  BY DEF Follows, Vouched
<1>. QED  BY <1>1, StaysVouched DEF Follows

LEMMA ServeVouches ==
  ASSUME Inv, LockOK, NEW r \in reqs, Serve(r)
  PROVE  LockOK'
<1>1. link' = link /\ view' = view /\ typed \subseteq typed'
  BY DEF Serve, OpenLink, Refuse, Info, Entries, Plan, StartDownload, Claim, StartCheck, Verified,
         TryUse, Sent, ResolveName, OpenWrite, Commit, Abort, server, page, history
<1>. SUFFICES ASSUME link.locked
              PROVE  LockOK'
  BY <1>1 DEF LockOK
<1>2. proofs' \subseteq typed'
  BY <1>1 DEF LockOK, Serve, OpenLink, Refuse, Info, Entries, Plan, StartDownload, Claim,
              StartCheck, Verified, TryUse, Sent, ResolveName, OpenWrite, Commit, Abort, server
<1>3. \A q \in reqs' : Vouched(q)'
  <2>1. CASE OpenLink(r) \/ Refuse(r)
    <3>1. Answer(r, "error") \/ Goes(r, "opened")
      BY <2>1 DEF OpenLink, Refuse
    <3>. QED  BY <1>1, <3>1, AnswerVouched, GoesOn, StageVouched
  <2>2. CASE Info(r)
    <3>. DEFINE a == IF Unlocked(r) THEN "ok" ELSE "locked"
    <3>1. Answer(r, a) /\ a \in {"ok", "locked", "error"}
      BY <2>2 DEF Info
    <3>2. a = "ok" => r.who \in typed'
      BY <1>1 DEF Unlocked, LockOK
    <3>. QED  BY <1>1, <3>1, <3>2, AnswerVouched
  <2>3. CASE Entries(r)
    BY <1>1, <2>3, AnswerVouched DEF Entries
  <2>4. CASE Plan(r)
    <3>1. /\ r.who \in typed'
          /\ \/ Answer(r, "error") /\ r.kind = "put"
             \/ \E st \in {"planned", "claiming"} : Goes(r, st)
      BY <1>1, <2>4 DEF Plan, Claim, Unlocked, LockOK
    <3>. QED  BY <1>1, <3>1, AnswerVouched, GoesOn, StageVouched
  <2>5. CASE StartCheck(r)
    <3>1. r.kind = "unlock" /\ (Answer(r, "ok") \/ Goes(r, "verify"))
      BY <2>5 DEF StartCheck
    <3>. QED  BY <1>1, <3>1, AnswerVouched, GoesOn, StageVouched
  <2>6. CASE Verified(r)
    <3>1. r.kind = "unlock" /\ \E a \in {"ok", "locked", "error"} : Answer(r, a)
      BY <2>6 DEF Verified, Inv, ReqOK
    <3>. QED  BY <1>1, <3>1, AnswerVouched
  <2>7. CASE StartDownload(r) \/ TryUse(r) \/ ResolveName(r) \/ OpenWrite(r)
    (* Who is here was let through before.                                  *)
    <3>1. r.who \in typed'
      BY <1>1, <2>7 DEF StartDownload, TryUse, ResolveName, OpenWrite, LockOK, Vouched
    <3>2. \/ Answer(r, "error")
          \/ \E st \in {"claiming", "resuming", "used", "sending"} : Goes(r, st)
          \/ \E st \in {"used", "named", "writing"} :
               \E n : Becomes(r, [r EXCEPT !.stage = st, !.name = n])
      BY <2>7, Opened DEF StartDownload, Claim, TryUse, ResolveName
    <3>3. CASE Answer(r, "error")
      BY <1>1, <3>3, AnswerVouched
    <3>4. ASSUME NEW st \in {"claiming", "resuming", "used", "sending"}, Goes(r, st)
          PROVE  \A q \in reqs' : Vouched(q)'
      BY <1>1, <3>1, <3>4, GoesOn, StageVouched
    <3>5. ASSUME NEW st \in {"used", "named", "writing"}, NEW n,
                 Becomes(r, [r EXCEPT !.stage = st, !.name = n])
          PROVE  \A q \in reqs' : Vouched(q)'
      BY <1>1, <3>1, <3>5, GoesOnAs, StageVouched
    <3>. QED  BY <3>2, <3>3, <3>4, <3>5
  <2>8. CASE Sent(r) \/ Commit(r) \/ Abort(r)
    <3>1. r.who \in typed'
      BY <1>1, <2>8 DEF Sent, Commit, Abort, LockOK, Vouched
    <3>2. \E a \in {"ok", "locked", "error"} : Answer(r, a)
      BY <2>8 DEF Sent, Commit, Abort
    <3>. QED  BY <1>1, <3>1, <3>2, AnswerVouched
  <2>. QED  BY <2>1, <2>2, <2>3, <2>4, <2>5, <2>6, <2>7, <2>8 DEF Serve
<1>. QED  BY <1>1, <1>2, <1>3 DEF LockOK

(* What a page shows comes from an answer to "info".                        *)
LEMMA ReactShows ==
  ASSUME Inv, NEW r \in reqs, NEW answer, NEW others, React(r, answer, others),
         NEW v \in Visitors, view'[v] \in Kinds
  PROVE  view[v] \in Kinds \/ (v = r.who /\ r.kind = "info" /\ answer = "ok")
<1>1. view \in [Visitors -> {"loading", "error", "password", "checking"} \cup Kinds]
  BY DEF Inv, TypeOK
<1>2. CASE Loaded(r, answer, others)
  BY <1>1, <1>2 DEF Loaded, Shows, Kinds
<1>3. CASE UnlockAnswer(r, answer, others)
  BY <1>1, <1>3 DEF UnlockAnswer, Shows, Kinds
<1>4. CASE ListAnswer(r, answer, others) \/ PutAnswer(r, answer, others)
  BY <1>4 DEF ListAnswer, PutAnswer
<1>. QED  BY <1>2, <1>3, <1>4 DEF React

LEMMA PageShows ==
  ASSUME Inv, LockOK, link.locked, [Next]_vars, PageStep, ~ \E r \in reqs : Serve(r)
  PROVE  \A v \in Visitors : view'[v] \in Kinds => v \in typed
<1>1. ASSUME NEW r \in reqs, Receive(r), NEW v \in Visitors, view'[v] \in Kinds
      PROVE  v \in typed
  <2>1. view[v] \in Kinds \/ (v = r.who /\ r.kind = "info" /\ r.answer = "ok")
    BY <1>1, ReactShows DEF Receive
  <2>. QED  BY <1>1, <2>1 DEF Receive, LockOK, Vouched
<1>2. ASSUME NEW r \in reqs, Lost(r), NEW v \in Visitors, view'[v] \in Kinds
      PROVE  v \in typed
  <2>1. view[v] \in Kinds
    BY <1>2, ReactShows DEF Lost
  <2>. QED  BY <2>1 DEF LockOK
<1>3. ASSUME NEW u \in Visitors, NEW right \in BOOLEAN, SubmitPassword(u, right),
             NEW v \in Visitors, view'[v] \in Kinds
      PROVE  v \in typed
  <2>1. view \in [Visitors -> {"loading", "error", "password", "checking"} \cup Kinds]
    BY DEF Inv, TypeOK
  <2>2. view[v] \in Kinds
    BY <1>3, <2>1 DEF SubmitPassword, Shows, Kinds
  <2>. QED  BY <2>2 DEF LockOK
<1>4. ASSUME \/ LinkEnds \/ UNCHANGED vars
             \/ \E u \in Visitors :
                  \/ ProofEnds(u) \/ ClickMore(u) \/ Download(u)
                  \/ \E f \in Folders : OpenFolder(u, f)
                  \/ \E i \in Items : Queue(u, i)
      PROVE  view' = view
  BY <1>4 DEF LinkEnds, ProofEnds, ClickMore, Download, OpenFolder, Queue, vars, page
<1>5. CASE view' = view
  BY <1>5 DEF LockOK
<1>. QED  BY <1>1, <1>2, <1>3, <1>4, <1>5 DEF Next

LEMMA LockKept ==
  ASSUME Inv, LockOK, [Next]_vars
  PROVE  LockOK'
<1>1. CASE \E r \in reqs : Serve(r)
  BY <1>1, ServeVouches
<1>2. CASE LinkEnds \/ \E v \in Visitors : ProofEnds(v)
  BY <1>2 DEF LinkEnds, ProofEnds, LockOK, Vouched, page, history
<1>3. CASE PageStep /\ ~ \E r \in reqs : Serve(r)
  <2>1. UNCHANGED <<link, proofs, typed>>
    BY <1>3 DEF PageStep, server, history
  <2>2. SUFFICES ASSUME link.locked
                 PROVE  LockOK'
    BY <2>1 DEF LockOK
  <2>3. PICK others : Left(others) /\ Sends(others)
    BY <1>3 DEF PageStep
  <2>4. ASSUME NEW q \in others
        PROVE  Vouched(q)
    <3>1. CASE q \in reqs
      BY <2>2, <3>1 DEF LockOK
    <3>2. ASSUME NEW r \in reqs, q = Unheard(r)
          PROVE  Vouched(q)
      <4>1. q.stage = r.stage /\ q.kind = r.kind /\ q.answer = r.answer /\ q.who = r.who
        BY <3>2 DEF Unheard, Inv, TypeOK, Requests
      <4>. QED  BY <2>2, <4>1 DEF LockOK, Vouched
    <3>. QED  BY <2>3, <3>1, <3>2 DEF Left
  <2>5. \A q \in reqs' : Vouched(q)'
    BY <2>1, <2>3, <2>4 DEF Sends, Vouched
  <2>6. \A v \in Visitors : view'[v] \in Kinds => v \in typed
    BY <1>3, <2>2, PageShows
  <2>. QED  BY <2>1, <2>2, <2>5, <2>6 DEF LockOK
<1>. QED  BY <1>1, <1>2, <1>3, Steps

(* A locked link shows and sends nothing to a visitor who never gave its    *)
(* password, whatever answers are late or lost.                             *)
THEOREM LinkLocked == Spec => []OnlyUnlocked
<1>1. Init => LockOK
  <2>1. SUFFICES ASSUME Init
                 PROVE  LockOK
    OBVIOUS
  <2>2. proofs = {} /\ (\A r \in reqs : r.stage = "sent") /\ view = [v \in Visitors |-> "loading"]
    BY <2>1 DEF Init
  <2>. QED  BY <2>2 DEF LockOK, Vouched, Kinds
<1>2. LockOK => OnlyUnlocked
  BY DEF LockOK, Vouched, OnlyUnlocked
<1>. QED  BY <1>1, <1>2, LockKept, Invariance, PTL DEF Spec

-----------------------------------------------------------------------------
(* The files.  A document that is being written is its writer's alone; a    *)
(* temporary file is not named yet, but will not take the owner's name.     *)

Writes(r) == r.stage = "writing"
WritesOwn(r) ==
  IF link.direct THEN dir[r.name] # Owners
  ELSE dir[r.name].is = "part" /\ \A q \in reqs : Writes(q) /\ q.name = r.name => q = r
DirOK == \A r \in reqs : Writes(r) => WritesOwn(r)

LEMMA NoNewWriter ==
  ASSUME Inv, DirOK, UNCHANGED <<link, dir>>, \A q \in reqs' : Writes(q) => q \in reqs
  PROVE  DirOK'
BY DEF DirOK, WritesOwn, Writes

LEMMA VisitorsFile ==
  ASSUME NEW v, NEW i
  PROVE  File(v, i) # Owners /\ Part(v, i).is = "part" /\ Free # Owners /\ Free.is = "free"
<1>1. <<v, i>> # <<>>
  OBVIOUS
<1>. QED  BY <1>1 DEF File, Part, Owners, Free

LEMMA OpenWriteOwns ==
  ASSUME Inv, DirOK, NEW r \in reqs, OpenWrite(r)
  PROVE  DirOK'
<1>1. link' = link /\ r.stage = "named" /\ dir \in [1..MaxFiles -> Files]
  BY DEF OpenWrite, Inv, TypeOK
<1>2. CASE Answer(r, "error") /\ UNCHANGED dir
  <2>1. \A q \in reqs' : Writes(q) => q \in reqs
    BY <1>2, IsAnswered DEF Follows, Writes
  <2>. QED  BY <1>1, <1>2, <2>1, NoNewWriter
<1>3. ASSUME NEW n \in 1..MaxFiles, dir[n] = Free,
             Becomes(r, [r EXCEPT !.stage = "writing", !.name = n]),
             dir' = IF link.direct THEN dir ELSE [dir EXCEPT ![n] = Part(r.who, r.item)]
      PROVE  DirOK'
  <2>1. PICK s : Follows(r, s, "writing", n)
    BY <1>3, GoesOnAs
  <2>2. CASE link.direct
    BY <1>1, <1>3, <2>1, <2>2, VisitorsFile DEF DirOK, WritesOwn, Writes, Follows
  <2>3. CASE ~link.direct
    <3>1. dir'[n].is = "part" /\ \A m \in 1..MaxFiles : m # n => dir'[m] = dir[m]
      BY <1>1, <1>3, <2>3, VisitorsFile
    <3>2. \A q \in reqs : Writes(q) => q.name \in 1..MaxFiles /\ q.name # n
      BY <1>3, <2>3, VisitorsFile DEF DirOK, WritesOwn, Writes, Inv, ReqOK
    <3>3. \A q \in reqs' : q = s \/ (q \in reqs /\ q # r)
      BY <2>1 DEF Follows
    <3>4. s.name = n
      BY <2>1 DEF Follows
    <3>. QED  BY <1>1, <2>3, <3>1, <3>2, <3>3, <3>4 DEF DirOK, WritesOwn, Writes
  <2>. QED  BY <2>2, <2>3
<1>4. ASSUME NEW n \in 1..MaxFiles, dir[n] = Free, Answer(r, "error"),
             dir' = IF link.direct THEN dir ELSE [dir EXCEPT ![n] = Part(r.who, r.item)]
      PROVE  DirOK'
  (* A document that could not be opened stays behind: it was nobody else's. *)
  <2>1. \A q \in reqs' : Writes(q) => q \in reqs /\ q.name \in 1..MaxFiles
    BY <1>4, IsAnswered DEF Follows, Writes, Inv, ReqOK
  <2>2. CASE link.direct
    BY <1>1, <1>4, <2>1, <2>2, NoNewWriter
  <2>3. CASE ~link.direct
    <3>1. dir'[n].is = "part" /\ \A m \in 1..MaxFiles : m # n => dir'[m] = dir[m]
      BY <1>1, <1>4, <2>3, VisitorsFile
    <3>. QED  BY <1>1, <2>1, <2>3, <3>1 DEF DirOK, WritesOwn
  <2>. QED  BY <2>2, <2>3
<1>. QED  BY <1>2, <1>3, <1>4, Opened

LEMMA TransferEndOwns ==
  ASSUME Inv, DirOK, NEW r \in reqs, Commit(r) \/ Abort(r)
  PROVE  DirOK'
<1>1. link' = link /\ Writes(r) /\ dir \in [1..MaxFiles -> Files] /\ r.name \in 1..MaxFiles
  BY DEF Commit, Abort, Writes, Inv, TypeOK, ReqOK
<1>2. \A q \in reqs' : Writes(q) => q \in reqs /\ q # r /\ q.name \in 1..MaxFiles
  <2>1. \E a \in {"ok", "locked", "error"} : Answer(r, a)
    BY DEF Commit, Abort
  <2>2. \A q \in reqs' : Writes(q) => q \in reqs /\ q # r
    BY <2>1, IsAnswered DEF Follows, Writes
  <2>. QED  BY <2>2 DEF Inv, ReqOK, Writes
<1>3. CASE link.direct
  <2>1. \A m \in 1..MaxFiles : dir'[m] = dir[m] \/ dir'[m] # Owners
    <3>1. CASE Commit(r)
      <4>1. File(r.who, r.item) # Owners
        BY VisitorsFile
      <4>2. dir' = [dir EXCEPT ![r.name] = File(r.who, r.item)]
        BY <3>1 DEF Commit
      <4>. QED  BY <1>1, <4>1, <4>2
    <3>2. CASE Abort(r)
      BY <1>3, <3>2 DEF Abort
    <3>. QED  BY <3>1, <3>2
  <2>. QED  BY <1>1, <1>2, <1>3, <2>1 DEF DirOK, WritesOwn
<1>4. CASE ~link.direct
  <2>1. \A q \in reqs' : Writes(q) => q.name # r.name
    BY <1>1, <1>2, <1>4 DEF DirOK, WritesOwn
  <2>2. \A m \in 1..MaxFiles : m # r.name => dir'[m] = dir[m]
    BY <1>1, <1>4 DEF Commit, Abort
  <2>. QED  BY <1>1, <1>2, <1>4, <2>1, <2>2 DEF DirOK, WritesOwn
<1>. QED  BY <1>3, <1>4

LEMMA QuietOwns ==
  ASSUME Inv, DirOK, NEW r \in reqs, Serve(r), ~OpenWrite(r), ~Commit(r), ~Abort(r)
  PROVE  DirOK' /\ dir' = dir
<1>1. UNCHANGED <<link, dir>>
  BY DEF Serve, OpenLink, Refuse, Info, Entries, Plan, StartDownload, Claim, StartCheck, Verified,
         TryUse, Sent, ResolveName, server
<1>2. \/ \E a \in {"ok", "locked", "error"} : Answer(r, a)
      \/ \E st \in {"opened", "planned", "claiming", "resuming", "verify", "used", "sending"} :
           Goes(r, st)
      \/ \E st \in {"used", "named"} : \E n : Becomes(r, [r EXCEPT !.stage = st, !.name = n])
  BY DEF Serve, OpenLink, Refuse, Info, Entries, Plan, StartDownload, Claim, StartCheck, Verified,
         TryUse, Sent, ResolveName
<1>3. \A q \in reqs' : Writes(q) => q \in reqs
  <2>1. ASSUME NEW a \in {"ok", "locked", "error"}, Answer(r, a)
        PROVE  \A q \in reqs' : Writes(q) => q \in reqs
    BY <2>1, IsAnswered DEF Follows, Writes
  <2>2. ASSUME NEW st \in {"opened", "planned", "claiming", "resuming", "verify", "used", "sending"},
               Goes(r, st)
        PROVE  \A q \in reqs' : Writes(q) => q \in reqs
    BY <2>2, GoesOn DEF Follows, Writes
  <2>3. ASSUME NEW st \in {"used", "named"}, NEW n,
               Becomes(r, [r EXCEPT !.stage = st, !.name = n])
        PROVE  \A q \in reqs' : Writes(q) => q \in reqs
    <3>1. PICK s : Follows(r, s, st, n)
      BY <2>3, GoesOnAs
    <3>. QED  BY <3>1 DEF Follows, Writes
  <2>. QED  BY <1>2, <2>1, <2>2, <2>3
<1>. QED  BY <1>1, <1>3, NoNewWriter

LEMMA PageOwns ==
  ASSUME Inv, DirOK, PageStep
  PROVE  DirOK' /\ dir' = dir
<1>1. UNCHANGED <<link, dir>>
  BY DEF PageStep, server
<1>2. PICK others : Left(others) /\ Sends(others)
  BY DEF PageStep
<1>3. \A q \in reqs' : Writes(q) => q \in others
  BY <1>2 DEF Sends, Writes
<1>4. CASE others = reqs \/ \E r \in reqs : others = reqs \ {r}
  BY <1>1, <1>3, <1>4, NoNewWriter
<1>5. ASSUME NEW r \in reqs, others = (reqs \ {r}) \cup {Unheard(r)}
      PROVE  DirOK'
  <2>. DEFINE s == Unheard(r)
  <2>1. s.stage = r.stage /\ s.name = r.name
    BY DEF Unheard, Inv, TypeOK, Requests
  <2>. HIDE DEF s
  <2>2. \A q \in reqs' : Writes(q) => q = s \/ (q \in reqs /\ q # r)
    BY <1>3, <1>5 DEF s
  <2>3. CASE Writes(r)
    <3>1. WritesOwn(r)
      BY <2>3 DEF DirOK
    <3>2. CASE link.direct
      BY <1>1, <2>1, <2>2, <3>1, <3>2 DEF DirOK, WritesOwn
    <3>3. CASE ~link.direct
      <4>1. \A q \in reqs' : Writes(q) /\ q # s => q.name # s.name
        BY <2>1, <2>2, <3>1, <3>3 DEF WritesOwn
      <4>. QED  BY <1>1, <2>1, <2>2, <3>1, <3>3, <4>1 DEF DirOK, WritesOwn
    <3>. QED  BY <3>2, <3>3
  <2>4. CASE ~Writes(r)
    <3>1. ~Writes(s)
      BY <2>1, <2>4 DEF Writes
    <3>. QED  BY <1>1, <2>2, <3>1, NoNewWriter
  <2>. QED  BY <2>3, <2>4
<1>. QED  BY <1>1, <1>2, <1>4, <1>5 DEF Left

LEMMA TimeOwns ==
  ASSUME DirOK, LinkEnds \/ \E v \in Visitors : ProofEnds(v)
  PROVE  DirOK' /\ dir' = dir
BY DEF LinkEnds, ProofEnds, DirOK, WritesOwn, Writes

LEMMA DirKept ==
  ASSUME Inv, DirOK, [Next]_vars
  PROVE  DirOK'
BY Steps, OpenWriteOwns, TransferEndOwns, QuietOwns, PageOwns, TimeOwns

LEMMA StepKeepsFiles ==
  ASSUME Inv, DirOK, [Next]_vars, NEW n \in 1..MaxFiles,
         Whole(dir[n]), ~link.direct \/ dir[n] = Owners \/ ~Aimed(n)
  PROVE  dir'[n] = dir[n]
<1>1. dir \in [1..MaxFiles -> Files]
  BY DEF Inv, TypeOK
<1>2. ASSUME NEW r \in reqs, OpenWrite(r)
      PROVE  dir'[n] = dir[n]
  BY <1>1, <1>2, Opened, VisitorsFile DEF Whole
<1>3. ASSUME NEW r \in reqs, Commit(r) \/ Abort(r)
      PROVE  dir'[n] = dir[n]
  <2>1. r.stage = "writing"
    BY <1>3 DEF Commit, Abort
  <2>2. r.name # n
    BY <2>1 DEF DirOK, WritesOwn, Writes, Whole, Aimed
  <2>. QED  BY <1>1, <1>3, <2>2 DEF Commit, Abort
<1>4. ASSUME NEW r \in reqs, Serve(r), ~OpenWrite(r), ~Commit(r), ~Abort(r)
      PROVE  dir'[n] = dir[n]
  BY <1>4, QuietOwns
<1>. QED  BY <1>2, <1>3, <1>4, PageOwns, TimeOwns, Steps

(* No upload finds its name where a whole file is.                          *)
LEMMA ServeAims ==
  ASSUME Inv, NEW r \in reqs, Serve(r), NEW n \in 1..MaxFiles, Whole(dir[n]), Aimed(n)'
  PROVE  Aimed(n)
<1>1. PICK q \in reqs' : q.stage \in {"named", "writing"} /\ q.name = n
  BY DEF Aimed
<1>2. CASE q \in reqs
  BY <1>1, <1>2 DEF Aimed
<1>3. CASE q \notin reqs
  <2>1. dir[n] # Free
    BY DEF Whole, Free
  <2>2. CASE ResolveName(r)
    <3>1. CASE Answer(r, "error")
      BY <1>1, <1>3, <3>1, IsAnswered DEF Follows
    <3>2. CASE ~Answer(r, "error")
      <4>. DEFINE st == IF dir[r.name + 1] = Free THEN "named" ELSE "used"
      <4>1. Becomes(r, [r EXCEPT !.stage = st, !.name = r.name + 1])
        BY <2>2, <3>2 DEF ResolveName
      <4>. HIDE DEF st
      <4>2. PICK s : Follows(r, s, st, r.name + 1)
        BY <4>1, GoesOnAs
      <4>3. q.stage = st /\ q.name = r.name + 1
        BY <1>3, <4>2 DEF Follows
      <4>. QED  BY <1>1, <2>1, <4>3 DEF st
    <3>. QED  BY <3>1, <3>2
  <2>3. CASE OpenWrite(r)
    <3>1. CASE Answer(r, "error")
      BY <1>1, <1>3, <3>1, IsAnswered DEF Follows
    <3>2. ASSUME NEW m \in 1..MaxFiles, dir[m] = Free,
                 Becomes(r, [r EXCEPT !.stage = "writing", !.name = m])
          PROVE  FALSE
      <4>1. PICK s : Follows(r, s, "writing", m)
        BY <3>2, GoesOnAs
      <4>2. q.name = m
        BY <1>3, <4>1 DEF Follows
      <4>. QED  BY <1>1, <2>1, <3>2, <4>2
    <3>. QED  BY <2>3, <3>1, <3>2, Opened
  <2>4. CASE ~ResolveName(r) /\ ~OpenWrite(r)
    <3>1. \/ \E a \in {"ok", "locked", "error"} : Answer(r, a)
          \/ \E st \in {"opened", "planned", "claiming", "resuming", "verify", "used", "sending"} :
               Goes(r, st)
      BY <2>4 DEF Serve, OpenLink, Refuse, Info, Entries, Plan, StartDownload, Claim, StartCheck,
                  Verified, TryUse, Sent, Commit, Abort
    <3>. QED  BY <1>1, <1>3, <3>1, IsAnswered, GoesOn DEF Follows
  <2>. QED  BY <2>2, <2>3, <2>4
<1>. QED  BY <1>2, <1>3

LEMMA PageAims ==
  ASSUME Inv, PageStep, NEW n, Aimed(n)'
  PROVE  Aimed(n)
<1>1. PICK q \in reqs' : q.stage \in {"named", "writing"} /\ q.name = n
  BY DEF Aimed
<1>2. PICK others : Left(others) /\ Sends(others)
  BY DEF PageStep
<1>3. q \in others
  BY <1>1, <1>2 DEF Sends
<1>4. ASSUME NEW r \in reqs
      PROVE  Unheard(r).stage = r.stage /\ Unheard(r).name = r.name
  BY DEF Unheard, Inv, TypeOK, Requests
<1>. QED  BY <1>1, <1>2, <1>3, <1>4 DEF Left, Aimed

LEMMA StepKeepsAims ==
  ASSUME Inv, [Next]_vars, NEW n \in 1..MaxFiles, Whole(dir[n]), Aimed(n)'
  PROVE  Aimed(n)
<1>1. LinkEnds \/ (\E v \in Visitors : ProofEnds(v)) => reqs' = reqs
  BY DEF LinkEnds, ProofEnds
<1>. QED  BY <1>1, ServeAims, PageAims, Steps DEF Aimed

(* On SAF no upload changes a whole file that is in the folder; on          *)
(* direct-path storage none changes a file the owner had there, and only    *)
(* one that found the name free before a visitor's file was there replaces  *)
(* that.  Names are found in one step and taken in a later one, and an      *)
(* upload may go on after its page gave up on it.                           *)
THEOREM LinkFiles == Spec => UploadsKeep
<1>1. Init => DirOK
  BY DEF Init, DirOK, Writes
<1>2. Inv /\ DirOK /\ [Next]_vars =>
        [\A n \in 1..MaxFiles : Whole(dir[n]) =>
           /\ ~link.direct \/ dir[n] = Owners \/ ~Aimed(n) => dir'[n] = dir[n]
           /\ Aimed(n)' => Aimed(n)]_vars
  BY StepKeepsFiles, StepKeepsAims
<1>. QED  BY <1>1, <1>2, DirKept, Invariance, PTL DEF Spec, UploadsKeep

-----------------------------------------------------------------------------
(* The queue of an upload page: one file at a time, in turn.                *)

(* The uploads a page of v waits for.                                       *)
Out(v, rs) == {r \in rs : r.kind = "put" /\ r.heard /\ r.who = v}

(* The items st of v and the flag of pump fit the requests rs: the item     *)
(* that is out has the one request; what comes before it is over; files     *)
(* are taken from the front.                                                *)
Fits(v, st, busy, rs) ==
  /\ \A q, r \in Out(v, rs) : q = r
  /\ \A r \in Out(v, rs) : r.item \in Items /\ st[r.item] = "sending"
  /\ \A i \in Items : st[i] = "sending" => \E r \in Out(v, rs) : r.item = i
  /\ busy <=> \E i \in Items : st[i] = "sending"
  /\ \A i, j \in Items : i < j /\ st[j] = "sending" => st[i] \in {"sent", "failed"}
  /\ \A i, j \in Items : i < j /\ st[j] # "unused" => st[i] # "unused"

QueueOK == \A v \in Visitors : Fits(v, items[v], sending[v], reqs)

(* A handler answers or goes on; who waits for it and for what stays.       *)
LEMMA ServeFollows ==
  ASSUME Inv, NEW r \in reqs, Serve(r)
  PROVE  /\ UNCHANGED page
         /\ \/ ~r.heard /\ reqs' = reqs \ {r}
            \/ \E s, st, n : Follows(r, s, st, n)
<1>1. UNCHANGED page
  BY DEF Serve, OpenLink, Refuse, Info, Entries, Plan, StartDownload, Claim, StartCheck, Verified,
         TryUse, Sent, ResolveName, OpenWrite, Commit, Abort
<1>2. \/ \E a \in {"ok", "locked", "error"} : Answer(r, a)
      \/ \E st : Goes(r, st)
      \/ \E st, n : Becomes(r, [r EXCEPT !.stage = st, !.name = n])
  <2>1. CASE OpenWrite(r)
    BY <2>1, Opened
  <2>2. CASE ~OpenWrite(r)
    BY <2>2 DEF Serve, OpenLink, Refuse, Info, Entries, Plan, StartDownload, Claim, StartCheck, Verified,
         TryUse, Sent, ResolveName, Commit, Abort
  <2>. QED  BY <2>1, <2>2
<1>. QED  BY <1>1, <1>2, IsAnswered, GoesOn, GoesOnAs

LEMMA ServeFits ==
  ASSUME Inv, QueueOK, NEW r \in reqs, Serve(r)
  PROVE  QueueOK'
<1>1. UNCHANGED <<items, sending>>
  BY ServeFollows DEF page
<1>2. ASSUME NEW v \in Visitors, ~r.heard, reqs' = reqs \ {r}
      PROVE  Fits(v, items[v], sending[v], reqs')
  <2>1. Out(v, reqs') = Out(v, reqs)
    BY <1>2 DEF Out
  <2>. QED  BY <2>1 DEF QueueOK, Fits
<1>3. ASSUME NEW v \in Visitors, NEW s, NEW st, NEW n, Follows(r, s, st, n)
      PROVE  Fits(v, items[v], sending[v], reqs')
  <2>1. /\ s.who = r.who /\ s.kind = r.kind /\ s.item = r.item /\ s.heard = r.heard
        /\ reqs' = (reqs \ {r}) \cup {s}
    BY <1>3 DEF Follows
  <2>2. CASE r \in Out(v, reqs)
    <3>1. Out(v, reqs') = (Out(v, reqs) \ {r}) \cup {s}
      BY <2>1, <2>2 DEF Out
    <3>2. Fits(v, items[v], sending[v], reqs)
      BY DEF QueueOK
    <3>3. \A q \in Out(v, reqs) : q = r
      BY <2>2, <3>2 DEF Fits
    <3>4. Out(v, reqs') = {s}
      BY <3>1, <3>3
    <3>. QED  BY <2>1, <2>2, <3>2, <3>3, <3>4 DEF Fits
  <2>3. CASE r \notin Out(v, reqs)
    <3>1. Out(v, reqs') = Out(v, reqs)
      BY <2>1, <2>3 DEF Out
    <3>. QED  BY <3>1 DEF QueueOK, Fits
  <2>. QED  BY <2>2, <2>3
<1>. QED  BY <1>1, <1>2, <1>3, ServeFollows DEF QueueOK

(* pump sends the first file that waits, unless one is out.                 *)
LEMMA PumpFits ==
  ASSUME PageTypes, NEW v \in Visitors, NEW st \in [Items -> ItemStates], NEW busy \in BOOLEAN,
         NEW others, Fits(v, st, busy, others), Pump(v, st, busy, others), unlock' = unlock
  PROVE  /\ Fits(v, items'[v], sending'[v], reqs')
         /\ \A u \in Visitors \ {v} :
              items'[u] = items[u] /\ sending'[u] = sending[u] /\ Out(u, reqs') = Out(u, others)
<1>. DEFINE waiting == {i \in Items : st[i] = "waiting"}
            m == Min(waiting)
            a == Ask(v, "put")
            s == [a EXCEPT !.item = m]
<1>0. items \in [Visitors -> [Items -> ItemStates]] /\ sending \in [Visitors -> BOOLEAN]
  BY DEF PageTypes, ItemStates
<1>1. CASE Holds(busy, waiting)
  <2>1. /\ items' = [items EXCEPT ![v] = st] /\ sending' = [sending EXCEPT ![v] = busy]
        /\ reqs' = others
    BY <1>1 DEF Pump
  <2>. QED  BY <1>0, <2>1
<1>2. CASE ~Holds(busy, waiting)
  <2>1. ~busy /\ waiting # {} /\ waiting \in SUBSET Nat
    BY <1>2, CountsAssumption DEF Holds, Items
  <2>2. m \in waiting /\ \A i \in waiting : m <= i
    BY <2>1, MinIsLeast
  <2>3. a \in Requests /\ a.who = v /\ a.kind = "put" /\ a.heard
    BY Asked DEF PageTypes
  <2>4. /\ items' = [items EXCEPT ![v] = [st EXCEPT ![m] = "sending"]]
        /\ sending' = [sending EXCEPT ![v] = TRUE] /\ reqs' = others \cup {s}
    BY <1>2 DEF Pump
  <2>. HIDE DEF a, m
  <2>5. s.who = v /\ s.kind = "put" /\ s.heard /\ s.item = m
    BY <2>3 DEF Requests
  <2>. HIDE DEF s
  <2>6. Out(v, others) = {}
    BY <2>1 DEF Fits
  <2>7. Out(v, reqs') = {s} /\ \A u \in Visitors \ {v} : Out(u, reqs') = Out(u, others)
    BY <2>4, <2>5, <2>6 DEF Out
  <2>8. m \in Items /\ st[m] = "waiting" /\ \A i \in Items : st[i] = "waiting" => m <= i
    BY <2>2
  <2>9. \A i \in Items : st[i] # "sending" /\ i \in Int
    BY <2>1, CountsAssumption DEF Fits, Items
  <2>10. \A i \in Items : i < m => st[i] \in {"sent", "failed"}
    BY <2>8, <2>9, CountsAssumption DEF Fits, ItemStates, Items
  <2>. DEFINE new == [st EXCEPT ![m] = "sending"]
  <2>11. new[m] = "sending" /\ \A i \in Items : i # m => new[i] = st[i]
    BY <2>8
  <2>12. items'[v] = new /\ sending'[v] = TRUE
    BY <1>0, <2>4
  <2>. HIDE DEF new
  <2>13. Fits(v, new, TRUE, reqs')
    <3>1. \A i, j \in Items : i < j /\ new[j] = "sending" => new[i] \in {"sent", "failed"}
      BY <2>8, <2>9, <2>10, <2>11
    <3>2. \A i, j \in Items : i < j /\ new[j] # "unused" => new[i] # "unused"
      BY <2>8, <2>11 DEF Fits
    <3>3. \A i \in Items : new[i] = "sending" <=> i = m
      BY <2>8, <2>9, <2>11
    <3>. QED  BY <2>5, <2>7, <2>8, <2>11, <3>1, <3>2, <3>3 DEF Fits
  <2>14. \A u \in Visitors \ {v} : items'[u] = items[u] /\ sending'[u] = sending[u]
    BY <1>0, <2>4
  <2>. QED  BY <2>7, <2>12, <2>13, <2>14
<1>. QED  BY <1>1, <1>2

(* A page that deals with the answer to r, which it waited for.             *)
LEMMA ReactFits ==
  ASSUME Inv, QueueOK, NEW r \in reqs, r.heard, NEW answer, NEW others, React(r, answer, others),
         \A v \in Visitors : Out(v, others) = Out(v, reqs) \ {r}
  PROVE  QueueOK'
<1>1. r.who \in Visitors /\ (r.kind = "put" => r.item \in Items) /\ PageTypes
  BY TypeParts DEF Inv, TypeOK, ReqOK, Requests
<1>2. ASSUME r.kind # "put", UNCHANGED <<items, sending>>, \A q \in reqs' \ others : q.kind # "put",
             others \subseteq reqs'
      PROVE  QueueOK'
  <2>1. \A v \in Visitors : Out(v, reqs') = Out(v, reqs)
    BY <1>2 DEF Out
  <2>. QED  BY <1>2, <2>1 DEF QueueOK, Fits
<1>3. CASE Loaded(r, answer, others)
  <2>1. [Ask(r.who, "list") EXCEPT !.folder = "/"].kind = "list"
    BY DEF Ask
  <2>2. (\A q \in reqs' \ others : q.kind # "put") /\ others \subseteq reqs'
    BY <1>3, <2>1 DEF Loaded, LoadFolder
  <2>. QED  BY <1>2, <1>3, <2>2 DEF Loaded
<1>4. CASE UnlockAnswer(r, answer, others)
  <2>1. Ask(r.who, "info").kind = "info"
    BY DEF Ask
  <2>2. (\A q \in reqs' \ others : q.kind # "put") /\ others \subseteq reqs'
    BY <1>4, <2>1 DEF UnlockAnswer
  <2>. QED  BY <1>2, <1>4, <2>2 DEF UnlockAnswer
<1>5. CASE ListAnswer(r, answer, others)
  BY <1>2, <1>5 DEF ListAnswer
<1>6. CASE PutAnswer(r, answer, others)
  <2>. DEFINE v == r.who
              over == IF answer = "ok" THEN "sent" ELSE "failed"
              st == [items[v] EXCEPT ![r.item] = over]
  <2>1. r.kind = "put" /\ Pump(v, st, FALSE, others) /\ unlock' = unlock
    BY <1>6 DEF PutAnswer
  <2>2. items[v] \in [Items -> ItemStates] /\ st \in [Items -> ItemStates]
    BY <1>1 DEF PageTypes, ItemStates
  <2>3. Fits(v, items[v], sending[v], reqs) /\ r \in Out(v, reqs)
    BY <1>1, <2>1 DEF QueueOK, Out
  <2>4. over \in {"sent", "failed"} /\ st[r.item] = over /\ \A i \in Items : i # r.item => st[i] = items[v][i]
    BY <1>1, <2>1, <2>2
  <2>. HIDE DEF st, over
  <2>5. Out(v, others) = {}
    BY <1>1, <2>3 DEF Fits
  <2>6. \A i \in Items : st[i] # "sending"
    BY <2>3, <2>4 DEF Fits
  <2>7. \A i, j \in Items : i < j /\ st[j] # "unused" => st[i] # "unused"
    BY <1>1, <2>1, <2>3, <2>4 DEF Fits
  <2>8. Fits(v, st, FALSE, others)
    BY <2>5, <2>6, <2>7 DEF Fits
  <2>9. /\ Fits(v, items'[v], sending'[v], reqs')
        /\ \A u \in Visitors \ {v} :
             items'[u] = items[u] /\ sending'[u] = sending[u] /\ Out(u, reqs') = Out(u, others)
    BY <1>1, <2>1, <2>2, <2>8, PumpFits
  <2>10. \A u \in Visitors \ {v} : Out(u, others) = Out(u, reqs)
    BY DEF Out
  <2>11. \A u \in Visitors \ {v} : Fits(u, items'[u], sending'[u], reqs')
    BY <2>9, <2>10 DEF QueueOK, Fits
  <2>. QED  BY <1>1, <2>9, <2>11 DEF QueueOK
<1>. QED  BY <1>3, <1>4, <1>5, <1>6 DEF React

LEMMA AnswersFit ==
  ASSUME Inv, QueueOK, NEW r \in reqs, Receive(r) \/ Lost(r)
  PROVE  QueueOK'
<1>1. r.heard
  BY DEF Receive, Lost, Inv, ReqOK
<1>2. \A v \in Visitors : Out(v, reqs \ {r}) = Out(v, reqs) \ {r}
  BY DEF Out
<1>3. \A v \in Visitors : Out(v, (reqs \ {r}) \cup {[r EXCEPT !.heard = FALSE]}) = Out(v, reqs) \ {r}
  <2>1. ~[r EXCEPT !.heard = FALSE].heard
    BY DEF Inv, TypeOK, Requests
  <2>. QED  BY <2>1 DEF Out
<1>. QED  BY <1>1, <1>2, <1>3, ReactFits DEF Receive, Lost

LEMMA QueueFits ==
  ASSUME Inv, QueueOK, NEW v \in Visitors, NEW i \in Items, Queue(v, i)
  PROVE  QueueOK'
<1>. DEFINE st == [items[v] EXCEPT ![i] = "waiting"]
            unused == {j \in Items : items[v][j] = "unused"} \cup {MaxItems + 1}
<1>1. PageTypes /\ Pump(v, st, sending[v], reqs) /\ unlock' = unlock /\ i = Min(unused)
  BY TypeParts DEF Inv, Queue
<1>2. items[v] \in [Items -> ItemStates] /\ st \in [Items -> ItemStates] /\ sending[v] \in BOOLEAN
  BY <1>1 DEF PageTypes, ItemStates
<1>3. unused \in SUBSET Nat /\ unused # {}
  BY CountsAssumption DEF Items
<1>4. i \in unused /\ \A j \in unused : i <= j
  BY <1>1, <1>3, MinIsLeast
<1>5. items[v][i] = "unused" /\ \A j \in Items : items[v][j] = "unused" => i <= j
  BY <1>4, CountsAssumption DEF Items
<1>6. st[i] = "waiting" /\ \A j \in Items : j # i => st[j] = items[v][j]
  BY <1>2
<1>7. Fits(v, items[v], sending[v], reqs) /\ \A j \in Items : j \in Int
  BY CountsAssumption DEF QueueOK, Items
<1>. HIDE DEF st, unused
<1>8. \A j \in Items : st[j] = "sending" <=> items[v][j] = "sending"
  BY <1>5, <1>6
<1>9. \A j, k \in Items : j < k /\ st[k] = "sending" => st[j] \in {"sent", "failed"}
  BY <1>5, <1>6, <1>7, <1>8 DEF Fits
<1>10. \A j, k \in Items : j < k /\ st[k] # "unused" => st[j] # "unused"
  BY <1>5, <1>6, <1>7 DEF Fits
<1>11. \A r \in Out(v, reqs) : r.item \in Items
  BY DEF Out, Inv, ReqOK
<1>12. Fits(v, st, sending[v], reqs)
  BY <1>7, <1>8, <1>9, <1>10, <1>11 DEF Fits
<1>13. /\ Fits(v, items'[v], sending'[v], reqs')
       /\ \A u \in Visitors \ {v} :
            items'[u] = items[u] /\ sending'[u] = sending[u] /\ Out(u, reqs') = Out(u, reqs)
  BY <1>1, <1>2, <1>12, PumpFits
<1>14. \A u \in Visitors \ {v} : Fits(u, items'[u], sending'[u], reqs')
  BY <1>13 DEF QueueOK, Fits
<1>. QED  BY <1>13, <1>14 DEF QueueOK

(* Everything else sends no upload.                                         *)
LEMMA OthersFit ==
  ASSUME QueueOK,
         \/ LinkEnds \/ UNCHANGED vars
         \/ \E v \in Visitors :
              \/ ProofEnds(v) \/ ClickMore(v) \/ Download(v)
              \/ \E right \in BOOLEAN : SubmitPassword(v, right)
              \/ \E f \in Folders : OpenFolder(v, f)
  PROVE  QueueOK'
<1>1. UNCHANGED <<items, sending>>
  BY DEF LinkEnds, vars, page, ProofEnds, ClickMore, Download, SubmitPassword, OpenFolder
<1>2. ASSUME NEW v, NEW f
      PROVE  [Ask(v, "list") EXCEPT !.folder = f].kind = "list"
  BY DEF Ask
<1>3. ASSUME NEW v, NEW i
      PROVE  [Ask(v, "get") EXCEPT !.heard = FALSE, !.item = i].kind = "get"
  BY DEF Ask
<1>4. ASSUME NEW v, NEW right
      PROVE  [Ask(v, "unlock") EXCEPT !.right = right].kind = "unlock"
  BY DEF Ask
<1>5. reqs \subseteq reqs' /\ \A q \in reqs' \ reqs : q.kind # "put"
  <2>1. CASE reqs' = reqs
    BY <2>1
  <2>2. ASSUME NEW v \in Visitors, NEW f, NEW reset, LoadFolder(v, f, reset, reqs)
        PROVE  reqs \subseteq reqs' /\ \A q \in reqs' \ reqs : q.kind # "put"
    BY <1>2, <2>2 DEF LoadFolder
  <2>3. ASSUME NEW v \in Visitors, Download(v)
        PROVE  reqs \subseteq reqs' /\ \A q \in reqs' \ reqs : q.kind # "put"
    <3>1. \E i : reqs' = reqs \cup {[Ask(v, "get") EXCEPT !.heard = FALSE, !.item = i]}
      BY <2>3 DEF Download
    <3>. QED  BY <1>3, <3>1
  <2>4. ASSUME NEW v \in Visitors, NEW right, SubmitPassword(v, right)
        PROVE  reqs \subseteq reqs' /\ \A q \in reqs' \ reqs : q.kind # "put"
    BY <1>4, <2>4 DEF SubmitPassword
  <2>. QED  BY <2>1, <2>2, <2>3, <2>4 DEF LinkEnds, vars, ProofEnds, ClickMore, OpenFolder
<1>6. \A v \in Visitors : Out(v, reqs') = Out(v, reqs)
  BY <1>5 DEF Out
<1>. QED  BY <1>1, <1>6 DEF QueueOK, Fits

LEMMA QueueKept ==
  ASSUME Inv, QueueOK, [Next]_vars
  PROVE  QueueOK'
BY ServeFits, AnswersFit, QueueFits, OthersFit DEF Next

(* A page sends its files one at a time and in turn, and pump's flag says   *)
(* so, whatever requests fail.                                              *)
THEOREM Queueing == Spec => []OneAtATime
<1>1. Init => QueueOK
  <2>1. SUFFICES ASSUME Init
                 PROVE  QueueOK
    OBVIOUS
  <2>2. /\ \A r \in reqs : r.kind = "info"
        /\ \A v \in Visitors : sending[v] = FALSE /\ \A i \in Items : items[v][i] = "unused"
    BY <2>1 DEF Init
  <2>. QED  BY <2>2 DEF QueueOK, Fits, Out
<1>2. Inv /\ QueueOK => OneAtATime
  <2>1. SUFFICES ASSUME Inv, QueueOK, NEW v \in Visitors
                 PROVE  LET out == {i \in Items : items[v][i] = "sending"} IN
                        /\ sending[v] <=> out # {}
                        /\ {r.item : r \in {q \in reqs : q.kind = "put" /\ q.who = v /\ q.heard}} = out
                        /\ \A i \in out, j \in Items : j < i => items[v][j] \in {"sent", "failed"}
    BY DEF OneAtATime
  <2>2. Fits(v, items[v], sending[v], reqs)
    BY <2>1 DEF QueueOK
  <2>3. {q \in reqs : q.kind = "put" /\ q.who = v /\ q.heard} = Out(v, reqs)
    BY DEF Out
  <2>4. \A r \in Out(v, reqs) : r.item \in Items
    BY <2>2 DEF Fits
  <2>5. {r.item : r \in Out(v, reqs)} = {i \in Items : items[v][i] = "sending"}
    BY <2>2, <2>4 DEF Fits
  <2>. QED  BY <2>2, <2>3, <2>5 DEF Fits
<1>. QED  BY <1>1, <1>2, QueueKept, Invariance, PTL DEF Spec
=============================================================================
