------------------------ MODULE PortalSessionProofs ------------------------
(***************************************************************************)
(* Theorems about PortalSession, for any tokens and bounds.                *)
(***************************************************************************)
EXTENDS PortalSession, TLAPS, FiniteSetTheorems, WellFoundedInduction

(* All tokens there are were given out by the server.                       *)
Known ==
  /\ {token, stored, hash, resume} \subseteq issued \cup {None}
  /\ \A c \in calls : c.token \in issued \cup {None}
  /\ left \subseteq issued

(* The page knows nothing of a session that was signed out of; not even the *)
(* address bar does, which EndSession would take for the place to go to.    *)
Forgotten == {token, stored, hash, resume} \cap left = {}

(* The file that is out has one request, or the question, and no other is.  *)
Out == {i \in Items : status[i] = "uploading"}
IsPut(c) == c.kind \in {"put", "replace"}
Puts == {c \in calls : IsPut(c)}
Stopped == Out = {} /\ Puts = {} /\ ask = 0
Alone == \E i \in Items :
  /\ Out = {i}
  /\ \/ Puts = {} /\ ask = i
     \/ ask = 0 /\ \E c \in Puts : Puts = {c} /\ c.item = i
PumpOK == IF running THEN Alone ELSE Stopped

(* New files go behind those there are.                                     *)
InFront == \E k \in 0..MaxItems : \A i \in Items : status[i] # "unused" <=> i <= k

(* The button of the tray is not there while a file is out.                 *)
TrayOK == running => tray # "clear"

Agreed == policy = "replace" => blanket

QueueOK == PumpOK /\ InFront /\ TrayOK /\ Agreed
Inv == TypeOK /\ Known /\ Forgotten /\ QueueOK

(* What the page stores is the token it uses.                               *)
Same == token = stored

(* What the page is at, if no request was open at a sign-in.                *)
NobodyIn == ~shell /\ token = None /\ stored = None /\ entering = {}
SignedOut == NobodyIn /\ form = "ready" /\ \A c \in calls : c.kind # "login"
SigningIn == NobodyIn /\ form = "busy" /\ ask = 0 /\ \E c \in calls : calls = {c} /\ c.kind = "login"
ComingIn ==
  /\ ~shell /\ token # None /\ stored = token /\ entering = {token}
  /\ form \in {"busy", "none"} /\ ask = 0 /\ calls # {}
  /\ \A c \in calls : c.kind \in {"me", "roots"} /\ c.token = token
  /\ form = "busy" => \A c \in calls : c.kind = "roots"
SignedIn ==
  /\ shell /\ token # None /\ stored = token /\ entering = {} /\ form = "none"
  /\ \A c \in calls : c.kind \in {"page", "logout", "put", "replace"} /\ c.token = token
Phases == SignedOut \/ SigningIn \/ ComingIn \/ SignedIn
InPhase == late \/ Phases

-----------------------------------------------------------------------------
(* The queue.                                                              *)

LEMMA MinIsLeast ==
  ASSUME NEW S \in SUBSET Nat, S # {}
  PROVE  Min(S) \in S /\ \A y \in S : Min(S) <= y
<1>. DEFINE T == {1..n : n \in S}
<1>1. T \subseteq FiniteSubsetsOf(Nat) /\ T # {}
  <2>1. ASSUME NEW n \in S
        PROVE  1..n \in FiniteSubsetsOf(Nat)
    <3>1. IsFiniteSet(1..n)
      BY FS_Interval
    <3>2. 1..n \in SUBSET Nat
      OBVIOUS
    <3>. QED  BY <3>1, <3>2 DEF FiniteSubsetsOf
  <2>. QED  BY <2>1
<1>2. PICK X \in T : \A Y \in T : ~ (<<Y, X>> \in StrictSubsetOrdering(Nat))
  BY <1>1, FS_StrictSubsetOrderingWellFounded, WFMin, Zenon
<1>3. PICK x \in S : X = 1..x
  OBVIOUS
<1>4. ASSUME NEW y \in S, y < x
      PROVE  FALSE
  <2>1. 1..y \in T /\ 1..y \subseteq 1..x /\ 1..x \subseteq Nat
    BY <1>4
  <2>2. x \in 1..x /\ x \notin 1..y
    BY <1>4
  <2>3. <<1..y, X>> \in StrictSubsetOrdering(Nat)
    BY <1>3, <2>1, <2>2 DEF StrictSubsetOrdering
  <2>. QED  BY <1>2, <2>1, <2>3
<1>5. \A y \in S : x <= y
  BY <1>4
<1>. QED  BY <1>5 DEF Min

LEMMA CallIs ==
  ASSUME TypeOK, NEW kind, NEW t \in MaybeToken, NEW i \in 0..MaxItems,
         kind \in {"login", "me", "roots", "logout", "page", "put", "replace"}
  PROVE  /\ Call(kind, t, i) \in Calls /\ Call(kind, t, i).kind = kind
         /\ Call(kind, t, i).token = t /\ Call(kind, t, i).item = i
BY DEF Call, Calls

(* What pump and uploadOne may do to the queue.                             *)
QueueTyped ==
  /\ anyDone' \in BOOLEAN /\ running' \in BOOLEAN /\ status' \in [Items -> Statuses]
  /\ tray' \in {"hidden", "active", "clear"} /\ calls' \subseteq Calls
OneOut ==
  IF running' THEN \E i \in Items : Out' = {i} /\ \E c \in Puts' : Puts' = {c} /\ c.item = i
              ELSE Out' = {} /\ Puts' = {}
SameUse(st) == \A i \in Items : status'[i] = "unused" <=> st[i] = "unused"
Sent(c) == c.kind \in {"page", "put"} /\ c.token = token' /\ c.token # None

LEMMA PumpDoes ==
  ASSUME TypeOK, token' \in MaybeToken, shell' \in BOOLEAN, valid' = valid,
         NEW st \in [Items -> Statuses], NEW done \in BOOLEAN, NEW others \in SUBSET Calls,
         NEW drawn \in {"hidden", "active", "clear"}, PumpNext(st, done, others, drawn)
  PROVE  /\ QueueTyped /\ SameUse(st) /\ \A c \in calls' : c \in others \/ Sent(c)
         /\ drawn # "clear" => TrayOK'
         /\ (\A i \in Items : st[i] # "uploading") /\ (\A c \in others : ~IsPut(c)) => OneOut
<1>. DEFINE waiting == {i \in Items : st[i] = "waiting"}
            reload == Call("page", token', 0)
            m == Min(waiting)
            put == Call("put", token', m)
<1>0. 0 \in 0..MaxItems /\ MaxItems \in Nat /\ Items \subseteq 0..MaxItems
  BY BoundAssumption DEF Items
<1>1. reload \in Calls /\ reload.kind = "page" /\ reload.token = token'
  BY <1>0, CallIs
<1>2. anyDone' = done
  BY DEF PumpNext
<1>3. CASE waiting = {} \/ token' = None
  <2>1. /\ running' = FALSE /\ status' = st /\ tray' = IF shell' THEN TrayOf(st) ELSE drawn
        /\ calls' = others \/ (calls' = others \cup {reload} /\ token' # None)
    BY <1>3 DEF PumpNext
  <2>. HIDE DEF reload
  <2>2. tray' \in {"hidden", "active", "clear"}
    BY <2>1 DEF TrayOf
  <2>3. Puts' = {c \in calls' : IsPut(c)} /\ Out' = {i \in Items : st[i] = "uploading"}
    BY <2>1 DEF Puts, Out
  <2>4. \A c \in calls' : c \in others \/ Sent(c)
    BY <1>1, <2>1 DEF Sent
  <2>5. ~IsPut(reload)
    BY <1>1 DEF IsPut
  <2>6. (\A i \in Items : st[i] # "uploading") /\ (\A c \in others : ~IsPut(c)) => OneOut
    BY <2>1, <2>3, <2>5 DEF OneOut
  <2>. QED  BY <1>1, <1>2, <2>1, <2>2, <2>4, <2>6 DEF QueueTyped, SameUse, TrayOK
<1>4. CASE ~(waiting = {} \/ token' = None)
  <2>1. /\ running' = TRUE /\ status' = [st EXCEPT ![m] = "uploading"] /\ tray' = drawn
        /\ calls' = others \cup {put}
    BY <1>4 DEF PumpNext, SendFile
  <2>2. m \in Items /\ st[m] = "waiting"
    <3>1. waiting \in SUBSET Nat /\ waiting # {}
      BY <1>4 DEF Items
    <3>. QED  BY <3>1, MinIsLeast
  <2>. HIDE DEF m
  <2>3. put \in Calls /\ put.kind = "put" /\ put.token = token' /\ put.item = m
    <3>1. m \in 0..MaxItems
      BY <1>0, <2>2
    <3>. QED  BY <3>1, CallIs
  <2>. HIDE DEF put
  <2>4. QueueTyped
    BY <1>2, <2>1, <2>2, <2>3 DEF QueueTyped, Statuses
  <2>5. SameUse(st)
    BY <2>1, <2>2 DEF SameUse
  <2>6. \A c \in calls' : c \in others \/ Sent(c)
    BY <1>4, <2>1, <2>3 DEF Sent
  <2>7. ASSUME \A i \in Items : st[i] # "uploading", \A c \in others : ~IsPut(c)
        PROVE  OneOut
    <3>1. Out' = {m}
      BY <2>1, <2>2, <2>7 DEF Out
    <3>2. IsPut(put)
      BY <2>3 DEF IsPut
    <3>3. Puts' = {put}
      BY <2>1, <2>7, <3>2 DEF Puts
    <3>. QED  BY <2>1, <2>2, <2>3, <3>1, <3>3 DEF OneOut
  <2>. QED  BY <2>1, <2>4, <2>5, <2>6, <2>7 DEF TrayOK
<1>. QED  BY <1>3, <1>4

LEMMA SettleDoes ==
  ASSUME Inv, token' \in MaybeToken, shell' \in BOOLEAN, valid' = valid, running,
         NEW i \in Items, Out = {i}, NEW result \in {"done", "skipped", "failed"},
         NEW others \in SUBSET Calls, \A c \in others : ~IsPut(c), Settle(i, result, others)
  PROVE  QueueTyped /\ SameUse(status) /\ OneOut /\ TrayOK' /\ \A c \in calls' : c \in others \/ Sent(c)
<1>. DEFINE st == [status EXCEPT ![i] = result]
            done == anyDone \/ result = "done"
<1>1. TypeOK /\ st \in [Items -> Statuses] /\ done \in BOOLEAN /\ tray \in {"hidden", "active", "clear"}
  BY DEF Inv, TypeOK, Statuses
<1>2. PumpNext(st, done, others, tray)
  BY DEF Settle
<1>3. status \in [Items -> Statuses] /\ status[i] = "uploading" /\ \A j \in Items : st[j] # "uploading"
  BY <1>1 DEF Out, TypeOK
<1>4. \A j \in Items : st[j] = "unused" <=> status[j] = "unused"
  BY <1>1, <1>3
<1>. HIDE DEF st, done
<1>5. QueueTyped /\ SameUse(st) /\ OneOut /\ TrayOK' /\ \A c \in calls' : c \in others \/ Sent(c)
  <2>1. tray # "clear"
    BY DEF Inv, QueueOK, TrayOK
  <2>. QED  BY <1>1, <1>2, <1>3, <2>1, PumpDoes
<1>. QED  BY <1>4, <1>5 DEF SameUse

LEMMA DecideDoes ==
  ASSUME Inv, token' \in MaybeToken, shell' \in BOOLEAN, valid' = valid, running,
         NEW i \in Items, Out = {i}, NEW choice \in {"skip", "replace"},
         NEW others \in SUBSET Calls, \A c \in others : ~IsPut(c), Decide(i, choice, others)
  PROVE  /\ QueueTyped /\ SameUse(status) /\ OneOut /\ TrayOK'
         /\ \A c \in calls' : \/ c \in others \/ Sent(c)
                              \/ c.kind = "replace" /\ choice = "replace" /\ c.item = i /\ c.token = token
<1>1. CASE choice # "replace"
  <2>1. Settle(i, "skipped", others)
    BY <1>1 DEF Decide
  <2>. QED  BY <2>1, SettleDoes
<1>2. CASE choice = "replace"
  <2>. DEFINE put == Call("replace", token, i)
  <2>1. calls' = others \cup {put} /\ UNCHANGED <<status, running, anyDone, tray>>
    BY <1>2 DEF Decide, SendFile
  <2>2. TypeOK /\ token \in MaybeToken /\ i \in 0..MaxItems
    BY BoundAssumption DEF Inv, TypeOK, Items
  <2>3. put \in Calls /\ put.kind = "replace" /\ put.token = token /\ put.item = i
    BY <2>2, CallIs
  <2>. HIDE DEF put
  <2>4. QueueTyped /\ SameUse(status)
    BY <2>1, <2>2, <2>3 DEF QueueTyped, SameUse, TypeOK
  <2>5. Out' = {i}
    BY <2>1 DEF Out
  <2>6. Puts' = {put}
    BY <2>1, <2>3 DEF Puts, IsPut
  <2>7. OneOut
    BY <2>1, <2>3, <2>5, <2>6 DEF OneOut
  <2>8. TrayOK'
    BY <2>1 DEF Inv, QueueOK, TrayOK
  <2>. QED  BY <1>2, <2>1, <2>3, <2>4, <2>7, <2>8
<1>. QED  BY <1>1, <1>2

-----------------------------------------------------------------------------
(* What becomes of the page, and of a queue that is left alone or moves on. *)

PageOK ==
  /\ {token, stored, hash, resume} \subseteq issued \cup {None} /\ Forgotten
  /\ shell \in BOOLEAN /\ form \in {"none", "ready", "busy"}

LEMMA PageIs ==
  ASSUME Inv
  PROVE  /\ PageOK /\ token \in MaybeToken /\ stored \in MaybeToken
         /\ issued \subseteq Tokens /\ valid \subseteq issued
BY DEF Inv, PageOK, TypeOK, Known

LEMMA PageEnds ==
  ASSUME Inv, EndSession \/ UNCHANGED page, issued' = issued, left' = left
  PROVE  PageOK' /\ token' \in {token, None} /\ token' \in MaybeToken
<1>1. PageOK /\ token \in MaybeToken /\ None \notin left
  BY PageIs, NoneAssumption DEF Inv, TypeOK
<1>2. CASE UNCHANGED page
  BY <1>1, <1>2 DEF page, PageOK, Forgotten
<1>3. CASE EndSession
  BY <1>1, <1>3 DEF EndSession, page, PageOK, Forgotten, MaybeToken
<1>. QED  BY <1>2, <1>3

LEMMA RequestEnds ==
  ASSUME NEW answer, Request(answer)
  PROVE  EndSession \/ UNCHANGED page
BY DEF Request

LEMMA QueueStays ==
  ASSUME Inv, UNCHANGED <<status, running, policy, ask, blanket>>, tray' \in {tray, "hidden"},
         \A c \in calls : IsPut(c) => c \in calls', \A c \in calls' : IsPut(c) => c \in calls
  PROVE  QueueOK'
<1>1. Puts' = Puts /\ Out' = Out
  BY DEF Puts, Out
<1>. QED  BY <1>1 DEF Inv, QueueOK, TrayOK, PumpOK, Alone, Stopped, InFront, Agreed

LEMMA QueueMoves ==
  ASSUME Inv, QueueTyped, SameUse(status), OneOut, ask' = 0
  PROVE  PumpOK' /\ InFront'
<1>1. InFront'
  BY DEF Inv, QueueOK, InFront, SameUse
<1>2. PumpOK'
  BY DEF PumpOK, OneOut, Alone, Stopped
<1>. QED  BY <1>1, <1>2

-----------------------------------------------------------------------------
(* Every action keeps the invariant.                                        *)

LEMMA InvPageAnswer ==
  ASSUME Inv, NEW c \in calls, NEW answer, PageAnswer(c, answer), UNCHANGED events
  PROVE  Inv'
<1>1. PageOK' /\ token' \in MaybeToken
  BY RequestEnds, PageEnds DEF PageAnswer, server, history
<1>2. calls' = calls \ {c} /\ UNCHANGED <<server, entering, queue, history>> /\ ~IsPut(c)
  BY DEF PageAnswer, Others, IsPut
<1>3. QueueOK'
  BY <1>2, QueueStays DEF queue, history
<1>4. TypeOK'
  BY <1>1, <1>2 DEF Inv, TypeOK, PageOK, queue, history, server, MaybeToken
<1>5. Known'
  BY <1>1, <1>2 DEF Inv, Known, PageOK, server, history
<1>. QED  BY <1>1, <1>3, <1>4, <1>5 DEF Inv, PageOK

LEMMA InvLoginAnswer ==
  ASSUME Inv, NEW c \in calls, NEW answer, LoginAnswer(c, answer), UNCHANGED events
  PROVE  Inv'
<1>1. UNCHANGED <<queue, history>> /\ ~IsPut(c)
  BY DEF LoginAnswer, IsPut
<1>2. CASE answer = "ok"
  <2>1. PICK t \in Tokens \ issued :
          /\ issued' = issued \cup {t} /\ valid' = valid \cup {t}
          /\ token' = t /\ stored' = t /\ entering' = entering \cup {t}
          /\ calls' = Others(c) \cup {[Call("roots", t, 0) EXCEPT !.good = TRUE]}
          /\ UNCHANGED <<shell, form, hash, resume>>
    BY <1>2 DEF LoginAnswer
  <2>. DEFINE roots == [Call("roots", t, 0) EXCEPT !.good = TRUE]
  <2>2. roots \in Calls /\ roots.kind = "roots" /\ roots.token = t
    <3>. DEFINE r == Call("roots", t, 0)
    <3>1. r \in Calls /\ r.kind = "roots" /\ r.token = t
      BY CallIs, BoundAssumption DEF Inv, MaybeToken
    <3>. HIDE DEF r
    <3>2. [r EXCEPT !.good = TRUE] \in Calls /\ [r EXCEPT !.good = TRUE].kind = "roots"
          /\ [r EXCEPT !.good = TRUE].token = t
      BY <3>1 DEF Calls
    <3>. QED  BY <3>2 DEF r
  <2>. HIDE DEF roots
  <2>3. calls' = (calls \ {c}) \cup {roots}
    BY <2>1 DEF Others, roots
  <2>4. ~IsPut(roots)
    BY <2>2 DEF IsPut
  <2>5. QueueOK'
    BY <1>1, <2>3, <2>4, QueueStays DEF queue, history
  <2>6. TypeOK'
    BY <1>1, <2>1, <2>2, <2>3 DEF Inv, TypeOK, queue, history, MaybeToken
  <2>7. Known'
    BY <1>1, <2>1, <2>2, <2>3 DEF Inv, Known, history
  <2>8. Forgotten'
    <3>1. t \notin left
      BY <2>1 DEF Inv, Known
    <3>. QED  BY <1>1, <2>1, <3>1 DEF Inv, Forgotten, history
  <2>. QED  BY <2>5, <2>6, <2>7, <2>8 DEF Inv
<1>3. CASE answer # "ok"
  <2>1. /\ form' = IF form = "busy" THEN "ready" ELSE form
        /\ calls' = calls \ {c} /\ UNCHANGED <<server, entering, token, stored, shell, hash, resume>>
    BY <1>3 DEF LoginAnswer, Others
  <2>2. QueueOK'
    BY <1>1, <2>1, QueueStays DEF queue, history
  <2>3. TypeOK'
    BY <1>1, <2>1 DEF Inv, TypeOK, queue, history, server
  <2>4. Known' /\ Forgotten'
    BY <1>1, <2>1 DEF Inv, Known, Forgotten, history, server
  <2>. QED  BY <2>2, <2>3, <2>4 DEF Inv
<1>. QED  BY <1>2, <1>3

LEMMA InvEnter ==
  ASSUME Inv, NEW c \in calls, c.kind \in {"me", "roots"}, Enter(c),
         UNCHANGED <<server, history, events>>
  PROVE  Inv'
<1>. DEFINE reload == Call("page", token, 0)
<1>1. reload \in Calls /\ reload.kind = "page" /\ reload.token = token
  BY PageIs, CallIs, BoundAssumption DEF Inv
<1>2. /\ UNCHANGED <<token, stored, status, running, policy, anyDone, ask>>
      /\ shell' = TRUE /\ form' = "none" /\ tray' = "hidden" /\ resume' = None
      /\ hash' \in {token, hash, resume} /\ entering' = entering \ {c.token}
      /\ calls' = calls \ {c} \/ calls' = (calls \ {c}) \cup {reload}
  BY DEF Enter, Others
<1>. HIDE DEF reload
<1>3. ~IsPut(c) /\ ~IsPut(reload)
  BY <1>1 DEF IsPut
<1>4. QueueOK'
  BY <1>2, <1>3, QueueStays DEF history
<1>5. TypeOK'
  BY <1>1, <1>2 DEF Inv, TypeOK, history, server, MaybeToken
<1>6. Known'
  BY <1>1, <1>2 DEF Inv, Known, history, server
<1>7. Forgotten'
  <2>1. None \notin left
    BY NoneAssumption DEF Inv, TypeOK
  <2>. QED  BY <1>2, <2>1 DEF Inv, Forgotten, history
<1>. QED  BY <1>4, <1>5, <1>6, <1>7 DEF Inv

LEMMA EnterAnswerIs ==
  ASSUME NEW c \in calls, NEW answer, EnterAnswer(c, answer)
  PROVE  /\ c.kind \in {"me", "roots"} /\ UNCHANGED <<server, history>>
         /\ \/ answer = "ok" /\ c.token \in entering /\ Enter(c)
               /\ \A d \in Others(c) : d.token = c.token => d.kind \notin {"me", "roots"}
            \/ /\ \/ answer = "error" /\ c.token \in entering /\ EnterFails
                  \/ ~(answer = "error" /\ c.token \in entering) /\ Request(answer)
               /\ entering' = IF answer = "ok" THEN entering ELSE entering \ {c.token}
               /\ answer = "ok" => (c.token \notin entering
                    \/ ~ \A d \in Others(c) : d.token = c.token => d.kind \notin {"me", "roots"})
               /\ calls' = Others(c) /\ UNCHANGED queue
BY DEF EnterAnswer

LEMMA InvEnterAnswer ==
  ASSUME Inv, NEW c \in calls, NEW answer, EnterAnswer(c, answer), UNCHANGED events
  PROVE  Inv'
<1>1. c.kind \in {"me", "roots"} /\ UNCHANGED <<server, history>>
  BY EnterAnswerIs
<1>2. CASE Enter(c)
  BY <1>1, <1>2, InvEnter
<1>3. CASE /\ EnterFails \/ Request(answer)
           /\ entering' = IF answer = "ok" THEN entering ELSE entering \ {c.token}
           /\ calls' = Others(c) /\ UNCHANGED queue
  <2>1. PageOK'
    <3>1. CASE EnterFails
      <4>1. None \notin left
        BY NoneAssumption DEF Inv, TypeOK
      <4>. QED  BY <1>1, <3>1, <4>1, PageIs DEF EnterFails, PageOK, Forgotten, server, history
    <3>2. CASE Request(answer)
      BY <1>1, <3>2, RequestEnds, PageEnds DEF server, history
    <3>. QED  BY <1>3, <3>1, <3>2
  <2>2. calls' = calls \ {c} /\ ~IsPut(c)
    BY <1>1, <1>3 DEF Others, IsPut
  <2>3. QueueOK'
    BY <1>1, <1>3, <2>2, QueueStays DEF queue, history
  <2>4. TypeOK'
    BY <1>1, <1>3, <2>1, <2>2 DEF Inv, TypeOK, PageOK, queue, history, server, MaybeToken
  <2>5. Known'
    BY <1>1, <2>1, <2>2 DEF Inv, Known, PageOK, server, history
  <2>. QED  BY <2>1, <2>3, <2>4, <2>5 DEF Inv, PageOK
<1>. QED  BY <1>2, <1>3, EnterAnswerIs

LEMMA InvLogoutAnswer ==
  ASSUME Inv, NEW c \in calls, NEW answer, LogoutAnswer(c, answer), UNCHANGED events
  PROVE  Inv'
<1>1. /\ valid' \subseteq valid /\ UNCHANGED <<issued, entering, queue, said, blanket, late>>
      /\ token' = None /\ stored' = None /\ resume' = None /\ hash' = None
      /\ shell' = FALSE /\ form' = "ready" /\ left' = left \cup ({c.token} \ {None})
      /\ calls' = calls \ {c} /\ ~IsPut(c)
  BY DEF LogoutAnswer, Others, IsPut
<1>2. QueueOK'
  BY <1>1, QueueStays DEF queue
<1>3. c.token \in issued \cup {None}
  BY DEF Inv, Known
<1>4. TypeOK'
  BY <1>1, <1>3 DEF Inv, TypeOK, queue, MaybeToken
<1>5. Known'
  BY <1>1, <1>3 DEF Inv, Known
<1>6. Forgotten'
  BY <1>1, NoneAssumption DEF Inv, TypeOK, Forgotten
<1>. QED  BY <1>2, <1>4, <1>5, <1>6 DEF Inv

(* A put that is out, and the question, are about the file that is out.     *)
LEMMA PutIs ==
  ASSUME Inv, NEW c \in calls, IsPut(c)
  PROVE  running /\ c.item \in Items /\ Out = {c.item} /\ ask = 0 /\ \A d \in Others(c) : ~IsPut(d)
<1>1. c \in Puts
  BY DEF Puts
<1>2. running /\ Alone
  BY <1>1 DEF Inv, QueueOK, PumpOK, Stopped
<1>3. PICK i \in Items : Out = {i} /\ ask = 0 /\ \E d \in Puts : Puts = {d} /\ d.item = i
  BY <1>1, <1>2 DEF Alone
<1>4. Puts = {c} /\ c.item = i
  BY <1>1, <1>3
<1>. QED  BY <1>2, <1>3, <1>4 DEF Others, Puts

LEMMA AskIs ==
  ASSUME Inv, ask # 0
  PROVE  running /\ ask \in Items /\ Out = {ask} /\ \A d \in calls : ~IsPut(d)
<1>1. running /\ Alone
  BY DEF Inv, QueueOK, PumpOK, Stopped
<1>2. PICK i \in Items : Out = {i} /\ Puts = {} /\ ask = i
  BY <1>1 DEF Alone
<1>. QED  BY <1>1, <1>2 DEF Puts

LEMMA PutAnswerIs ==
  ASSUME NEW c \in calls, NEW answer, PutAnswer(c, answer)
  PROVE  /\ IsPut(c)
         /\ EndSession \/ UNCHANGED page
         /\ answer # "refused" => UNCHANGED page
         /\ UNCHANGED <<server, entering, policy, history>>
         /\ \/ /\ ask' = c.item /\ calls' = Others(c) /\ UNCHANGED <<status, running, anyDone, tray>>
            \/ /\ ask' = ask /\ policy # "ask" /\ UNCHANGED page
               /\ Decide(c.item, policy, Others(c))
            \/ /\ ask' = ask /\ \E result \in {"done", "failed"} : Settle(c.item, result, Others(c))
<1>1. IsPut(c) /\ UNCHANGED <<server, entering, policy, history>>
  BY DEF PutAnswer, IsPut
<1>2. IF answer = "refused" THEN EndSession ELSE UNCHANGED page
  BY DEF PutAnswer
<1>3. CASE answer = "exists" /\ policy = "ask"
  BY <1>1, <1>2, <1>3 DEF PutAnswer
<1>4. CASE answer = "exists" /\ policy # "ask"
  <2>1. ask' = ask /\ Decide(c.item, policy, Others(c))
    BY <1>4 DEF PutAnswer
  <2>. QED  BY <1>1, <1>2, <1>4, <2>1
<1>5. CASE answer # "exists"
  <2>1. ask' = ask /\ IF answer = "ok" THEN Settle(c.item, "done", Others(c))
                                       ELSE Settle(c.item, "failed", Others(c))
    BY <1>5 DEF PutAnswer
  <2>. QED  BY <1>1, <1>2, <2>1
<1>. QED  BY <1>3, <1>4, <1>5

(* What follows from a queue that moved on.                                 *)
LEMMA Moved ==
  ASSUME Inv, PageOK', token' \in MaybeToken, server' = server, entering' \subseteq Tokens, left' = left,
         said' \subseteq Items, blanket' \in BOOLEAN, late' = late, events' = events, policy' \in {"ask", "skip", "replace"},
         QueueTyped, SameUse(status), OneOut, TrayOK', ask' = 0, Agreed',
         \A c \in calls' : c \in calls \/ c.token \in {token, token'}
  PROVE  Inv'
<1>1. PumpOK' /\ InFront'
  BY QueueMoves
<1>2. UNCHANGED <<valid, issued>>
  BY DEF server
<1>3. ask' \in 0..MaxItems
  BY BoundAssumption
<1>4. {token', stored', hash', resume'} \subseteq MaybeToken
  BY <1>2, PageIs DEF PageOK, MaybeToken
<1>5. TypeOK'
  BY <1>2, <1>3, <1>4 DEF Inv, TypeOK, PageOK, QueueTyped
<1>6. Known'
  BY <1>2 DEF Inv, Known, PageOK
<1>. QED  BY <1>1, <1>5, <1>6 DEF Inv, QueueOK, PageOK

LEMMA InvPutAnswer ==
  ASSUME Inv, NEW c \in calls, NEW answer, PutAnswer(c, answer), UNCHANGED events
  PROVE  Inv'
<1>1. /\ IsPut(c) /\ UNCHANGED <<server, entering, policy, history>>
      /\ EndSession \/ UNCHANGED page
  BY PutAnswerIs
<1>2. running /\ c.item \in Items /\ Out = {c.item} /\ ask = 0 /\ \A d \in Others(c) : ~IsPut(d)
  BY <1>1, PutIs
<1>3. PageOK' /\ token' \in MaybeToken /\ shell' \in BOOLEAN
  BY <1>1, PageEnds DEF server, history, PageOK
<1>4. Others(c) \in SUBSET Calls /\ Others(c) \subseteq calls
  BY DEF Inv, TypeOK, Others
<1>5. Agreed'
  BY <1>1 DEF Inv, QueueOK, Agreed, history
<1>6. CASE ask' = c.item /\ calls' = Others(c) /\ UNCHANGED <<status, running, anyDone, tray>>
  <2>1. Out' = {c.item} /\ Puts' = {}
    BY <1>2, <1>6 DEF Out, Puts
  <2>2. PumpOK' /\ InFront' /\ TrayOK'
    BY <1>2, <1>6, <2>1 DEF PumpOK, Alone, Inv, QueueOK, InFront, TrayOK
  <2>3. c.item \in 0..MaxItems
    BY <1>2, BoundAssumption DEF Items
  <2>4. TypeOK'
    BY <1>1, <1>3, <1>4, <1>6, <2>3 DEF Inv, TypeOK, PageOK, history, server, MaybeToken
  <2>5. Known'
    BY <1>1, <1>3, <1>4, <1>6 DEF Inv, Known, PageOK, server, history
  <2>. QED  BY <1>3, <1>5, <2>2, <2>4, <2>5 DEF Inv, QueueOK, PageOK
<1>7. ASSUME ask' = ask, QueueTyped, SameUse(status), OneOut, TrayOK',
             \A d \in calls' : d \in Others(c) \/ d.token \in {token, token'}
      PROVE  Inv'
  <2>1. /\ entering' \subseteq Tokens /\ left' = left /\ said' \subseteq Items /\ blanket' \in BOOLEAN
        /\ late' = late /\ policy' \in {"ask", "skip", "replace"}
    BY <1>1 DEF Inv, TypeOK, history
  <2>. QED  BY <1>1, <1>2, <1>3, <1>4, <1>5, <1>7, <2>1, Moved
<1>8. CASE ask' = ask /\ policy # "ask" /\ UNCHANGED page /\ Decide(c.item, policy, Others(c))
  <2>1. policy \in {"skip", "replace"} /\ valid' = valid
    BY <1>1, <1>8 DEF Inv, TypeOK, server
  <2>2. /\ QueueTyped /\ SameUse(status) /\ OneOut /\ TrayOK'
        /\ \A d \in calls' : d \in Others(c) \/ Sent(d) \/ d.token = token
    BY <1>2, <1>3, <1>4, <1>8, <2>1, DecideDoes
  <2>. QED  BY <1>7, <1>8, <2>2 DEF Sent
<1>9. ASSUME ask' = ask, NEW result \in {"done", "failed"}, Settle(c.item, result, Others(c))
      PROVE  Inv'
  <2>1. valid' = valid
    BY <1>1 DEF server
  <2>2. QueueTyped /\ SameUse(status) /\ OneOut /\ TrayOK' /\ \A d \in calls' : d \in Others(c) \/ Sent(d)
    BY <1>2, <1>3, <1>4, <1>9, <2>1, SettleDoes
  <2>. QED  BY <1>7, <1>9, <2>2 DEF Sent
<1>. QED  BY <1>6, <1>8, <1>9, PutAnswerIs

LEMMA InvAnswerDialog ==
  ASSUME Inv, NEW choice \in {"skip", "replace"}, NEW all \in BOOLEAN, AnswerDialog(choice, all)
  PROVE  Inv'
<1>1. /\ ask # 0 /\ ask' = 0 /\ policy' = IF all THEN choice ELSE policy
      /\ said' = IF choice = "replace" THEN said \cup {ask} ELSE said
      /\ blanket' = (blanket \/ (all /\ choice = "replace"))
      /\ UNCHANGED <<server, page, entering, left, late, events>> /\ Decide(ask, choice, calls)
  BY DEF AnswerDialog
<1>2. running /\ ask \in Items /\ Out = {ask} /\ \A d \in calls : ~IsPut(d)
  BY <1>1, AskIs
<1>3. PageOK' /\ token' = token /\ token' \in MaybeToken /\ shell' \in BOOLEAN /\ valid' = valid
  <2>1. UNCHANGED <<token, stored, shell, form, hash, resume, valid, issued, left>>
    BY <1>1 DEF page, server
  <2>. QED  BY <2>1, PageIs DEF PageOK, Forgotten
<1>4. calls \in SUBSET Calls
  BY DEF Inv, TypeOK
<1>5. /\ QueueTyped /\ SameUse(status) /\ OneOut /\ TrayOK'
      /\ \A d \in calls' : d \in calls \/ Sent(d) \/ d.token = token
  BY <1>1, <1>2, <1>3, <1>4, DecideDoes
<1>6. Agreed'
  BY <1>1 DEF Inv, QueueOK, Agreed
<1>7. /\ said' \subseteq Items /\ blanket' \in BOOLEAN /\ policy' \in {"ask", "skip", "replace"}
      /\ entering' \subseteq Tokens
  BY <1>1, <1>2 DEF Inv, TypeOK
<1>8. server' = server /\ left' = left /\ late' = late /\ events' = events
  BY <1>1
<1>. QED  BY <1>1, <1>3, <1>5, <1>6, <1>7, <1>8, Moved DEF Sent

(* The files that are there are counted by the last of them.                *)
LEMMA UsedIs ==
  ASSUME NEW k \in 0..MaxItems, \A i \in Items : status[i] # "unused" <=> i <= k
  PROVE  Cardinality({i \in Items : status[i] # "unused"}) = k
<1>0. k \in Nat
  BY BoundAssumption
<1>1. {i \in Items : status[i] # "unused"} = 1..k
  BY BoundAssumption DEF Items
<1>2. Cardinality(1..k) = IF 1 > k THEN 0 ELSE k - 1 + 1
  BY <1>0, FS_Interval
<1>3. Cardinality(1..k) = k
  BY <1>0, <1>2
<1>. QED  BY <1>1, <1>3, Zenon

LEMMA InvQueue ==
  ASSUME Inv, NEW n \in 1..2, Queue(n)
  PROVE  Inv'
<1>. DEFINE used == Cardinality({i \in Items : status[i] # "unused"})
            st == [i \in Items |-> IF i \in used+1..used+n THEN "waiting" ELSE status[i]]
<1>1. /\ shell /\ form = "none" /\ ask = 0 /\ used + n <= MaxItems
      /\ UNCHANGED <<server, page, entering, ask, left, said, late, events>>
  BY DEF Queue
<1>2. PICK k \in 0..MaxItems : \A i \in Items : status[i] # "unused" <=> i <= k
  BY DEF Inv, QueueOK, InFront
<1>3. used = k
  BY <1>2, UsedIs
<1>4. status \in [Items -> Statuses]
  BY DEF Inv, TypeOK
<1>5. k \in Nat /\ n \in Nat /\ k + n \in 0..MaxItems
  BY <1>1, <1>3, BoundAssumption
<1>6. st \in [Items -> Statuses] /\ \A i \in Items : st[i] = "uploading" <=> status[i] = "uploading"
  BY <1>2, <1>3, <1>4, <1>5 DEF Statuses
<1>7. \A i \in Items : st[i] # "unused" <=> i <= k + n
  <2>1. ASSUME NEW i \in Items
        PROVE  st[i] # "unused" <=> i <= k + n
    <3>1. i \in Nat /\ 1 <= i /\ (i \in k+1..k+n <=> ~(i <= k) /\ i <= k + n)
      BY <1>5, BoundAssumption DEF Items
    <3>2. st[i] = IF i \in k+1..k+n THEN "waiting" ELSE status[i]
      BY <1>3
    <3>. QED  BY <1>2, <1>5, <3>1, <3>2
  <2>. QED  BY <2>1
<1>8. PageOK' /\ token' = token /\ token' \in MaybeToken /\ shell' \in BOOLEAN /\ valid' = valid
  <2>1. UNCHANGED <<token, stored, shell, form, hash, resume, valid, issued, left>>
    BY <1>1 DEF page, server
  <2>. QED  BY <2>1, PageIs DEF PageOK, Forgotten
<1>9. \/ /\ ~running /\ policy' = "ask" /\ blanket' = FALSE /\ PumpNext(st, FALSE, calls, "active")
      \/ /\ running /\ status' = st /\ tray' = "active"
         /\ UNCHANGED <<running, policy, anyDone, calls, blanket>>
  BY DEF Queue, StartsPump, PolicyOfRun
<1>. HIDE DEF st, used
<1>10. CASE ~running /\ policy' = "ask" /\ blanket' = FALSE /\ PumpNext(st, FALSE, calls, "active")
  <2>1. Out = {} /\ Puts = {}
    BY <1>10 DEF Inv, QueueOK, PumpOK, Stopped
  <2>2. (\A i \in Items : st[i] # "uploading") /\ \A c \in calls : ~IsPut(c)
    BY <1>6, <2>1 DEF Out, Puts
  <2>3. TypeOK /\ calls \in SUBSET Calls
    BY DEF Inv, TypeOK
  <2>4. QueueTyped /\ SameUse(st) /\ OneOut /\ TrayOK' /\ \A c \in calls' : c \in calls \/ Sent(c)
    BY <1>6, <1>8, <1>10, <2>2, <2>3, PumpDoes
  <2>5. PumpOK'
    BY <1>1, <2>4 DEF PumpOK, OneOut, Alone, Stopped
  <2>6. InFront'
    BY <1>5, <1>7, <2>4 DEF InFront, SameUse
  <2>7. Agreed'
    BY <1>10 DEF Agreed
  <2>8. TypeOK'
    BY <1>1, <1>8, <1>10, <2>4 DEF Inv, TypeOK, QueueTyped, server, page
  <2>9. Known'
    BY <1>1, <1>8, <2>4 DEF Inv, Known, Sent, PageOK, server, page
  <2>. QED  BY <1>8, <2>4, <2>5, <2>6, <2>7, <2>8, <2>9 DEF Inv, QueueOK, PageOK
<1>11. CASE /\ running /\ status' = st /\ tray' = "active"
            /\ UNCHANGED <<running, policy, anyDone, calls, blanket>>
  <2>1. Out' = Out /\ Puts' = Puts
    BY <1>6, <1>11 DEF Out, Puts
  <2>2. PumpOK'
    BY <1>1, <1>11, <2>1 DEF Inv, QueueOK, PumpOK, Alone
  <2>3. InFront'
    BY <1>5, <1>7, <1>11 DEF InFront
  <2>4. TypeOK'
    BY <1>1, <1>6, <1>8, <1>11 DEF Inv, TypeOK, server, page
  <2>5. Known' /\ Agreed' /\ TrayOK'
    BY <1>1, <1>11 DEF Inv, QueueOK, Known, Agreed, TrayOK, server, page
  <2>. QED  BY <1>8, <2>2, <2>3, <2>4, <2>5 DEF Inv, QueueOK, PageOK
<1>. QED  BY <1>9, <1>10, <1>11

LEMMA Cleared ==
  ASSUME Inv, status' = [i \in Items |-> IF status[i] = "unused" THEN "unused" ELSE "cleared"]
  PROVE  status' \in [Items -> Statuses] /\ InFront' /\ Out' = {}
<1>1. \A i \in Items : status'[i] = "unused" <=> status[i] = "unused"
  OBVIOUS
<1>2. status' \in [Items -> Statuses] /\ Out' = {}
  BY DEF Statuses, Out
<1>. QED  BY <1>1, <1>2 DEF Inv, QueueOK, InFront

LEMMA InvClearTray ==
  ASSUME Inv, ClearTray
  PROVE  Inv'
<1>1. /\ tray' = "hidden" /\ ask = 0
      /\ status' = [i \in Items |-> IF status[i] = "unused" THEN "unused" ELSE "cleared"]
      /\ UNCHANGED <<server, calls, page, entering, running, policy, anyDone, ask, history, events>>
  BY DEF ClearTray
<1>2. ~running
  BY DEF Inv, QueueOK, TrayOK, ClearTray
<1>3. status' \in [Items -> Statuses] /\ InFront' /\ Out' = {} /\ Puts' = {}
  BY <1>1, <1>2, Cleared DEF Inv, QueueOK, PumpOK, Stopped, Puts
<1>4. QueueOK'
  BY <1>1, <1>2, <1>3 DEF Inv, QueueOK, PumpOK, Stopped, TrayOK, Agreed, history
<1>5. TypeOK'
  BY <1>1, <1>3 DEF Inv, TypeOK, server, page, history
<1>6. Known' /\ Forgotten'
  BY <1>1 DEF Inv, Known, Forgotten, server, page, history
<1>. QED  BY <1>4, <1>5, <1>6 DEF Inv

LEMMA InvSends ==
  ASSUME Inv, NEW c \in Calls, ~IsPut(c), c.token \in {token, None}, calls' = calls \cup {c},
         form' \in {"none", "ready", "busy"}, hash' \in {hash, token}, events' \in 0..MaxEvents,
         late' \in BOOLEAN,
         UNCHANGED <<server, token, stored, shell, resume, entering, queue, left, said, blanket>>
  PROVE  Inv'
<1>1. QueueOK'
  BY QueueStays DEF queue
<1>2. TypeOK'
  BY DEF Inv, TypeOK, queue, server
<1>3. Known' /\ Forgotten'
  BY DEF Inv, Known, Forgotten, server
<1>. QED  BY <1>1, <1>2, <1>3 DEF Inv

LEMMA Events ==
  ASSUME TypeOK, Event
  PROVE  events' \in 0..MaxEvents
BY BoundAssumption DEF TypeOK, Event

LEMMA InvSubmit ==
  ASSUME Inv, Submit
  PROVE  Inv'
<1>. DEFINE c == Call("login", None, 0)
<1>1. c \in Calls /\ c.kind = "login" /\ c.token = None
  BY CallIs, BoundAssumption DEF Inv, MaybeToken
<1>2. calls' = calls \cup {c}
  BY DEF Submit
<1>. HIDE DEF c
<1>3. ~IsPut(c)
  BY <1>1 DEF IsPut
<1>4. late' \in BOOLEAN
  <2>1. late' = (late \/ calls # {})
    BY DEF Submit
  <2>. QED  BY <2>1, Zenon
<1>. QED  BY <1>1, <1>2, <1>3, <1>4, InvSends, Events DEF Submit, Inv

LEMMA InvSignOut ==
  ASSUME Inv, SignOut
  PROVE  Inv'
<1>. DEFINE c == Call("logout", token, 0)
<1>1. c \in Calls /\ c.kind = "logout" /\ c.token = token
  BY CallIs, PageIs, BoundAssumption DEF Inv
<1>2. calls' = calls \cup {c}
  BY DEF SignOut
<1>. HIDE DEF c
<1>3. ~IsPut(c)
  BY <1>1 DEF IsPut
<1>4. form' \in {"none", "ready", "busy"} /\ UNCHANGED <<token, stored, shell, form, hash, resume>>
  BY DEF SignOut, page, Inv, TypeOK
<1>5. late' \in BOOLEAN /\ UNCHANGED <<left, said, blanket>>
  BY DEF SignOut, history, Inv, TypeOK
<1>. QED  BY <1>1, <1>2, <1>3, <1>4, <1>5, InvSends, Events DEF SignOut, Inv

LEMMA InvBrowse ==
  ASSUME Inv, Browse
  PROVE  Inv'
<1>. DEFINE c == Call("page", token, 0)
<1>1. c \in Calls /\ c.kind = "page" /\ c.token = token
  BY CallIs, PageIs, BoundAssumption DEF Inv
<1>2. calls' = calls \cup {c}
  BY DEF Browse
<1>. HIDE DEF c
<1>3. ~IsPut(c)
  BY <1>1 DEF IsPut
<1>4. form' \in {"none", "ready", "busy"} /\ events' \in 0..MaxEvents
  BY DEF Browse, Inv, TypeOK
<1>5. late' \in BOOLEAN /\ UNCHANGED <<left, said, blanket>>
  BY DEF Browse, history, Inv, TypeOK
<1>. QED  BY <1>1, <1>2, <1>3, <1>4, <1>5, InvSends DEF Browse

LEMMA InvReload ==
  ASSUME Inv, Reload
  PROVE  Inv'
<1>. DEFINE me == Call("me", stored, 0)
            roots == Call("roots", stored, 0)
<1>1. /\ me \in Calls /\ me.kind = "me" /\ me.token = stored
      /\ roots \in Calls /\ roots.kind = "roots" /\ roots.token = stored
  BY CallIs, PageIs, BoundAssumption DEF Inv
<1>2. /\ valid' \subseteq valid /\ token' = stored /\ shell' = FALSE
      /\ form' \in {"none", "ready"} /\ entering' = {stored} \ {None}
      /\ calls' = {} \/ calls' = {me, roots}
      /\ status' = [i \in Items |-> IF status[i] = "unused" THEN "unused" ELSE "cleared"]
      /\ running' = FALSE /\ policy' = "ask" /\ anyDone' = FALSE /\ ask' = 0 /\ tray' = "hidden"
      /\ said' = {} /\ blanket' = FALSE /\ late' = FALSE
      /\ UNCHANGED <<issued, stored, hash, resume, left>>
  BY DEF Reload, Entering
<1>. HIDE DEF me, roots
<1>3. events' \in 0..MaxEvents
  BY Events DEF Reload, Inv
<1>4. status' \in [Items -> Statuses] /\ InFront' /\ Out' = {}
  BY <1>2, Cleared
<1>5. Puts' = {}
  BY <1>1, <1>2 DEF Puts, IsPut
<1>6. QueueOK'
  BY <1>2, <1>4, <1>5 DEF QueueOK, PumpOK, Stopped, TrayOK, Agreed
<1>7. TypeOK'
  <2>1. stored \in MaybeToken /\ ask' \in 0..MaxItems
    BY <1>2, PageIs, BoundAssumption
  <2>. QED  BY <1>1, <1>2, <1>3, <1>4, <2>1 DEF Inv, TypeOK, MaybeToken
<1>8. Known' /\ Forgotten'
  BY <1>1, <1>2 DEF Inv, Known, Forgotten
<1>. QED  BY <1>6, <1>7, <1>8 DEF Inv

LEMMA InvSessionEnds ==
  ASSUME Inv, NEW t \in Tokens, SessionEnds(t)
  PROVE  Inv'
<1>1. valid' \subseteq valid /\ UNCHANGED <<issued, calls, page, entering, queue, history>>
  BY DEF SessionEnds
<1>2. events' \in 0..MaxEvents
  BY Events DEF SessionEnds, Inv, TypeOK
<1>3. QueueOK'
  BY <1>1, QueueStays DEF queue, history
<1>4. TypeOK'
  BY <1>1, <1>2 DEF Inv, TypeOK, page, queue, history
<1>5. Known' /\ Forgotten'
  BY <1>1 DEF Inv, Known, Forgotten, page, history
<1>. QED  BY <1>3, <1>4, <1>5 DEF Inv

LEMMA InvInit ==
  ASSUME Init
  PROVE  Inv
<1>1. TypeOK
  <2>1. 0 \in 0..MaxItems /\ 0 \in 0..MaxEvents /\ None \in MaybeToken
    BY BoundAssumption DEF MaybeToken
  <2>2. status \in [Items -> Statuses]
    BY DEF Init, Statuses
  <2>. QED  BY <2>1, <2>2 DEF Init, TypeOK
<1>2. QueueOK
  <2>1. \A i \in Items : status[i] # "unused" <=> i <= 0
    BY BoundAssumption DEF Init, Items
  <2>2. InFront
    BY <2>1, BoundAssumption DEF InFront
  <2>3. Out = {} /\ Puts = {}
    BY DEF Init, Out, Puts
  <2>. QED  BY <2>2, <2>3 DEF Init, QueueOK, PumpOK, Stopped, TrayOK, Agreed
<1>. QED  BY <1>1, <1>2 DEF Init, Inv, Known, Forgotten

LEMMA InvNext ==
  ASSUME Inv, [Next]_vars
  PROVE  Inv'
<1>1. ASSUME NEW c \in calls, Receive(c)
      PROVE  Inv'
  <2>1. PICK answer \in AnswersTo(c) :
          PageAnswer(c, answer) \/ LoginAnswer(c, answer) \/ EnterAnswer(c, answer)
            \/ LogoutAnswer(c, answer) \/ PutAnswer(c, answer)
    BY <1>1 DEF Receive
  <2>2. UNCHANGED events
    BY <1>1 DEF Receive
  <2>. QED  BY <2>1, <2>2, InvPageAnswer, InvLoginAnswer, InvEnterAnswer, InvLogoutAnswer, InvPutAnswer
<1>2. CASE UNCHANGED vars
  <2>1. UNCHANGED <<server, page, queue, history, calls, entering, events>>
    BY <1>2 DEF vars
  <2>2. QueueOK'
    BY <2>1, QueueStays DEF queue, history
  <2>3. TypeOK'
    BY <2>1 DEF Inv, TypeOK, server, page, queue, history
  <2>4. Known' /\ Forgotten'
    BY <2>1 DEF Inv, Known, Forgotten, server, page, history
  <2>. QED  BY <2>2, <2>3, <2>4 DEF Inv
<1>. QED  BY <1>1, <1>2, InvQueue, InvAnswerDialog, InvClearTray, InvSubmit, InvSignOut, InvBrowse,
             InvReload, InvSessionEnds DEF Next

LEMMA Invariance == Spec => []Inv
BY InvInit, InvNext, PTL DEF Spec

-----------------------------------------------------------------------------
(* The server, the page, the uploads and the state of the page always have  *)
(* the values that portal.js gives them.                                    *)
THEOREM PortalTyping == Spec => []TypeOK
<1>1. Inv => TypeOK
  BY DEF Inv
<1>. QED  BY <1>1, Invariance, PTL

(* Whatever answers come late: after signOut nothing of the session is left *)
(* in the browser, neither its token nor its place.                         *)
THEOREM SigningOut == Spec => []SignedOutIsForgotten
<1>1. Inv => SignedOutIsForgotten
  BY DEF Inv, Forgotten, SignedOutIsForgotten
<1>. QED  BY <1>1, Invariance, PTL

(* pump sends one file at a time, and while it holds its flag that file has *)
(* either its request or its question open: it never stands still.          *)
THEOREM Pumping == Spec => []PumpAlive
<1>1. ASSUME Inv
      PROVE  PumpAlive
  <2>. DEFINE out == {i \in Items : status[i] = "uploading"}
              puts == {c \in calls : c.kind \in {"put", "replace"}}
  <2>0. out = Out /\ puts = Puts
    BY DEF Out, Puts, IsPut
  <2>. HIDE DEF out, puts
  <2>1. CASE ~running
    <3>1. out = {} /\ puts = {} /\ ask = 0
      BY <1>1, <2>0, <2>1 DEF Inv, QueueOK, PumpOK, Stopped
    <3>. QED  BY <2>1, <3>1 DEF PumpAlive, out, puts
  <2>2. CASE running
    <3>1. PICK i \in Items :
            /\ out = {i}
            /\ \/ puts = {} /\ ask = i
               \/ ask = 0 /\ \E c \in puts : puts = {c} /\ c.item = i
      BY <1>1, <2>0, <2>2 DEF Inv, QueueOK, PumpOK, Alone
    <3>2. i # 0 /\ Cardinality(out) = 1
      <4>1. Cardinality({i}) = 1
        BY FS_Singleton
      <4>2. i # 0
        BY BoundAssumption DEF Items
      <4>. QED  BY <3>1, <4>1, <4>2
    <3>3. Cardinality(puts) + (IF ask # 0 THEN 1 ELSE 0) = 1
      <4>1. CASE puts = {} /\ ask = i
        <5>1. Cardinality(puts) = 0
          BY <4>1, FS_EmptySet
        <5>. QED  BY <3>2, <4>1, <5>1
      <4>2. CASE ask = 0 /\ \E c \in puts : puts = {c} /\ c.item = i
        <5>1. Cardinality(puts) = 1
          BY <4>2, FS_Singleton
        <5>. QED  BY <4>2, <5>1
      <4>. QED  BY <3>1, <4>1, <4>2
    <3>4. (\A c \in puts : c.item \in out) /\ (ask # 0 => ask \in out)
      BY <3>1
    <3>. QED  BY <2>2, <3>2, <3>3, <3>4 DEF PumpAlive, out, puts
  <2>. QED  BY <2>1, <2>2
<1>. QED  BY <1>1, Invariance, PTL

-----------------------------------------------------------------------------
(* What the queue sends: files, the listing, and a file over another one if *)
(* the dialog or the policy says so.                                        *)
LEMMA PutSends ==
  ASSUME Inv, NEW c \in calls, NEW answer, PutAnswer(c, answer)
  PROVE  \A d \in calls' : d \in calls \/ Sent(d)
                           \/ (d.kind = "replace" /\ policy = "replace" /\ d.token = token)
<1>1. IsPut(c) /\ UNCHANGED <<server, history>> /\ (EndSession \/ UNCHANGED page)
  BY PutAnswerIs
<1>2. running /\ c.item \in Items /\ Out = {c.item} /\ \A d \in Others(c) : ~IsPut(d)
  BY <1>1, PutIs
<1>3. token' \in MaybeToken /\ shell' \in BOOLEAN /\ valid' = valid
  BY <1>1, PageEnds DEF server, history, PageOK
<1>4. Others(c) \in SUBSET Calls /\ Others(c) \subseteq calls
  BY DEF Inv, TypeOK, Others
<1>5. CASE policy # "ask" /\ Decide(c.item, policy, Others(c))
  <2>1. policy \in {"skip", "replace"}
    BY <1>5 DEF Inv, TypeOK
  <2>. QED  BY <1>2, <1>3, <1>4, <1>5, <2>1, DecideDoes
<1>6. ASSUME NEW result \in {"done", "failed"}, Settle(c.item, result, Others(c))
      PROVE  \A d \in calls' : d \in Others(c) \/ Sent(d)
  BY <1>2, <1>3, <1>4, <1>6, SettleDoes
<1>. QED  BY <1>4, <1>5, <1>6, PutAnswerIs

LEMMA DialogSends ==
  ASSUME Inv, NEW choice \in {"skip", "replace"}, NEW all \in BOOLEAN, AnswerDialog(choice, all)
  PROVE  \A d \in calls' : d \in calls \/ Sent(d)
                           \/ (d.kind = "replace" /\ d.item \in said' /\ d.token = token)
<1>1. /\ ask # 0 /\ said' = IF choice = "replace" THEN said \cup {ask} ELSE said
      /\ UNCHANGED <<server, page>> /\ Decide(ask, choice, calls)
  BY DEF AnswerDialog
<1>2. running /\ ask \in Items /\ Out = {ask} /\ \A d \in calls : ~IsPut(d)
  BY <1>1, AskIs
<1>3. token' \in MaybeToken /\ shell' \in BOOLEAN /\ valid' = valid /\ calls \in SUBSET Calls
  BY <1>1, PageIs DEF page, server, PageOK, Inv, TypeOK
<1>. QED  BY <1>1, <1>2, <1>3, DecideDoes

LEMMA QueueSends ==
  ASSUME Inv, NEW n \in 1..2, Queue(n)
  PROVE  (\A d \in calls' : d \in calls \/ Sent(d)) /\ UNCHANGED <<page, entering, left>> /\ shell
<1>. DEFINE used == Cardinality({i \in Items : status[i] # "unused"})
            st == [i \in Items |-> IF i \in used+1..used+n THEN "waiting" ELSE status[i]]
<1>1. UNCHANGED <<server, page, entering, left>> /\ shell
  BY DEF Queue
<1>2. calls' = calls \/ PumpNext(st, FALSE, calls, "active")
  BY DEF Queue
<1>3. st \in [Items -> Statuses]
  BY DEF Inv, TypeOK, Statuses
<1>. HIDE DEF st, used
<1>4. token' \in MaybeToken /\ shell' \in BOOLEAN /\ valid' = valid /\ calls \in SUBSET Calls /\ TypeOK
  BY <1>1, PageIs DEF page, server, PageOK, Inv, TypeOK
<1>5. CASE PumpNext(st, FALSE, calls, "active")
  BY <1>1, <1>3, <1>4, <1>5, PumpDoes
<1>. QED  BY <1>1, <1>2, <1>5

(* Whatever answers come late: uploadOne sends a file over another one only *)
(* after the user said so, for that file or for the rest of the queue.      *)
THEOREM AskedFirst == Spec => NoSilentReplace
<1>. DEFINE Said == \A c \in calls' \ calls : c.kind = "replace" => c.item \in said' \/ blanket
<1>1. ASSUME Inv, [Next]_vars
      PROVE  Said
  <2>1. ASSUME NEW c \in calls, NEW answer \in AnswersTo(c), PutAnswer(c, answer)
        PROVE  Said
    <3>1. policy = "replace" => blanket
      BY <1>1 DEF Inv, QueueOK, Agreed
    <3>. QED  BY <1>1, <2>1, <3>1, PutSends DEF Sent
  <2>2. ASSUME NEW c \in calls, Receive(c)
        PROVE  Said
    <3>1. PICK answer \in AnswersTo(c) :
            \/ PageAnswer(c, answer) \/ LoginAnswer(c, answer) \/ EnterAnswer(c, answer)
            \/ LogoutAnswer(c, answer) \/ PutAnswer(c, answer)
      BY <2>2 DEF Receive
    <3>2. CASE PageAnswer(c, answer) \/ LogoutAnswer(c, answer)
      BY <3>2 DEF PageAnswer, LogoutAnswer, Others
    <3>3. CASE LoginAnswer(c, answer)
      <4>1. \A d \in calls' : d \in calls \/ \E t \in Tokens : d = [Call("roots", t, 0) EXCEPT !.good = TRUE]
        BY <3>3 DEF LoginAnswer, Others
      <4>2. \A t : [Call("roots", t, 0) EXCEPT !.good = TRUE].kind = "roots"
        BY DEF Call
      <4>. QED  BY <4>1, <4>2
    <3>4. CASE EnterAnswer(c, answer)
      <4>1. \A d \in calls' : d \in calls \/ d = Call("page", token, 0)
        BY <3>4, EnterAnswerIs DEF Enter, Others
      <4>2. Call("page", token, 0).kind = "page"
        BY DEF Call
      <4>. QED  BY <4>1, <4>2
    <3>. QED  BY <2>1, <3>1, <3>2, <3>3, <3>4
  <2>3. ASSUME NEW choice \in {"skip", "replace"}, NEW all \in BOOLEAN, AnswerDialog(choice, all)
        PROVE  Said
    BY <1>1, <2>3, DialogSends DEF Sent
  <2>4. ASSUME NEW n \in 1..2, Queue(n)
        PROVE  Said
    BY <1>1, <2>4, QueueSends DEF Sent
  <2>5. CASE ClearTray \/ (\E t \in Tokens : SessionEnds(t)) \/ UNCHANGED vars
    BY <2>5 DEF ClearTray, SessionEnds, vars
  <2>6. CASE Submit \/ SignOut \/ Browse \/ Reload
    <3>1. \A d \in calls' : d \in calls \/ \E kind \in {"login", "logout", "page", "me", "roots"}, t \in MaybeToken :
                                             d = Call(kind, t, 0)
      BY <1>1, <2>6, PageIs DEF Submit, SignOut, Browse, Reload, MaybeToken
    <3>2. \A kind, t : Call(kind, t, 0).kind = kind
      BY DEF Call
    <3>. QED  BY <3>1, <3>2
  <2>. QED  BY <1>1, <2>2, <2>3, <2>4, <2>5, <2>6 DEF Next
<1>2. Inv /\ [Next]_vars => [Said]_vars
  BY <1>1
<1>. QED  BY <1>2, Invariance, PTL DEF Spec, NoSilentReplace

-----------------------------------------------------------------------------
(* The phases of a page at whose sign-in no request was open.               *)
Held == UNCHANGED <<token, stored, shell, form, entering, ask>>

LEMMA SameVars ==
  ASSUME UNCHANGED <<page, entering, ask>>
  PROVE  Held
BY DEF page, Held

(* The session ends on a page that shows files or asks for them.            *)
LEMMA GoneOut ==
  ASSUME Phases, SignedIn \/ ComingIn \/ SignedOut, EndSession \/ (~shell /\ EnterFails),
         entering' = {}, \A d \in calls' : d.kind # "login"
  PROVE  SignedOut'
<1>1. token' = None /\ stored' = None /\ shell' = FALSE /\ form' = "ready"
  BY DEF EndSession, EnterFails, page, SignedIn, ComingIn, SignedOut, NobodyIn
<1>. QED  BY <1>1 DEF SignedOut, NobodyIn

LEMMA PhasesPageAnswer ==
  ASSUME Phases, NEW c \in calls, NEW answer, PageAnswer(c, answer)
  PROVE  Phases'
<1>1. /\ c.kind = "page" /\ calls' = calls \ {c} /\ UNCHANGED <<entering, ask>>
      /\ EndSession \/ UNCHANGED page
  BY RequestEnds DEF PageAnswer, Others, queue
<1>2. SignedOut \/ SignedIn
  BY <1>1 DEF Phases, SigningIn, ComingIn
<1>3. CASE EndSession
  BY <1>1, <1>2, <1>3, GoneOut DEF Phases, SignedIn, SignedOut, NobodyIn
<1>4. CASE UNCHANGED page
  BY <1>1, <1>2, <1>4, SameVars DEF Held, Phases, SignedIn, SignedOut, NobodyIn
<1>. QED  BY <1>1, <1>3, <1>4

LEMMA PhasesLoginAnswer ==
  ASSUME Inv, Phases, NEW c \in calls, NEW answer, LoginAnswer(c, answer)
  PROVE  Phases'
<1>1. SigningIn /\ calls = {c} /\ ask' = ask
  BY DEF LoginAnswer, queue, Phases, SignedOut, SigningIn, ComingIn, SignedIn
<1>2. CASE answer = "ok"
  <2>1. PICK t \in Tokens \ issued :
          /\ token' = t /\ stored' = t /\ entering' = entering \cup {t}
          /\ calls' = Others(c) \cup {[Call("roots", t, 0) EXCEPT !.good = TRUE]}
          /\ UNCHANGED <<shell, form, hash, resume>>
    BY <1>2 DEF LoginAnswer
  <2>. DEFINE roots == [Call("roots", t, 0) EXCEPT !.good = TRUE]
  <2>2. roots.kind = "roots" /\ roots.token = t
    BY DEF Call
  <2>3. calls' = {roots}
    BY <1>1, <2>1 DEF Others
  <2>. HIDE DEF roots
  <2>4. t # None
    BY NoneAssumption
  <2>5. ComingIn'
    BY <1>1, <2>1, <2>2, <2>3, <2>4 DEF ComingIn, SigningIn, NobodyIn
  <2>. QED  BY <2>5 DEF Phases
<1>3. CASE answer # "ok"
  <2>1. form' = "ready" /\ calls' = {} /\ UNCHANGED <<entering, token, stored, shell>>
    BY <1>1, <1>3 DEF LoginAnswer, Others, SigningIn
  <2>. QED  BY <1>1, <2>1 DEF Phases, SignedOut, SigningIn, NobodyIn
<1>. QED  BY <1>2, <1>3

LEMMA PhasesEnterAnswer ==
  ASSUME Inv, Phases, NEW c \in calls, NEW answer \in AnswersTo(c), EnterAnswer(c, answer)
  PROVE  Phases'
<1>0. c.kind \in {"me", "roots"} /\ answer \in {"ok", "refused", "error"}
  BY EnterAnswerIs DEF AnswersTo
<1>1. SignedOut \/ ComingIn
  BY <1>0 DEF Phases, SigningIn, SignedIn
<1>2. CASE answer = "ok" /\ c.token \in entering /\ Enter(c)
           /\ \A d \in Others(c) : d.token = c.token => d.kind \notin {"me", "roots"}
  <2>1. ComingIn /\ c.token = token
    BY <1>1, <1>2 DEF ComingIn, SignedOut, NobodyIn
  <2>2. Others(c) = {}
    BY <1>2, <2>1 DEF ComingIn, Others
  <2>. DEFINE reload == Call("page", token, 0)
  <2>3. reload.kind = "page" /\ reload.token = token
    BY DEF Call
  <2>4. /\ calls' = {reload} /\ shell' = TRUE /\ form' = "none" /\ entering' = {}
        /\ token' = token /\ stored' = stored
    BY <1>2, <2>1, <2>2 DEF Enter, ComingIn
  <2>. HIDE DEF reload
  <2>5. SignedIn'
    BY <2>1, <2>3, <2>4 DEF SignedIn, ComingIn
  <2>. QED  BY <2>5 DEF Phases
<1>3. CASE /\ \/ answer = "error" /\ c.token \in entering /\ EnterFails
              \/ ~(answer = "error" /\ c.token \in entering) /\ Request(answer)
           /\ entering' = IF answer = "ok" THEN entering ELSE entering \ {c.token}
           /\ answer = "ok" => (c.token \notin entering
                \/ ~ \A d \in Others(c) : d.token = c.token => d.kind \notin {"me", "roots"})
           /\ calls' = Others(c) /\ UNCHANGED queue
  <2>1. calls' = calls \ {c} /\ ask' = ask
    BY <1>3 DEF Others, queue
  <2>2. CASE SignedOut
    <3>1. Request(answer) /\ entering' = {}
      BY <1>3, <2>2 DEF SignedOut, NobodyIn
    <3>2. UNCHANGED page
      BY <2>2, <3>1 DEF Request, SignedOut, NobodyIn
    <3>. QED  BY <2>1, <2>2, <3>1, <3>2 DEF Phases, SignedOut, NobodyIn, page
  <2>3. CASE ComingIn /\ answer = "ok"
    <3>1. c.token = token /\ c.token \in entering /\ UNCHANGED <<page, entering>>
      BY <1>3, <2>3 DEF ComingIn, Request
    <3>2. calls' # {}
      BY <1>3, <2>3, <3>1
    <3>. QED  BY <2>1, <2>3, <3>1, <3>2 DEF Phases, ComingIn, page
  <2>4. CASE ComingIn /\ answer # "ok"
    <3>1. c.token = token /\ c.token \in entering /\ entering' = {}
      BY <1>3, <2>4 DEF ComingIn
    <3>2. CASE EnterFails \/ EndSession
      BY <2>1, <2>4, <3>1, <3>2, GoneOut DEF Phases, ComingIn
    <3>3. EnterFails \/ EndSession \/ (answer \notin {"refused", "error"} /\ UNCHANGED page)
      BY <1>3, <2>4, <3>1 DEF Request, ComingIn
    <3>. QED  BY <1>0, <2>4, <3>2, <3>3
  <2>. QED  BY <1>1, <2>2, <2>3, <2>4
<1>. QED  BY <1>2, <1>3, EnterAnswerIs

LEMMA PhasesLogoutAnswer ==
  ASSUME Phases, NEW c \in calls, NEW answer, LogoutAnswer(c, answer)
  PROVE  Phases'
<1>1. /\ token' = None /\ stored' = None /\ shell' = FALSE /\ form' = "ready"
      /\ c.kind = "logout" /\ entering' = entering /\ calls' = calls \ {c}
  BY DEF LogoutAnswer, Others
<1>2. SignedOut \/ SignedIn
  BY <1>1 DEF Phases, SigningIn, ComingIn
<1>. QED  BY <1>1, <1>2 DEF Phases, SignedOut, SignedIn, NobodyIn

LEMMA PhasesPutAnswer ==
  ASSUME Inv, Phases, NEW c \in calls, NEW answer, PutAnswer(c, answer)
  PROVE  Phases'
<1>1. IsPut(c) /\ (EndSession \/ UNCHANGED page) /\ entering' = entering
  BY PutAnswerIs
<1>2. SignedOut \/ SignedIn
  BY <1>1 DEF IsPut, Phases, SigningIn, ComingIn
<1>3. \A d \in calls' : \/ d \in calls
                        \/ d.kind \in {"page", "put", "replace"} /\ d.token \in {token, token'}
  BY PutSends DEF Sent
<1>4. CASE EndSession
  BY <1>1, <1>2, <1>3, <1>4, GoneOut DEF Phases, SignedIn, SignedOut, NobodyIn
<1>5. CASE UNCHANGED page
  BY <1>1, <1>2, <1>3, <1>5 DEF Phases, SignedIn, SignedOut, NobodyIn, page
<1>. QED  BY <1>1, <1>4, <1>5

(* What is done on a page of files, and what the dialog may do after it.    *)
LEMMA PhasesSends ==
  ASSUME Phases, SignedOut \/ SignedIn, UNCHANGED <<token, stored, shell, form, entering>>,
         \A d \in calls' : \/ d \in calls
                           \/ d.kind \in {"page", "put", "replace", "logout"} /\ d.token = token
  PROVE  Phases'
BY DEF Phases, SignedIn, SignedOut, NobodyIn

LEMMA PhasesReload ==
  ASSUME Inv, Reload
  PROVE  Phases'
<1>. DEFINE me == Call("me", stored, 0)
            roots == Call("roots", stored, 0)
<1>1. me.kind = "me" /\ me.token = stored /\ roots.kind = "roots" /\ roots.token = stored
  BY DEF Call
<1>2. /\ token' = stored /\ stored' = stored /\ shell' = FALSE /\ ask' = 0
      /\ form' = IF stored = None THEN "ready" ELSE "none"
      /\ entering' = {stored} \ {None}
      /\ calls' = IF stored = None THEN {} ELSE {me, roots}
  BY DEF Reload, Entering
<1>. HIDE DEF me, roots
<1>3. CASE stored = None
  BY <1>2, <1>3 DEF Phases, SignedOut, NobodyIn
<1>4. CASE stored # None
  BY <1>1, <1>2, <1>4 DEF Phases, ComingIn
<1>. QED  BY <1>3, <1>4

LEMMA PhasesNext ==
  ASSUME Inv, Phases, [Next]_vars
  PROVE  InPhase'
<1>1. ASSUME NEW c \in calls, Receive(c)
      PROVE  InPhase'
  <2>1. PICK answer \in AnswersTo(c) :
          PageAnswer(c, answer) \/ LoginAnswer(c, answer) \/ EnterAnswer(c, answer)
            \/ LogoutAnswer(c, answer) \/ PutAnswer(c, answer)
    BY <1>1 DEF Receive
  <2>. QED  BY <2>1, PhasesPageAnswer, PhasesLoginAnswer, PhasesEnterAnswer, PhasesLogoutAnswer,
               PhasesPutAnswer DEF InPhase
<1>2. ASSUME NEW n \in 1..2, Queue(n)
      PROVE  InPhase'
  <2>1. SignedIn /\ UNCHANGED <<token, stored, shell, form, entering>>
    BY <1>2, QueueSends DEF page, Phases, SignedOut, SigningIn, ComingIn, NobodyIn
  <2>. QED  BY <1>2, <2>1, QueueSends, PhasesSends DEF Sent, InPhase
<1>3. ASSUME NEW choice \in {"skip", "replace"}, NEW all \in BOOLEAN, AnswerDialog(choice, all)
      PROVE  InPhase'
  <2>1. ask # 0 /\ UNCHANGED <<token, stored, shell, form, entering>>
    BY <1>3 DEF AnswerDialog, page
  <2>2. SignedOut \/ SignedIn
    BY <2>1 DEF Phases, SigningIn, ComingIn
  <2>. QED  BY <1>3, <2>1, <2>2, DialogSends, PhasesSends DEF Sent, InPhase
<1>4. CASE ClearTray
  <2>1. SignedIn /\ UNCHANGED <<token, stored, shell, form, entering, calls>>
    BY <1>4 DEF ClearTray, page, Phases, SignedOut, SigningIn, ComingIn, NobodyIn
  <2>. QED  BY <2>1, PhasesSends DEF InPhase
<1>5. CASE Submit
  <2>. DEFINE login == Call("login", None, 0)
  <2>1. SignedOut /\ ask = 0 /\ late' = (late \/ calls # {})
    BY <1>5 DEF Submit, Phases, SigningIn, ComingIn, SignedIn
  <2>2. calls' = calls \cup {login} /\ form' = "busy" /\ UNCHANGED <<token, stored, shell, entering, ask>>
    BY <1>5, <2>1 DEF Submit, queue
  <2>3. login.kind = "login"
    BY DEF Call
  <2>. HIDE DEF login
  <2>4. CASE calls = {}
    BY <2>1, <2>2, <2>3, <2>4 DEF InPhase, Phases, SigningIn, SignedOut, NobodyIn
  <2>5. CASE calls # {}
    (* A request of the last session is open: nothing is claimed from here.  *)
    BY <2>1, <2>5 DEF InPhase
  <2>. QED  BY <2>4, <2>5
<1>6. CASE SignOut \/ Browse
  <2>1. SignedIn /\ UNCHANGED <<token, stored, shell, form, entering>>
    BY <1>6 DEF SignOut, Browse, page, Phases, SignedOut, SigningIn, ComingIn, NobodyIn
  <2>2. \A d \in calls' : d \in calls \/ d = Call("logout", token, 0) \/ d = Call("page", token, 0)
    BY <1>6 DEF SignOut, Browse
  <2>3. \A kind : Call(kind, token, 0).kind = kind /\ Call(kind, token, 0).token = token
    BY DEF Call
  <2>. QED  BY <2>1, <2>2, <2>3, PhasesSends DEF InPhase
<1>7. CASE Reload
  BY <1>7, PhasesReload DEF InPhase
<1>8. CASE (\E t \in Tokens : SessionEnds(t)) \/ UNCHANGED vars
  <2>1. UNCHANGED <<token, stored, shell, form, entering, ask, calls>>
    BY <1>8 DEF SessionEnds, vars, page, queue
  <2>. QED  BY <2>1 DEF InPhase, Phases, SignedOut, SigningIn, ComingIn, SignedIn, NobodyIn
<1>. QED  BY <1>1, <1>2, <1>3, <1>4, <1>5, <1>6, <1>7, <1>8 DEF Next

(* Only loading the page again cancels what is open.                        *)
LEMMA StaysLate ==
  ASSUME Inv, late, [Next]_vars
  PROVE  InPhase'
<1>1. CASE Reload
  <2>1. Phases'
    BY <1>1, PhasesReload
  <2>. QED  BY <2>1 DEF InPhase
<1>2. CASE ~Reload
  <2>1. ASSUME NEW c \in calls, Receive(c)
        PROVE  late'
    <3>1. PICK answer \in AnswersTo(c) :
            \/ PageAnswer(c, answer) \/ LoginAnswer(c, answer) \/ EnterAnswer(c, answer)
            \/ LogoutAnswer(c, answer) \/ PutAnswer(c, answer)
      BY <2>1 DEF Receive
    <3>. QED  BY <3>1 DEF PageAnswer, LoginAnswer, EnterAnswer, LogoutAnswer, PutAnswer, history
  <2>2. late'
    BY <1>2, <2>1 DEF Next, Queue, AnswerDialog, ClearTray, Submit, SignOut, Browse, SessionEnds,
                      vars, history
  <2>. QED  BY <2>2 DEF InPhase
<1>. QED  BY <1>1, <1>2

LEMMA PhasesInvariance == Spec => [](Inv /\ InPhase)
<1>1. Init => Inv /\ InPhase
  BY InvInit DEF Init, InPhase, Phases, SignedOut, NobodyIn
<1>2. Inv /\ InPhase /\ [Next]_vars => (Inv /\ InPhase)'
  BY InvNext, PhasesNext, StaysLate DEF InPhase
<1>. QED  BY <1>1, <1>2, PTL DEF Spec

(* As long as no request of the last session is open at a sign-in, the page *)
(* always shows files, a form, or waits for the answers that bring one.     *)
THEOREM Stranding == Spec => []NeverStranded
<1>1. InPhase => NeverStranded
  BY DEF InPhase, Phases, SignedOut, SigningIn, ComingIn, SignedIn, NobodyIn, NeverStranded
<1>. QED  BY <1>1, PhasesInvariance, PTL

-----------------------------------------------------------------------------
(* The end of a session, whatever answers are late.                         *)

LEMMA SameNext ==
  ASSUME Inv, Same, [Next]_vars
  PROVE  Same'
<1>1. ASSUME NEW c \in calls, Receive(c)
      PROVE  Same'
  <2>1. PICK answer \in AnswersTo(c) :
          \/ PageAnswer(c, answer) \/ LoginAnswer(c, answer) \/ EnterAnswer(c, answer)
          \/ LogoutAnswer(c, answer) \/ PutAnswer(c, answer)
    BY <1>1 DEF Receive
  <2>2. CASE PageAnswer(c, answer) \/ PutAnswer(c, answer)
    BY <2>2, PutAnswerIs DEF PageAnswer, Request, EndSession, page, Same
  <2>3. CASE LoginAnswer(c, answer) \/ LogoutAnswer(c, answer)
    BY <2>3 DEF LoginAnswer, LogoutAnswer, Same
  <2>4. CASE EnterAnswer(c, answer)
    BY <2>4, EnterAnswerIs DEF Enter, EnterFails, Request, EndSession, page, Same
  <2>. QED  BY <2>1, <2>2, <2>3, <2>4
<1>2. CASE Reload
  BY <1>2 DEF Reload, Same
<1>3. ASSUME \/ \E n \in 1..2 : Queue(n)
             \/ \E choice \in {"skip", "replace"}, all \in BOOLEAN : AnswerDialog(choice, all)
             \/ ClearTray \/ Submit \/ SignOut \/ Browse \/ (\E t \in Tokens : SessionEnds(t))
             \/ UNCHANGED vars
      PROVE  Same'
  BY <1>3 DEF Queue, AnswerDialog, ClearTray, Submit, SignOut, Browse, SessionEnds, vars, page, Same
<1>. QED  BY <1>1, <1>2, <1>3 DEF Next

LEMMA SameInvariance == Spec => [](Inv /\ Same)
<1>1. Init => Inv /\ Same
  BY InvInit DEF Init, Same
<1>2. Inv /\ Same /\ [Next]_vars => (Inv /\ Same)'
  BY InvNext, SameNext
<1>. QED  BY <1>1, <1>2, PTL DEF Spec

(* A request that was refused was one of a session the server had ended.    *)
LEMMA RefusedIsDead ==
  ASSUME NEW c, "refused" \in AnswersTo(c)
  PROVE  c.token \notin valid
BY DEF AnswersTo

(* The answers that drop a token, and whose they are.                       *)
LEMMA AnswerDrops ==
  ASSUME Inv, NEW c \in calls, Receive(c), Dropped
  PROVE  c \notin calls' /\ (c.token = token => Excusable)
<1>1. PICK answer \in AnswersTo(c) :
        \/ PageAnswer(c, answer) \/ LoginAnswer(c, answer) \/ EnterAnswer(c, answer)
        \/ LogoutAnswer(c, answer) \/ PutAnswer(c, answer)
  BY DEF Receive
<1>2. token # None /\ token' = None /\ left' = left
  BY DEF Dropped
<1>3. ASSUME answer = "refused", c.token = token
      PROVE  Excusable
  BY <1>3, RefusedIsDead DEF Excusable
<1>4. CASE PageAnswer(c, answer)
  <2>1. answer = "refused" /\ calls' = Others(c)
    BY <1>2, <1>4 DEF PageAnswer, Request, page
  <2>. QED  BY <1>3, <2>1 DEF Others
<1>5. CASE PutAnswer(c, answer)
  <2>1. answer = "refused" /\ IsPut(c)
    BY <1>2, <1>5 DEF PutAnswer, page, IsPut
  <2>2. Settle(c.item, "failed", Others(c))
    BY <1>5, <2>1 DEF PutAnswer
  <2>3. calls' = Others(c)
    BY <1>2, <2>2 DEF Settle, PumpNext
  <2>. QED  BY <1>3, <2>1, <2>3 DEF Others
<1>6. CASE LogoutAnswer(c, answer)
  <2>1. left' = left \cup ({c.token} \ {None}) /\ calls' = Others(c)
    BY <1>6 DEF LogoutAnswer
  <2>2. token \notin left
    BY <1>2 DEF Inv, Forgotten
  <2>. QED  BY <1>2, <2>1, <2>2 DEF Others
<1>7. CASE LoginAnswer(c, answer)
  BY <1>2, <1>7, NoneAssumption DEF LoginAnswer
<1>8. CASE EnterAnswer(c, answer)
  <2>1. CASE Enter(c)
    BY <1>2, <2>1 DEF Enter
  <2>2. CASE ~Enter(c)
    <3>1. /\ calls' = Others(c)
          /\ IF answer = "error" /\ c.token \in entering THEN EnterFails ELSE Request(answer)
      BY <1>8, <2>2 DEF EnterAnswer
    <3>2. (answer = "error" /\ c.token \in entering) \/ answer = "refused"
      BY <1>2, <3>1 DEF Request, page
    <3>. QED  BY <1>3, <3>1, <3>2 DEF Others, Excusable
  <2>. QED  BY <2>1, <2>2
<1>. QED  BY <1>1, <1>4, <1>5, <1>6, <1>7, <1>8

(* A page drops a token the server still takes only in enterApp, when its   *)
(* user says so, or over the answer to a request of another session.        *)
THEOREM Ending == Spec => OwnAnswersEnd
<1>. DEFINE Ended == Dropped => Excusable \/ \E c \in calls \ calls' : c.token # token
<1>1. ASSUME Inv, Same, [Next]_vars, Dropped
      PROVE  Excusable \/ \E c \in calls \ calls' : c.token # token
  <2>1. ASSUME NEW c \in calls, Receive(c)
        PROVE  Excusable \/ \E d \in calls \ calls' : d.token # token
    BY <1>1, <2>1, AnswerDrops
  <2>2. CASE Reload
    BY <1>1, <2>2 DEF Reload, Same, Dropped
  <2>3. ASSUME \/ \E n \in 1..2 : Queue(n)
               \/ \E choice \in {"skip", "replace"}, all \in BOOLEAN : AnswerDialog(choice, all)
               \/ ClearTray \/ Submit \/ SignOut \/ Browse \/ (\E t \in Tokens : SessionEnds(t))
               \/ UNCHANGED vars
        PROVE  FALSE
    BY <1>1, <2>3 DEF Queue, AnswerDialog, ClearTray, Submit, SignOut, Browse, SessionEnds, vars,
                      page, Dropped
  <2>. QED  BY <1>1, <2>1, <2>2, <2>3 DEF Next
<1>2. Inv /\ Same /\ [Next]_vars => [Ended]_vars
  BY <1>1
<1>. QED  BY <1>2, SameInvariance, PTL DEF Spec, OwnAnswersEnd
=============================================================================
