--------------------------- MODULE PortalSession ---------------------------
(***************************************************************************)
(* The page of the web portal (portal.js): signing in and out, what the    *)
(* browser stores, the requests in flight, and the queue of uploads.       *)
(*                                                                         *)
(* A handler runs to its end, so an action is one event of the browser: a  *)
(* click, an answer, a page load.  An answer is whatever the server may    *)
(* say of the request at some time between sending and arrival: its token  *)
(* may have died in between, and dead tokens stay dead.                    *)
(***************************************************************************)
EXTENDS Naturals, FiniteSets, FiniteSetsExt

CONSTANTS
  Tokens,         \* session tokens, each given out once
  None,           \* no token
  MaxItems,       \* bound: files queued in a behaviour
  MaxEvents       \* bound: sign-ins, sign-outs, page loads and sessions that end

ASSUME NoneAssumption == None \notin Tokens
ASSUME BoundAssumption == MaxItems \in Nat /\ MaxEvents \in Nat

Items == 1..MaxItems
MaybeToken == Tokens \cup {None}

(* A request in flight, with the token it was sent with and whether that    *)
(* was alive then.  "page" is any request of the open page but an upload,   *)
(* "put" and "replace" are the two sends of uploadOne.                      *)
Calls == [kind : {"login", "me", "roots", "logout", "page", "put", "replace"},
          token : MaybeToken, item : 0..MaxItems, good : BOOLEAN]
Answers == {"ok", "refused", "exists", "error"}
Statuses == {"unused", "waiting", "uploading", "done", "skipped", "failed", "cleared"}

VARIABLES
  valid, issued,    \* the server's sessions, and all tokens it gave out
  calls,            \* requests in flight
  token, stored,    \* state.token, and TOKEN_KEY in sessionStorage
  shell, form,      \* is the file page built? the sign-in form on the page
  hash, resume,     \* whose place the address names, and RESUME_KEY
  entering,         \* tokens whose enterApp has not settled
  status, running, policy, anyDone,   \* uploads.items, pump's variables
  ask,              \* the item askReplace is open for
  tray,             \* what renderUploads last drew
  left,             \* history: tokens their user signed out of
  said, blanket,    \* history: items to replace, and the box ticked in this run
  late,             \* history: a request was open at a sign-in since the page was loaded
  events

server == <<valid, issued>>
page == <<token, stored, shell, form, hash, resume>>
queue == <<status, running, policy, anyDone, ask, tray>>
history == <<left, said, blanket, late>>
vars == <<server, calls, page, entering, queue, history, events>>

TypeOK ==
  /\ valid \subseteq issued /\ issued \subseteq Tokens
  /\ calls \subseteq Calls
  /\ {token, stored, hash, resume} \subseteq MaybeToken
  /\ shell \in BOOLEAN /\ form \in {"none", "ready", "busy"}
  /\ entering \subseteq Tokens
  /\ status \in [Items -> Statuses]
  /\ running \in BOOLEAN /\ anyDone \in BOOLEAN
  /\ policy \in {"ask", "skip", "replace"}
  /\ ask \in 0..MaxItems
  /\ tray \in {"hidden", "active", "clear"}
  /\ left \subseteq Tokens /\ said \subseteq Items /\ blanket \in BOOLEAN /\ late \in BOOLEAN
  /\ events \in 0..MaxEvents

Init ==
  /\ valid = {} /\ issued = {} /\ calls = {}
  /\ token = None /\ stored = None /\ shell = FALSE /\ form = "ready"
  /\ hash = None /\ resume = None /\ entering = {}
  /\ status = [i \in Items |-> "unused"]
  /\ running = FALSE /\ policy = "ask" /\ anyDone = FALSE /\ ask = 0 /\ tray = "hidden"
  /\ left = {} /\ said = {} /\ blanket = FALSE /\ late = FALSE
  /\ events = 0

-----------------------------------------------------------------------------
Call(kind, t, i) == [kind |-> kind, token |-> t, item |-> i, good |-> t \in valid]
Event == events < MaxEvents /\ events' = events + 1

(* What the server may have said of c by the time the answer is here.       *)
AnswersTo(c) ==
  {"error"}
    \cup (IF c.good \/ (c.kind = "login" /\ issued # Tokens) THEN {"ok"} ELSE {})
    \cup (IF c.kind # "login" /\ c.token \notin valid THEN {"refused"} ELSE {})
    \cup (IF c.kind = "put" /\ c.good THEN {"exists"} ELSE {})

EndSessionOfPage ==   \* mutant: the file page stays
  IF token = None THEN UNCHANGED page
  ELSE /\ token' = None /\ stored' = None /\ resume' = hash
       /\ UNCHANGED <<shell, form, hash>>

(* endSession: to the sign-in form, with the place kept for the next one.   *)
EndSession ==
  IF token = None /\ ~shell
  THEN UNCHANGED page
  ELSE /\ token' = None /\ stored' = None
       /\ shell' = FALSE /\ form' = "ready"
       /\ resume' = hash /\ UNCHANGED hash

RequestAny(answer) ==   \* mutant: a request that fails ends the session, too
  IF answer \in {"refused", "error"} /\ token # None THEN EndSession ELSE UNCHANGED page

(* What request does to the page before its caller sees the answer.         *)
Request(answer) ==
  IF answer = "refused" /\ token # None THEN EndSession ELSE UNCHANGED page

-----------------------------------------------------------------------------
(* The queue of uploads.                                                    *)

SendFile(overwrite, t, i) == Call(IF overwrite THEN "replace" ELSE "put", t, i)

Active(st) == \E i \in Items : st[i] \in {"waiting", "uploading"}
TrayOf(st) ==
  IF Active(st) THEN "active"
  ELSE IF \E i \in Items : st[i] \in {"done", "skipped", "failed"} THEN "clear" ELSE "hidden"

(* next of pump, over the items st: send the first file that waits, or stop *)
(* and show the folder again if one of this run is done.                    *)
PumpNext(st, done, others, drawn) ==
  LET waiting == {i \in Items : st[i] = "waiting"}
      reload == IF done /\ shell' /\ token' # None THEN {Call("page", token', 0)} ELSE {} IN
  /\ anyDone' = done
  /\ IF waiting = {} \/ token' = None
     THEN /\ running' = FALSE
          /\ status' = st
          /\ tray' = IF shell' THEN TrayOf(st) ELSE drawn
          /\ calls' = others \cup reload
     ELSE /\ running' = TRUE
          /\ status' = [st EXCEPT ![Min(waiting)] = "uploading"]
          /\ calls' = others \cup {SendFile(FALSE, token', Min(waiting))}
          /\ tray' = drawn

Settle(i, result, others) ==
  PumpNext([status EXCEPT ![i] = result], anyDone \/ result = "done", others, tray)

(* uploadOne once it is known what to do about the file that is there.      *)
Decide(i, choice, others) ==
  IF choice = "replace"
  THEN /\ calls' = others \cup {SendFile(TRUE, token, i)}
       /\ UNCHANGED <<status, running, anyDone, tray>>
  ELSE Settle(i, "skipped", others)

PolicyStays == policy   \* mutant: the box of the last run still counts
PolicyOfRun == "ask"

AlwaysPump == TRUE   \* mutant: pump starts again while it runs
StartsPump == ~running

(* queueUploads: n files, and pump unless it runs already.                  *)
Queue(n) ==
  LET used == Cardinality({i \in Items : status[i] # "unused"})
      st == [i \in Items |-> IF i \in used+1..used+n THEN "waiting" ELSE status[i]] IN
  /\ shell /\ form = "none" /\ ask = 0
  /\ used + n <= MaxItems
  /\ UNCHANGED <<server, page, entering, ask, left, said, late, events>>
  /\ IF StartsPump
     THEN /\ policy' = PolicyOfRun /\ blanket' = FALSE
          /\ PumpNext(st, FALSE, calls, "active")
     ELSE /\ status' = st /\ tray' = "active"
          /\ UNCHANGED <<running, policy, anyDone, calls, blanket>>

(* The dialog of askReplace is closed, perhaps with the box ticked.         *)
AnswerDialog(choice, all) ==
  /\ ask # 0
  /\ ask' = 0
  /\ policy' = IF all THEN choice ELSE policy
  /\ said' = IF choice = "replace" THEN said \cup {ask} ELSE said
  /\ blanket' = (blanket \/ (all /\ choice = "replace"))
  /\ UNCHANGED <<server, page, entering, left, late, events>>
  /\ Decide(ask, choice, calls)

(* The button of the tray, which is there when nothing was active.          *)
ClearTray ==
  /\ shell /\ form = "none" /\ ask = 0 /\ tray = "clear"
  /\ status' = [i \in Items |-> IF status[i] = "unused" THEN "unused" ELSE "cleared"]
  /\ tray' = "hidden"
  /\ UNCHANGED <<server, calls, page, entering, running, policy, anyDone, ask, history, events>>

-----------------------------------------------------------------------------
(* Answers.                                                                 *)

Others(c) == calls \ {c}

(* Any request whose answer changes nothing but, perhaps, the session.      *)
PageAnswer(c, answer) ==
  /\ c.kind = "page"
  /\ Request(answer)
  /\ calls' = Others(c)
  /\ UNCHANGED <<server, entering, queue, history>>

LoginAnswer(c, answer) ==
  /\ c.kind = "login"
  /\ IF answer = "ok"
     THEN \E t \in Tokens \ issued :
            /\ issued' = issued \cup {t} /\ valid' = valid \cup {t}
            /\ token' = t /\ stored' = t
            /\ entering' = entering \cup {t}
            /\ calls' = Others(c) \cup {[Call("roots", t, 0) EXCEPT !.good = TRUE]}
            /\ UNCHANGED <<shell, form, hash, resume>>
     ELSE /\ form' = IF form = "busy" THEN "ready" ELSE form
          /\ calls' = Others(c)
          /\ UNCHANGED <<server, entering, token, stored, shell, hash, resume>>
  /\ UNCHANGED <<queue, history>>


(* enterApp has both answers: build the page, go back to the place that was *)
(* stored, and list it.                                                     *)
Enter(c) ==
  LET place == IF resume # None THEN resume ELSE hash IN
  /\ shell' = TRUE /\ form' = "none" /\ tray' = "hidden"
  /\ resume' = None
  /\ hash' = IF place = None THEN token ELSE place
  /\ entering' = entering \ {c.token}
  /\ calls' = Others(c) \cup IF token # None THEN {Call("page", token, 0)} ELSE {}
  /\ UNCHANGED <<token, stored, status, running, policy, anyDone, ask>>

EnterFailsSilently == UNCHANGED page   \* mutant: no way back to the form

EnterFails ==
  /\ token' = None /\ stored' = None /\ form' = "ready"
  /\ UNCHANGED <<shell, hash, resume>>

EnterAnswer(c, answer) ==
  LET last == \A d \in Others(c) : d.token = c.token => d.kind \notin {"me", "roots"} IN
  /\ c.kind \in {"me", "roots"}
  /\ IF answer = "ok" /\ last /\ c.token \in entering
     THEN Enter(c)
     ELSE /\ IF answer = "error" /\ c.token \in entering THEN EnterFails ELSE Request(answer)
          /\ entering' = IF answer = "ok" THEN entering ELSE entering \ {c.token}
          /\ calls' = Others(c)
          /\ UNCHANGED queue
  /\ UNCHANGED <<server, history>>

LogoutKeepsPlace(c, answer) ==   \* mutant: signOut leaves by way of endSession
  /\ c.kind = "logout"
  /\ valid' \in IF answer = "error" THEN {valid, valid \ {c.token}} ELSE {valid \ {c.token}}
  /\ EndSession
  /\ left' = left \cup ({c.token} \ {None})
  /\ calls' = Others(c)
  /\ UNCHANGED <<issued, entering, queue, said, blanket, late>>

(* signOut goes on in the same way whatever the answer is.                  *)
LogoutAnswer(c, answer) ==
  /\ c.kind = "logout"
  /\ valid' \in IF answer = "error" THEN {valid, valid \ {c.token}} ELSE {valid \ {c.token}}
  /\ token' = None /\ stored' = None /\ resume' = None /\ hash' = None
  /\ shell' = FALSE /\ form' = "ready"
  /\ left' = left \cup ({c.token} \ {None})
  /\ calls' = Others(c)
  /\ UNCHANGED <<issued, entering, queue, said, blanket, late>>

PutAnswerLost(c, answer) ==   \* mutant: sendFile has no onerror
  /\ c.kind \in {"put", "replace"}
  /\ calls' = Others(c)
  /\ UNCHANGED <<server, page, entering, queue, history>>

(* uploadOne: a 401 ends the session whatever request's own guard says.     *)
PutAnswer(c, answer) ==
  /\ c.kind \in {"put", "replace"}
  /\ IF answer = "refused" THEN EndSession ELSE UNCHANGED page
  /\ IF answer = "exists" /\ policy = "ask"
     THEN /\ ask' = c.item
          /\ calls' = Others(c)
          /\ UNCHANGED <<status, running, anyDone, tray>>
     ELSE /\ UNCHANGED ask
          /\ CASE answer = "exists" -> Decide(c.item, policy, Others(c))
               [] answer = "ok" -> Settle(c.item, "done", Others(c))
               [] OTHER -> Settle(c.item, "failed", Others(c))
  /\ UNCHANGED <<server, entering, policy, history>>

Receive(c) ==
  /\ \E answer \in AnswersTo(c) :
       \/ PageAnswer(c, answer) \/ LoginAnswer(c, answer) \/ EnterAnswer(c, answer)
       \/ LogoutAnswer(c, answer) \/ PutAnswer(c, answer)
  /\ UNCHANGED events

-----------------------------------------------------------------------------
(* The user and the browser.                                                *)

(* The form is sent.  One at a time, and it is inert under a dialog.        *)
Submit ==
  /\ form = "ready" /\ ask = 0
  /\ \A c \in calls : c.kind # "login"
  /\ Event
  /\ form' = "busy"
  /\ calls' = calls \cup {Call("login", None, 0)}
  /\ late' = (late \/ calls # {})
  /\ UNCHANGED <<server, token, stored, shell, hash, resume, entering, queue, left, said, blanket>>

SignOut ==
  /\ shell /\ form = "none" /\ ask = 0
  /\ Event
  /\ calls' = calls \cup {Call("logout", token, 0)}
  /\ UNCHANGED <<server, page, entering, queue, history>>

(* Another folder, or any action that asks the server for something.  Back  *)
(* and Forward work under a dialog, too.                                    *)
Browse ==
  /\ shell /\ token # None
  /\ hash' = token
  /\ calls' = calls \cup {Call("page", token, 0)}
  /\ UNCHANGED <<server, token, stored, shell, form, resume, entering, queue, history, events>>

EnteringAlways(t) == {t}   \* mutant: boot enters without a token, too
Entering(t) == {t} \ {None}

(* The page is loaded again: boot, with what the browser kept.  A logout    *)
(* that was sent may still be obeyed.                                       *)
Reload ==
  /\ Event
  /\ \E gone \in SUBSET {c.token : c \in {d \in calls : d.kind = "logout"}} : valid' = valid \ gone
  /\ token' = stored /\ shell' = FALSE
  /\ form' = IF stored = None THEN "ready" ELSE "none"
  /\ entering' = Entering(stored)
  /\ calls' = IF stored = None THEN {} ELSE {Call("me", stored, 0), Call("roots", stored, 0)}
  /\ status' = [i \in Items |-> IF status[i] = "unused" THEN "unused" ELSE "cleared"]
  /\ running' = FALSE /\ policy' = "ask" /\ anyDone' = FALSE /\ ask' = 0 /\ tray' = "hidden"
  /\ said' = {} /\ blanket' = FALSE /\ late' = FALSE
  /\ UNCHANGED <<issued, stored, hash, resume, left>>

(* The server drops a session: time, a new password, a logout it has read.  *)
SessionEnds(t) ==
  /\ t \in valid
  /\ IF \E c \in calls : c.kind = "logout" /\ c.token = t THEN UNCHANGED events ELSE Event
  /\ valid' = valid \ {t}
  /\ UNCHANGED <<issued, calls, page, entering, queue, history>>

Next ==
  \/ \E c \in calls : Receive(c)
  \/ \E n \in 1..2 : Queue(n)
  \/ \E choice \in {"skip", "replace"}, all \in BOOLEAN : AnswerDialog(choice, all)
  \/ ClearTray \/ Submit \/ SignOut \/ Browse \/ Reload
  \/ \E t \in Tokens : SessionEnds(t)

Spec == Init /\ [][Next]_vars

(* Every request is answered or fails in the end.  Nothing is assumed of    *)
(* the user, or of the server's sessions.                                   *)
Answered == \A k \in {"login", "me", "roots", "put", "replace"} :
              WF_vars(\E c \in calls : c.kind = k /\ Receive(c))
FairSpec == Spec /\ Answered

-----------------------------------------------------------------------------
(* Somebody is always able to go on: the file page belongs to a session,    *)
(* and a page without it has a form or is waiting for the answers that      *)
(* bring one.  That is so until somebody signs in while a request of the    *)
(* last session is open: its answer may then take away the new token while  *)
(* enterApp waits, which shows the file page all the same.                  *)
NeverStranded ==
  late \/ /\ shell => token # None /\ form = "none"
          /\ ~shell /\ form = "none" =>
               \E c \in calls : c.kind \in {"me", "roots"} /\ c.token \in entering
          /\ form = "busy" => \E c \in calls : c.kind \in {"login", "roots"}

(* After signing out nothing of the session is left in this browser: its    *)
(* token is not used or stored, and nobody is taken to its place.           *)
SignedOutIsForgotten ==
  /\ {token, stored, resume} \cap left = {}
  /\ shell => hash \notin left

(* pump never stands still while it holds its flag, and sends one file at a *)
(* time: exactly one item is out, and it has a request or a question open.  *)
PumpAlive ==
  LET out == {i \in Items : status[i] = "uploading"}
      puts == {c \in calls : c.kind \in {"put", "replace"}} IN
  /\ running => Cardinality(out) = 1 /\ Cardinality(puts) + (IF ask # 0 THEN 1 ELSE 0) = 1
  /\ ~running => out = {} /\ puts = {} /\ ask = 0
  /\ \A c \in puts : c.item \in out
  /\ ask # 0 => ask \in out

(* Why a page drops state.token: it is loaded again or its user signs out,  *)
(* the server no longer takes it, or enterApp of its session fails.         *)
Dropped == token # None /\ token' = None /\ left' = left
Excusable == token \notin valid \/ token \in entering

(* The page says "Your session ended" only of a session the server ended.   *)
EndedMeansEnded == [][Dropped => Excusable]_vars

(* What breaks that is the answer to a request of another session, and      *)
(* nothing else: a page never drops its token over an answer of its own     *)
(* that the server does not give to a dead session.                         *)
OwnAnswersEnd ==
  [][Dropped => Excusable \/ \E c \in calls \ calls' : c.token # token]_vars

(* A file that is there is replaced only if the user said so, for it or,    *)
(* with the box, for the rest of this run of the queue.                     *)
NoSilentReplace ==
  [][\A c \in calls' \ calls : c.kind = "replace" => c.item \in said' \/ blanket]_vars

(* The queue comes to an end, or waits for an answer to its question.       *)
PumpEnds == running ~> (~running \/ ask # 0)

(* Signing in, and opening the page, come to an end: files or a form.       *)
PageSettles == (~shell /\ form # "ready") ~> (shell \/ form = "ready")

(* While somebody is signed in, a file that waits is on its way or shown.   *)
NoUploadForgotten ==
  shell /\ (\E i \in Items : status[i] = "waiting") => running \/ tray # "hidden"
=============================================================================
