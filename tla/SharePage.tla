----------------------------- MODULE SharePage -----------------------------
(***************************************************************************)
(* A share link: the page its visitors open (public.js), the handlers that *)
(* serve it (public_endpoints.dart), and the row that counts its uses.     *)
(*                                                                         *)
(* A request is taken through the awaits of its handler one by one, while  *)
(* the other requests of all visitors go on.  It may be lost on its way,   *)
(* and so may its answer: then the handler has done its work all the same. *)
(***************************************************************************)
EXTENDS Naturals, FiniteSets, FiniteSetsExt

CONSTANTS
  Visitors,
  Links,        \* the links looked at: [kind : Kinds, locked, direct : BOOLEAN]
  MaxUses,      \* the link's maxUses
  MaxChecks,    \* maxConcurrentPasswordChecks
  MaxItems,     \* bound: files a visitor sends
  MaxRequests,  \* bound: requests of a visitor for lists and files in flight
  MaxFiles,     \* bound: names resolveNonConflictingName tries
  OwnersFiles   \* the names among them that are the owner's files at first

Kinds == {"file", "folder", "upload"}
Folders == {"/", "/sub"}
Items == 1..MaxItems

(* What is under a name of the folder: nothing, the owner's file, or that   *)
(* of a visitor, whole or on its way.                                       *)
Free == [is |-> "free", of |-> <<>>]
Owners == [is |-> "whole", of |-> <<>>]
File(v, i) == [is |-> "whole", of |-> <<v, i>>]
Part(v, i) == [is |-> "part", of |-> <<v, i>>]
Whole(c) == c.is = "whole"
Files == [is : {"free", "whole", "part"}, of : {<<>>} \cup (Visitors \X Items)]

ASSUME LinksAssumption == Links \subseteq [kind : Kinds, locked : BOOLEAN, direct : BOOLEAN]
ASSUME CountsAssumption ==
  MaxUses \in Nat \ {0} /\ MaxChecks \in Nat \ {0} /\ MaxItems \in Nat /\ MaxRequests \in Nat
  /\ MaxFiles \in Nat /\ OwnersFiles \subseteq 1..MaxFiles

(* A request: the visitor, what it asks, how far its handler is, and the    *)
(* answer; "proof" says that it carries an unlock, "right" that the         *)
(* password is.  "heard" says that the page waits for the answer.  It does  *)
(* not once the connection is lost, and never for a file that the browser   *)
(* itself fetches ("get").                                                  *)
Requests == [who : Visitors, kind : {"info", "unlock", "list", "get", "put"},
             stage : {"sent", "opened", "verify", "planned", "claiming", "used", "named",
                      "writing", "sending", "resuming", "answered"},
             answer : {"none", "ok", "locked", "error"}, heard : BOOLEAN,
             proof : BOOLEAN, right : BOOLEAN, folder : Folders, item : 0..MaxItems,
             name : 0..MaxFiles]

VARIABLES
  link,               \* the share: what it is of, locked by a password, on direct-path storage
  row, used,          \* its row: "live", "expired" by the clock, or "deleted"; useCount
  proofs,             \* visitors with a proof in ShareUnlocks
  checks,             \* _passwordChecks
  dir,                \* the folder an upload link writes to
  reqs,
  view, unlock,       \* what a page shows, and whether state.unlock is set
  path, rows, loading, failed,   \* of a folder link: rows as the folders they are of
  items, sending,     \* of an upload link: uploads.items, the flag of pump
  served, typed       \* history: files that got through, not counting downloads that were
                      \* resumed; who gave the right password

server == <<link, row, used, proofs, checks, dir>>
page == <<view, unlock, path, rows, loading, failed, items, sending>>
history == <<served, typed>>
vars == <<server, reqs, page, history>>

TypeOK ==
  /\ link \in Links /\ row \in {"live", "expired", "deleted"} /\ used \in 0..MaxUses
  /\ proofs \subseteq Visitors /\ checks \in 0..MaxChecks
  /\ dir \in [1..MaxFiles -> Files]
  /\ reqs \subseteq Requests
  /\ view \in [Visitors -> {"loading", "error", "password", "checking"} \cup Kinds]
  /\ {unlock, loading, failed, sending} \subseteq [Visitors -> BOOLEAN]
  /\ path \in [Visitors -> Folders] /\ rows \in [Visitors -> SUBSET Folders]
  /\ items \in [Visitors -> [Items -> {"unused", "waiting", "sending", "sent", "failed"}]]
  /\ served \in Nat /\ typed \subseteq Visitors

-----------------------------------------------------------------------------
(* The handlers.                                                            *)

Becomes(r, s) == reqs' = (reqs \ {r}) \cup {s}
Goes(r, stage) == Becomes(r, [r EXCEPT !.stage = stage])
Answer(r, a) ==
  IF r.heard THEN Becomes(r, [r EXCEPT !.stage = "answered", !.answer = a])
  ELSE reqs' = reqs \ {r}

(* _open: the link has not ended.  It is refused as well when too many      *)
(* wrong links were tried, when its creator may no longer do as much, and   *)
(* when the storage is away.                                                *)
OpenLink(r) ==
  /\ r.stage = "sent"
  /\ Answer(r, "error") \/ (row = "live" /\ used < MaxUses /\ Goes(r, "opened"))
  /\ UNCHANGED <<server, page, history>>

UnlockedButInfo(r) ==   \* mutant: what the link is of is told to anybody
  link.locked /\ r.kind # "info" => r.proof /\ r.who \in proofs
Unlocked(r) == link.locked => r.proof /\ r.who \in proofs

(* Any handler may end here: throttled, busy, no such file, no such range,  *)
(* storage away.  A HEAD ends here too: it sends and counts nothing.        *)
Refuse(r) ==
  /\ r.stage \in {"opened", "planned"} /\ Answer(r, "error")
  /\ UNCHANGED <<server, page, history>>

Info(r) ==
  /\ r.stage = "opened" /\ r.kind = "info"
  /\ Answer(r, IF Unlocked(r) THEN "ok" ELSE "locked")
  /\ UNCHANGED <<server, page, history>>

Entries(r) ==
  /\ r.stage = "opened" /\ r.kind = "list" /\ Unlocked(r)
  /\ Answer(r, "ok")
  /\ UNCHANGED <<server, page, history>>

(* tryUse is called with the time of now: it refuses a link that is over by *)
(* the clock, whatever its transaction finds.                               *)
Claim(r) ==
  IF row = "expired" THEN Answer(r, "error") ELSE Goes(r, "claiming")

(* A download awaits its plan; an upload goes on to its use.                *)
Plan(r) ==
  /\ r.stage = "opened" /\ Unlocked(r)
  /\ \/ r.kind = "get" /\ Goes(r, "planned")
     \/ r.kind = "put" /\ Claim(r)
  /\ UNCHANGED <<server, page, history>>

(* One download is one use, counted when the file is fetched from its start:*)
(* a range from further on is sent without one.                             *)
StartDownload(r) ==
  /\ r.stage = "planned"
  /\ Claim(r) \/ Goes(r, "resuming")
  /\ UNCHANGED <<server, page, history>>

StartCheck(r) ==
  /\ r.stage = "opened" /\ r.kind = "unlock"
  /\ IF link.locked
     THEN checks < MaxChecks /\ checks' = checks + 1 /\ Goes(r, "verify")
     ELSE UNCHANGED checks /\ Answer(r, "ok")
  /\ UNCHANGED <<link, row, used, proofs, dir, page, history>>

ChecksLeftIfRight(ok) ==   \* mutant: not counted down after a wrong password
  IF ok THEN checks - 1 ELSE checks
ChecksLeft(ok) == checks - 1

(* The end of a password check; verify may throw as well.                   *)
Verified(r) ==
  /\ r.stage = "verify"
  /\ \E ok \in {r.right, FALSE} :
       /\ checks' = ChecksLeft(ok)
       /\ proofs' = IF ok THEN proofs \cup {r.who} ELSE proofs
       /\ typed' = IF ok THEN typed \cup {r.who} ELSE typed
       /\ Answer(r, IF ok THEN "ok" ELSE "error")
  /\ UNCHANGED <<link, row, used, dir, page, served>>

(* The transaction of tryUse: the row is looked at again and counted up.    *)
UsableOnceMore == row # "deleted" /\ used <= MaxUses   \* mutant: one use too many
UsableWhileThere == row # "deleted"   \* mutant: the uses are not looked at again
Usable == row # "deleted" /\ used < MaxUses
TryUse(r) ==
  /\ r.stage = "claiming"
  /\ IF Usable
     THEN used' = used + 1 /\ Goes(r, IF r.kind = "get" THEN "sending" ELSE "used")
     ELSE UNCHANGED used /\ Answer(r, "error")
  /\ UNCHANGED <<link, row, proofs, checks, dir, page, history>>

(* A download is through, or breaks off.                                    *)
Sent(r) ==
  /\ r.stage \in {"sending", "resuming"}
  /\ served' \in {served} \cup IF r.stage = "sending" THEN {served + 1} ELSE {}
  /\ Answer(r, "ok")
  /\ UNCHANGED <<server, page, typed>>

(* resolveNonConflictingName: one name after the other is looked at, until  *)
(* one is free, a look fails, or there are no more names to try.            *)
ResolveName(r) ==
  /\ r.stage = "used"
  /\ \/ Answer(r, "error")
     \/ /\ r.name < MaxFiles
        /\ Becomes(r, [r EXCEPT !.stage = IF dir[r.name + 1] = Free THEN "named" ELSE "used",
                                !.name = r.name + 1])
  /\ UNCHANGED <<server, page, history>>

(* The name SAF gives a document when its own is taken.                     *)
FreeNames == {n \in 1..MaxFiles : dir[n] = Free}

(* receive: a look at the target, then openWrite, which makes a document on *)
(* SAF and a temporary file on direct-path storage.  If the name is taken   *)
(* between the look and the document, SAF gives it another one.  Opening    *)
(* may fail: the document stays behind then, without its content.           *)
AcceptsAnything(r) == TRUE   \* mutant: receive does not look
Accepts(r) == dir[r.name] = Free
OpenWrite(r) ==
  LET opens(n) == /\ \/ Becomes(r, [r EXCEPT !.stage = "writing", !.name = n])
                     \/ Answer(r, "error")
                  /\ dir' = IF link.direct THEN dir
                            ELSE [dir EXCEPT ![n] = Part(r.who, r.item)] IN
  /\ r.stage = "named"
  /\ \/ Answer(r, "error") /\ UNCHANGED dir
     \/ Accepts(r) /\ opens(r.name)
     \/ ~Accepts(r) /\ ~link.direct /\ FreeNames # {} /\ opens(Min(FreeNames))
  /\ UNCHANGED <<link, row, used, proofs, checks, page, history>>

(* The end of the transfer: committed, or aborted, too large or broken off. *)
(* An aborted document is deleted, which may fail.                          *)
Commit(r) ==
  /\ r.stage = "writing"
  /\ dir' = [dir EXCEPT ![r.name] = File(r.who, r.item)]
  /\ served' = served + 1
  /\ Answer(r, "ok")
  /\ UNCHANGED <<link, row, used, proofs, checks, page, typed>>

Abort(r) ==
  /\ r.stage = "writing"
  /\ dir' \in {dir} \cup IF link.direct THEN {} ELSE {[dir EXCEPT ![r.name] = Free]}
  /\ Answer(r, "error")
  /\ UNCHANGED <<link, row, used, proofs, checks, page, history>>

Serve(r) ==
  \/ OpenLink(r) \/ Refuse(r) \/ Info(r) \/ Entries(r) \/ Plan(r) \/ StartDownload(r)
  \/ StartCheck(r) \/ Verified(r) \/ TryUse(r) \/ Sent(r)
  \/ ResolveName(r) \/ OpenWrite(r) \/ Commit(r) \/ Abort(r)

(* Time, or the owner: the link ends, a proof is too old or pushed out.     *)
LinkEnds ==
  /\ row' \in (IF row = "live" THEN {"expired"} ELSE {}) \cup {"deleted"}
  /\ UNCHANGED <<link, used, proofs, checks, dir, reqs, page, history>>
ProofEnds(v) ==
  /\ v \in proofs /\ proofs' = proofs \ {v}
  /\ UNCHANGED <<link, row, used, checks, dir, reqs, page, history>>

-----------------------------------------------------------------------------
(* The page.                                                                *)

Ask(v, kind) ==
  [who |-> v, kind |-> kind, stage |-> "sent", answer |-> "none", heard |-> TRUE,
   proof |-> unlock'[v], right |-> FALSE, folder |-> "/", item |-> 0, name |-> 0]
Shows(v, what) == view' = [view EXCEPT ![v] = what]

(* loadFolder, which asks for a page of the folder f.                       *)
LoadFolder(v, f, reset, others) ==
  /\ path' = [path EXCEPT ![v] = f]
  /\ rows' = IF reset THEN [rows EXCEPT ![v] = {}] ELSE rows
  /\ loading' = [loading EXCEPT ![v] = TRUE] /\ failed' = [failed EXCEPT ![v] = FALSE]
  /\ reqs' = others \cup {[Ask(v, "list") EXCEPT !.folder = f]}

(* load: what the link is decides what is shown.                            *)
Loaded(r, answer, others) ==
  /\ r.kind = "info"
  /\ UNCHANGED <<unlock, items, sending>>
  /\ Shows(r.who, CASE answer = "ok" -> link.kind
                    [] answer = "locked" -> "password"
                    [] OTHER -> "error")
  /\ IF answer = "ok" /\ link.kind = "folder"
     THEN LoadFolder(r.who, "/", TRUE, others)
     ELSE reqs' = others /\ UNCHANGED <<path, rows, loading, failed>>

UnlockAnswer(r, answer, others) ==
  /\ r.kind = "unlock"
  /\ UNCHANGED <<path, rows, loading, failed, items, sending>>
  /\ IF answer = "ok"
     THEN /\ unlock' = [unlock EXCEPT ![r.who] = TRUE]
          /\ Shows(r.who, "loading")
          /\ reqs' = others \cup {Ask(r.who, "info")}
     ELSE /\ Shows(r.who, "password")
          /\ reqs' = others
          /\ UNCHANGED unlock

ListAnswer(r, answer, others) ==
  /\ r.kind = "list"
  /\ loading' = [loading EXCEPT ![r.who] = FALSE]
  /\ IF answer = "ok"
     THEN rows' = [rows EXCEPT ![r.who] = @ \cup {r.folder}] /\ UNCHANGED failed
     ELSE failed' = [failed EXCEPT ![r.who] = TRUE] /\ UNCHANGED rows
  /\ reqs' = others
  /\ UNCHANGED <<view, unlock, path, items, sending>>

(* pump over the items st of v: the first file that waits is sent, unless   *)
(* one is under way.                                                        *)
HoldsIfEmpty(busy, waiting) == waiting = {}
Holds(busy, waiting) == busy \/ waiting = {}
Pump(v, st, busy, others) ==
  LET waiting == {i \in Items : st[i] = "waiting"}
      put == [Ask(v, "put") EXCEPT !.item = Min(waiting)] IN
  IF Holds(busy, waiting)
  THEN /\ items' = [items EXCEPT ![v] = st]
       /\ sending' = [sending EXCEPT ![v] = busy]
       /\ reqs' = others
  ELSE /\ items' = [items EXCEPT ![v] = [st EXCEPT ![Min(waiting)] = "sending"]]
       /\ sending' = [sending EXCEPT ![v] = TRUE]
       /\ reqs' = others \cup {put}

PutAnswerKeepsFlag(r, answer, others) ==   \* mutant: a failed file stops the queue
  /\ r.kind = "put"
  /\ UNCHANGED <<view, unlock, path, rows, loading, failed>>
  /\ Pump(r.who, [items[r.who] EXCEPT ![r.item] = IF answer = "ok" THEN "sent" ELSE "failed"],
          answer = "error", others)

PutAnswer(r, answer, others) ==
  /\ r.kind = "put"
  /\ UNCHANGED <<view, unlock, path, rows, loading, failed>>
  /\ Pump(r.who, [items[r.who] EXCEPT ![r.item] = IF answer = "ok" THEN "sent" ELSE "failed"],
          FALSE, others)

React(r, answer, others) ==
  /\ \/ Loaded(r, answer, others) \/ UnlockAnswer(r, answer, others)
     \/ ListAnswer(r, answer, others) \/ PutAnswer(r, answer, others)
  /\ UNCHANGED <<server, history>>

Receive(r) == r.stage = "answered" /\ React(r, r.answer, reqs \ {r})

(* The connection is lost: the page goes on, and so may a handler that      *)
(* changes something.                                                       *)
Lost(r) ==
  /\ r.heard
  /\ \/ /\ r.kind \in {"info", "list"} \/ r.stage \in {"sent", "answered"}
        /\ React(r, "error", reqs \ {r})
     \/ /\ r.kind \in {"unlock", "put"} /\ r.stage \notin {"sent", "answered"}
        /\ \A q \in reqs : q.heard \/ q.kind = "get"     \* bound: one at a time
        /\ React(r, "error", (reqs \ {r}) \cup {[r EXCEPT !.heard = FALSE]})

-----------------------------------------------------------------------------
(* The visitors.                                                            *)

SubmitPassword(v, right) ==
  /\ view[v] = "password"
  /\ UNCHANGED unlock
  /\ Shows(v, "checking")
  /\ reqs' = reqs \cup {[Ask(v, "unlock") EXCEPT !.right = right]}
  /\ UNCHANGED <<server, path, rows, loading, failed, items, sending, history>>

FewRequests(v) == Cardinality({r \in reqs : r.who = v /\ (r.heard \/ r.kind = "get")}) < MaxRequests

(* A crumb, or the row of a folder.                                         *)
OpenFolder(v, f) ==
  /\ view[v] = "folder" /\ FewRequests(v)
  /\ f = "/" \/ f = path[v] \/ (rows[v] # {} /\ ~failed[v])
  /\ UNCHANGED <<server, view, unlock, items, sending, history>>
  /\ LoadFolder(v, f, TRUE, reqs)

ClickMore(v) ==
  /\ view[v] = "folder" /\ FewRequests(v)
  /\ rows[v] # {} /\ ~failed[v] /\ ~loading[v]
  /\ UNCHANGED <<server, view, unlock, items, sending, history>>
  /\ LoadFolder(v, path[v], FALSE, reqs)

(* The downloads of a visitor are told apart by a number.                   *)
Download(v) ==
  LET spare == Items \ {r.item : r \in {q \in reqs : q.who = v /\ q.kind = "get"}} IN
  /\ FewRequests(v) /\ spare # {}
  /\ view[v] = "file" \/ (view[v] = "folder" /\ rows[v] # {} /\ ~failed[v])
  /\ UNCHANGED <<server, page, history>>
  /\ reqs' = reqs \cup {[Ask(v, "get") EXCEPT !.heard = FALSE, !.item = Min(spare)]}

(* queue: one file after the other, and pump.                               *)
Queue(v, i) ==
  /\ view[v] = "upload"
  /\ i = Min({j \in Items : items[v][j] = "unused"} \cup {MaxItems + 1})
  /\ UNCHANGED <<server, view, unlock, path, rows, loading, failed, history>>
  /\ Pump(v, [items[v] EXCEPT ![i] = "waiting"], sending[v], reqs)

Init ==
  /\ link \in Links /\ row = "live" /\ used = 0 /\ proofs = {} /\ checks = 0
  /\ dir = [n \in 1..MaxFiles |-> IF n \in OwnersFiles THEN Owners ELSE Free]
  /\ view = [v \in Visitors |-> "loading"] /\ unlock = [v \in Visitors |-> FALSE]
  /\ path = [v \in Visitors |-> "/"] /\ rows = [v \in Visitors |-> {}]
  /\ loading = unlock /\ failed = unlock /\ sending = unlock
  /\ items = [v \in Visitors |-> [i \in Items |-> "unused"]]
  /\ reqs = {[who |-> v, kind |-> "info", stage |-> "sent", answer |-> "none", heard |-> TRUE, proof |-> FALSE,
              right |-> FALSE, folder |-> "/", item |-> 0, name |-> 0] : v \in Visitors}
  /\ served = 0 /\ typed = {}

Next ==
  \/ \E r \in reqs : Serve(r) \/ Receive(r) \/ Lost(r)
  \/ LinkEnds
  \/ \E v \in Visitors :
       \/ ProofEnds(v) \/ ClickMore(v) \/ Download(v)
       \/ \E right \in BOOLEAN : SubmitPassword(v, right)
       \/ \E f \in Folders : OpenFolder(v, f)
       \/ \E i \in Items : Queue(v, i)

Spec == Init /\ [][Next]_vars

(* Handlers come to an end, and the page gets its answers or errors.        *)
Answered ==
  \A v \in Visitors :
    WF_vars(\E r \in reqs : r.who = v /\ r.heard /\ (Serve(r) \/ Receive(r)))
FairSpec == Spec /\ Answered

-----------------------------------------------------------------------------
(* However many visitors hold the link, and whenever it was found usable,   *)
(* no more files are fetched from their start or sent in through it than    *)
(* its owner allows, nor than were counted.                                 *)
NeverMoreUses == served <= used /\ used <= MaxUses

(* What a locked link is for is shown and sent only on the page of a        *)
(* visitor who gave the password.                                           *)
OnlyUnlocked ==
  link.locked => /\ \A v \in Visitors : view[v] \in Kinds => v \in typed
                 /\ \A r \in reqs : r.stage \in {"planned", "claiming", "used", "named", "writing",
                                                  "sending", "resuming"}
                                     => r.who \in typed

(* The count of password checks is that of the checks that run, so that the *)
(* link is never busy for good.                                             *)
ChecksReturn == checks = Cardinality({r \in reqs : r.stage = "verify"})

(* A file that is in the folder stays as it is: an upload takes a new name. *)
(* On direct-path storage an upload that found a name free before another   *)
(* one committed a file there is renamed over it; but no upload finds its   *)
(* name once the file is there.                                             *)
Aimed(n) == \E r \in reqs : r.stage \in {"named", "writing"} /\ r.name = n
UploadsKeep ==
  [][\A n \in 1..MaxFiles : Whole(dir[n]) =>
       /\ ~link.direct \/ dir[n] = Owners \/ ~Aimed(n) => dir'[n] = dir[n]
       /\ Aimed(n)' => Aimed(n)]_vars

(* A page sends one file at a time, in turn, and its flag says so.          *)
OneAtATime ==
  \A v \in Visitors :
    LET out == {i \in Items : items[v][i] = "sending"} IN
    /\ sending[v] <=> out # {}
    /\ {r.item : r \in {q \in reqs : q.kind = "put" /\ q.who = v /\ q.heard}} = out
    /\ \A i \in out, j \in Items : j < i => items[v][j] \in {"sent", "failed"}

(* A page that loads, checks a password, lists a folder or sends files is   *)
(* done with it in the end: its flags come back whatever fails.             *)
Waits(v) ==
  \/ view[v] \in {"loading", "checking"} \/ loading[v]
  \/ \E i \in Items : items[v][i] \in {"waiting", "sending"}
PageSettles == \A v \in Visitors : Waits(v) ~> ~Waits(v)

(* The rows of a folder link are those of the folder that is open.          *)
RowsBelong == \A v \in Visitors : rows[v] \subseteq {path[v]}
=============================================================================
