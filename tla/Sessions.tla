------------------------------ MODULE Sessions ------------------------------
(***************************************************************************)
(* Who is let in: the login service, the sessions of the HTTP API, the     *)
(* passwords that WebDAV and FTPS remember, and download tickets, while    *)
(* accounts are changed from the screens, which reach the server through   *)
(* the database only.                                                      *)
(*                                                                         *)
(* The tables of the server are in memory: a call on one of them is over   *)
(* before any other event, so only the database and the password hasher    *)
(* are points where requests interleave.  A password is a model value, and *)
(* weak says that its hash was made with parameters of an older release.   *)
(* LoginThrottle and the cap on concurrent checks only refuse requests,    *)
(* as Fail does.                                                           *)
(***************************************************************************)
EXTENDS Naturals, FiniteSets

CONSTANTS
  Jobs,           \* concurrent requests
  Users,          \* account ids
  Passwords,
  Tokens,         \* session tokens, each given out once
  Initials,       \* what the table of accounts may be at the start
  Changes,        \* the changes of accounts of this instance
  IdleTimeout, AbsoluteTimeout,   \* of a session
  CacheFor,       \* how long a verified password is remembered
  Lifetime,       \* of a ticket
  MaxTickets,     \* capacity of the table of tickets
  MaxTime,        \* bound: the last moment of a behaviour
  MaxChanges,     \* bound: changes of accounts and restarts in a behaviour
  MaxRequests,    \* bound: requests in a behaviour
  Nothing

Rows == [pw : Passwords, weak : BOOLEAN, enabled : BOOLEAN, version : Nat]
Sessions == [user : Users, created : Nat, seen : Nat, version : Nat, pw : Passwords]
Tickets == [user : Users, token : Tokens, until : Nat]
Remembered == [until : Nat, version : Nat]
Kinds == {"login", "dav", "api", "ticket", "logout", "get"}

ASSUME NothingAssumption ==
  /\ Nothing \notin UNION {Tokens, Passwords, Users}
  /\ Nothing \notin Rows /\ Nothing \notin Sessions /\ Nothing \notin Remembered
ASSUME TimesAssumption == {IdleTimeout, AbsoluteTimeout, CacheFor, Lifetime} \subseteq Nat \ {0}
ASSUME CapacityAssumption == MaxTickets \in Nat \ {0}
ASSUME BoundAssumption == {MaxTime, MaxChanges, MaxRequests} \subseteq Nat
ASSUME InitialAssumption == Initials \subseteq [Users -> Rows \cup {Nothing}]
ASSUME ChangesAssumption == Changes \subseteq {"password", "on", "off", "revoke", "delete", "restart"}

VARIABLES
  accounts,   \* the table of accounts: id -> row
  sessions,   \* token -> session
  issued,     \* the tokens given out
  tickets,    \* the tickets that have not been dropped
  verified,   \* the passwords remembered: <<user, password>> -> entry
  job,        \* what each request is doing
  now,        \* the clock
  changes,    \* changes and restarts so far
  requests    \* requests so far

vars == <<accounts, sessions, issued, tickets, verified, job, now, changes, requests>>

(* A request stands for user, with pw, the password it was signed in with. *)
(* right is history: were the two right at some moment of the request?     *)
Idle == [kind |-> "api", pc |-> "idle", user |-> Nothing, pw |-> Nothing, token |-> Nothing,
         row |-> Nothing, start |-> 0, version |-> 0, right |-> FALSE]
JobStates ==
  [kind : Kinds, user : Users \cup {Nothing}, pw : Passwords \cup {Nothing},
   pc : {"idle", "recall", "lookup", "verify", "rehash", "rehashed", "account", "allowed"},
   token : Tokens \cup {Nothing}, row : Rows \cup {Nothing}, start : Nat,
   version : Nat, right : BOOLEAN]

TypeOK ==
  /\ accounts \in [Users -> Rows \cup {Nothing}]
  /\ sessions \in [Tokens -> Sessions \cup {Nothing}]
  /\ issued \subseteq Tokens
  /\ tickets \subseteq Tickets
  /\ verified \in [Users \X Passwords -> Remembered \cup {Nothing}]
  /\ job \in [Jobs -> JobStates]
  /\ now \in Nat /\ changes \in Nat /\ requests \in Nat

Init ==
  /\ accounts \in Initials
  /\ sessions = [t \in Tokens |-> Nothing]
  /\ issued = {}
  /\ tickets = {}
  /\ verified = [k \in Users \X Passwords |-> Nothing]
  /\ job = [p \in Jobs |-> Idle]
  /\ now = 0 /\ changes = 0 /\ requests = 0

-----------------------------------------------------------------------------
Exists(u) == accounts[u] # Nothing
(* In the table of accounts acc, u exists, is on, and has the password pw.  *)
RightIn(acc, u, pw) ==
  u # Nothing /\ acc[u] # Nothing /\ acc[u].enabled /\ pw \in {acc[u].pw, Nothing}

Expired(s) == now >= s.seen + IdleTimeout \/ now >= s.created + AbsoluteTimeout

At(p, step) == job[p].pc = step
Go(p, step) == job' = [job EXCEPT ![p].pc = step]
End(p) == job' = [job EXCEPT ![p] = Idle]
NewJob(kind, step, u, pw, t, version) ==
  [Idle EXCEPT !.kind = kind, !.pc = step, !.user = u, !.pw = pw, !.token = t,
               !.start = IF kind = "dav" THEN now ELSE 0,
               !.version = version, !.right = RightIn(accounts, u, pw)]
Begin(p, kind, step, u, pw, t, version) ==
  At(p, "idle") /\ job' = [job EXCEPT ![p] = NewJob(kind, step, u, pw, t, version)]

(* The request is let in: nothing it read before matters from here on.      *)
Allowed(j, t) ==
  [Idle EXCEPT !.kind = j.kind, !.pc = "allowed", !.user = j.user, !.token = t,
               !.right = j.right]
Allow(p, t) == job' = [job EXCEPT ![p] = Allowed(job[p], t)]

(* All requests under way see, or do not see, what becomes of the accounts. *)
Witness(acc) ==
  [p \in Jobs |-> [job[p] EXCEPT !.right = @ \/ RightIn(acc, job[p].user, job[p].pw)]]

OnlyJob == UNCHANGED <<accounts, sessions, issued, tickets, verified, now, changes>>
NotServer == UNCHANGED <<sessions, issued, tickets, verified, now>>

-----------------------------------------------------------------------------
(* Signing in: checkCredentials, for the login endpoint and for Basic auth. *)

StartLogin(p, u, pw) ==
  /\ Begin(p, "login", "lookup", u, pw, Nothing, 0)
  /\ OnlyJob

(* DavAuthenticator.authenticate: an entry that has expired is forgotten.   *)
StartDav(p, u, pw) ==
  LET entry == verified[<<u, pw>>]
      fresh == entry # Nothing /\ now < entry.until IN
  /\ Begin(p, "dav", IF fresh THEN "recall" ELSE "lookup", u, pw, Nothing,
           IF fresh THEN entry.version ELSE 0)
  /\ verified' = IF fresh THEN verified ELSE [verified EXCEPT ![<<u, pw>>] = Nothing]
  /\ UNCHANGED <<accounts, sessions, issued, tickets, now, changes>>

(* The account as it is now, and the version a session or an entry has.     *)
Matches(row, version) == row # Nothing /\ row.enabled /\ row.version = version

Recall(p) ==
  LET j == job[p] IN
  /\ At(p, "recall")
  /\ IF Matches(accounts[j.user], j.version)
     THEN Allow(p, Nothing) /\ UNCHANGED verified
     ELSE Go(p, "lookup") /\ verified' = [verified EXCEPT ![<<j.user, j.pw>>] = Nothing]
  /\ UNCHANGED <<accounts, sessions, issued, tickets, now, changes>>

Lookup(p) ==
  /\ At(p, "lookup")
  /\ job' = [job EXCEPT ![p].pc = "verify", ![p].row = accounts[job[p].user]]
  /\ OnlyJob

(* The password was right for the row that was read: a session is issued,  *)
(* or the password is remembered, with the version in that row.  (The       *)
(* oldest of 200 entries is dropped for a new one; that only sends a later  *)
(* request through the lookup.)                                             *)
Admit(p) ==
  LET j == job[p] IN
  /\ IF j.kind = "login"
     THEN \E t \in Tokens \ issued :
            /\ issued' = issued \cup {t}
            /\ sessions' = [sessions EXCEPT ![t] =
                 [user |-> j.user, created |-> now, seen |-> now,
                  version |-> j.row.version, pw |-> j.pw]]
            /\ Allow(p, t)
            /\ UNCHANGED verified
     ELSE /\ verified' = [verified EXCEPT ![<<j.user, j.pw>>] =
               [until |-> j.start + CacheFor, version |-> j.row.version]]
          /\ Allow(p, Nothing)
          /\ UNCHANGED <<sessions, issued>>
  /\ UNCHANGED <<tickets, now>>

Verify(p) ==
  LET j == job[p]
      matches == j.row # Nothing /\ j.row.pw = j.pw /\ j.row.enabled IN
  /\ At(p, "verify")
  /\ \/ ~matches /\ End(p) /\ NotServer
     \/ matches /\ j.row.weak /\ Go(p, "rehash") /\ NotServer
     \/ matches /\ ~j.row.weak /\ Admit(p)
  /\ UNCHANGED <<accounts, changes>>

-----------------------------------------------------------------------------
(* Statements of DriftAccountRepository, each a transaction of its own.     *)

Update(u, row) == IF Exists(u) THEN [accounts EXCEPT ![u] = row] ELSE accounts

SetHashSameVersion(u, pw) ==   \* mutant: old sessions go on
  LET r == accounts[u] IN Update(u, [r EXCEPT !.pw = pw, !.weak = FALSE])
SetHash(u, pw) ==
  LET r == accounts[u] IN
  Update(u, [pw |-> pw, weak |-> FALSE, enabled |-> r.enabled, version |-> r.version + 1])

SetEnabledOnly(u, on) ==   \* mutant: turning on again brings the sessions back
  LET r == accounts[u] IN Update(u, [r EXCEPT !.enabled = on])
SetEnabled(u, on) ==
  LET r == accounts[u] IN
  Update(u, [pw |-> r.pw, weak |-> r.weak, enabled |-> on,
             version |-> IF r.enabled /\ ~on THEN r.version + 1 ELSE r.version])

RevokeBackwards(u) ==   \* mutant: the version goes down
  LET r == accounts[u] IN Update(u, [r EXCEPT !.version = r.version - 1])
RevokeSessions(u) ==
  LET r == accounts[u] IN Update(u, [r EXCEPT !.version = r.version + 1])

(* The hash is renewed with the password of this sign-in.                   *)
Rehash(p) ==
  /\ At(p, "rehash")
  /\ accounts' = SetHash(job[p].user, job[p].pw)
  /\ job' = [Witness(accounts') EXCEPT ![p].pc = "rehashed"]
  /\ NotServer /\ UNCHANGED changes

Rehashed(p) ==
  /\ At(p, "rehashed")
  /\ Admit(p)
  /\ UNCHANGED <<accounts, changes>>

(* What the screens do to a member: ChangePassword, SetAccountEnabled,      *)
(* DeleteAccount, and signing somebody out everywhere.  (The one            *)
(* administrator is neither turned off nor deleted.)                        *)
Change(kind, acc) ==
  /\ kind \in Changes
  /\ changes < MaxChanges
  /\ changes' = changes + 1
  /\ accounts' = acc
  /\ job' = Witness(acc)
  /\ NotServer

ChangePassword(u, pw) == Exists(u) /\ Change("password", SetHash(u, pw))
TurnOn(u) == Exists(u) /\ Change("on", SetEnabled(u, TRUE))
TurnOff(u) == Exists(u) /\ Change("off", SetEnabled(u, FALSE))
SignOutEverywhere(u) == Exists(u) /\ Change("revoke", RevokeSessions(u))
DeleteAccount(u) == Exists(u) /\ Change("delete", [accounts EXCEPT ![u] = Nothing])

-----------------------------------------------------------------------------
(* Requests with a session token.                                           *)

StartApi(p, kind, t) ==
  LET s == sessions[t] IN
  /\ kind \in {"api", "ticket", "logout"}
  /\ s # Nothing
  /\ IF Expired(s)
     THEN At(p, "idle") /\ sessions' = [sessions EXCEPT ![t] = Nothing] /\ UNCHANGED job
     ELSE /\ Begin(p, kind, "account", s.user, s.pw, t, s.version)
          /\ sessions' = [sessions EXCEPT ![t].seen = now]
  /\ UNCHANGED <<accounts, issued, tickets, verified, now, changes>>

(* _authenticate looks the account up; a logout follows at once.            *)
Account(p) ==
  LET j == job[p]
      ok == Matches(accounts[j.user], j.version)
      out == j.kind = "logout" IN
  /\ At(p, "account") /\ j.kind # "get"
  /\ IF ok THEN Allow(p, j.token) ELSE End(p)
  /\ sessions' = IF ok /\ ~out THEN sessions ELSE [sessions EXCEPT ![j.token] = Nothing]
  /\ tickets' = IF ok /\ out THEN {x \in tickets : x.token # j.token} ELSE tickets
  /\ UNCHANGED <<accounts, issued, verified, now, changes>>

(* When the table is full the oldest ticket goes.                           *)
Oldest == {x \in tickets : \A y \in tickets : x.until <= y.until}
WithTicket(x) ==
  IF Cardinality(tickets \cup {x}) <= MaxTickets THEN {tickets \cup {x}}
  ELSE {(tickets \ {y}) \cup {x} : y \in Oldest}

(* The request that was let in ends; one for a ticket gets it first, if     *)
(* the file is there.                                                       *)
Finish(p) ==
  LET j == job[p]
      ticket == [user |-> j.user, token |-> j.token, until |-> now + Lifetime] IN
  /\ At(p, "allowed")
  /\ tickets' \in {tickets} \cup (IF j.kind = "ticket" THEN WithTicket(ticket) ELSE {})
  /\ End(p)
  /\ UNCHANGED <<accounts, sessions, issued, verified, now, changes>>

-----------------------------------------------------------------------------
(* GET /d/<ticket>: the ticket is resolved, then its account looked up.     *)

StartGet(p, t) ==
  /\ IF now < t.until
     THEN Begin(p, "get", "account", t.user, Nothing, t.token, 0) /\ UNCHANGED tickets
     ELSE At(p, "idle") /\ tickets' = tickets \ {t} /\ UNCHANGED job
  /\ UNCHANGED <<accounts, sessions, issued, verified, now, changes>>

Get(p) ==
  /\ At(p, "account") /\ job[p].kind = "get"
  /\ IF Exists(job[p].user) /\ accounts[job[p].user].enabled THEN Allow(p, job[p].token) ELSE End(p)
  /\ OnlyJob

(* The throttle or the cap refuses the check, or an awaited call throws.    *)
Fail(p) ==
  /\ job[p].pc \in {"recall", "lookup", "verify", "rehash", "account"}
  /\ End(p)
  /\ OnlyJob

-----------------------------------------------------------------------------
(* The timer, the clock, and the end of the server's process.               *)

Purge ==
  /\ sessions' = [t \in Tokens |->
       IF sessions[t] # Nothing /\ Expired(sessions[t]) THEN Nothing ELSE sessions[t]]
  /\ tickets' = {x \in tickets : now < x.until}
  /\ UNCHANGED <<accounts, issued, verified, job, now, changes>>

Tick ==
  /\ now < MaxTime
  /\ now' = now + 1
  /\ UNCHANGED <<accounts, sessions, issued, tickets, verified, job, changes>>

Restart ==
  /\ "restart" \in Changes
  /\ changes < MaxChanges
  /\ changes' = changes + 1
  /\ sessions' = [t \in Tokens |-> Nothing]
  /\ tickets' = {}
  /\ verified' = [k \in Users \X Passwords |-> Nothing]
  /\ job' = [p \in Jobs |-> Idle]
  /\ UNCHANGED <<accounts, issued, now>>

-----------------------------------------------------------------------------
Request(p) ==
  /\ requests < MaxRequests
  /\ requests' = requests + 1
  /\ \/ \E u \in Users, pw \in Passwords : StartLogin(p, u, pw) \/ StartDav(p, u, pw)
     \/ \E t \in Tokens, kind \in Kinds : StartApi(p, kind, t)
     \/ \E t \in tickets : StartGet(p, t)

Progress(p) ==
  \/ Recall(p) \/ Lookup(p) \/ Verify(p) \/ Rehash(p) \/ Rehashed(p)
  \/ Account(p) \/ Get(p) \/ Finish(p) \/ Fail(p)

Administer(u) ==
  \/ \E pw \in Passwords : ChangePassword(u, pw)
  \/ TurnOn(u) \/ TurnOff(u) \/ SignOutEverywhere(u) \/ DeleteAccount(u)

Other ==
  /\ \/ \E p \in Jobs : Progress(p)
     \/ \E u \in Users : Administer(u)
     \/ Purge \/ Tick \/ Restart
  /\ UNCHANGED requests

Next == (\E p \in Jobs : Request(p)) \/ Other

Spec == Init /\ [][Next]_vars

-----------------------------------------------------------------------------
(* Properties.                                                              *)

(* Whoever is let in had, at some moment of the request, an account that   *)
(* was on and the password it had then: whether the password came with the *)
(* request, was remembered, or opened the session of the request.  A        *)
(* change of password or of the account is seen by every request after it. *)
AllowedWasRight == \A p \in Jobs : At(p, "allowed") => job[p].right

Usable(t) ==
  LET s == sessions[t] IN
  s # Nothing /\ ~Expired(s) /\ Matches(accounts[s.user], s.version)

(* A session that has ended, whatever ended it (logout, time, a new         *)
(* password, the account turned off), never works again, also not when the  *)
(* account is turned on again.                                              *)
DeadStaysDead == [][\A t \in issued : ~Usable(t) => ~Usable(t)']_vars

(* A ticket "dies with the session that requested it": one that still       *)
(* resolves belongs to a session that works.                                *)
TicketDiesWithSession ==
  [][\A p \in Jobs : (At(p, "idle") /\ job'[p].kind = "get" /\ job'[p].pc = "account")
       => Usable(job'[p].token)]_vars

(* ChangePassword "sets a new password": only it changes passwords.         *)
PasswordSticks ==
  [][\A p \in Jobs, u \in Users :
       (At(p, "rehash") /\ job'[p].pc = "rehashed" /\ Exists(u))
       => accounts'[u].pw = accounts[u].pw]_vars

(* A sign-in with the right password opens a session: as long as nobody     *)
(* changes the account, it works.                                           *)
SignInOpens == [][\A t \in issued' \ issued : Usable(t)']_vars
=============================================================================
