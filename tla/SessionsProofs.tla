--------------------------- MODULE SessionsProofs ---------------------------
(***************************************************************************)
(* Two theorems about Sessions.  Whoever is let in had the right password  *)
(* of an account that was on, at some moment of the request; and a session *)
(* that has ended never works again.                                       *)
(*                                                                         *)
(* Both rest on what a version number is good for.  A session, a           *)
(* remembered password and a row read by a sign-in all carry the version   *)
(* the account had when the password was found right; versions only grow,  *)
(* and grow with every change of the password and with every turning off.  *)
(* So as long as the account has the same version it is on, and has the    *)
(* same password (Known).                                                  *)
(***************************************************************************)
EXTENDS Sessions, TLAPS

(* v is no version yet to come, and says that u is on with the password pw. *)
Known(acc, u, v, pw) ==
  acc[u] # Nothing =>
    /\ v <= acc[u].version
    /\ v = acc[u].version => acc[u].enabled /\ acc[u].pw = pw

SessionOK(acc, s) == s # Nothing => Known(acc, s.user, s.version, s.pw)
EntryOK(acc, k, e) == e # Nothing => Known(acc, k[1], e.version, k[2])

SigningIn == {"recall", "lookup", "verify", "rehash", "rehashed"}
(* Where a job is, it has the user, password, token and row it needs.       *)
Shape(j) ==
  /\ j.pc \in SigningIn =>
       j.kind \in {"login", "dav"} /\ j.user \in Users /\ j.pw \in Passwords
  /\ j.pc = "account" => j.user \in Users /\ j.token \in Tokens
  /\ j.pc = "account" /\ j.kind = "get" => j.pw = Nothing
  /\ j.pc = "account" /\ j.kind # "get" => j.pw \in Passwords
  /\ j.pc = "allowed" /\ j.kind = "ticket" => j.user \in Users /\ j.token \in Tokens
  /\ j.pc \in {"rehash", "rehashed"} => j.row # Nothing /\ j.row.enabled /\ j.row.pw = j.pw

(* What a job has read of the account.                                      *)
ReadOK(acc, j) ==
  /\ j.pc = "recall" => Known(acc, j.user, j.version, j.pw)
  /\ j.pc = "account" /\ j.kind # "get" => Known(acc, j.user, j.version, j.pw)
  /\ (j.pc \in {"verify", "rehash", "rehashed"} /\ j.row # Nothing /\ j.row.enabled)
       => Known(acc, j.user, j.row.version, j.row.pw)

(* A job that is right now has seen it, and so has one whose row says so.   *)
Seen(acc, j) ==
  /\ j.pc # "idle" /\ RightIn(acc, j.user, j.pw) => j.right
  /\ (j.pc \in {"verify", "rehash", "rehashed"} /\ j.row # Nothing
        /\ j.row.enabled /\ j.row.pw = j.pw) => j.right
  /\ j.pc = "allowed" => j.right

JobOK(acc, j) == Shape(j) /\ ReadOK(acc, j) /\ Seen(acc, j)

JobsOK == \A p \in Jobs : JobOK(accounts, job[p])
SessionsOK == \A t \in Tokens : SessionOK(accounts, sessions[t])
EntriesOK == \A k \in Users \X Passwords : EntryOK(accounts, k, verified[k])
Inv == TypeOK /\ JobsOK /\ SessionsOK /\ EntriesOK

-----------------------------------------------------------------------------
(* Changes of accounts.                                                     *)

Accounts == [Users -> Rows \cup {Nothing}]

(* new can come of acc: no account appears, versions do not go down, and    *)
(* with the same version an account that was on is on, with the same        *)
(* password.                                                                *)
Later(acc, new) ==
  \A u \in Users : new[u] # Nothing =>
    /\ acc[u] # Nothing
    /\ acc[u].version <= new[u].version
    /\ acc[u].version = new[u].version =>
         new[u].pw = acc[u].pw /\ (acc[u].enabled => new[u].enabled)

(* What is known of an account stays known as accounts change.              *)
LEMMA KnownStays ==
  ASSUME NEW acc \in Accounts, NEW new \in Accounts, Later(acc, new),
         NEW u \in Users, NEW v \in Nat, NEW pw, Known(acc, u, v, pw)
  PROVE  Known(new, u, v, pw)
BY DEF Known, Later, Accounts, Rows

(* Each statement of the account repository makes a later table.            *)
LEMMA UpdateLater ==
  ASSUME TypeOK, NEW u \in Users, NEW row,
         Exists(u) =>
           /\ row \in Rows
           /\ accounts[u].version <= row.version
           /\ accounts[u].version = row.version =>
                row.pw = accounts[u].pw /\ (accounts[u].enabled => row.enabled)
  PROVE  Update(u, row) \in Accounts /\ Later(accounts, Update(u, row))
<1>1. \A w \in Users : accounts[w] # Nothing => accounts[w].version \in Nat
  BY DEF TypeOK, Rows
<1>2. CASE Exists(u)
  <2>1. Update(u, row) = [accounts EXCEPT ![u] = row]
    BY <1>2 DEF Update
  <2>2. [accounts EXCEPT ![u] = row] \in Accounts
    BY <1>2 DEF TypeOK, Accounts
  <2>3. Later(accounts, [accounts EXCEPT ![u] = row])
    BY <1>1, <1>2 DEF TypeOK, Later, Exists
  <2> QED BY <2>1, <2>2, <2>3
<1>3. CASE ~Exists(u)
  <2>1. Update(u, row) = accounts
    BY <1>3 DEF Update
  <2>2. Later(accounts, accounts)
    BY <1>1 DEF Later
  <2> QED BY <2>1, <2>2 DEF TypeOK, Accounts
<1> QED BY <1>2, <1>3

(* A new hash moves the version on.                                         *)
LEMMA SetHashLater ==
  ASSUME TypeOK, NEW u \in Users, NEW pw \in Passwords
  PROVE  SetHash(u, pw) \in Accounts /\ Later(accounts, SetHash(u, pw))
<1> DEFINE r == accounts[u]
           row == [pw |-> pw, weak |-> FALSE, enabled |-> r.enabled, version |-> r.version + 1]
<1>1. ASSUME Exists(u) PROVE row \in Rows /\ row.version = r.version + 1 /\ r.version \in Nat
  BY <1>1 DEF TypeOK, Exists, Rows
<1>2. Update(u, row) \in Accounts /\ Later(accounts, Update(u, row))
  BY <1>1, UpdateLater
<1> QED BY <1>2 DEF SetHash

(* Turning off moves the version on; turning on leaves it.                  *)
LEMMA SetEnabledLater ==
  ASSUME TypeOK, NEW u \in Users, NEW on \in BOOLEAN
  PROVE  SetEnabled(u, on) \in Accounts /\ Later(accounts, SetEnabled(u, on))
<1> DEFINE r == accounts[u]
           v == IF r.enabled /\ ~on THEN r.version + 1 ELSE r.version
           row == [pw |-> r.pw, weak |-> r.weak, enabled |-> on, version |-> v]
<1>1. ASSUME Exists(u)
      PROVE  row \in Rows /\ row.version = v /\ row.pw = r.pw /\ row.enabled = on
               /\ r.version \in Nat /\ r.enabled \in BOOLEAN
  BY <1>1 DEF TypeOK, Exists, Rows
<1>2. Update(u, row) \in Accounts /\ Later(accounts, Update(u, row))
  BY <1>1, UpdateLater
<1> QED BY <1>2 DEF SetEnabled

(* Signing out everywhere moves the version on.                             *)
LEMMA RevokeLater ==
  ASSUME TypeOK, NEW u \in Users
  PROVE  RevokeSessions(u) \in Accounts /\ Later(accounts, RevokeSessions(u))
<1> DEFINE r == accounts[u]
           row == [r EXCEPT !.version = r.version + 1]
<1>1. ASSUME Exists(u) 
      PROVE  row \in Rows /\ row.version = r.version + 1 /\ r.version \in Nat
               /\ row.pw = r.pw /\ row.enabled = r.enabled
  BY <1>1 DEF TypeOK, Exists, Rows
<1> HIDE DEF row
<1>2. Update(u, row) \in Accounts /\ Later(accounts, Update(u, row))
  BY <1>1, UpdateLater
<1> QED BY <1>2 DEF RevokeSessions, row

(* A deleted account is just gone.                                          *)
LEMMA DeleteLater ==
  ASSUME TypeOK, NEW u \in Users
  PROVE  LET new == [accounts EXCEPT ![u] = Nothing]
         IN  new \in Accounts /\ Later(accounts, new)
BY DEF TypeOK, Accounts, Later, Rows

-----------------------------------------------------------------------------
(* Jobs, sessions and entries.                                              *)

(* A job that sees the accounts change keeps what it must.                  *)
LEMMA JobStays ==
  ASSUME NEW acc \in Accounts, NEW new \in Accounts, Later(acc, new),
         NEW j \in JobStates, JobOK(acc, j)
  PROVE  LET k == [j EXCEPT !.right = @ \/ RightIn(new, j.user, j.pw)]
         IN  k \in JobStates /\ JobOK(new, k)
<1> DEFINE k == [j EXCEPT !.right = @ \/ RightIn(new, j.user, j.pw)]
<1>1. /\ k \in JobStates
      /\ k.kind = j.kind /\ k.pc = j.pc /\ k.user = j.user /\ k.pw = j.pw
      /\ k.token = j.token /\ k.row = j.row /\ k.version = j.version
      /\ k.right = (j.right \/ RightIn(new, j.user, j.pw))
  BY DEF JobStates, RightIn
<1>2. Shape(k)
  BY <1>1 DEF JobOK, Shape
<1>3. ReadOK(new, k)
  <2>1. ASSUME j.pc = "recall" \/ (j.pc = "account" /\ j.kind # "get")
        PROVE  Known(new, j.user, j.version, j.pw)
    BY <2>1, KnownStays DEF JobOK, ReadOK, Shape, SigningIn, JobStates
  <2>2. ASSUME j.pc \in {"verify", "rehash", "rehashed"}, j.row # Nothing, j.row.enabled
        PROVE  Known(new, j.user, j.row.version, j.row.pw)
    <3>1. j.user \in Users /\ j.row.version \in Nat
      BY <2>2 DEF JobOK, Shape, SigningIn, JobStates, Rows
    <3> QED BY <2>2, <3>1, KnownStays DEF JobOK, ReadOK
  <2> QED BY <1>1, <2>1, <2>2 DEF ReadOK
<1>4. Seen(new, k)
  BY <1>1 DEF JobOK, Seen
<1> QED BY <1>1, <1>2, <1>3, <1>4 DEF JobOK

(* A request that has ended has read nothing.                               *)
LEMMA IdleOK == Idle \in JobStates /\ \A acc : JobOK(acc, Idle)
BY DEF Idle, JobStates, Kinds, JobOK, Shape, ReadOK, Seen, SigningIn

(* What a session says of its account stays known.                          *)
LEMMA SessionStays ==
  ASSUME NEW acc \in Accounts, NEW new \in Accounts, Later(acc, new),
         NEW s \in Sessions \cup {Nothing}, SessionOK(acc, s)
  PROVE  SessionOK(new, s)
<1> SUFFICES ASSUME s # Nothing PROVE Known(new, s.user, s.version, s.pw)
  BY DEF SessionOK
<1>1. s.user \in Users /\ s.version \in Nat
  BY DEF Sessions
<1> QED BY <1>1, KnownStays DEF SessionOK

(* So does what a remembered password says.                                 *)
LEMMA EntryStays ==
  ASSUME NEW acc \in Accounts, NEW new \in Accounts, Later(acc, new),
         NEW k \in Users \X Passwords, NEW e \in Remembered \cup {Nothing},
         EntryOK(acc, k, e)
  PROVE  EntryOK(new, k, e)
<1> SUFFICES ASSUME e # Nothing PROVE Known(new, k[1], e.version, k[2])
  BY DEF EntryOK
<1>1. k[1] \in Users /\ e.version \in Nat
  BY DEF Remembered
<1> QED BY <1>1, KnownStays DEF EntryOK

-----------------------------------------------------------------------------
(* Steps.                                                                   *)

(* A step of one job that leaves the accounts alone.                        *)
LEMMA OneJob ==
  ASSUME Inv, NEW p \in Jobs, NEW j \in JobStates, JobOK(accounts, j),
         job' = [job EXCEPT ![p] = j], UNCHANGED accounts,
         sessions' \in [Tokens -> Sessions \cup {Nothing}],
         \A t \in Tokens : SessionOK(accounts, sessions'[t]),
         verified' \in [Users \X Passwords -> Remembered \cup {Nothing}],
         \A k \in Users \X Passwords : EntryOK(accounts, k, verified'[k]),
         issued' \subseteq Tokens, tickets' \subseteq Tickets,
         now' \in Nat, changes' \in Nat, requests' \in Nat
  PROVE  Inv'
<1>1. job' \in [Jobs -> JobStates]
  BY DEF Inv, TypeOK
<1>2. \A q \in Jobs : job'[q] = IF q = p THEN j ELSE job[q]
  BY DEF Inv, TypeOK
<1>3. \A q \in Jobs : JobOK(accounts, job'[q])
  BY <1>2 DEF Inv, JobsOK
<1> QED BY <1>1, <1>3 DEF Inv, TypeOK, JobsOK, SessionsOK, EntriesOK

(* A change of the accounts that every job sees.                            *)
LEMMA NewAccounts ==
  ASSUME Inv, NEW new \in Accounts, Later(accounts, new), accounts' = new,
         \A q \in Jobs : job'[q] \in JobStates /\ JobOK(new, job'[q]),
         job' \in [Jobs -> JobStates],
         NotServer, changes' \in Nat, requests' \in Nat
  PROVE  Inv'
<1>1. TypeOK'
  BY DEF Inv, TypeOK, Accounts, NotServer
<1>2. accounts \in Accounts
  BY DEF Inv, TypeOK, Accounts
<1>3. SessionsOK'
  <2>1. \A t \in Tokens : SessionOK(new, sessions[t])
    BY <1>2, SessionStays DEF Inv, TypeOK, SessionsOK
  <2> QED BY <2>1 DEF SessionsOK, NotServer
<1>4. EntriesOK'
  <2>1. \A k \in Users \X Passwords : EntryOK(new, k, verified[k])
    BY <1>2, EntryStays DEF Inv, TypeOK, EntriesOK
  <2> QED BY <2>1 DEF EntriesOK, NotServer
<1> QED BY <1>1, <1>3, <1>4 DEF Inv, JobsOK

(* The records of Begin and of Allow, field by field.                       *)
LEMMA BeginRecord ==
  ASSUME TypeOK, NEW kind \in Kinds, NEW step \in {"recall", "lookup", "account"},
         NEW u \in Users, NEW pw \in Passwords \cup {Nothing},
         NEW t \in Tokens \cup {Nothing}, NEW version \in Nat,
         NEW j, j = NewJob(kind, step, u, pw, t, version)
  PROVE  /\ j \in JobStates
         /\ j.kind = kind /\ j.pc = step /\ j.user = u /\ j.pw = pw /\ j.token = t
         /\ j.version = version /\ j.right = RightIn(accounts, u, pw)
BY DEF TypeOK, NewJob, Idle, JobStates, Kinds, RightIn

(* A request that is let in keeps its kind, user and history.               *)
LEMMA AllowRecord ==
  ASSUME NEW i \in JobStates, NEW t \in Tokens \cup {Nothing}, NEW j, j = Allowed(i, t)
  PROVE  /\ j \in JobStates
         /\ j.kind = i.kind /\ j.pc = "allowed" /\ j.user = i.user /\ j.token = t
         /\ j.right = i.right
BY DEF Allowed, Idle, JobStates, Kinds

(* A login starts with nothing read yet.                                    *)
LEMMA StartLoginKeeps ==
  ASSUME Inv, requests' \in Nat, NEW p \in Jobs, NEW u \in Users, NEW pw \in Passwords,
         StartLogin(p, u, pw)
  PROVE  Inv'
<1> DEFINE j == NewJob("login", "lookup", u, pw, Nothing, 0)
<1>1. /\ j \in JobStates
      /\ j.kind = "login" /\ j.pc = "lookup" /\ j.user = u /\ j.pw = pw
      /\ j.right = RightIn(accounts, u, pw)
  <2>1. TypeOK /\ "login" \in Kinds
    BY DEF Inv, Kinds
  <2> QED BY <2>1, BeginRecord
<1>2. JobOK(accounts, j)
  BY <1>1 DEF JobOK, Shape, ReadOK, Seen, SigningIn
<1>3. job' = [job EXCEPT ![p] = j] /\ OnlyJob
  BY DEF StartLogin, Begin
<1> QED BY <1>1, <1>2, <1>3, OneJob DEF Inv, TypeOK, SessionsOK, EntriesOK, OnlyJob

(* Basic auth starts with the version of its entry, or with none.           *)
LEMMA StartDavKeeps ==
  ASSUME Inv, requests' \in Nat, NEW p \in Jobs, NEW u \in Users, NEW pw \in Passwords,
         StartDav(p, u, pw)
  PROVE  Inv'
<1> DEFINE k == <<u, pw>>
           entry == verified[k]
           fresh == entry # Nothing /\ now < entry.until
           step == IF fresh THEN "recall" ELSE "lookup"
           version == IF fresh THEN entry.version ELSE 0
           j == NewJob("dav", step, u, pw, Nothing, version)
<1>1. fresh => entry.version \in Nat /\ Known(accounts, u, entry.version, pw)
  BY DEF Inv, TypeOK, EntriesOK, EntryOK, Remembered
<1>2. /\ version \in Nat /\ step \in {"recall", "lookup"}
      /\ step = "recall" => Known(accounts, u, version, pw)
  BY <1>1
<1>3. job' = [job EXCEPT ![p] = j]
  BY DEF StartDav, Begin
<1> HIDE DEF step, version
<1>4. /\ j \in JobStates
      /\ j.kind = "dav" /\ j.pc = step /\ j.user = u /\ j.pw = pw
      /\ j.version = version /\ j.right = RightIn(accounts, u, pw)
  <2>1. TypeOK /\ "dav" \in Kinds
    BY DEF Inv, Kinds
  <2>2. u \in Users /\ pw \in Passwords \cup {Nothing} /\ Nothing \in Tokens \cup {Nothing}
    OBVIOUS
  <2>3. version \in Nat /\ step \in {"recall", "lookup", "account"}
    BY <1>2
  <2> QED BY <2>1, <2>2, <2>3, BeginRecord
<1>5. JobOK(accounts, j)
  BY <1>2, <1>4 DEF JobOK, Shape, ReadOK, Seen, SigningIn
<1>6. verified' = verified \/ verified' = [verified EXCEPT ![k] = Nothing]
  BY DEF StartDav
<1>7. /\ verified' \in [Users \X Passwords -> Remembered \cup {Nothing}]
      /\ \A x \in Users \X Passwords : EntryOK(accounts, x, verified'[x])
  BY <1>6 DEF Inv, TypeOK, EntriesOK, EntryOK
<1> QED BY <1>3, <1>4, <1>5, <1>7, OneJob DEF Inv, TypeOK, SessionsOK, StartDav

(* A request with a session starts with the version of the session.         *)
LEMMA StartApiKeeps ==
  ASSUME Inv, requests' \in Nat, NEW p \in Jobs, NEW kind \in Kinds, NEW t \in Tokens,
         StartApi(p, kind, t)
  PROVE  Inv'
<1> DEFINE s == sessions[t]
<1>1. s \in Sessions /\ Known(accounts, s.user, s.version, s.pw) /\ kind # "get"
  BY DEF StartApi, Inv, TypeOK, SessionsOK, SessionOK
<1>2. s.user \in Users /\ s.version \in Nat /\ s.pw \in Passwords
  BY <1>1 DEF Sessions
<1>3. CASE Expired(s)
  <2>1. job' = [job EXCEPT ![p] = job[p]]
    BY <1>3 DEF StartApi, Inv, TypeOK
  <2>2. job[p] \in JobStates /\ JobOK(accounts, job[p])
    BY DEF Inv, TypeOK, JobsOK
  <2>3. sessions' = [sessions EXCEPT ![t] = Nothing]
    BY <1>3 DEF StartApi
  <2>4. /\ sessions' \in [Tokens -> Sessions \cup {Nothing}]
        /\ \A x \in Tokens : SessionOK(accounts, sessions'[x])
    BY <2>3 DEF Inv, TypeOK, SessionsOK, SessionOK
  <2> QED BY <2>1, <2>2, <2>4, OneJob DEF Inv, TypeOK, EntriesOK, StartApi
<1>4. CASE ~Expired(s)
  <2> DEFINE j == NewJob(kind, "account", s.user, s.pw, t, s.version)
             touched == [s EXCEPT !.seen = now]
  <2>1. /\ j \in JobStates
        /\ j.kind = kind /\ j.pc = "account" /\ j.user = s.user /\ j.pw = s.pw /\ j.token = t
        /\ j.version = s.version /\ j.right = RightIn(accounts, s.user, s.pw)
    BY <1>2, BeginRecord DEF Inv
  <2>2. JobOK(accounts, j)
    BY <1>1, <1>2, <2>1 DEF JobOK, Shape, ReadOK, Seen, SigningIn
  <2>3. job' = [job EXCEPT ![p] = j]
    BY <1>4 DEF StartApi, Begin
  <2>4. /\ touched \in Sessions
        /\ touched.user = s.user /\ touched.version = s.version /\ touched.pw = s.pw
    BY <1>1 DEF Sessions, Inv, TypeOK
  <2>5. sessions' = [sessions EXCEPT ![t] = touched]
    BY <1>4 DEF StartApi
  <2>6. /\ sessions' \in [Tokens -> Sessions \cup {Nothing}]
        /\ \A x \in Tokens : SessionOK(accounts, sessions'[x])
    BY <1>1, <2>4, <2>5 DEF Inv, TypeOK, SessionsOK, SessionOK
  <2> QED BY <2>1, <2>2, <2>3, <2>6, OneJob DEF Inv, TypeOK, EntriesOK, StartApi
<1> QED BY <1>3, <1>4

(* A download starts with the user of its ticket.                           *)
LEMMA StartGetKeeps ==
  ASSUME Inv, requests' \in Nat, NEW p \in Jobs, NEW t \in tickets, StartGet(p, t)
  PROVE  Inv'
<1>1. t.user \in Users /\ t.token \in Tokens
  BY DEF Inv, TypeOK, Tickets
<1>2. tickets' \subseteq Tickets
  BY DEF StartGet, Inv, TypeOK
<1>3. CASE now < t.until
  <2> DEFINE j == NewJob("get", "account", t.user, Nothing, t.token, 0)
  <2>1. /\ j \in JobStates
        /\ j.kind = "get" /\ j.pc = "account" /\ j.user = t.user /\ j.pw = Nothing
        /\ j.token = t.token /\ j.right = RightIn(accounts, t.user, Nothing)
    BY <1>1, BeginRecord DEF Inv, Kinds
  <2>2. JobOK(accounts, j)
    BY <1>1, <2>1 DEF JobOK, Shape, ReadOK, Seen, SigningIn
  <2>3. job' = [job EXCEPT ![p] = j]
    BY <1>3 DEF StartGet, Begin
  <2> QED BY <1>2, <2>1, <2>2, <2>3, OneJob
          DEF Inv, TypeOK, EntriesOK, SessionsOK, StartGet
<1>4. CASE ~(now < t.until)
  <2>1. job' = [job EXCEPT ![p] = job[p]]
    BY <1>4 DEF StartGet, Inv, TypeOK
  <2>2. job[p] \in JobStates /\ JobOK(accounts, job[p])
    BY DEF Inv, TypeOK, JobsOK
  <2> QED BY <1>2, <2>1, <2>2, OneJob DEF Inv, TypeOK, EntriesOK, SessionsOK, StartGet
<1> QED BY <1>3, <1>4

(* A step that changes only where the job p is.                             *)
LEMMA GoRecord ==
  ASSUME NEW i \in JobStates, NEW step \in {"lookup", "rehash", "rehashed"},
         NEW j, j = [i EXCEPT !.pc = step]
  PROVE  /\ j \in JobStates
         /\ j.kind = i.kind /\ j.pc = step /\ j.user = i.user /\ j.pw = i.pw
         /\ j.token = i.token /\ j.row = i.row /\ j.version = i.version /\ j.right = i.right
BY DEF JobStates

(* A job that is let in having seen the account right is in order.          *)
LEMMA AllowOK ==
  ASSUME NEW i \in JobStates, NEW t \in Tokens \cup {Nothing}, i.right,
         i.kind = "ticket" => i.user \in Users /\ t \in Tokens
  PROVE  Allowed(i, t) \in JobStates /\ JobOK(accounts, Allowed(i, t))
<1> DEFINE j == Allowed(i, t)
<1>1. /\ j \in JobStates
      /\ j.kind = i.kind /\ j.pc = "allowed" /\ j.user = i.user /\ j.token = t
      /\ j.right = i.right
  BY AllowRecord
<1> HIDE DEF j
<1>2. JobOK(accounts, j)
  BY <1>1 DEF JobOK, Shape, ReadOK, Seen, SigningIn
<1> QED BY <1>1, <1>2 DEF j

(* A remembered password counts if the account has the same version.        *)
LEMMA RecallKeeps ==
  ASSUME Inv, requests' \in Nat, NEW p \in Jobs, Recall(p)
  PROVE  Inv'
<1> DEFINE i == job[p]
<1>1. /\ i \in JobStates /\ i.pc = "recall" /\ JobOK(accounts, i)
      /\ i.kind \in {"login", "dav"} /\ i.user \in Users /\ i.pw \in Passwords
      /\ i.version \in Nat
  BY DEF Recall, At, Inv, TypeOK, JobsOK, JobOK, Shape, SigningIn, JobStates
<1>2. CASE Matches(accounts[i.user], i.version)
  <2>1. RightIn(accounts, i.user, i.pw)
    BY <1>1, <1>2, NothingAssumption DEF Matches, JobOK, ReadOK, Known, RightIn
  <2>2. i.right
    BY <1>1, <2>1 DEF JobOK, Seen
  <2>3. Allowed(i, Nothing) \in JobStates /\ JobOK(accounts, Allowed(i, Nothing))
    BY <1>1, <2>2, AllowOK
  <2>4. job' = [job EXCEPT ![p] = Allowed(i, Nothing)] /\ UNCHANGED verified
    BY <1>2 DEF Recall, Allow
  <2> QED BY <2>3, <2>4, OneJob DEF Inv, TypeOK, SessionsOK, EntriesOK, Recall
<1>3. CASE ~Matches(accounts[i.user], i.version)
  <2> DEFINE j == [i EXCEPT !.pc = "lookup"]
             k == <<i.user, i.pw>>
  <2>1. /\ j \in JobStates
        /\ j.kind = i.kind /\ j.pc = "lookup" /\ j.user = i.user /\ j.pw = i.pw
        /\ j.right = i.right
    BY <1>1, GoRecord
  <2>2. JobOK(accounts, j)
    BY <1>1, <2>1 DEF JobOK, Shape, ReadOK, Seen, SigningIn
  <2>3. job' = [job EXCEPT ![p] = j]
    BY <1>3 DEF Recall, Go, Inv, TypeOK
  <2>4. verified' = [verified EXCEPT ![k] = Nothing]
    BY <1>3 DEF Recall
  <2>5. /\ verified' \in [Users \X Passwords -> Remembered \cup {Nothing}]
        /\ \A x \in Users \X Passwords : EntryOK(accounts, x, verified'[x])
    BY <2>4 DEF Inv, TypeOK, EntriesOK, EntryOK
  <2> QED BY <2>1, <2>2, <2>3, <2>5, OneJob DEF Inv, TypeOK, SessionsOK, Recall
<1> QED BY <1>2, <1>3

(* The row that is read is the account as it is now.                        *)
LEMMA LookupKeeps ==
  ASSUME Inv, requests' \in Nat, NEW p \in Jobs, Lookup(p)
  PROVE  Inv'
<1> DEFINE i == job[p]
           row == accounts[i.user]
           j == [i EXCEPT !.pc = "verify", !.row = row]
<1>1. /\ i \in JobStates /\ i.pc = "lookup" /\ JobOK(accounts, i)
      /\ i.kind \in {"login", "dav"} /\ i.user \in Users /\ i.pw \in Passwords
  BY DEF Lookup, At, Inv, TypeOK, JobsOK, JobOK, Shape, SigningIn
<1>2. row \in Rows \cup {Nothing}
  BY <1>1 DEF Inv, TypeOK
<1>3. /\ j \in JobStates
      /\ j.kind = i.kind /\ j.pc = "verify" /\ j.user = i.user /\ j.pw = i.pw
      /\ j.row = row /\ j.right = i.right
  BY <1>1, <1>2 DEF JobStates
<1>4. row # Nothing /\ row.enabled => Known(accounts, i.user, row.version, row.pw)
  BY <1>2 DEF Known, Rows
<1>5. row # Nothing /\ row.enabled /\ row.pw = i.pw => i.right
  BY <1>1, NothingAssumption DEF JobOK, Seen, RightIn
<1>6. JobOK(accounts, j)
  <2> HIDE DEF j, row, i
  <2> QED BY <1>1, <1>3, <1>4, <1>5 DEF JobOK, Shape, ReadOK, Seen, SigningIn
<1>7. job' = [job EXCEPT ![p] = j]
  BY DEF Lookup, Inv, TypeOK
<1> QED BY <1>3, <1>6, <1>7, OneJob
        DEF Inv, TypeOK, SessionsOK, EntriesOK, Lookup, OnlyJob

(* A sign-in whose row has the password leads to a session, or an entry, of *)
(* which the same is known as of the row.                                   *)
LEMMA AdmitKeeps ==
  ASSUME Inv, requests' \in Nat, NEW p \in Jobs, Admit(p), UNCHANGED <<accounts, changes>>,
         job[p].pc \in {"verify", "rehashed"}, job[p].row # Nothing,
         job[p].row.enabled, job[p].row.pw = job[p].pw
  PROVE  Inv'
<1> DEFINE i == job[p]
<1>1. /\ i \in JobStates /\ JobOK(accounts, i)
      /\ i.kind \in {"login", "dav"} /\ i.user \in Users /\ i.pw \in Passwords
      /\ i.row \in Rows /\ i.row.version \in Nat
      /\ i.start \in Nat
  BY DEF Inv, TypeOK, JobsOK, JobOK, Shape, SigningIn, JobStates, Rows
<1>2. i.right /\ Known(accounts, i.user, i.row.version, i.pw)
  BY <1>1 DEF JobOK, ReadOK, Seen
<1>3. CASE i.kind = "login"
  <2>1. PICK t \in Tokens \ issued :
          /\ issued' = issued \cup {t}
          /\ sessions' = [sessions EXCEPT ![t] =
               [user |-> i.user, created |-> now, seen |-> now,
                version |-> i.row.version, pw |-> i.pw]]
          /\ Allow(p, t)
          /\ UNCHANGED verified
    BY <1>3 DEF Admit
  <2> DEFINE s == [user |-> i.user, created |-> now, seen |-> now,
                   version |-> i.row.version, pw |-> i.pw]
  <2>2. s \in Sessions /\ SessionOK(accounts, s)
    BY <1>1, <1>2 DEF Sessions, SessionOK, Inv, TypeOK
  <2>3. /\ sessions' \in [Tokens -> Sessions \cup {Nothing}]
        /\ \A x \in Tokens : SessionOK(accounts, sessions'[x])
    BY <2>1, <2>2 DEF Inv, TypeOK, SessionsOK
  <2>4. Allowed(i, t) \in JobStates /\ JobOK(accounts, Allowed(i, t))
    BY <1>1, <1>2, AllowOK
  <2>5. job' = [job EXCEPT ![p] = Allowed(i, t)]
    BY <2>1 DEF Allow
  <2> QED BY <2>1, <2>3, <2>4, <2>5, OneJob DEF Inv, TypeOK, EntriesOK, Admit
<1>4. CASE i.kind # "login"
  <2> DEFINE k == <<i.user, i.pw>>
             e == [until |-> i.start + CacheFor, version |-> i.row.version]
  <2>1. verified' = [verified EXCEPT ![k] = e] /\ Allow(p, Nothing)
          /\ UNCHANGED <<sessions, issued>>
    BY <1>4 DEF Admit
  <2>2. e \in Remembered /\ EntryOK(accounts, k, e)
    BY <1>1, <1>2, TimesAssumption DEF Remembered, EntryOK
  <2>3. /\ verified' \in [Users \X Passwords -> Remembered \cup {Nothing}]
        /\ \A x \in Users \X Passwords : EntryOK(accounts, x, verified'[x])
    BY <1>1, <2>1, <2>2 DEF Inv, TypeOK, EntriesOK
  <2>4. Allowed(i, Nothing) \in JobStates /\ JobOK(accounts, Allowed(i, Nothing))
    BY <1>1, <1>2, AllowOK
  <2>5. job' = [job EXCEPT ![p] = Allowed(i, Nothing)]
    BY <2>1 DEF Allow
  <2> QED BY <2>1, <2>3, <2>4, <2>5, OneJob DEF Inv, TypeOK, SessionsOK, Admit
<1> QED BY <1>3, <1>4

(* A password counts if it is the one of the row that was read.             *)
LEMMA VerifyKeeps ==
  ASSUME Inv, requests' \in Nat, NEW p \in Jobs, Verify(p)
  PROVE  Inv'
<1> DEFINE i == job[p]
           matches == i.row # Nothing /\ i.row.pw = i.pw /\ i.row.enabled
<1>1. /\ i \in JobStates /\ i.pc = "verify" /\ JobOK(accounts, i)
      /\ i.kind \in {"login", "dav"} /\ i.user \in Users /\ i.pw \in Passwords
  BY DEF Verify, At, Inv, TypeOK, JobsOK, JobOK, Shape, SigningIn
<1>2. CASE ~matches /\ End(p) /\ NotServer
  <2>1. job' = [job EXCEPT ![p] = Idle]
    BY <1>2 DEF End
  <2> QED BY <1>2, <2>1, IdleOK, OneJob
          DEF Inv, TypeOK, SessionsOK, EntriesOK, Verify, NotServer
<1>3. CASE matches /\ i.row.weak /\ Go(p, "rehash") /\ NotServer
  <2> DEFINE j == [i EXCEPT !.pc = "rehash"]
  <2>1. /\ j \in JobStates
        /\ j.kind = i.kind /\ j.pc = "rehash" /\ j.user = i.user /\ j.pw = i.pw
        /\ j.token = i.token /\ j.row = i.row /\ j.version = i.version /\ j.right = i.right
    BY <1>1, GoRecord
  <2>2. JobOK(accounts, j)
    <3> HIDE DEF j, i
    <3>1. i.row # Nothing /\ i.row.pw = i.pw /\ i.row.enabled
      BY <1>3
    <3> QED BY <1>1, <2>1, <3>1 DEF JobOK, Shape, ReadOK, Seen, SigningIn
  <2>3. job' = [job EXCEPT ![p] = j]
    BY <1>3 DEF Go, Inv, TypeOK
  <2> QED BY <1>3, <2>1, <2>2, <2>3, OneJob
          DEF Inv, TypeOK, SessionsOK, EntriesOK, Verify, NotServer
<1>4. CASE matches /\ Admit(p)
  BY <1>1, <1>4, AdmitKeeps DEF Verify
<1> QED BY <1>2, <1>3, <1>4 DEF Verify

(* The other jobs see the change of the hash, and this one moves on.        *)
LEMMA RehashKeeps ==
  ASSUME Inv, requests' \in Nat, NEW p \in Jobs, Rehash(p)
  PROVE  Inv'
<1> DEFINE i == job[p]
           new == SetHash(i.user, i.pw)
           seen(q) == [job[q] EXCEPT !.right = @ \/ RightIn(new, job[q].user, job[q].pw)]
           j == [seen(p) EXCEPT !.pc = "rehashed"]
<1>1. /\ i \in JobStates /\ i.pc = "rehash" /\ JobOK(accounts, i)
      /\ i.user \in Users /\ i.pw \in Passwords
  BY DEF Rehash, At, Inv, TypeOK, JobsOK, JobOK, Shape, SigningIn
<1>2. new \in Accounts /\ Later(accounts, new)
  BY <1>1, SetHashLater DEF Inv
<1>3. accounts \in Accounts
  BY DEF Inv, TypeOK, Accounts
<1>4. accounts' = new
  BY DEF Rehash
<1>5. job' = [[q \in Jobs |-> seen(q)] EXCEPT ![p].pc = "rehashed"]
  BY <1>4 DEF Rehash, Witness
<1>6. job' = [q \in Jobs |-> IF q = p THEN j ELSE seen(q)]
  BY <1>5
<1> HIDE DEF new
<1>7. \A q \in Jobs : seen(q) \in JobStates /\ JobOK(new, seen(q))
  BY <1>2, <1>3, JobStays DEF Inv, TypeOK, JobsOK
<1>8. seen(p).pc = "rehash"
  BY <1>1 DEF JobStates
<1> HIDE DEF seen
<1>9. /\ j \in JobStates
      /\ j.kind = seen(p).kind /\ j.pc = "rehashed" /\ j.user = seen(p).user
      /\ j.pw = seen(p).pw /\ j.token = seen(p).token /\ j.row = seen(p).row
      /\ j.version = seen(p).version /\ j.right = seen(p).right
  BY <1>7, GoRecord
<1> HIDE DEF j
<1>10. JobOK(new, j)
  BY <1>7, <1>8, <1>9 DEF JobOK, Shape, ReadOK, Seen, SigningIn
<1>11. \A q \in Jobs : job'[q] \in JobStates /\ JobOK(new, job'[q])
  BY <1>6, <1>7, <1>9, <1>10
<1>12. job' \in [Jobs -> JobStates]
  BY <1>6, <1>7, <1>9
<1> QED BY <1>2, <1>4, <1>11, <1>12, NewAccounts DEF Rehash, Inv, TypeOK

(* After the rehash the row that was read still has the password.           *)
LEMMA RehashedKeeps ==
  ASSUME Inv, requests' \in Nat, NEW p \in Jobs, Rehashed(p)
  PROVE  Inv'
<1>1. /\ job[p].pc = "rehashed" /\ job[p].row # Nothing /\ job[p].row.enabled
      /\ job[p].row.pw = job[p].pw
  BY DEF Rehashed, At, Inv, JobsOK, JobOK, Shape
<1> QED BY <1>1, AdmitKeeps DEF Rehashed

(* What an administrator does is seen by every job.                         *)
LEMMA ChangeKeeps ==
  ASSUME Inv, requests' \in Nat, NEW kind, NEW new \in Accounts, Later(accounts, new),
         Change(kind, new)
  PROVE  Inv'
<1> DEFINE seen(q) == [job[q] EXCEPT !.right = @ \/ RightIn(new, job[q].user, job[q].pw)]
<1>1. accounts \in Accounts
  BY DEF Inv, TypeOK, Accounts
<1>2. job' = [q \in Jobs |-> seen(q)]
  BY DEF Change, Witness
<1>3. \A q \in Jobs : seen(q) \in JobStates /\ JobOK(new, seen(q))
  BY <1>1, JobStays DEF Inv, TypeOK, JobsOK
<1> HIDE DEF seen
<1>4. \A q \in Jobs : job'[q] \in JobStates /\ JobOK(new, job'[q])
  BY <1>2, <1>3
<1>5. job' \in [Jobs -> JobStates]
  BY <1>2, <1>3
<1>6. accounts' = new /\ NotServer /\ changes' \in Nat
  BY DEF Change, Inv, TypeOK
<1> QED BY <1>4, <1>5, <1>6, NewAccounts

(* Each change from the screens makes a later table.                        *)
LEMMA AdministerKeeps ==
  ASSUME Inv, requests' \in Nat, NEW u \in Users, Administer(u)
  PROVE  Inv'
<1>1. ASSUME NEW pw \in Passwords, ChangePassword(u, pw) PROVE Inv'
  BY <1>1, SetHashLater, ChangeKeeps DEF ChangePassword, Inv
<1>2. CASE TurnOn(u)
  BY <1>2, SetEnabledLater, ChangeKeeps DEF TurnOn, Inv
<1>3. CASE TurnOff(u)
  BY <1>3, SetEnabledLater, ChangeKeeps DEF TurnOff, Inv
<1>4. CASE SignOutEverywhere(u)
  BY <1>4, RevokeLater, ChangeKeeps DEF SignOutEverywhere, Inv
<1>5. CASE DeleteAccount(u)
  BY <1>5, DeleteLater, ChangeKeeps DEF DeleteAccount, Inv
<1> QED BY <1>1, <1>2, <1>3, <1>4, <1>5 DEF Administer

(* A session or a ticket is let in by the account as it is at the lookup.   *)
LEMMA AccountKeeps ==
  ASSUME Inv, requests' \in Nat, NEW p \in Jobs, Account(p)
  PROVE  Inv'
<1> DEFINE i == job[p]
           ok == Matches(accounts[i.user], i.version)
<1>1. /\ i \in JobStates /\ i.pc = "account" /\ JobOK(accounts, i) /\ i.kind # "get"
      /\ i.user \in Users /\ i.token \in Tokens /\ i.pw \in Passwords
  BY DEF Account, At, Inv, TypeOK, JobsOK, JobOK, Shape
<1>2. sessions' = sessions \/ sessions' = [sessions EXCEPT ![i.token] = Nothing]
  BY DEF Account
<1>3. /\ sessions' \in [Tokens -> Sessions \cup {Nothing}]
      /\ \A x \in Tokens : SessionOK(accounts, sessions'[x])
  BY <1>2 DEF Inv, TypeOK, SessionsOK, SessionOK
<1>4. tickets' \subseteq Tickets
  BY DEF Account, Inv, TypeOK
<1>5. CASE ok
  <2>1. RightIn(accounts, i.user, i.pw)
    BY <1>1, <1>5, NothingAssumption DEF Matches, JobOK, ReadOK, Known, RightIn
  <2>2. i.right
    BY <1>1, <2>1 DEF JobOK, Seen
  <2>3. Allowed(i, i.token) \in JobStates /\ JobOK(accounts, Allowed(i, i.token))
    BY <1>1, <2>2, AllowOK
  <2>4. job' = [job EXCEPT ![p] = Allowed(i, i.token)]
    BY <1>5 DEF Account, Allow
  <2> QED BY <1>3, <1>4, <2>3, <2>4, OneJob DEF Inv, TypeOK, EntriesOK, Account
<1>6. CASE ~ok
  <2>1. job' = [job EXCEPT ![p] = Idle]
    BY <1>6 DEF Account, End
  <2> QED BY <1>3, <1>4, <2>1, IdleOK, OneJob DEF Inv, TypeOK, EntriesOK, Account
<1> QED BY <1>5, <1>6

(* A download counts if the account is on now.                              *)
LEMMA GetKeeps ==
  ASSUME Inv, requests' \in Nat, NEW p \in Jobs, Get(p)
  PROVE  Inv'
<1> DEFINE i == job[p]
           ok == Exists(i.user) /\ accounts[i.user].enabled
<1>1. /\ i \in JobStates /\ i.pc = "account" /\ JobOK(accounts, i) /\ i.kind = "get"
      /\ i.user \in Users /\ i.token \in Tokens /\ i.pw = Nothing
  BY DEF Get, At, Inv, TypeOK, JobsOK, JobOK, Shape
<1>2. CASE ok
  <2>1. RightIn(accounts, i.user, i.pw)
    BY <1>1, <1>2, NothingAssumption DEF Exists, RightIn
  <2>2. i.right
    BY <1>1, <2>1 DEF JobOK, Seen
  <2>3. Allowed(i, i.token) \in JobStates /\ JobOK(accounts, Allowed(i, i.token))
    BY <1>1, <2>2, AllowOK
  <2>4. job' = [job EXCEPT ![p] = Allowed(i, i.token)]
    BY <1>2 DEF Get, Allow
  <2> QED BY <2>3, <2>4, OneJob DEF Inv, TypeOK, SessionsOK, EntriesOK, Get, OnlyJob
<1>3. CASE ~ok
  <2>1. job' = [job EXCEPT ![p] = Idle]
    BY <1>3 DEF Get, End
  <2> QED BY <2>1, IdleOK, OneJob
          DEF Inv, TypeOK, SessionsOK, EntriesOK, Get, OnlyJob
<1> QED BY <1>2, <1>3

(* A ticket names the session that asked for it.                            *)
LEMMA FinishKeeps ==
  ASSUME Inv, requests' \in Nat, NEW p \in Jobs, Finish(p)
  PROVE  Inv'
<1> DEFINE i == job[p]
           x == [user |-> i.user, token |-> i.token, until |-> now + Lifetime]
<1>1. i.pc = "allowed" /\ Shape(i)
  BY DEF Finish, At, Inv, JobsOK, JobOK
<1>2. i.kind = "ticket" => x \in Tickets
  BY <1>1, TimesAssumption DEF Shape, Tickets, Inv, TypeOK
<1>3. tickets \subseteq Tickets
  BY DEF Inv, TypeOK
<1>4. tickets' = tickets \/ (i.kind = "ticket" /\ tickets' \in WithTicket(x))
  BY DEF Finish
<1> HIDE DEF x
<1>5. tickets' \subseteq Tickets
  BY <1>2, <1>3, <1>4 DEF WithTicket
<1>6. job' = [job EXCEPT ![p] = Idle]
  BY DEF Finish, End
<1> QED BY <1>5, <1>6, IdleOK, OneJob DEF Inv, TypeOK, SessionsOK, EntriesOK, Finish

(* A request that is refused or fails changes nothing else.                 *)
LEMMA FailKeeps ==
  ASSUME Inv, requests' \in Nat, NEW p \in Jobs, Fail(p)
  PROVE  Inv'
<1>1. job' = [job EXCEPT ![p] = Idle] /\ OnlyJob
  BY DEF Fail, End
<1> QED BY <1>1, IdleOK, OneJob DEF Inv, TypeOK, SessionsOK, EntriesOK, OnlyJob

(* The timer only drops sessions and tickets.                               *)
LEMMA PurgeKeeps ==
  ASSUME Inv, requests' \in Nat, Purge
  PROVE  Inv'
<1>1. sessions' \in [Tokens -> Sessions \cup {Nothing}] /\ tickets' \subseteq Tickets
  BY DEF Inv, TypeOK, Purge
<1>2. TypeOK'
  BY <1>1 DEF Inv, TypeOK, Purge
<1>3. SessionsOK'
  <2>1. \A t \in Tokens : SessionOK(accounts, sessions'[t])
    BY DEF Inv, SessionsOK, SessionOK, Purge
  <2> QED BY <2>1 DEF SessionsOK, Purge
<1> QED BY <1>2, <1>3 DEF Inv, JobsOK, EntriesOK, Purge

(* Time passes without a change of any table.                               *)
LEMMA TickKeeps ==
  ASSUME Inv, requests' \in Nat, Tick
  PROVE  Inv'
<1>1. TypeOK'
  BY DEF Inv, TypeOK, Tick
<1> QED BY <1>1 DEF Inv, JobsOK, SessionsOK, EntriesOK, Tick

(* The tables of a new process are empty.                                   *)
LEMMA RestartKeeps ==
  ASSUME Inv, requests' \in Nat, Restart
  PROVE  Inv'
<1>1. TypeOK'
  BY IdleOK DEF Inv, TypeOK, Restart
<1>2. JobsOK'
  BY IdleOK DEF JobsOK, Restart
<1>3. SessionsOK' /\ EntriesOK'
  BY DEF SessionsOK, SessionOK, EntriesOK, EntryOK, Restart
<1> QED BY <1>1, <1>2, <1>3 DEF Inv

(* The initial states, and every step.                                      *)
LEMMA InitInv == Init => Inv
<1> SUFFICES ASSUME Init PROVE Inv
  OBVIOUS
<1>1. TypeOK
  BY IdleOK, InitialAssumption DEF Init, TypeOK
<1>2. JobsOK
  BY IdleOK DEF Init, JobsOK
<1>3. SessionsOK /\ EntriesOK
  BY DEF Init, SessionsOK, SessionOK, EntriesOK, EntryOK
<1> QED BY <1>1, <1>2, <1>3 DEF Inv

(* Each request and each other step keeps the invariant.                    *)
LEMMA NextInv == Inv /\ [Next]_vars => Inv'
<1> SUFFICES ASSUME Inv, [Next]_vars PROVE Inv'
  OBVIOUS
<1>1. ASSUME NEW p \in Jobs, Request(p) PROVE Inv'
  <2>1. requests' \in Nat
    BY <1>1 DEF Request, Inv, TypeOK
  <2> QED BY <1>1, <2>1, StartLoginKeeps, StartDavKeeps, StartApiKeeps, StartGetKeeps
          DEF Request
<1>2. CASE Other
  <2>1. requests' \in Nat
    BY <1>2 DEF Other, Inv, TypeOK
  <2>2. ASSUME NEW p \in Jobs, Progress(p) PROVE Inv'
    BY <2>1, <2>2, RecallKeeps, LookupKeeps, VerifyKeeps, RehashKeeps, RehashedKeeps,
       AccountKeeps, GetKeeps, FinishKeeps, FailKeeps DEF Progress
  <2> QED BY <1>2, <2>1, <2>2, AdministerKeeps, PurgeKeeps, TickKeeps, RestartKeeps
          DEF Other
<1>3. CASE UNCHANGED vars
  BY <1>3 DEF vars, Inv, TypeOK, JobsOK, SessionsOK, EntriesOK
<1> QED BY <1>1, <1>2, <1>3 DEF Next

-----------------------------------------------------------------------------
(* Every variable keeps its type, in every step of every request, change of *)
(* an account and restart.                                                  *)
THEOREM SessionsTyping == Spec => []TypeOK
<1>1. Inv => TypeOK
  BY DEF Inv
<1> QED BY <1>1, InitInv, NextInv, PTL DEF Spec

(* Whoever LoginService, DavAuthenticator, _authenticate or a ticket lets   *)
(* in had an account that was on, and its password, at some moment of the   *)
(* request.                                                                 *)
THEOREM Admission == Spec => []AllowedWasRight
<1>1. Inv => AllowedWasRight
  BY DEF Inv, JobsOK, JobOK, Seen, AllowedWasRight, At
<1> QED BY <1>1, InitInv, NextInv, PTL DEF Spec

-----------------------------------------------------------------------------
(* What a step may do to a session that was given out: end it, leave it, or *)
(* note that it is used while it has not expired.                           *)
Fades(t) ==
  \/ sessions'[t] \in {Nothing, sessions[t]} /\ now <= now' /\ Later(accounts, accounts')
  \/ /\ sessions[t] # Nothing /\ ~Expired(sessions[t])
     /\ sessions'[t] = [sessions[t] EXCEPT !.seen = now]
     /\ UNCHANGED <<accounts, now>>

(* An unchanged table of accounts is a later one.                           *)
LEMMA SameLater == ASSUME TypeOK PROVE Later(accounts, accounts)
BY DEF TypeOK, Later, Rows

(* A step that leaves the time and the accounts alone, and can at most end  *)
(* sessions.                                                                *)
LEMMA OnlyEnds ==
  ASSUME TypeOK, UNCHANGED <<accounts, now>>, NEW t \in issued,
         sessions'[t] \in {Nothing, sessions[t]}
  PROVE  Fades(t)
<1>1. now <= now'
  BY DEF TypeOK
<1> QED BY <1>1, SameLater DEF Fades

(* A new session has a token that was not given out.                        *)
LEMMA AdmitFades ==
  ASSUME TypeOK, NEW p \in Jobs, Admit(p), UNCHANGED accounts, NEW t \in issued
  PROVE  Fades(t)
<1>1. sessions'[t] = sessions[t]
  BY DEF TypeOK, Admit
<1> QED BY <1>1, OnlyEnds DEF Admit

(* The start of a request notes at most the use of its session.             *)
LEMMA RequestFades ==
  ASSUME TypeOK, NEW p \in Jobs, Request(p), NEW t \in issued
  PROVE  Fades(t)
<1>1. ASSUME NEW u \in Users, NEW pw \in Passwords, StartLogin(p, u, pw) \/ StartDav(p, u, pw)
      PROVE  Fades(t)
  BY <1>1, OnlyEnds DEF StartLogin, StartDav, OnlyJob
<1>2. ASSUME NEW x \in Tokens, NEW kind \in Kinds, StartApi(p, kind, x)
      PROVE  Fades(t)
  <2>1. t \in Tokens /\ UNCHANGED <<accounts, now>>
    BY <1>2 DEF TypeOK, StartApi
  <2>2. CASE t # x \/ Expired(sessions[x])
    <3>1. sessions'[t] \in {Nothing, sessions[t]}
      BY <1>2, <2>1, <2>2 DEF TypeOK, StartApi
    <3> QED BY <2>1, <3>1, OnlyEnds
  <2>3. CASE t = x /\ ~Expired(sessions[x])
    <3>1. sessions[t] # Nothing /\ sessions' = [sessions EXCEPT ![t].seen = now]
      BY <1>2, <2>3 DEF StartApi
    <3>2. sessions'[t] = [sessions[t] EXCEPT !.seen = now]
      BY <2>1, <3>1 DEF TypeOK
    <3> QED BY <2>1, <2>3, <3>1, <3>2 DEF Fades
  <2> QED BY <2>2, <2>3
<1>3. ASSUME NEW x \in tickets, StartGet(p, x) PROVE Fades(t)
  BY <1>3, OnlyEnds DEF StartGet
<1> QED BY <1>1, <1>2, <1>3 DEF Request

(* A step of a request ends sessions or leaves them.                        *)
LEMMA ProgressFades ==
  ASSUME Inv, NEW p \in Jobs, Progress(p), NEW t \in issued
  PROVE  Fades(t)
<1>1. TypeOK /\ t \in Tokens
  BY DEF Inv, TypeOK
<1>2. CASE Recall(p) \/ Lookup(p) \/ Get(p) \/ Finish(p) \/ Fail(p)
  BY <1>1, <1>2, OnlyEnds DEF Recall, Lookup, Get, Finish, Fail, OnlyJob
<1>3. CASE Verify(p)
  <2>1. CASE Admit(p)
    BY <1>1, <1>3, <2>1, AdmitFades DEF Verify
  <2>2. CASE NotServer
    BY <1>1, <1>3, <2>2, OnlyEnds DEF Verify, NotServer
  <2> QED BY <1>3, <2>1, <2>2 DEF Verify
<1>4. CASE Rehash(p)
  <2>1. job[p].user \in Users /\ job[p].pw \in Passwords
    BY <1>4 DEF Rehash, At, Inv, JobsOK, JobOK, Shape, SigningIn
  <2>2. Later(accounts, accounts')
    BY <1>1, <1>4, <2>1, SetHashLater DEF Rehash
  <2>3. sessions'[t] = sessions[t] /\ now <= now'
    BY <1>1, <1>4 DEF Rehash, NotServer, TypeOK
  <2> QED BY <2>2, <2>3 DEF Fades
<1>5. CASE Rehashed(p)
  BY <1>1, <1>5, AdmitFades DEF Rehashed
<1>6. CASE Account(p)
  <2>1. sessions'[t] \in {Nothing, sessions[t]}
    BY <1>1, <1>6 DEF Account, TypeOK
  <2> QED BY <1>1, <1>6, <2>1, OnlyEnds DEF Account
<1> QED BY <1>2, <1>3, <1>4, <1>5, <1>6 DEF Progress

(* The screens reach sessions through the accounts only.                    *)
LEMMA AdministerFades ==
  ASSUME TypeOK, NEW u \in Users, Administer(u), NEW t \in issued
  PROVE  Fades(t)
<1>1. ASSUME NEW kind, NEW new, Later(accounts, new), Change(kind, new)
      PROVE  Fades(t)
  <2>1. sessions'[t] = sessions[t] /\ now <= now' /\ accounts' = new
    BY <1>1 DEF Change, NotServer, TypeOK
  <2> QED BY <1>1, <2>1 DEF Fades
<1>2. ASSUME NEW pw \in Passwords, ChangePassword(u, pw) PROVE Fades(t)
  BY <1>1, <1>2, SetHashLater DEF ChangePassword
<1>3. CASE TurnOn(u)
  BY <1>1, <1>3, SetEnabledLater DEF TurnOn
<1>4. CASE TurnOff(u)
  BY <1>1, <1>4, SetEnabledLater DEF TurnOff
<1>5. CASE SignOutEverywhere(u)
  BY <1>1, <1>5, RevokeLater DEF SignOutEverywhere
<1>6. CASE DeleteAccount(u)
  BY <1>1, <1>6, DeleteLater DEF DeleteAccount
<1> QED BY <1>2, <1>3, <1>4, <1>5, <1>6 DEF Administer

(* So no step does more to a session than Fades says.                       *)
LEMMA NextFades ==
  ASSUME Inv, [Next]_vars, NEW t \in issued
  PROVE  Fades(t)
<1>1. TypeOK /\ t \in Tokens
  BY DEF Inv, TypeOK
<1>2. ASSUME NEW p \in Jobs, Request(p) PROVE Fades(t)
  BY <1>1, <1>2, RequestFades
<1>3. CASE Other
  <2>1. CASE Purge
    <3>1. sessions'[t] \in {Nothing, sessions[t]}
      BY <1>1, <2>1 DEF Purge
    <3> QED BY <1>1, <2>1, <3>1, OnlyEnds DEF Purge
  <2>2. CASE Tick
    <3>1. now <= now' /\ sessions'[t] = sessions[t] /\ accounts' = accounts
      BY <1>1, <2>2 DEF Tick, TypeOK
    <3> QED BY <1>1, <3>1, SameLater DEF Fades
  <2>3. CASE Restart
    <3>1. sessions'[t] = Nothing
      BY <1>1, <2>3 DEF Restart
    <3> QED BY <1>1, <2>3, <3>1, OnlyEnds DEF Restart
  <2> QED BY <1>1, <1>3, <2>1, <2>2, <2>3, ProgressFades, AdministerFades DEF Other
<1>4. CASE UNCHANGED vars
  BY <1>1, <1>4, OnlyEnds DEF vars
<1> QED BY <1>2, <1>3, <1>4 DEF Next

(* What works after such a step worked before it: had the account changed   *)
(* its version, the session would be behind it from then on.                *)
LEMMA FadedStaysDead ==
  ASSUME Inv, NEW t \in issued, Fades(t), TypeOK', Usable(t)'
  PROVE  Usable(t)
<1> DEFINE s == sessions[t]
           z == sessions'[t]
<1>1. t \in Tokens /\ now \in Nat /\ now' \in Nat
  BY DEF Inv, TypeOK
<1>2. /\ z # Nothing
      /\ ~(now' >= z.seen + IdleTimeout \/ now' >= z.created + AbsoluteTimeout)
      /\ Matches(accounts'[z.user], z.version)
  BY DEF Usable, Expired, Matches
<1>3. CASE z = s /\ now <= now' /\ Later(accounts, accounts')
  <2>1. /\ s \in Sessions /\ s.user \in Users /\ s.version \in Nat
        /\ s.seen \in Nat /\ s.created \in Nat
    BY <1>1, <1>2, <1>3 DEF Inv, TypeOK, Sessions
  <2>2. ~Expired(s)
    BY <1>1, <1>2, <1>3, <2>1, TimesAssumption DEF Expired
  <2>3. Known(accounts, s.user, s.version, s.pw)
    BY <1>1, <1>2, <1>3 DEF Inv, SessionsOK, SessionOK
  <2>4. accounts[s.user] # Nothing /\ accounts[s.user].version \in Nat
    BY <1>2, <1>3, <2>1 DEF Matches, Later, Inv, TypeOK, Rows
  <2>5. accounts[s.user].enabled /\ accounts[s.user].version = s.version
    BY <1>2, <1>3, <2>1, <2>3, <2>4 DEF Matches, Later, Known
  <2> QED BY <1>2, <1>3, <2>2, <2>4, <2>5 DEF Usable, Matches
<1>4. CASE /\ s # Nothing /\ ~Expired(s) /\ z = [s EXCEPT !.seen = now]
           /\ UNCHANGED <<accounts, now>>
  <2>1. s \in Sessions
    BY <1>1, <1>4 DEF Inv, TypeOK
  <2>2. z.user = s.user /\ z.version = s.version
    BY <1>4, <2>1 DEF Sessions
  <2> QED BY <1>2, <1>4, <2>2 DEF Usable
<1> QED BY <1>2, <1>3, <1>4 DEF Fades

(* A session that logout, time, a new password, turning the account off or  *)
(* a deletion has ended is never accepted again.                            *)
THEOREM Ending == Spec => DeadStaysDead
<1>1. Inv /\ [Next]_vars
        => [\A t \in issued : ~Usable(t) => ~Usable(t)']_vars
  <2> SUFFICES ASSUME Inv, [Next]_vars, NEW t \in issued, Usable(t)' PROVE Usable(t)
    OBVIOUS
  <2>1. TypeOK'
    BY NextInv DEF Inv
  <2>2. Fades(t)
    BY NextFades
  <2> QED BY <2>1, <2>2, FadedStaysDead
<1> QED BY <1>1, InitInv, NextInv, PTL DEF Spec, DeadStaysDead
=============================================================================
