# VaultBox: specifications and proofs

VaultBox turns a phone into a file server: its screens and an HTTP API, a WebDAV
and an FTPS server in the same process work on the same storage roots, some of
them plain directories, some of them Android SAF trees.  This directory holds
TLA+ modules of that program, TLC configurations that check them on small
instances, and proofs that TLAPS checks for all instances.

Sources are quoted relative to the repository (`src/`), Dart files mostly under
`src/lib`, the web pages under `src/assets/portal`.

## The system

| Component | State | Operations | Interacts with |
| --- | --- | --- | --- |
| File operations (`domain/usecases`, `data/repositories/file_repository_impl.dart`, `server/files/file_transfer.dart`) | none of their own; the locals of a running call | copy, move, delete to the bin, restore, delete for good, import, upload, rename | backends, recycle rows |
| Storage backends (`data/services/*_storage_backend.dart`) | the files | open a write handle, fill, commit, abort, copy, move, rename, delete, stat, list | the OS, the SAF bridge |
| Recycle bin rows (`drift_recycle_bin_repository.dart`) | id, original path | add, remove, list | database |
| Accounts and sign-in (`domain/security`, `manage_accounts.dart`) | accounts with a credential version, sessions by token hash, failure counters, checks in flight | sign in, validate, sign out, change password, enable, disable, delete | tickets, authorizer, every protocol |
| Download tickets (`download_tickets.dart`) | tickets by hash, bounded | issue, resolve, revoke by session or account | sessions, file endpoints |
| Authorizer and gate (`authorizer.dart`, `storage_gate.dart`) | none (rules of an account) | may this account do this here | every protocol |
| Share links (`create_share.dart`, `public_endpoints.dart`, `share_unlocks.dart`) | link, expiry, uses, proofs of a password, checks in flight | create, open, unlock, list, claim a use, download, upload, revoke | file operations, share pages |
| Share pages (`public.html`, `public.js`) | what is shown, the proof held, rows, a queue of uploads | load, unlock, open a folder, more, download, upload | share links over HTTP |
| Web portal (`portal.js`) | token in memory and in the browser's storage, place, listing, selection, dialogs, previews, a queue of uploads | sign in and out, list, tick, make, rename, delete, move, copy, preview, download, upload | HTTP API, sign-in, tickets; the browser's Back and reload |
| WebDAV (`server/webdav`) | lock table | LOCK, UNLOCK, PUT, MOVE, COPY, DELETE | file operations, sign-in |
| FTPS (`server/ftp`) | connections, command state, passive listener | the FTP commands | file operations, sign-in |
| Activity log (`server/activity`) | transfer rows | begin, finish, interrupt at start | database |
| Server lifecycle (`server_main.dart`, `ServerForegroundService.kt`, `pigeon_server_host.dart`) | service, engine, state shown | start, stop, fail, observe | all listeners |
| SAF bridge (`SafStorageHostApi.kt`) | the pending picker | pick, cancel, document calls | Android |
| Listing and view state (`files_view_model.dart`, `resource_cubit.dart`) | rows shown, a generation | load, refresh, open folder | backends |
| Value algorithms (`storage_path.dart`, byte ranges in `file_transfer.dart`, `root_names.dart`) | none | parse, normalise | all |

What makes it hard: everything is asynchronous.  The screens run in one Dart
isolate and the server in another (`ServerForegroundService.kt` gives it an
engine of its own), with the files and one database shared; so any call
interleaves with any other at every `await`.  There is no lock per path, the
screens and all protocols may use one path at once; each file operation
is several calls of a backend, any of which may fail, and the process may be
killed between two of them; a direct root commits by a rename, a SAF root
writes in place; sessions, tickets, locks and links expire while requests that
looked at them are still running; tables and counters are bounded.

What makes each component correct:

* file operations: the last complete copy of a file goes only on request;
  what is deleted can be found and restored; creating does not overwrite; an
  upload that fails leaves the old file; every request ends;
* sign-in: no session of a stopped, deleted or re-keyed account is accepted,
  nobody signs in past the lock-out;
* tickets: a ticket dies with its session;
* share links: never more uses than allowed, nothing of a
  locked link without its password, uploads replace nothing;
* share pages: one file is sent at a time, and every wait ends;
* web portal: signing out forgets, a session is only called ended when it is,
  a change is about what the user ticked, a listing shows the whole folder,
  nothing is replaced unasked, the queue never stands still;
* WebDAV: no change under somebody else's lock, the table stays bounded;
* FTPS: caps hold, no listener outlives its session, command state is consumed;
* activity log: every finished transfer says how it finished;
* lifecycle: the state shown is eventually the state that holds;
* views: what is shown belongs to the folder that is open.

`PROJECT.json` lists the components with what is modelled of each, and the
hazards of the code, each at its line.

## Modules

| Module | What it is |
| --- | --- |
| `FileVault` | what the program promises about data: a content is lost only when asked for |
| `FileOps` | all operations that change files, over direct and SAF roots |
| `MCFileOps` | instances of `FileOps` for TLC |
| `FileOpsProofs` | type correctness of `FileOps`, proved |
| `FileOpsKeeps` | `FileOps` implements `FileVault`, and its other safety properties, proved |
| `Sessions` | sign-in, sessions, remembered passwords and tickets against changes of accounts |
| `MCSessions` | instances of `Sessions` for TLC |
| `SessionsProofs` | who is let in was right, and a dead session stays dead, proved |
| `PortalSession` | the portal's page: sessions, what the browser keeps, requests in flight, the queue of uploads |
| `MCPortalSession` | instances of `PortalSession` for TLC |
| `PortalSessionProofs` | the safety of `PortalSession`, proved |
| `PortalFiles` | the portal's page: listing, selection, dialogs, picker, previews, with the listing handler of the server |
| `MCPortalFiles` | instances of `PortalFiles` for TLC |
| `PortalFilesProofs` | the safety of `PortalFiles`, proved |
| `SharePage` | a share link: its handlers and the pages of its visitors, composed |
| `MCSharePage` | instances of `SharePage` for TLC |
| `SharePageProofs` | type correctness of `SharePage` and its count of checks, proved |
| `SharePageKeeps` | the uses, the password, the files and the queue of a link, proved |
| `DavLocks` | the lock table of WebDAV and the handlers that change files |
| `MCDavLocks` | instances of `DavLocks` for TLC |
| `DavLocksProofs` | the safety of `DavLocks`, proved |

### FileOps

State: `disk` maps a path to the item there; `rows` is the table of recycle
rows; `job[p]` holds the locals of the request `p` and, as `pc`, the `await` it
stands at; `litter` says whether a temporary file was left behind by a request
that is over; `events` counts requests and crashes; `crossed` is history, the
requests that met another one on a path (see below).

An item is a file or a folder with all in it.  It has a content, is whole or
not, and may be open for writing by a job.  Contents are model values: two
items with one content are copies of each other.  A folder is copied and
deleted child by child in the code; here it is one item which may be left
partial, so that every intermediate state of a folder is "not whole".

One action is the code between two awaits.

| Action | Code |
| --- | --- |
| `StartTransfer` .. `StartRename` | the first part of each use case and of the upload and rename endpoints |
| `Resolve` | one probe of `resolveNonConflictingName` |
| `Clear`, `Clearing` | `copySingle` with Replace: stat, then delete, the target |
| `Check` | the backend refuses a copy or move whose target exists |
| `Stat` | `FileTransfer.receive` looks at the target, the cross-root copy at its source |
| `Blit`, `Blitting` | `File.copy`, and the recursive copy of a folder |
| `Open`, `Fill`, `Commit`, `Abort` | a write handle: a temporary file and a rename on a direct root, the document itself on SAF |
| `Verify` | the copy has the wrong size and is deleted again |
| `Rename` | the backend's own rename |
| `DeleteSource`, `AddRow`, `DropRow` | what follows the copy in move, delete, restore and purge |
| `Crash` | the process dies: every job, and the handles of SAF documents, are gone |

The faults an instance has are in `Faults`: a copy, a stream, a commit, a
delete, a row or a clean-up fails, a SAF document is made but cannot be opened,
a stream ends short, the process dies.  A picker or a SAF provider may not
tell the size of a file (`MayLackSize`); then nothing is compared after a write,
and a short copy passes (`AfterWrite`).  Direct roots always tell it.

Nothing in the code keeps two requests off one path, and nothing in the model
does: any job may begin at any time.  Two jobs *meet* when one writes a path
the other uses (`Apart`); `crossed` remembers which did, for as long as they
run.  Some properties except what a job that met another one does on its own
paths, since there the code does lose data: `files_motto_race` and
`files_import_race` show it.  All others hold with any overlap.

Taken as one step: the look at a SAF folder and the creation of the document
that follows it in `openWrite` (a provider asked for a name that came up in
between makes "name (1)"; `SharePage` has that case); the bytes of a source
stream, which are read when the stream ends.  Of two jobs that write one
document at a time either prevails, or the bytes are a mixture that stays
incomplete (`Prevails`).  A file that is renamed while it is being written stays
incomplete.  A folder copied over a folder that came to its target in between
becomes the copy, or stays incomplete; merging two on purpose is not modelled.

### Sessions

State: `accounts`, the table of the database; `sessions`, `tickets` and
`verified` (the passwords that `DavAuthenticator` remembers), the tables in the
memory of the server; `issued`, the tokens given out; `now`; and `job[p]`, the
locals of request `p` and the `await` it stands at.  A version is the
`credentialVersion` of an account, of the session issued or of the entry
remembered.  A password is a model value; `weak` says that `needsRehash` holds
of its hash.  The field `pw` of a session and the field `right` of a job are
history: the password the session was opened with, and whether the account was
on with the password of the request at some moment of the request.

The store of sessions, the tickets and the remembered passwords are maps whose
methods complete in the event that calls them, so no other request runs
in between; the database and the hasher are where requests interleave.

| Action | Code |
| --- | --- |
| `StartLogin`, `Lookup`, `Verify`, `Rehash`, `Rehashed` | `LoginService.login` and `checkCredentials`, one action between two awaits |
| `StartDav`, `Recall` | `DavAuthenticator.authenticate`, which goes on with `Lookup` |
| `Admit` (part of `Verify` and `Rehashed`) | `SessionManager.issue`, or the entry that is remembered |
| `StartApi`, `Account`, `Finish` | `validate`, then `_authenticate` and logout, then the request; one may ask for a ticket |
| `StartGet`, `Get` | `resolve`, then the account lookup of `downloadByTicket` |
| `Fail` | the throttle or the cap on checks refuses, or an awaited call throws |
| `ChangePassword`, `TurnOn`, `TurnOff`, `SignOutEverywhere`, `DeleteAccount` | the screens, in an isolate of their own, each a transaction of `DriftAccountRepository` |
| `Purge` | the timer of `ServerServices` |
| `Restart` | the server's process ends; its tables are in memory |

The clock does not go back: the code reads the wall clock, and a user who sets
it back lengthens sessions.  Accounts are those of `Initials`: creating one
makes a fresh id, which no session or entry has.

### PortalSession

`portal.js` is one page of script: a handler runs to its end, and what it keeps
is a few variables.  State: `token` and `stored` (in memory, in the session's
storage of the browser), `shell` and `form` (what is on the page), `hash` and
`resume` (the place the address names, the place to go back to after a sign-in;
a place is represented by the session it was visited in), `entering` (calls of
`enterApp` under way), the queue of uploads (`status`, `running`, `policy`,
`anyDone`, the open question `ask`, the `tray` as last drawn), the requests in
flight `calls`, and of the server the sessions that are `valid`.

An action is an event of the browser.  An answer is what the server may have
said at some time between request and answer: a token alive when the request
was sent may be taken or refused, a dead one is refused, and any request may
fail.

| Action | Code |
| --- | --- |
| `Submit`, `LoginAnswer` | the form of `renderLogin` |
| `EnterAnswer`, `Enter`, `EnterFails` | `enterApp`: both answers, then `buildShell` and `route` |
| `Request`, `EndSession` | what `request` does with a 401, for every caller |
| `SignOut`, `LogoutAnswer` | `signOut`, which goes on whatever the answer is |
| `Reload` | the page is loaded anew: `boot` with what the browser kept |
| `Queue`, `PumpNext`, `Settle` | `queueUploads`, `next` of `pump` |
| `PutAnswer`, `AnswerDialog`, `Decide` | `uploadOne` and `askReplace` |
| `ClearTray`, `TrayOf` | `renderUploads` |
| `Browse`, `PageAnswer` | any other request of the page |
| `SessionEnds` | the server drops a session |

Requests of the last session may be answered after the next sign-in, and are in
every run.  `late` is history: somebody has signed in while such a request was
open, and the page has not been loaded anew since.  `NeverStranded` is claimed
until then, because such an answer may take the new token away while `enterApp`
waits, and the file page then stands without one.  `EndedMeansEnded` is what the
page's own message says, and `portal_late` refutes it; `OwnAnswersEnd` says that
answers to requests of another session are the only reason.

### PortalFiles

State of the page: `path`, `entries` (a bag, since a late answer could add a row
twice), `next`, `loading`, `error`, `selected`; the open `dialog` with the items
it is about, the picker's `location` and what it shows as `listed`, and
`previews`.  Of the server: `fs`, the names in each folder.  `loadCounter` is the
field `mine` of a request: the page compares the counter it kept with the
current one, so all that matters is whether a later load began.  Names are
numbered in the order the backends list them, so a cursor is a number.  That
the items which stay keep their order is assumed: SAF's listing is sorted, but a
direct one has the order of the operating system, of which
`storage_backend.dart:58-65` says that it is not guaranteed.  Where it changes
between two pages, nothing is claimed of a listing.

| Action | Code |
| --- | --- |
| `Load`, `LoadMore`, `ListAnswer` | `loadDirectory` |
| `ServeList`, `ReadOne`, `EndPage` | `list` of a backend, one item a step, what cannot be read passed over (`Unreadable`); then `_entries` of `file_endpoints.dart`: the next cursor of the raw page, hidden items left out |
| `ServeChange`, `Changed` | mkdir, rename, delete, move and copy; a batch may do any part of its items |
| `GoTo` | `goTo` and `route`: a crumb, a row, a location, Back and Forward, also under a dialog |
| `Tick`, `OpenDialog`, `Confirm`, `Cancel` | the boxes, the toolbar, the dialogs and the requests they send |
| `PickGoTo`, `PickAnswer` | `pickFolder` |
| `OpenFile`, `TicketAnswer`, `ClosePreview` | `withTicket`, `openFile`, the preview |
| `UploadsEnd` | the end of `pump`, which loads the folder again |
| `OthersChange` | another client, or an upload |

Four variables are history: `ticked`, what the user ticked in the folder that was
open at that time; `backed`, whether the folder changed under the open dialog;
`stayed`, what has been in the folder since its listing began; `cut`, whether a
page was asked for after an item that had gone by then.  `ListsEverything` is
about what stayed, whatever else comes and goes; it excepts items that cannot
be read and listings that are `cut`, since the server then finds nothing after the
cursor and says the folder is over (`PagesMissNothing`).

The page makes the paths of a change of the folder that is open when the dialog
is closed, so Back under a dialog sends the change elsewhere: `ActsOnTicked` says it
does not, and `portal_back` refutes it.  `OnlyBackMisleads` says that nothing else does
(no late listing, no end of an upload, no answer to another change), and that the
items are those ticked in the dialog's folder in any case.

### SharePage

The handlers of `public_endpoints.dart` and the page `public.js`, together.
State of the server: `link` (its kind, whether it has a password, whether its
storage is direct), its `row` (live, over by the clock, or deleted), `used`,
`proofs` (`ShareUnlocks`), `checks` (`_passwordChecks`) and `dir`, the folder uploads
go to.  State of a page: `view`, `unlock`, for folders `path`, `rows`, `loading`,
`failed`, for uploads `items` and `sending`.  A request in `reqs` has the `stage` of
its handler.  When the connection is lost the page goes on at once
(`heard = FALSE`), and a handler that changes something goes on, too.

| Action | Code |
| --- | --- |
| `OpenLink` | `_open`: the row is read, the end and the uses looked at |
| `Info`, `Entries`, `Plan`, `Refuse` | the handlers from there to their next await |
| `StartCheck`, `Verified` | `_unlock`, around the await of the password check |
| `Claim` | the call of `tryUse`, with the time of now |
| `TryUse` | the transaction of `tryUse`: the row is looked at again and counted up |
| `StartDownload` | a download from the start claims a use, a range from further on is sent without one |
| `Sent` | the body of a download |
| `ResolveName` | `resolveNonConflictingName`, one look at one name |
| `OpenWrite`, `Commit`, `Abort` | `FileTransfer.receive` |
| `LinkEnds`, `ProofEnds` | time, the owner (expired and deleted are different to `tryUse`), the bound of `ShareUnlocks` |
| `Loaded`, `UnlockAnswer`, `ListAnswer`, `PutAnswer` | `load`, `renderPassword`, `loadFolder`, `pump`, by their answers |
| `SubmitPassword`, `OpenFolder`, `ClickMore`, `Download`, `Queue` | the visitor |
| `Receive`, `Lost` | an answer arrives, or the connection breaks |

`served` counts what the owner's limit is about: files sent in, and files
fetched from their start.  A range that begins further on takes no use, as
`public_endpoints.dart:450-453` intends and a test asserts
(`public_endpoints_test.dart:156-163`), and neither does a HEAD, which sends nothing
(`Refuse`).  So a visitor who has fetched the first byte may go on, also after
the link has ended; nothing is claimed of that.  The time `tryUse` compares
with is read before its transaction, so a link that expires while the
transaction waits is still used once (`Claim`, `TryUse`).

A look at a name, `openWrite` and the deletion of an aborted document may fail;
a SAF document that was made then stays in the folder without its content
(`Part`).  `UploadsKeep` says that a file that is there stays as it is, with one
exception: on direct storage two uploads that found one name free are renamed
over each other, so it excepts a visitor's file whose name another upload was
`Aimed` at before the file was there.  No upload aims at a file that is there
already.  The owner's files are those of `OwnersFiles` throughout.

### DavLocks

State: `locks`, the table of `DavLockManager`, with what has expired since its last
purge; `disk`, what is under each path and which request put it there; `job[q]`,
the locals of a handler and the await it stands at; `now`.  The number of a
request stands for the token of its lock.  `given` (tokens that an answer named) and the field
`foreign` of a job (locks that were there when it was checked, and that it may
not write under) are history.

The locks are looked at once, before the first await.  What a backend does in
one call is one step here, which happens or fails: its steps are those of
`FileOps`, where the locks play no part.

| Action | Code |
| --- | --- |
| `Begin`, with `Allowed` | `_requireUnlocked` of each method, `mayModify` |
| `Lock`, `Refresh`, `Unlock` | `lock`, `refresh`, `unlock` of `DavLockManager`, under `_lock` and `_unlock` |
| `Stat`, `LookAtParent`, `LookAtTarget` | the questions a method asks of the storage, in its order |
| `Recycle` | `_delete`, also of a target that is replaced |
| `Make` | the file of a PUT, the empty file of a LOCK, the folder of a MKCOL |
| `Copy`, `Remove` | `copySingle`, `renameSingle`, `createDirectory`, then `deletePermanently` of what was moved |
| `Throws`, `Fails` | an await throws; a LOCK gives its lock back |
| `Tick` | time passes, and locks expire |

`LocksRespected` has one exception, `ReplacesOver`: a COPY or MOVE that replaces a
folder puts it in the recycle bin with all that others have locked in it, since
the destination is checked without what is below it
(`webdav_handler.dart:651`).  The tokens a request presents are some of those of its
account's locks: `mayModify` looks at the account as well, so others make no difference.

### Runs

| Run | Instance | Shows |
| --- | --- | --- |
| `files` | two jobs, two folders of a direct root and one of a SAF tree, an item in each or in the bin, all operations and faults, two requests or crashes and a last crash, `FairSpec` | `TypeOK`, `KeepsUndisputed` (implements `FileVault`), `HiddenOnlyInBin`, `RowsHaveBytes`, `FreeNameStaysFree`, `OldOrNew`, `RequestsEnd` hold |
| `files_motto_race` | delete to the bin and an upload of one path | `KeepsEveryFile` fails |
| `files_import_race` | an import and an upload to one path | `ImportNeverOverwrites` fails |
| `sessions` | two jobs, one account, two passwords, two tokens, three requests, two changes or restarts, times 0 to 3 | `TypeOK`, `AllowedWasRight`, `DeadStaysDead` hold |
| `sessions_ticket` | the same, changes of password only | `TicketDiesWithSession` fails |
| `sessions_rehash` | the same, the account has an old hash | `PasswordSticks` fails |
| `portal_session` | two sessions, two uploads, four sign-ins, sign-outs, page loads or sessions that end, `FairSpec` | `TypeOK`, `NeverStranded`, `SignedOutIsForgotten`, `PumpAlive`, `OwnAnswersEnd`, `NoSilentReplace`, `PumpEnds`, `PageSettles` hold |
| `portal_late` | the same, without fairness | `EndedMeansEnded` fails |
| `portal_files` | two folders of three and two items, one hidden, one unreadable, pages of two, two clicks that load, one change by somebody else, `FairSpec` | `TypeOK`, `RowsBelong`, `ListsEverything`, `OnlyBackMisleads`, `LoadSettles` hold |
| `portal_back` | the same, without fairness | `ActsOnTicked` fails |
| `share_page` | two visitors, links of each kind, two uses, one check at a time, two uploads each, three names, `FairSpec` | `TypeOK`, `NeverMoreUses`, `OnlyUnlocked`, `ChecksReturn`, `OneAtATime`, `UploadsKeep`, `PageSettles` hold |
| `dav_locks` | two accounts, a folder with or without a file in it and a folder or file beside it, two requests at a time, three in all, one of them a change of files, two locks | `TypeOK`, `NoConflict`, `NoOrphanLock`, `LocksRespected` hold |

The six failing runs are disagreements between the code and what its comments
and messages say; `PROJECT.json` quotes both under "findings".

The modules state some more that TLC finds violated on instances like these, for
which no run is kept.

| Statement | Violated when |
| --- | --- |
| `FileOps!DeletedIsListed` | the deletion of a folder that went to the bin fails half-way |
| `FileOps!NoTempLeft` | an import commits under the name of a folder |
| `Sessions!SignInOpens` | the rehash of a sign-in makes the session's version old before it is issued |
| `PortalSession!NoUploadForgotten` | the session ends while files wait; the next one shows neither them nor sends them until something else is queued |
| `PortalFiles!EmptyMeansEmpty` | the first page has hidden items only: the folder is shown as empty, with no "More" |
| `PortalFiles!PagesMissNothing` | the item the cursor names is removed between two pages: the next page is empty |
| `PortalFiles!PickerShowsItsFolder` | the answers to two folders opened in the picker arrive in the other order |
| `PortalFiles!DownloadsWhatIsShown` | the page goes to another folder before the preview opens; its button asks by the new path |
| `SharePage!RowsBelong` | a visitor opens a folder while another one is still loading: `public.js` has no counter like the portal's |
| `DavLocks!LocksBelowRespected` | a COPY or MOVE replaces a folder with a lock in it |

Bounds.  In `files`, `MaxEvents` is the number of requests plus crashes, and one
crash more is allowed: two jobs race any two requests step by step, and the
process may die under both of them, or under one before the other.  The instance
starts from three states (`Assorted`): a file and a folder in the two roots, or
one of them in the recycle bin, so restoring and purging need no delete before
them.  Two folders of one root and one of the other have a copy go both ways
through the code (`SameRoot`).  One recycle slot suffices because a slot is
chosen fresh for each delete.  "Keep both" tries two names instead of 1001: the
search may hit a free one, a taken one and its end.

In `sessions` the idle timeout is 2, the absolute one 3, an entry is
remembered for 1 and a ticket lives for 1: a session can be used and live on,
expire unused, and reach its end though used; an entry and a ticket can be
fresh, or expire.  Two requests race each other and a third follows; two changes allow
off and on again, or a change of password and back.  Nothing relates one account to another
(every table is keyed by account, or by a token that names one), so one is
enough.  One ticket fills the table, so the oldest is dropped.

`OldOrNew` is about direct roots.  On SAF a document is truncated when it is
opened, as the note in `saf_storage_backend.dart:165-176` says, whatever
`file_transfer.dart:143` says of it.

In `portal_session` two tokens are a session and the one after it, whose
requests may overlap; two uploads are one under way and one that waits; four events (`MaxEvents`) are two
sign-ins with a sign-out, a page load or an ended session after each.  In
`portal_files` a folder of three items and pages of two has a full and a last
page with a hidden item among them, the other folder one item that cannot be
read; two clicks (`MaxClicks`) overlap two loads or a load and a dialog, and the third request in flight (`MaxCalls`) is the one
a dialog sends.  `MaxChanges` is one change by somebody else.  In `share_page`
two uses (`MaxUses`) are claimed by more requests than that, one check
(`MaxChecks`) is contended for by two visitors, two uploads of each (`MaxItems`)
meet among three names (`MaxFiles`, the code tries 1001) of which the owner has
one.  A visitor has one list or download in flight (`MaxRequests`)
besides what the queue and the forms send, and one handler at a time goes on
unheard.  `SomeLinks` has passwords for file links only and direct storage for
upload links only: a password makes a difference before the page gets to the
kind, and the storage only to uploads.

In `dav_locks` three requests (`MaxRequests`) are a lock, what becomes of it, and
a change (`MaxChanges`) that was checked before, between or after; a lock may
last for one step of the clock or two, which has one (`MaxTime`), so it expires or
not while the change is under way.  Two locks (`MaxLocks`) fill the table.
`Arrives` has a COPY or MOVE only where the paths of the instance have room for all
of it.

Deadlock is not an error in these runs: when the last event has happened and
all jobs are idle the system rests.

Fairness.  `FairSpec` has weak fairness of `Progress(p)` for each job: an
awaited call of the OS, of SAF or of SQLite returns sooner or later, with a
result or with an error, and the Dart event loop then runs the continuation.
Nothing is assumed of new requests, faults or crashes.  `Sessions` and
`DavLocks` state safety only, and assume no fairness.

On the pages, `FairSpec` says that requests are answered or fail in the end:
`fetch` resolves or rejects, `XMLHttpRequest` calls `onload` or `onerror`, and the
page has a handler for each.  `PortalSession` has it for each kind of request
by itself, `PortalFiles` for the listing the page waits for, `SharePage` for all
requests of a visitor together, the awaits of their handlers included.  No
fairness is given to clicks, to sessions or links that end, or to lost
connections.  A question of the queue stays open for as long as the user
likes, so `PumpEnds` ends there as well.

### Proofs

`FileOpsProofs` proves `Typing == Spec => []TypeOK`, for all values of the
constants.  `TypeOK` alone is not inductive: an action writes what it reads
from the locals of its job, and these may be `Nothing` in general.
`TypeInv == TypeOK /\ Shape` adds, for each job, which ends its operation has
(`Ends`), which steps belong to the operation (`StepsOf`) and where it holds
bytes (`Bytes`).  One lemma per action, one step per conjunct it can disturb.

`FileOpsKeeps` proves `Keeping == Spec => KeepsUndisputed`: `FileOps` implements
`FileVault` with `held` the contents that have a whole copy and `condemned` those
that stand where a job was asked to replace or purge, where a job that met
another one writes, or where a move deletes its source after a copy that no
size could verify.  No theorem of this module assumes anything of how requests
overlap.  The inductive invariant is
`KeepInv == TypeInv /\ Disjoint /\ Writers /\ \A p \in Jobs \ crossed : Local(p)`:
a job that met no other writes and uses paths of its own (`Disjoint`);
who has a file open is a job that is at work on it (`Writers`); and for each job
that met no other (`Local`), its two ends are different (`TwoEnds`), a target it
is about to write without permission to replace is free (`TargetFree`), and a
source it is about to delete has a whole copy at the target, was not whole, or
was copied short from where no size is told (`SourceSafe`).  It is needed because
the step that loses data is `DeleteSource`, long after the step that made the
copy.  `NextKeeps` preserves it; `StepCosts` shows that a step of an invariant state
loses only excused contents.

Four more theorems follow from `FilesInv`, which adds four parts to `KeepInv` (TLC
finds it to hold on the instance of `files`): a
whole item, on disk or in a job's hands, is just a content and nobody writes
it (`Intact`); two deletes have two slots (`SlotAlone`); the slot of a
delete has no row, and a row is dropped only when its slot is empty, unless jobs
met there (`Slots`);
and on a direct root the file an upload replaces is untouched until its commit,
unless another job came to it (`OldStays`).  `PutsTarget` says of every step that writes
a target that it finds nothing whole there or may replace it.

* `Creating`: `Spec => FreeNameStaysFree`;
* `RowsAndBytes`: `Spec => RowsHaveBytes`, for all jobs, those that met others included;
* `Hiding`: `Spec => HiddenOnlyInBin`; a content goes out of sight only where it may be
  lost, or where a delete takes the source away whose slot holds the content
  whole (if `AddRow` then fails, it stays there unseen);
* `Replacing`: `Spec => OldOrNew`; the property is about direct roots, other roots may
  be SAF trees.

`SessionsProofs` proves three theorems, for all users, passwords, times and
bounds, from the assumptions named in `Sessions`:
`SessionsTyping == Spec => []TypeOK`,
`Admission == Spec => []AllowedWasRight` and `Ending == Spec => DeadStaysDead`.
The argument is what a version number is good for.  `Known(acc, u, v, pw)` says
that `v` is not a version yet to come and that, while the account `u` has the
version `v`, it is on and has the password `pw`.  The inductive invariant `Inv`
says so of every session, every remembered entry, and every row and version a
job has read (`SessionsOK`, `EntriesOK`, `JobsOK`).  Without it nothing follows
from a match of two versions, which is all that `_authenticate` and
`DavAuthenticator` look at.  `Later` is what every statement of the account
repository does to the table (versions do not go down, and the same version
has the same password and was not turned off), and `KnownStays` that it keeps
what is known.  For `Ending`, `Fades` says what a step may do to a session that
was given out; a session that works afterwards then had the version of its account
before.

`SharePageProofs` and `SharePageKeeps` prove all safety and action properties that `share_page` checks, for all visitors, links and
bounds, from `LinksAssumption` and `CountsAssumption`.  What they share is `Inv`:
`TypeOK`; what a stage of a request says of its kind (`ReqOK`); a page that loads
or checks a password waits for one request (`OneForm`); at most one handler goes
on unheard (`OneOrphan`); `ChecksOK`.  `OneForm` and `OneOrphan`
are needed since `reqs` is a set: two password checks that had become equal
would be one element of it, and the count of them too high for good.  `Min` of the library is a choice, and
`MinIsLeast` derives that there is a least element from the well-foundedness of
the order of finite sets.  `Steps` of `SharePageKeeps` says which steps there
are for the properties that follow:

* `SharingTyping == Spec => []TypeOK` and `Counting == Spec => []ChecksReturn`
  follow from `Inv`;
* `LinkUses == Spec => []NeverMoreUses`: the files that got through and the
  transfers under way that were counted are together no more than the uses
  taken (`UsesOK`).  `Trades` lists how a step may exchange one for the other;
* `LinkLocked == Spec => []OnlyUnlocked`: every proof, every request past the
  password and every answer that tells what the link is of belongs to
  somebody who gave the password (`LockOK`, `Vouched`);
* `LinkFiles == Spec => UploadsKeep`: a transfer under way on SAF has a document
  of its own, on direct storage a name that is not one of the owner's
  (`DirOK`, `WritesOwn`).  The look at the name is two awaits before, hence the
  exception of `Aimed` names;
* `Queueing == Spec => []OneAtATime`: the file that is out has the one upload
  the page waits for, those before it are over, and files are taken from the
  front (`QueueOK`, `Fits`).

`DavLocksProofs` proves all that `dav_locks` checks, for all accounts, paths,
requests and bounds, from `PathsAssumption`, `BoundsAssumption` and
`DisksAssumption`: `Locking == Spec => []TypeOK`, `LocksApart == Spec => []NoConflict`,
`LocksKnown == Spec => []NoOrphanLock` and `LocksHold == Spec => LocksRespected`.
The inductive invariant `Inv` adds to `TypeOK` that no two live or expired locks have
one token (`TokensOK`) and, for each request (`JobOK`), that a lock which is
still there and was foreign when the request was checked is `Clears`: it covers
neither end of the request, nor is it inside what is deleted or moved.  It is needed since
the write comes awaits after the check, when other locks came and went: a new
one has a fresh token, a refreshed one its old path.  `Step` says what a step of a
request may do, `May` which paths it may change; `Nested` (two
folders that a path is in are in each other) and `ClearOfTree` carry `Clears` from a
folder to all in it.

`PortalSessionProofs` proves all safety and action properties of `PortalSession`, for
all bounds.  `Inv` adds three parts to `TypeOK`: every token on the page, in the
browser or in a request is one the server issued (`Known`); none the user signed
out of is left, nor in the address bar, which `EndSession` takes for the place
to go to after the next sign-in (`Forgotten`); and the queue is in order
(`QueueOK`): the file that is out has one request or the question
(`PumpOK`), files are taken into use from the front (`InFront`), the tray cannot be
cleared while a file is out (`TrayOK`), and a policy to replace is one the user
chose (`Agreed`).  `PumpDoes` says once what `pump` makes of a queue, wherever it is
called.  `Inv` gives four theorems:

* `PortalTyping == Spec => []TypeOK`;
* `SigningOut == Spec => []SignedOutIsForgotten`;
* `Pumping == Spec => []PumpAlive`;
* `AskedFirst == Spec => NoSilentReplace`.

Two more need to know which requests are open:

* `Stranding == Spec => []NeverStranded`: until an answer is `late`, `Phases` is inductive
  together with `Inv`: the page is signed out, signing in, coming in or signed in,
  and which requests are open, with which token, follows from that;
* `Ending == Spec => OwnAnswersEnd`, late answers or not: a 401 for the page's own token
  says that the server has dropped the session, or `enterApp` of it has failed.

`PortalFilesProofs` proves all safety and action properties of `PortalFiles`, for all
folders, names, page sizes and bounds.  `Inv` says what an answer may bring
(`CallsOK`), where the picker stands (`PickOK`), that the rows of the page are
those up to the cursor and that the one request the page waits for reads on
from there (`RowsOK`), and that, unless a page was asked for after an item that
had gone, nothing that stayed and can be seen is missing up to the cursor, or up
to the item the server has read (`ListOK`, `Complete`).  The lemmas
`ReadIs`, `EndIs`, `OwnReads` and `OwnEnds` say what the server's handler makes of a request, item
by item: a page leaves out nothing readable before its last item, and only a page
that is not full is the last.  `RowsAdded`
says what a bag of rows becomes when a page is appended.

* `FilesTyping == Spec => []TypeOK`;
* `Belonging == Spec => []RowsBelong`: each load looks at its generation after its await;
* `Listing == Spec => []ListsEverything`, also when items come and go between two pages
  and while one is read;
* `Ticking == Spec => OnlyBackMisleads`.  Its invariant `TicksOK` says that what a dialog is
  about, the user ticked in the folder of the dialog, and that this folder is
  the open one unless Back was used.

Only model-checked: `RequestsEnd`, `PumpEnds`, `PageSettles` and `LoadSettles`, since
liveness under fairness is out of the prover's reach, as is ENABLED.  Every
other property of a passing run is a theorem, with the hypotheses named above.

Not modelled: merging a folder into an existing one across roots; the children
of a folder one by one; the guards against copying a folder into itself
(`file_repository_impl.dart:87-98`); a missing parent or a missing root; mkdir;
two jobs creating one SAF document at once, which a provider gives two names.  Of sign-in:
creating accounts, folder grants, the throttle's counters and the number of
checks in flight (a refusal is `Fail`), and the cap of 200 remembered
passwords.

Of the pages: building the DOM, wording, icons, formats, sorting, focus and
keyboard, drag and drop of folders, progress bars; routes of single segments (a
path is a model value).  Of the share links: creating one, wrong guesses of a
token and the throttles (a refusal), where a range begins and ends, limits of size (an upload that fails).  Of WebDAV: what only reads (PROPFIND,
GET, PROPPATCH) and the parsing of `If` headers and lock bodies.  `portal_mock_server.js` is not modelled:
it stands in for the server when one works on the pages, and answers as the
handlers above do.

## Plan

In this order, the most important behaviour first:

1. file operations (done) and their proofs (done);
2. `Sessions` (done) and its proofs (done); `Throttle`: the lock-out, its
   bounded table and the checks in flight;
3. share links with their pages: `SharePage` (done) and its proofs (done);
4. the portal: `PortalSession`, `PortalFiles` (done);
5. their proofs (done);
6. `DavLocks`: the lock table and the handlers that look at it before an await (done), and
   its proofs (done);
7. `ServerLifecycle` and `ActivityLog`: start, stop, crash, what the UI sees;
8. `FtpSession`, `FtpServer`: command state, passive listener, caps;
9. `ListingLoads`, `Picker`: overlapping loads and requests of the app's screens;
10. pure algorithms against reference definitions: byte ranges, paths, root
    names, the permissions of a rule set;
11. `FolderTree`: recursive copy and delete, one child at a time.

Abstract specifications worth stating: `FileVault` (done).

Theorems worth proving with the modules to come: their type correctness; that
the caps of `Throttle` and `FtpServer` hold.
