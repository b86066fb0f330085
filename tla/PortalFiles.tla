---------------------------- MODULE PortalFiles ----------------------------
(***************************************************************************)
(* The file page of the web portal (portal.js) with the listing it asks of *)
(* the server: a folder shown page by page, items ticked, dialogs, and the *)
(* requests they send.  A folder is a path in a storage location; a name   *)
(* stands for a file or a folder alike.  Names are numbered in the order   *)
(* the server lists them: SAF's listing is sorted, a direct one has the    *)
(* order of the system, of which StorageBackend.list says that it is not   *)
(* guaranteed; here the items that stay keep it.                           *)
(*                                                                         *)
(* The server reads a folder item by item, and changes one, at some time   *)
(* between a request and its answer; answers come in any order, and any of *)
(* them may be lost.                                                       *)
(***************************************************************************)
EXTENDS Integers, FiniteSets, FiniteSetsExt, Bags

CONSTANTS
  Folders, MaxName,
  Hidden,          \* items a listing leaves out: <<folder, name>>
  Unreadable,      \* items a backend's list passes over: no path, or no stat
  PageSize,        \* items of a page
  Contents,        \* the folders' contents to begin with
  NoFolder,
  MaxClicks,       \* bound: clicks that load a folder, open a file or a dialog
  MaxCalls,        \* bound: requests in flight
  MaxChanges       \* bound: changes by others

Names == 1..MaxName
Places == Folders \X Names

ASSUME HiddenAssumption == Hidden \subseteq Places /\ Unreadable \subseteq Places
ASSUME NoFolderAssumption == NoFolder \notin Folders
ASSUME PageAssumption == MaxName \in Nat /\ PageSize \in Nat \ {0}
ASSUME BoundAssumption ==
  MaxClicks \in Nat /\ MaxCalls \in Nat /\ MaxChanges \in Nat
ASSUME ContentsAssumption == Contents \subseteq [Folders -> SUBSET Names]

Changes == {"mkdir", "rename", "delete", "move", "copy"}
Policies == {"skip", "keepBoth", "replace"}

(* A request.  "at" is the cursor of a listing, then the next cursor, or a  *)
(* new name; "names" the items to act on, or the page that was read, up to  *)
(* the item "upTo" while it is read.                                        *)
(* "mine" says that loadCounter has not moved on since it was sent, "done"  *)
(* that the server has done its part, which for the requests whose answer   *)
(* only names what was asked for (a picker's list, a ticket) is no step.    *)
Calls == [kind : Changes \cup {"list", "pick", "preview", "download"}, folder : Folders,
          names : SUBSET Names, at : 0..MaxName, upTo : 0..MaxName, to : Folders,
          how : Policies, mine : BOOLEAN, done : BOOLEAN]
NoDialog == [kind |-> "none", folder |-> NoFolder, names |-> {}]
Dialogs == [kind : Changes, folder : Folders, names : SUBSET Names] \cup {NoDialog}

VARIABLES
  fs,               \* the server's folders
  calls,
  path, entries,    \* state.path, and state.entries as a bag of places
  next, loading, error, selected,
  dialog,           \* the dialog that is open, with the items it is about
  location, listed, \* pickFolder's location, and the folder its list shows
  previews,         \* the items whose preview is open
  ticked,           \* history: what the user ticked and sees ticked, or saw
                    \* when the dialog opened
  backed,           \* history: has the folder changed under the dialog?
  stayed, cut,      \* history: what is in the folder since its listing began,
                    \* and was a page asked for after an item that had gone?
  clicks, changes

list == <<path, entries, next, loading, error, selected>>
dialogs == <<dialog, location, listed, previews, backed>>
bounds == <<clicks, changes>>
vars == <<fs, calls, list, dialogs, ticked, stayed, cut, bounds>>

TypeOK ==
  /\ fs \in [Folders -> SUBSET Names]
  /\ calls \subseteq Calls
  /\ path \in Folders /\ IsABag(entries) /\ DOMAIN entries \subseteq Places
  /\ next \in 0..MaxName /\ loading \in BOOLEAN /\ error \in BOOLEAN
  /\ selected \subseteq Names
  /\ dialog \in Dialogs
  /\ {location, listed} \subseteq Folders \cup {NoFolder}
  /\ previews \subseteq Places
  /\ ticked \subseteq Places
  /\ backed \in BOOLEAN /\ stayed \subseteq Names /\ cut \in BOOLEAN
  /\ clicks \in 0..MaxClicks /\ changes \in 0..MaxChanges

-----------------------------------------------------------------------------
(* The server.                                                              *)

Call(kind, f, ns, at) ==
  [kind |-> kind, folder |-> f, names |-> ns, at |-> at, upTo |-> 0, to |-> f, how |-> "skip",
   mine |-> kind = "list", done |-> kind \in {"pick", "preview", "download"}]

(* list of a backend passes over all there is up to the cursor, everything  *)
(* if the cursor's item is not there any more, and then takes one item at a *)
(* time; what it cannot read does not count.                                *)
Gone(c) == c.upTo = 0 /\ c.at # 0 /\ c.at \notin fs[c.folder]
Rest(c) == {n \in fs[c.folder] : ~Gone(c) /\ n > c.at /\ n > c.upTo}
PageEnds(c) == Rest(c) = {} \/ Cardinality(c.names) = PageSize

ReadOne(c, n) ==
  [c EXCEPT !.upTo = n, !.names = IF <<c.folder, n>> \in Unreadable THEN @ ELSE @ \cup {n}]

NextCursorPast(f, raw) ==   \* mutant: the cursor is the name after the last
  IF Cardinality(raw) = PageSize THEN Max(raw) + 1 ELSE 0
NextCursorOfVisible(f, raw) ==   \* mutant: a page is full if enough of it is shown
  IF Cardinality({n \in raw : <<f, n>> \notin Hidden}) = PageSize THEN Max(raw) ELSE 0

(* _entries: the cursor follows the raw page, the answer leaves some out.   *)
NextCursor(f, raw) == IF Cardinality(raw) = PageSize THEN Max(raw) ELSE 0
Visible(f, raw) == {n \in raw : <<f, n>> \notin Hidden}

EndPage(c) ==
  [c EXCEPT !.names = Visible(c.folder, @), !.at = NextCursor(c.folder, c.names), !.upTo = 0,
            !.done = TRUE]

ServeList(c) ==
  /\ calls' = (calls \ {c}) \cup {IF PageEnds(c) THEN EndPage(c) ELSE ReadOne(c, Min(Rest(c)))}
  /\ cut' = (cut \/ (c.mine /\ Gone(c)))
  /\ UNCHANGED fs

(* What a change leaves in the folders.  A batch does the items it can:     *)
(* any of them may fail for itself.                                         *)
Changed(c) ==
  LET f == c.folder
      here == c.names \cap fs[f]
      Put(g, out, in) == [[fs EXCEPT ![f] = @ \ out] EXCEPT ![g] = @ \cup in] IN
  CASE c.kind = "mkdir" -> {Put(f, {}, {c.at})}
    [] c.kind = "rename" -> {Put(f, c.names, {c.at})}
    [] c.kind = "delete" -> {Put(f, ok, {}) : ok \in SUBSET here}
    [] OTHER ->
         LET taken == fs[c.to]
             Arrive(ok) == IF c.how = "keepBoth"
                           THEN {(ok \ taken) \cup new : new \in
                                   kSubset(Cardinality(ok \cap taken), Names \ (taken \cup ok))}
                           ELSE {ok}
             Leave(ok) == IF c.kind = "copy" THEN {} ELSE ok IN
         UNION {{Put(c.to, Leave(ok), in) : in \in Arrive(ok)} :
                  ok \in SUBSET (IF c.how = "skip" THEN here \ taken ELSE here)}

(* _mkdir and _rename refuse a name that is taken, _rename a file that is   *)
(* not there.                                                               *)
Refused(c) ==
  \/ c.kind = "mkdir" /\ c.at \in fs[c.folder]
  \/ c.kind = "rename" /\ (c.at \in fs[c.folder] \/ ~(c.names \subseteq fs[c.folder]))

ServeChange(c) ==
  /\ ~Refused(c)
  /\ fs' \in Changed(c)
  /\ calls' = (calls \ {c}) \cup {[c EXCEPT !.done = TRUE]}
  /\ UNCHANGED cut

Serve(c) ==
  /\ ~c.done
  /\ IF c.kind = "list" THEN ServeList(c) ELSE ServeChange(c)
  /\ stayed' = stayed \cap fs'[path]
  /\ UNCHANGED <<list, dialogs, ticked, bounds>>

-----------------------------------------------------------------------------
(* The listing.                                                             *)

(* The items a request of the page can be about are those that are shown.   *)
Shown == {p[2] : p \in DOMAIN entries}
Chosen == Shown \cap selected

LoadKeepsTicks(f, others) ==   \* mutant: the boxes of the last folder stay ticked
  /\ path' = f
  /\ entries' = EmptyBag /\ next' = 0 /\ UNCHANGED selected
  /\ loading' = TRUE /\ error' = FALSE
  /\ stayed' = fs'[f] /\ cut' = FALSE
  /\ ticked' = IF dialog = NoDialog THEN {} ELSE ticked
  /\ calls' = {[c EXCEPT !.mine = FALSE] : c \in others} \cup {Call("list", f, {}, 0)}

(* loadDirectory(true) for the folder f, over the requests others.          *)
Load(f, others) ==
  /\ path' = f
  /\ entries' = EmptyBag /\ next' = 0 /\ selected' = {}
  /\ loading' = TRUE /\ error' = FALSE
  /\ stayed' = fs'[f] /\ cut' = FALSE
  /\ ticked' = IF dialog = NoDialog THEN {} ELSE ticked
  /\ calls' = {[c EXCEPT !.mine = FALSE] : c \in others} \cup {Call("list", f, {}, 0)}

(* loadDirectory(false).                                                    *)
LoadMore ==
  /\ loading' = TRUE /\ error' = FALSE
  /\ calls' = {[c EXCEPT !.mine = FALSE] : c \in calls} \cup {Call("list", path, {}, next)}
  /\ UNCHANGED <<fs, path, entries, next, selected, stayed, cut>>

AlwaysCurrent(c) == TRUE   \* mutant: loadCounter is not looked at
Current(c) == c.mine

LoadingIfFailed(ok) == ~ok   \* mutant: the error handler forgets the flag
LoadingAfter(ok) == FALSE

ListAnswer(c, ok) ==
  /\ c.kind = "list"
  /\ IF Current(c)
     THEN /\ loading' = LoadingAfter(ok)
          /\ IF ok
             THEN /\ entries' = entries (+) SetToBag({c.folder} \X c.names)
                  /\ next' = c.at
                  /\ UNCHANGED error
             ELSE error' = TRUE /\ UNCHANGED <<entries, next>>
     ELSE UNCHANGED <<entries, next, loading, error>>
  /\ calls' = calls \ {c}
  /\ UNCHANGED <<fs, path, selected, stayed, cut, dialogs, ticked>>

-----------------------------------------------------------------------------
(* The other answers.                                                       *)

ChangeAnswer(c, ok) ==
  /\ c.kind \in Changes
  /\ UNCHANGED fs
  /\ IF ok THEN Load(path, calls \ {c})
           ELSE calls' = calls \ {c} /\ UNCHANGED <<list, stayed, cut, ticked>>
  /\ UNCHANGED dialogs

(* refresh of pickFolder draws every answer, whatever location is by then.  *)
PickAnswer(c, ok) ==
  /\ c.kind = "pick"
  /\ listed' = IF ok THEN c.folder ELSE NoFolder
  /\ calls' = calls \ {c}
  /\ UNCHANGED <<fs, list, stayed, cut, dialog, location, previews, backed, ticked>>

(* withTicket: a preview opens over whatever is there by then.              *)
TicketAnswer(c, ok) ==
  /\ c.kind \in {"preview", "download"}
  /\ previews' = previews \cup IF ok /\ c.kind = "preview" THEN {c.folder} \X c.names ELSE {}
  /\ calls' = calls \ {c}
  /\ UNCHANGED <<fs, list, stayed, cut, dialog, location, listed, backed, ticked>>

Receive(c) ==
  /\ \E ok \in {FALSE, c.done} :
       ListAnswer(c, ok) \/ ChangeAnswer(c, ok) \/ PickAnswer(c, ok) \/ TicketAnswer(c, ok)
  /\ UNCHANGED bounds

-----------------------------------------------------------------------------
(* The user.                                                                *)

Click == clicks < MaxClicks /\ clicks' = clicks + 1 /\ UNCHANGED changes
Send == Cardinality(calls) < MaxCalls
NothingOpen == dialog = NoDialog /\ previews = {}

(* goTo and route: a crumb, a folder's row, a location; and the browser's   *)
(* Back and Forward, which work under a dialog, too.                        *)
GoTo(f) ==
  /\ Click /\ Send
  /\ backed' = (backed \/ dialog # NoDialog)
  /\ UNCHANGED <<fs, dialog, location, listed, previews>>
  /\ Load(f, calls)

(* The button at the end of the table, which is drawn with the table.       *)
ClickMore ==
  /\ NothingOpen /\ entries # EmptyBag /\ ~error /\ next # 0 /\ ~loading
  /\ Send
  /\ LoadMore
  /\ UNCHANGED <<dialogs, ticked, bounds>>

(* The box of a row, or the one above all rows, or the Clear button.        *)
Tick(ns, on) ==
  /\ NothingOpen /\ ns \subseteq Shown
  /\ on => ~error
  /\ selected' = IF on THEN selected \cup ns ELSE selected \ ns
  /\ ticked' = IF on THEN ticked \cup {p \in DOMAIN entries : p[2] \in ns}
                     ELSE {p \in ticked : p[2] \notin ns}
  /\ UNCHANGED <<fs, calls, path, entries, next, loading, error, stayed, cut, dialogs, bounds>>

(* The toolbar offers "New folder" while nothing is ticked, a new name for  *)
(* one item, and the rest for those that are ticked.                        *)
OpenDialog(kind) ==
  /\ NothingOpen
  /\ IF kind = "mkdir" THEN Chosen = {} ELSE Chosen # {}
  /\ kind = "rename" => Cardinality(Chosen) = 1
  /\ Click
  /\ dialog' = [kind |-> kind, folder |-> path, names |-> Chosen]
  /\ IF kind \in {"move", "copy"}
     THEN Send /\ location' = path /\ calls' = calls \cup {Call("pick", path, {}, 0)}
     ELSE UNCHANGED <<location, calls>>
  /\ UNCHANGED <<fs, list, stayed, cut, listed, previews, backed, ticked>>

(* A row or Up in pickFolder.                                               *)
PickGoTo(f) ==
  /\ dialog.kind \in {"move", "copy"} /\ f # location /\ previews = {}
  /\ Click /\ Send
  /\ location' = f /\ listed' = NoFolder
  /\ calls' = calls \cup {Call("pick", f, {}, 0)}
  /\ UNCHANGED <<fs, list, stayed, cut, dialog, previews, backed, ticked>>

(* The top dialog is closed, and new requests are sent.  An answer to a     *)
(* picker that is closed changes nothing, so its requests are forgotten.    *)
CloseDialog(new) ==
  /\ dialog # NoDialog /\ previews = {}
  /\ dialog' = NoDialog /\ location' = NoFolder /\ listed' = NoFolder /\ backed' = FALSE
  /\ calls' = {c \in calls : c.kind # "pick"} \cup new
  /\ ticked' = {p \in ticked : p[2] \in selected}
  /\ UNCHANGED <<fs, list, stayed, cut, previews, bounds>>

Cancel == CloseDialog({})

(* The paths of a change are made of state.path as it is now.               *)
Confirm(name, how) ==
  LET kind == dialog.kind
      c == [Call(kind, path, dialog.names, IF kind \in {"mkdir", "rename"} THEN name ELSE 0)
              EXCEPT !.to = IF kind \in {"move", "copy"} THEN location ELSE path, !.how = how] IN
  /\ kind \in {"mkdir", "rename", "delete"} => how = "skip"
  /\ kind \in {"delete", "move", "copy"} => name = 1
  /\ Send
  /\ CloseDialog(IF kind = "rename" /\ name \in dialog.names THEN {} ELSE {c})

(* openFile, and Preview and Download of the toolbar: by a ticket.          *)
OpenFile(n, kind) ==
  /\ NothingOpen /\ n \in Shown
  /\ Click /\ Send
  /\ calls' = calls \cup {Call(kind, path, {n}, 0)}
  /\ UNCHANGED <<fs, list, stayed, cut, dialogs, ticked>>

(* A preview is closed, or its file downloaded: again by way of state.path. *)
ClosePreview(p, download) ==
  /\ p \in previews
  /\ previews' = previews \ {p}
  /\ IF download THEN Send /\ calls' = calls \cup {Call("download", path, {p[2]}, 0)}
                 ELSE UNCHANGED calls
  /\ UNCHANGED <<fs, list, stayed, cut, dialog, location, listed, backed, ticked, bounds>>

(* The end of pump: the page loads again, under a dialog, too.              *)
UploadsEnd ==
  /\ Click /\ Send
  /\ UNCHANGED <<fs, dialogs>>
  /\ Load(path, calls)

(* Somebody else, or an upload, adds an item to a folder, or removes one.   *)
OthersChange(f, n) ==
  /\ changes < MaxChanges /\ changes' = changes + 1
  /\ fs' = [fs EXCEPT ![f] = IF n \in @ THEN @ \ {n} ELSE @ \cup {n}]
  /\ stayed' = stayed \cap fs'[path]
  /\ UNCHANGED <<calls, list, dialogs, ticked, cut, clicks>>

Init ==
  /\ fs \in Contents
  /\ path \in Folders
  /\ calls = {Call("list", path, {}, 0)}
  /\ entries = EmptyBag /\ next = 0 /\ loading = TRUE /\ error = FALSE /\ selected = {}
  /\ dialog = NoDialog /\ location = NoFolder /\ listed = NoFolder /\ previews = {}
  /\ ticked = {} /\ backed = FALSE /\ stayed = fs[path] /\ cut = FALSE
  /\ clicks = 0 /\ changes = 0

Next ==
  \/ \E c \in calls : Serve(c) \/ Receive(c)
  \/ \E f \in Folders : GoTo(f) \/ PickGoTo(f) \/ \E n \in Names : OthersChange(f, n)
  \/ ClickMore \/ UploadsEnd
  \/ \E ns \in {{n} : n \in Names} \cup {Shown}, on \in BOOLEAN : Tick(ns, on)
  \/ \E kind \in Changes : OpenDialog(kind)
  \/ Cancel
  \/ \E n \in Names, how \in Policies : Confirm(n, how)
  \/ \E n \in Names, kind \in {"preview", "download"} : OpenFile(n, kind)
  \/ \E p \in previews, download \in BOOLEAN : ClosePreview(p, download)

Spec == Init /\ [][Next]_vars

(* The request the page waits for is answered, or fails, in the end.        *)
Answered == WF_vars(\E c \in calls : c.mine /\ Receive(c))
FairSpec == Spec /\ Answered

-----------------------------------------------------------------------------
(* Whatever answers are late, a row is an item of the folder that is open,  *)
(* and there is one row for an item.                                        *)
RowsBelong == \A p \in DOMAIN entries : p[1] = path /\ entries[p] = 1

(* A request changes or moves only items that the user ticked in that very  *)
(* folder, and makes a folder only in the one the user saw when asked.      *)
ActsOnTicked ==
  [][\A c \in calls' \ calls : c.kind \in Changes /\ ~c.done
       => c.folder = dialog.folder /\ {c.folder} \X c.names \subseteq ticked]_vars

(* Nothing but Back under its dialog takes a request to another folder than *)
(* the one the user saw when asked: not a load that ends late, uploads that *)
(* end, answers to changes.  And whatever comes, its items are such as the  *)
(* user ticked in the folder the dialog is about.                           *)
OnlyBackMisleads ==
  [][\A c \in calls' \ calls : c.kind \in Changes /\ ~c.done
       => /\ c.folder = dialog.folder \/ backed
          /\ {dialog.folder} \X c.names \subseteq ticked]_vars

(* A listing that says there are no more pages shows every item that was    *)
(* there all the time since it began and that can be read, whatever came    *)
(* and went between its pages or while one was read: unless the very item a *)
(* page was asked for after had gone by then.                               *)
ListsEverything ==
  ~loading /\ ~error /\ next = 0 /\ ~cut
    => \A n \in Visible(path, stayed) : n \in Shown \/ <<path, n>> \in Unreadable

(* "Loading" comes to an end, though clicks start it anew.                  *)
LoadSettles == loading ~> ~loading

(* "This folder is empty" is said of a folder with nothing to show, and     *)
(* never in place of the button that loads the rest.                        *)
EmptyMeansEmpty == ~loading /\ ~error /\ entries = EmptyBag => next = 0

(* A listing without an end mark misses nothing, whoever removes what.      *)
PagesMissNothing ==
  ~loading /\ ~error /\ next = 0
    => \A n \in Visible(path, stayed) : n \in Shown \/ <<path, n>> \in Unreadable

(* The list in the picker is that of the folder named above it.             *)
PickerShowsItsFolder ==
  (\A c \in calls : c.kind # "pick") => listed \in {location, NoFolder}

(* A download is of the item the preview shows.                             *)
DownloadsWhatIsShown ==
  [][\A p \in previews \ previews', c \in calls' \ calls :
       c.kind = "download" => c.folder = p[1]]_vars
=============================================================================
