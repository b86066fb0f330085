------------------------- MODULE PortalFilesProofs -------------------------
(***************************************************************************)
(* Theorems about PortalFiles, for any folders, contents, page size and    *)
(* bounds.                                                                 *)
(***************************************************************************)
EXTENDS PortalFiles, TLAPS, FiniteSetTheorems, WellFoundedInduction

(* What an answer may bring is known when it is sent.                       *)
Known(c) ==
  /\ c.mine => c.kind = "list"
  /\ c.kind \in {"mkdir", "rename"} => c.at \in Names
  /\ c.kind \in Changes \cup {"list"} \/ c.done
CallsOK == (\A c \in calls : Known(c)) /\ \A c, d \in calls : c.mine /\ d.mine => c = d
PickOK == dialog.kind \in {"move", "copy"} => location \in Folders

(* The rows are those up to the cursor; the request that is the page's own  *)
(* reads on from there, and its answer brings what comes after them.        *)
RowsOK ==
  /\ RowsBelong
  /\ next # 0 => \A m \in Shown : m <= next
  /\ \A c \in calls : c.mine =>
       /\ c.folder = path
       /\ ~c.done => /\ c.at = next /\ (next = 0 => Shown = {})
                     /\ \A n \in c.names : n > next /\ n <= c.upTo
       /\ c.done => /\ \A n \in c.names, m \in Shown : m < n
                    /\ c.at # 0 => \A m \in c.names \cup Shown : m <= c.at

(* S holds all there is to show up to the item k, or at all if k is 0.      *)
Complete(k, S) ==
  \A n \in Visible(path, stayed) :
    k = 0 \/ n <= k => n \in S \/ <<path, n>> \in Unreadable

(* The rows are complete up to the cursor, and so is what was read on from  *)
(* there, as long as no page was asked for after an item that had gone.     *)
ListOK ==
  /\ stayed \subseteq fs[path]
  /\ ~cut =>
       /\ next # 0 \/ (~loading /\ ~error) => Complete(next, Shown)
       /\ \A c \in calls : c.mine /\ ~c.done /\ c.upTo # 0 => Complete(c.upTo, Shown \cup c.names)
       /\ \A c \in calls : c.mine /\ c.done => Complete(c.at, Shown \cup c.names)

Inv == TypeOK /\ CallsOK /\ PickOK /\ RowsOK /\ ListOK

(* What is ticked the user ticked right here, and what a dialog is about    *)
(* where it was opened; that is here, unless Back was used under it.        *)
TicksOK ==
  /\ \A n \in selected : <<path, n>> \in ticked
  /\ dialog # NoDialog => /\ dialog.folder = path \/ backed
                          /\ {dialog.folder} \X dialog.names \subseteq ticked

-----------------------------------------------------------------------------
(* Least and greatest names.                                                *)

LEMMA MinIsLeast ==
  ASSUME NEW S \in SUBSET Nat, S # {}
  PROVE  Min(S) \in S /\ \A y \in S : Min(S) <= y
<1>. DEFINE T == {1..n : n \in S}
<1>1. T \subseteq FiniteSubsetsOf(Nat) /\ T # {}
  <2>1. ASSUME NEW n \in S
        PROVE  1..n \in FiniteSubsetsOf(Nat)
    <3>1. IsFiniteSet(1..n)
      BY FS_Interval
    <3>2. 1..n \in SUBSET Nat
      OBVIOUS
    <3>. QED  BY <3>1, <3>2 DEF FiniteSubsetsOf
  <2>. QED  BY <2>1
<1>2. PICK X \in T : \A Y \in T : ~ (<<Y, X>> \in StrictSubsetOrdering(Nat))
  BY <1>1, FS_StrictSubsetOrderingWellFounded, WFMin, Zenon
<1>3. PICK x \in S : X = 1..x
  OBVIOUS
<1>4. ASSUME NEW y \in S, y < x
      PROVE  FALSE
  <2>1. 1..y \in T /\ 1..y \subseteq 1..x /\ 1..x \subseteq Nat
    BY <1>4
  <2>2. x \in 1..x /\ x \notin 1..y
    BY <1>4
  <2>3. <<1..y, X>> \in StrictSubsetOrdering(Nat)
    BY <1>3, <2>1, <2>2 DEF StrictSubsetOrdering
  <2>. QED  BY <1>2, <2>1, <2>3
<1>5. \A y \in S : x <= y
  BY <1>4
<1>. QED  BY <1>5 DEF Min

LEMMA MaxIsGreatest ==
  ASSUME NEW k \in Nat, NEW S \in SUBSET (0..k), S # {}
  PROVE  Max(S) \in S /\ \A y \in S : y <= Max(S)
<1>. DEFINE R == {k - x : x \in S}
            m == Min(R)
<1>1. R \in SUBSET Nat /\ R # {}
  <2>1. \A x \in S : k - x \in Nat
    OBVIOUS
  <2>. QED  BY <2>1
<1>2. m \in R /\ \A y \in R : m <= y
  BY <1>1, MinIsLeast
<1>. HIDE DEF m
<1>3. PICK x \in S : m = k - x
  BY <1>2
<1>4. \A y \in S : x >= y
  <2>1. ASSUME NEW y \in S
        PROVE  x >= y
    <3>1. k - x <= k - y
      BY <1>2, <1>3
    <3>. QED  BY <3>1
  <2>. QED  BY <2>1
<1>5. \A y \in S : y \in Int
  OBVIOUS
<1>6. Max(S) \in S /\ \A y \in S : Max(S) >= y
  BY <1>4 DEF Max
<1>. QED  BY <1>5, <1>6

-----------------------------------------------------------------------------
(* A page of the server's listing.                                          *)

LEMMA NamesFinite ==
  ASSUME NEW S \in SUBSET Names
  PROVE  IsFiniteSet(S) /\ Cardinality(S) \in Nat /\ S \in SUBSET Nat /\ S \in SUBSET (0..MaxName)
<1>1. IsFiniteSet(Names)
  BY FS_Interval, PageAssumption DEF Names
<1>2. IsFiniteSet(S) /\ Cardinality(S) \in Nat
  BY <1>1, FS_Subset, FS_CardinalityType
<1>3. S \in SUBSET Nat /\ S \in SUBSET (0..MaxName)
  BY PageAssumption DEF Names
<1>. QED  BY <1>2, <1>3

(* The cursor after a page is the last item of it, if it is full.           *)
LEMMA CursorIs ==
  ASSUME NEW f, NEW raw \in SUBSET Names, NEW k, k = NextCursor(f, raw)
  PROVE  /\ k \in 0..MaxName
         /\ k # 0 => k \in raw /\ \A n \in raw : n <= k
         /\ k = 0 => Cardinality(raw) # PageSize
<1>1. CASE Cardinality(raw) = PageSize
  <2>1. raw # {}
    BY <1>1, FS_EmptySet, PageAssumption
  <2>2. k = Max(raw)
    BY <1>1 DEF NextCursor
  <2>3. k \in raw /\ \A n \in raw : n <= k
    BY <2>1, <2>2, NamesFinite, MaxIsGreatest, PageAssumption
  <2>. QED  BY <2>3, PageAssumption DEF Names
<1>2. CASE Cardinality(raw) # PageSize
  BY <1>2, PageAssumption DEF NextCursor
<1>. QED  BY <1>1, <1>2

-----------------------------------------------------------------------------
(* Bags without repetition, and calls.                                      *)

LEMMA NoRows == IsABag(EmptyBag) /\ DOMAIN EmptyBag = {}
BY DEF EmptyBag, SetToBag, IsABag

LEMMA RowsAdded ==
  ASSUME NEW B, IsABag(B), \A p \in DOMAIN B : B[p] = 1, NEW X, X \cap DOMAIN B = {}
  PROVE  LET sum == B (+) SetToBag(X) IN
         IsABag(sum) /\ DOMAIN sum = DOMAIN B \cup X /\ \A p \in DOMAIN sum : sum[p] = 1
<1>. DEFINE sum == B (+) SetToBag(X)
            S == SetToBag(X)
<1>1. DOMAIN S = X /\ \A p \in X : S[p] = 1
  BY DEF SetToBag
<1>. HIDE DEF S
<1>2. B (+) S = [e \in DOMAIN B \cup DOMAIN S |->
                   (IF e \in DOMAIN B THEN B[e] ELSE 0) + (IF e \in DOMAIN S THEN S[e] ELSE 0)]
  BY DEF (+)
<1>3. sum = [e \in DOMAIN B \cup X |-> 1]
  <2>1. ASSUME NEW e \in DOMAIN B \cup X
        PROVE  (IF e \in DOMAIN B THEN B[e] ELSE 0) + (IF e \in DOMAIN S THEN S[e] ELSE 0) = 1
    <3>1. CASE e \in DOMAIN B
      <4>1. B[e] = 1 /\ e \notin DOMAIN S
        BY <1>1, <3>1
      <4>. QED  BY <3>1, <4>1
    <3>2. CASE e \notin DOMAIN B
      <4>1. S[e] = 1 /\ e \in DOMAIN S
        BY <1>1, <2>1, <3>2
      <4>. QED  BY <3>2, <4>1
    <3>. QED  BY <3>1, <3>2
  <2>2. sum = B (+) S
    BY DEF S
  <2>. HIDE DEF sum
  <2>. QED  BY <1>1, <1>2, <2>1, <2>2
<1>. HIDE DEF sum
<1>4. IsABag(sum) /\ DOMAIN sum = DOMAIN B \cup X /\ \A p \in DOMAIN sum : sum[p] = 1
  BY <1>3 DEF IsABag
<1>. QED  BY <1>4 DEF sum

LEMMA CallIs ==
  ASSUME NEW kind \in Changes \cup {"list", "pick", "preview", "download"}, NEW f \in Folders,
         NEW ns \in SUBSET Names, NEW at \in 0..MaxName
  PROVE  /\ Call(kind, f, ns, at) \in Calls
         /\ Call(kind, f, ns, at).kind = kind /\ Call(kind, f, ns, at).folder = f
         /\ Call(kind, f, ns, at).names = ns /\ Call(kind, f, ns, at).at = at
         /\ Call(kind, f, ns, at).upTo = 0
         /\ Call(kind, f, ns, at).mine <=> kind = "list"
         /\ Call(kind, f, ns, at).done <=> kind \in {"pick", "preview", "download"}
<1>1. Call(kind, f, ns, at) \in Calls
  BY PageAssumption DEF Call, Calls, Policies
<1>2. /\ Call(kind, f, ns, at).kind = kind /\ Call(kind, f, ns, at).folder = f
      /\ Call(kind, f, ns, at).names = ns /\ Call(kind, f, ns, at).at = at
      /\ Call(kind, f, ns, at).upTo = 0
  BY DEF Call
<1>3. Call(kind, f, ns, at).mine = (kind = "list")
  BY Zenon DEF Call
<1>4. Call(kind, f, ns, at).done = (kind \in {"pick", "preview", "download"})
  BY Zenon DEF Call
<1>. QED  BY <1>1, <1>2, <1>3, <1>4, Zenon

ListTyped ==
  /\ path \in Folders /\ IsABag(entries) /\ DOMAIN entries \subseteq Places
  /\ next \in 0..MaxName /\ loading \in BOOLEAN /\ error \in BOOLEAN
  /\ selected \subseteq Names /\ stayed \subseteq Names

LEMMA TypedIs ==
  /\ TypeOK => ListTyped
  /\ /\ ListTyped /\ fs \in [Folders -> SUBSET Names] /\ calls \subseteq Calls
     /\ dialog \in Dialogs /\ {location, listed} \subseteq Folders \cup {NoFolder}
     /\ previews \subseteq Places /\ ticked \subseteq Places /\ cut \in BOOLEAN
     /\ backed \in BOOLEAN
     /\ clicks \in 0..MaxClicks /\ changes \in 0..MaxChanges
     => TypeOK
BY DEF TypeOK, ListTyped

(* A call that is not the page's own, or no longer so.                      *)
Foreign(c) == c \in Calls /\ ~c.mine /\ Known(c)

LEMMA NoLongerMine ==
  ASSUME NEW c \in Calls, Known(c)
  PROVE  Foreign([c EXCEPT !.mine = FALSE])
BY DEF Calls, Known, Foreign

-----------------------------------------------------------------------------
(* The listing: it is left alone, or begins anew, or goes on.               *)

CallsTyped == calls \subseteq Calls /\ CallsOK

LEMMA CallsStay ==
  ASSUME CallsTyped, \A c \in calls' : c \in calls \/ Foreign(c)
  PROVE  CallsTyped'
BY DEF CallsTyped, CallsOK, Foreign

LEMMA ListingStays ==
  ASSUME Inv, \A c \in calls' : c \in calls \/ Foreign(c),
         UNCHANGED <<path, entries, next, loading, error>>,
         stayed' \subseteq stayed, stayed' \subseteq fs'[path], ~cut' => ~cut
  PROVE  RowsOK' /\ ListOK' /\ CallsTyped'
<1>1. CallsTyped'
  BY CallsStay DEF Inv, TypeOK, CallsTyped
<1>2. Shown' = Shown /\ \A c \in calls' : c.mine => c \in calls
  BY DEF Shown, Foreign
<1>3. RowsOK'
  BY <1>2 DEF Inv, RowsOK, RowsBelong
<1>4. ListOK'
  BY <1>2 DEF Inv, ListOK, Complete, Visible
<1>. QED  BY <1>1, <1>3, <1>4

LEMMA ListingBegins ==
  ASSUME Inv, NEW f \in Folders, NEW others \in SUBSET calls, fs' = fs, Load(f, others)
  PROVE  RowsOK' /\ ListOK' /\ CallsTyped' /\ ListTyped' /\ cut' = FALSE /\ ticked' \in {{}, ticked}
<1>. DEFINE c == Call("list", f, {}, 0)
<1>1. /\ c \in Calls /\ c.kind = "list" /\ c.folder = f /\ c.mine /\ ~c.done /\ c.at = 0
      /\ c.names = {} /\ c.upTo = 0
  <2>1. 0 \in 0..MaxName /\ {} \in SUBSET Names
    BY PageAssumption
  <2>2. /\ c \in Calls /\ c.kind = "list" /\ c.folder = f /\ c.at = 0 /\ c.names = {} /\ c.upTo = 0
        /\ (c.mine <=> "list" = "list") /\ (c.done <=> "list" \in {"pick", "preview", "download"})
    BY <2>1, CallIs
  <2>. HIDE DEF c
  <2>. QED  BY <2>2
<1>2. /\ path' = f /\ entries' = EmptyBag /\ next' = 0 /\ selected' = {}
      /\ loading' = TRUE /\ error' = FALSE /\ stayed' = fs[f] /\ cut' = FALSE
      /\ ticked' = IF dialog = NoDialog THEN {} ELSE ticked
      /\ calls' = {[d EXCEPT !.mine = FALSE] : d \in others} \cup {c}
  BY DEF Load
<1>. HIDE DEF c
<1>3. \A d \in calls' : d = c \/ Foreign(d)
  <2>1. \A d \in others : d \in Calls /\ Known(d)
    BY DEF Inv, TypeOK, CallsOK
  <2>. QED  BY <1>2, <2>1, NoLongerMine
<1>4. CallsTyped'
  BY <1>1, <1>3 DEF CallsTyped, CallsOK, Foreign, Known
<1>5. Shown' = {} /\ DOMAIN entries' = {} /\ IsABag(entries)'
  BY <1>2, NoRows DEF Shown
<1>6. RowsOK'
  BY <1>1, <1>2, <1>3, <1>5 DEF RowsOK, RowsBelong, Foreign
<1>7. ListOK'
  BY <1>1, <1>2, <1>3, <1>5 DEF ListOK, Foreign
<1>8. ListTyped'
  <2>1. fs[f] \subseteq Names /\ 0 \in 0..MaxName
    BY PageAssumption DEF Inv, TypeOK
  <2>. QED  BY <1>2, <1>5, <2>1 DEF ListTyped
<1>. QED  BY <1>2, <1>4, <1>6, <1>7, <1>8

LEMMA InvLoadMore ==
  ASSUME Inv, ClickMore
  PROVE  Inv'
<1>. DEFINE c == Call("list", path, {}, next)
<1>0. TypeOK /\ ListTyped
  BY TypedIs DEF Inv
<1>1. /\ c \in Calls /\ c.kind = "list" /\ c.folder = path /\ c.mine /\ ~c.done /\ c.at = next
      /\ c.names = {} /\ c.upTo = 0
  <2>1. path \in Folders /\ next \in 0..MaxName
    BY <1>0 DEF ListTyped
  <2>. QED  BY <2>1, CallIs
<1>2. /\ next # 0 /\ loading' = TRUE /\ error' = FALSE
      /\ calls' = {[d EXCEPT !.mine = FALSE] : d \in calls} \cup {c}
      /\ UNCHANGED <<fs, path, entries, next, selected, stayed, cut, dialogs, ticked, bounds>>
  BY DEF ClickMore, LoadMore
<1>. HIDE DEF c
<1>3. \A d \in calls' : d = c \/ Foreign(d)
  <2>1. \A d \in calls : d \in Calls /\ Known(d)
    BY DEF Inv, TypeOK, CallsOK
  <2>. QED  BY <1>2, <2>1, NoLongerMine
<1>4. CallsTyped'
  BY <1>1, <1>3 DEF CallsTyped, CallsOK, Foreign, Known
<1>5. Shown' = Shown
  BY <1>2 DEF Shown
<1>6. RowsOK'
  BY <1>1, <1>2, <1>3, <1>5 DEF Inv, RowsOK, RowsBelong, Foreign
<1>7. ListOK'
  BY <1>1, <1>2, <1>3, <1>5 DEF Inv, ListOK, Complete, Foreign
<1>8. ListTyped' /\ PickOK'
  BY <1>0, <1>2 DEF ListTyped, Inv, PickOK, dialogs
<1>9. TypeOK'
  BY <1>0, <1>2, <1>4, <1>8, TypedIs DEF CallsTyped, TypeOK, dialogs, bounds
<1>. QED  BY <1>4, <1>6, <1>7, <1>8, <1>9 DEF Inv, CallsTyped

-----------------------------------------------------------------------------
(* The server does its part.                                                *)

(* What the answer to a listing becomes when the server goes on with it.    *)
LEMMA ReadIs ==
  ASSUME TypeOK, NEW c \in calls, ~PageEnds(c)
  PROVE  \E n \in Rest(c) :
           LET d == ReadOne(c, n) IN
           /\ n = Min(Rest(c)) /\ \A m \in Rest(c) : n <= m
           /\ d \in Calls /\ d.kind = c.kind /\ d.folder = c.folder /\ d.at = c.at
           /\ d.mine = c.mine /\ d.done = c.done /\ d.upTo = n
           /\ d.names \subseteq c.names \cup {n} /\ c.names \subseteq d.names
           /\ n \in d.names \/ <<c.folder, n>> \in Unreadable
<1>1. c \in Calls /\ Rest(c) \in SUBSET Names /\ Rest(c) # {}
  BY DEF TypeOK, Calls, Rest, PageEnds
<1>2. Min(Rest(c)) \in Rest(c) /\ \A m \in Rest(c) : Min(Rest(c)) <= m
  BY <1>1, NamesFinite, MinIsLeast
<1>3. PICK n \in Rest(c) : n = Min(Rest(c)) /\ \A m \in Rest(c) : n <= m
  BY <1>2
<1>. DEFINE d == ReadOne(c, n)
<1>4. n \in Names /\ n \in 0..MaxName
  BY <1>1, NamesFinite
<1>5. /\ d.kind = c.kind /\ d.folder = c.folder /\ d.at = c.at /\ d.mine = c.mine /\ d.done = c.done
      /\ d.upTo = n /\ d.names = IF <<c.folder, n>> \in Unreadable THEN c.names ELSE c.names \cup {n}
  BY <1>1 DEF Calls, ReadOne
<1>6. d \in Calls
  BY <1>1, <1>4 DEF Calls, ReadOne
<1>. HIDE DEF d
<1>7. /\ d.names \subseteq c.names \cup {n} /\ c.names \subseteq d.names
      /\ n \in d.names \/ <<c.folder, n>> \in Unreadable
  BY <1>5
<1>. QED  BY <1>3, <1>5, <1>6, <1>7 DEF d

LEMMA EndIs ==
  ASSUME TypeOK, NEW c \in calls
  PROVE  LET d == EndPage(c) IN
         /\ d \in Calls /\ d.kind = c.kind /\ d.folder = c.folder /\ d.mine = c.mine /\ d.done
         /\ d.names = Visible(c.folder, c.names) /\ d.at \in 0..MaxName
         /\ d.at # 0 => d.at \in c.names /\ \A n \in c.names : n <= d.at
         /\ d.at = 0 => Cardinality(c.names) # PageSize
<1>. DEFINE d == EndPage(c)
            k == NextCursor(c.folder, c.names)
            v == Visible(c.folder, c.names)
<1>1. c \in Calls /\ c.names \in SUBSET Names /\ 0 \in 0..MaxName
  BY PageAssumption DEF TypeOK, Calls
<1>2. /\ k \in 0..MaxName /\ (k # 0 => k \in c.names /\ \A n \in c.names : n <= k)
      /\ k = 0 => Cardinality(c.names) # PageSize
  BY <1>1, CursorIs
<1>3. v \in SUBSET Names
  BY <1>1 DEF Visible
<1>4. d = [c EXCEPT !.names = v, !.at = k, !.upTo = 0, !.done = TRUE]
  BY DEF EndPage
<1>. HIDE DEF k, v
<1>5. /\ d \in Calls /\ d.kind = c.kind /\ d.folder = c.folder /\ d.mine = c.mine /\ d.done
      /\ d.names = v /\ d.at = k
  <2>. HIDE DEF d
  <2>. QED  BY <1>1, <1>2, <1>3, <1>4 DEF Calls
<1>. QED  BY <1>2, <1>5 DEF d, k, v

(* What the page's own listing reads on is complete, and in order.          *)
LEMMA OwnReads ==
  ASSUME Inv, NEW c \in calls, c.mine, ~c.done, ~PageEnds(c), calls' = (calls \ {c}) \cup {ReadOne(c, Min(Rest(c)))},
         UNCHANGED <<fs, path, entries, next, loading, error, stayed>>, cut' = (cut \/ Gone(c))
  PROVE  RowsOK' /\ ListOK'
<1>1. TypeOK /\ c \in Calls
  BY DEF Inv, TypeOK
<1>2. PICK n \in Rest(c) :
        LET d == ReadOne(c, n) IN
        /\ n = Min(Rest(c)) /\ \A m \in Rest(c) : n <= m
        /\ d \in Calls /\ d.kind = c.kind /\ d.folder = c.folder /\ d.at = c.at
        /\ d.mine = c.mine /\ d.done = c.done /\ d.upTo = n
        /\ d.names \subseteq c.names \cup {n} /\ c.names \subseteq d.names
        /\ n \in d.names \/ <<c.folder, n>> \in Unreadable
  BY <1>1, ReadIs
<1>. DEFINE d == ReadOne(c, n)
<1>3. /\ \A m \in Rest(c) : n <= m
      /\ d.folder = c.folder /\ d.at = c.at /\ ~d.done /\ d.upTo = n
      /\ d.names \subseteq c.names \cup {n} /\ c.names \subseteq d.names
      /\ n \in d.names \/ <<c.folder, n>> \in Unreadable
      /\ calls' = (calls \ {c}) \cup {d}
  BY <1>2
<1>. HIDE DEF d
<1>4. /\ c.folder = path /\ c.at = next /\ (next = 0 => Shown = {})
      /\ \A m \in c.names : m > next /\ m <= c.upTo
      /\ \A e \in calls' : e.mine => e = d
  BY <1>3 DEF Inv, RowsOK, CallsOK
<1>5. Shown' = Shown /\ (\A m \in fs[path] : m \in Nat /\ m > 0) /\ c.names \subseteq Nat
      /\ next \in Nat /\ c.upTo \in Nat
  BY <1>1, PageAssumption DEF Shown, TypeOK, Calls, Names
<1>6. ~Gone(c) /\ n \in fs[path] /\ n > next /\ n > c.upTo
  BY <1>4 DEF Rest
<1>7. RowsOK'
  <2>1. \A m \in d.names : m > next /\ m <= n
    BY <1>3, <1>4, <1>5, <1>6
  <2>2. RowsBelong' /\ (next' # 0 => \A m \in Shown' : m <= next')
    BY <1>5 DEF Inv, RowsOK, RowsBelong
  <2>. QED  BY <1>3, <1>4, <1>5, <2>1, <2>2 DEF RowsOK
<1>8. ListOK'
  <2>1. stayed \subseteq fs[path]
    BY DEF Inv, ListOK
  <2>2. ASSUME ~cut, NEW m \in Visible(path, stayed), m <= n
        PROVE  m \in Shown \cup d.names \/ <<path, m>> \in Unreadable
    <3>1. m \in fs[path] /\ m \in Nat /\ m > 0
      BY <1>5, <2>1, <2>2 DEF Visible
    <3>2. CASE m <= next
      BY <2>2, <3>1, <3>2, <1>5 DEF Inv, ListOK, Complete
    <3>3. CASE m <= c.upTo
      <4>1. c.upTo # 0
        BY <1>5, <3>1, <3>3
      <4>. QED  BY <1>3, <2>2, <3>3, <4>1 DEF Inv, ListOK, Complete
    <3>4. CASE ~(m <= next) /\ ~(m <= c.upTo)
      <4>1. m \in Rest(c)
        BY <1>4, <1>5, <1>6, <3>1, <3>4 DEF Rest
      <4>2. m = n
        BY <1>3, <1>5, <1>6, <2>2, <3>1, <4>1
      <4>. QED  BY <1>3, <1>4, <4>2
    <3>. QED  BY <3>2, <3>3, <3>4
  <2>3. ~cut => Complete(n, Shown \cup d.names)
    BY <1>5, <1>6, <2>2 DEF Complete
  <2>. QED  BY <1>3, <1>4, <1>5, <2>1, <2>3 DEF Inv, ListOK, Complete
<1>. QED  BY <1>7, <1>8

LEMMA OwnEnds ==
  ASSUME Inv, NEW c \in calls, c.mine, ~c.done, PageEnds(c), calls' = (calls \ {c}) \cup {EndPage(c)},
         UNCHANGED <<fs, path, entries, next, loading, error, stayed>>, cut' = (cut \/ Gone(c))
  PROVE  RowsOK' /\ ListOK'
<1>1. TypeOK /\ c \in Calls
  BY DEF Inv, TypeOK
<1>. DEFINE d == EndPage(c)
<1>2. /\ d.folder = c.folder /\ d.done /\ d.names = Visible(c.folder, c.names) /\ d.at \in 0..MaxName
      /\ d.at # 0 => d.at \in c.names /\ \A n \in c.names : n <= d.at
      /\ d.at = 0 => Cardinality(c.names) # PageSize
      /\ calls' = (calls \ {c}) \cup {d}
  BY <1>1, EndIs
<1>. HIDE DEF d
<1>3. /\ c.folder = path /\ c.at = next /\ (next = 0 => Shown = {})
      /\ next # 0 => \A m \in Shown : m <= next
      /\ \A m \in c.names : m > next /\ m <= c.upTo
      /\ \A e \in calls' : e.mine => e = d
  BY <1>2 DEF Inv, RowsOK, CallsOK
<1>4. /\ Shown' = Shown /\ (\A m \in fs[path] : m \in Nat /\ m > 0) /\ c.names \subseteq Nat
      /\ next \in Nat /\ c.upTo \in Nat /\ d.names \subseteq c.names /\ Shown \subseteq Nat
  <2>1. Shown' = Shown
    BY DEF Shown
  <2>2. Shown \subseteq Nat
    BY <1>1, PageAssumption DEF TypeOK, Shown, Places, Names
  <2>3. d.names \subseteq c.names
    BY <1>2 DEF Visible
  <2>. QED  BY <1>1, <2>1, <2>2, <2>3, PageAssumption DEF TypeOK, Calls, Names
<1>5. RowsOK'
  <2>1. ASSUME NEW n \in c.names, NEW m \in Shown
        PROVE  m < n
    <3>1. n \in Nat /\ m \in Nat /\ n > next /\ next # 0
      BY <1>3, <1>4
    <3>2. m <= next
      BY <1>3, <3>1
    <3>. QED  BY <1>4, <3>1, <3>2
  <2>2. ASSUME d.at # 0, NEW m \in d.names \cup Shown
        PROVE  m <= d.at
    <3>1. d.at \in c.names /\ d.at \in Nat
      BY <1>2, <1>4, <2>2
    <3>2. CASE m \in Shown
      <4>1. m < d.at /\ m \in Nat
        BY <1>4, <2>1, <3>1, <3>2
      <4>. QED  BY <3>1, <4>1
    <3>3. CASE m \in d.names
      BY <1>2, <1>4, <2>2, <3>3
    <3>. QED  BY <2>2, <3>2, <3>3
  <2>3. RowsBelong' /\ (next' # 0 => \A m \in Shown' : m <= next')
    BY <1>3, <1>4 DEF Inv, RowsOK, RowsBelong
  <2>. QED  BY <1>2, <1>3, <1>4, <2>1, <2>2, <2>3 DEF RowsOK
<1>6. ListOK'
  <2>1. stayed \subseteq fs[path]
    BY DEF Inv, ListOK
  <2>2. ASSUME ~cut, ~Gone(c), NEW m \in Visible(path, stayed), d.at = 0 \/ m <= d.at
        PROVE  m \in Shown \cup d.names \/ <<path, m>> \in Unreadable
    <3>1. m \in fs[path] /\ m \in Nat /\ m > 0 /\ <<path, m>> \notin Hidden
      BY <1>4, <2>1, <2>2 DEF Visible
    <3>2. CASE m <= next
      BY <2>2, <3>1, <3>2, <1>4 DEF Inv, ListOK, Complete
    <3>3. CASE m <= c.upTo
      <4>1. c.upTo # 0
        BY <1>4, <3>1, <3>3
      <4>2. m \in Shown \cup c.names \/ <<path, m>> \in Unreadable
        BY <2>2, <3>3, <4>1 DEF Inv, ListOK, Complete
      <4>. QED  BY <1>2, <1>3, <3>1, <4>2 DEF Visible
    <3>4. CASE ~(m <= next) /\ ~(m <= c.upTo)
      <4>1. m \in Rest(c)
        BY <1>3, <1>4, <2>2, <3>1, <3>4 DEF Rest
      <4>2. d.at # 0
        BY <1>2, <4>1 DEF PageEnds
      <4>3. m <= d.at /\ d.at <= c.upTo /\ d.at \in Nat
        BY <1>2, <1>3, <1>4, <2>2, <4>2
      <4>. QED  BY <1>4, <3>1, <3>4, <4>3
    <3>. QED  BY <3>2, <3>3, <3>4
  <2>3. ~cut /\ ~Gone(c) => Complete(d.at, Shown \cup d.names)
    BY <2>2 DEF Complete
  <2>. QED  BY <1>2, <1>3, <1>4, <2>1, <2>3 DEF Inv, ListOK, Complete
<1>. QED  BY <1>5, <1>6

LEMMA InvServeList ==
  ASSUME Inv, NEW c \in calls, c.kind = "list", ~c.done, Serve(c)
  PROVE  Inv'
<1>. DEFINE d == IF PageEnds(c) THEN EndPage(c) ELSE ReadOne(c, Min(Rest(c)))
<1>1. /\ calls' = (calls \ {c}) \cup {d} /\ fs' = fs /\ cut' = (cut \/ (c.mine /\ Gone(c)))
      /\ stayed' = stayed \cap fs'[path] /\ UNCHANGED <<list, dialogs, ticked, bounds>>
  BY DEF Serve, ServeList
<1>2. TypeOK /\ cut \in BOOLEAN /\ stayed' = stayed
  BY <1>1 DEF Inv, TypeOK, ListOK
<1>3. /\ d \in Calls /\ d.kind = "list" /\ d.mine = c.mine
  <2>1. CASE PageEnds(c)
    BY <1>2, <2>1, EndIs
  <2>2. CASE ~PageEnds(c)
    BY <1>2, <2>2, ReadIs
  <2>. QED  BY <2>1, <2>2
<1>4. Known(d)
  BY <1>3 DEF Known
<1>5. UNCHANGED <<path, entries, next, loading, error, selected>>
  BY <1>1 DEF list
<1>6. (c.mine => cut' = (cut \/ Gone(c))) /\ (~cut' => ~cut) /\ cut' \in BOOLEAN
  BY <1>1, <1>2, Zenon
<1>7. CASE ~c.mine
  <2>1. \A e \in calls' : e \in calls \/ Foreign(e)
    BY <1>1, <1>3, <1>4, <1>7 DEF Foreign
  <2>2. RowsOK' /\ ListOK' /\ CallsTyped'
    BY <1>1, <1>2, <1>5, <1>6, <2>1, ListingStays
  <2>3. TypeOK'
    BY <1>1, <1>2, <1>5, <1>6, <2>2 DEF TypeOK, CallsTyped, dialogs, bounds
  <2>. QED  BY <1>1, <2>2, <2>3 DEF Inv, CallsTyped, PickOK, dialogs
<1>8. CASE c.mine
  <2>1. RowsOK' /\ ListOK'
    <3>1. CASE PageEnds(c)
      BY <1>1, <1>2, <1>5, <1>6, <1>8, <3>1, OwnEnds
    <3>2. CASE ~PageEnds(c)
      BY <1>1, <1>2, <1>5, <1>6, <1>8, <3>2, OwnReads
    <3>. QED  BY <3>1, <3>2
  <2>. HIDE DEF d
  <2>2. \A e \in calls' : e.mine => e = d
    BY <1>1, <1>8 DEF Inv, CallsOK
  <2>3. CallsTyped'
    BY <1>1, <1>2, <1>3, <1>4, <2>2 DEF Inv, CallsTyped, CallsOK, TypeOK
  <2>4. TypeOK'
    BY <1>1, <1>2, <1>5, <1>6, <2>3 DEF TypeOK, CallsTyped, dialogs, bounds
  <2>. QED  BY <1>1, <2>1, <2>3, <2>4 DEF Inv, CallsTyped, PickOK, dialogs
<1>. QED  BY <1>7, <1>8

LEMMA ChangedIs ==
  ASSUME TypeOK, NEW c \in Calls, c.kind \in Changes, Known(c), NEW new \in Changed(c)
  PROVE  new \in [Folders -> SUBSET Names]
<1>. DEFINE Put(g, out, in) == [[fs EXCEPT ![c.folder] = @ \ out] EXCEPT ![g] = @ \cup in]
            here == c.names \cap fs[c.folder]
            taken == fs[c.to]
<1>1. /\ fs \in [Folders -> SUBSET Names] /\ c.folder \in Folders /\ c.to \in Folders
      /\ c.names \subseteq Names /\ (c.kind \in {"mkdir", "rename"} => c.at \in Names)
  BY DEF TypeOK, Calls, Known
<1>2. ASSUME NEW g \in Folders, NEW out, NEW in \in SUBSET Names
      PROVE  Put(g, out, in) \in [Folders -> SUBSET Names]
  <2>1. [fs EXCEPT ![c.folder] = @ \ out] \in [Folders -> SUBSET Names]
    BY <1>1
  <2>. QED  BY <2>1
<1>3. CASE c.kind \in {"mkdir", "rename"}
  <2>1. new = Put(c.folder, IF c.kind = "mkdir" THEN {} ELSE c.names, {c.at})
    BY <1>3 DEF Changed
  <2>2. {c.at} \in SUBSET Names
    BY <1>1, <1>3
  <2>. HIDE DEF Put
  <2>. QED  BY <1>1, <1>2, <2>1, <2>2
<1>4. CASE c.kind = "delete"
  <2>1. PICK ok \in SUBSET here : new = Put(c.folder, ok, {})
    BY <1>4 DEF Changed
  <2>. HIDE DEF Put
  <2>. QED  BY <1>1, <1>2, <2>1
<1>5. CASE c.kind \in {"move", "copy"}
  <2>. DEFINE Arrive(ok) == IF c.how = "keepBoth"
                            THEN {(ok \ taken) \cup more : more \in
                                    kSubset(Cardinality(ok \cap taken), Names \ (taken \cup ok))}
                            ELSE {ok}
              Leave(ok) == IF c.kind = "copy" THEN {} ELSE ok
              Which == SUBSET (IF c.how = "skip" THEN here \ taken ELSE here)
  <2>1. new \in UNION {{Put(c.to, Leave(ok), in) : in \in Arrive(ok)} : ok \in Which}
    BY <1>5 DEF Changed
  <2>2. \A ok \in Which : ok \in SUBSET Names /\ Arrive(ok) \subseteq SUBSET Names
    <3>1. \A ok \in Which : ok \in SUBSET Names
      BY <1>1
    <3>. HIDE DEF Which
    <3>2. ASSUME NEW ok \in Which
          PROVE  Arrive(ok) \subseteq SUBSET Names
      <4>1. \A n, S : kSubset(n, S) \subseteq SUBSET S
        BY DEF kSubset
      <4>2. ok \in SUBSET Names
        BY <3>1
      <4>. QED  BY <4>1, <4>2
    <3>. QED  BY <3>1, <3>2
  <2>. HIDE DEF Put, Arrive, Leave, Which
  <2>3. PICK ok \in Which : \E in \in Arrive(ok) : new = Put(c.to, Leave(ok), in)
    BY <2>1
  <2>. QED  BY <1>1, <1>2, <2>2, <2>3
<1>. QED  BY <1>3, <1>4, <1>5 DEF Changes

LEMMA InvServeChange ==
  ASSUME Inv, NEW c \in calls, c.kind # "list", ~c.done, Serve(c)
  PROVE  Inv'
<1>. DEFINE d == [c EXCEPT !.done = TRUE]
<1>1. /\ calls' = (calls \ {c}) \cup {d} /\ fs' \in Changed(c)
      /\ stayed' = stayed \cap fs'[path] /\ UNCHANGED <<list, dialogs, ticked, cut, bounds>>
  BY DEF Serve, ServeChange
<1>2. TypeOK /\ c \in Calls /\ Known(c) /\ c.kind \in Changes
  BY DEF Inv, TypeOK, CallsOK, Known
<1>3. d \in Calls /\ d.kind = c.kind /\ d.at = c.at /\ d.mine = c.mine /\ d.done
  BY <1>2 DEF Calls
<1>. HIDE DEF d
<1>4. ~d.mine /\ Known(d)
  BY <1>2, <1>3 DEF Known
<1>5. stayed' \subseteq stayed /\ stayed' \subseteq fs'[path] /\ cut' = cut
  BY <1>1
<1>6. \A e \in calls' : e \in calls \/ Foreign(e)
  BY <1>1, <1>3, <1>4 DEF Foreign
<1>7. UNCHANGED <<path, entries, next, loading, error>>
  BY <1>1 DEF list
<1>8. RowsOK' /\ ListOK' /\ CallsTyped'
  BY <1>5, <1>6, <1>7, ListingStays
<1>9. fs' \in [Folders -> SUBSET Names]
  BY <1>1, <1>2, ChangedIs
<1>10. TypeOK'
  BY <1>1, <1>2, <1>5, <1>8, <1>9 DEF TypeOK, CallsTyped, list, dialogs, bounds
<1>. QED  BY <1>1, <1>8, <1>10 DEF Inv, CallsTyped, PickOK, dialogs

-----------------------------------------------------------------------------
(* Answers.                                                                 *)

(* All that leaves the folders and the listing alone.                       *)
LEMMA InvStays ==
  ASSUME Inv, \A c \in calls' : c \in calls \/ Foreign(c),
         UNCHANGED <<fs, path, entries, next, loading, error, stayed, cut>>,
         selected' \subseteq Names, ticked' \subseteq Places, dialog' \in Dialogs, PickOK',
         {location', listed'} \subseteq Folders \cup {NoFolder}, previews' \subseteq Places,
         backed' \in BOOLEAN, clicks' \in 0..MaxClicks, changes' \in 0..MaxChanges
  PROVE  Inv'
<1>1. RowsOK' /\ ListOK' /\ CallsTyped'
  BY ListingStays DEF Inv, ListOK
<1>2. TypeOK'
  BY <1>1 DEF Inv, TypeOK, CallsTyped
<1>. QED  BY <1>1, <1>2 DEF Inv, CallsTyped

LEMMA InvListAnswer ==
  ASSUME Inv, NEW c \in calls, NEW ok \in {FALSE, c.done}, ListAnswer(c, ok), UNCHANGED bounds
  PROVE  Inv'
<1>1. /\ calls' = calls \ {c}
      /\ UNCHANGED <<fs, path, selected, stayed, cut, dialogs, ticked, bounds>>
  BY DEF ListAnswer
<1>2. TypeOK /\ c \in Calls
  BY DEF Inv, TypeOK
<1>3. PickOK' /\ UNCHANGED <<dialog, location, listed, previews, backed, clicks, changes>>
  BY <1>1 DEF Inv, PickOK, dialogs, bounds
<1>4. CASE ~c.mine
  <2>1. UNCHANGED <<entries, next, loading, error>>
    BY <1>4 DEF ListAnswer, Current
  <2>. QED  BY <1>1, <1>2, <1>3, <2>1, InvStays DEF TypeOK
<1>5. ASSUME c.mine
      PROVE  loading' = FALSE /\ CallsTyped' /\ \A d \in calls' : ~d.mine
  <2>1. CallsTyped'
    BY <1>1, <1>2, CallsStay DEF Inv, TypeOK, CallsTyped
  <2>2. \A d \in calls' : ~d.mine
    BY <1>1, <1>5 DEF Inv, CallsOK
  <2>. QED  BY <1>5, <2>1, <2>2 DEF ListAnswer, Current, LoadingAfter
<1>6. CASE c.mine /\ ~ok
  <2>1. error' = TRUE /\ UNCHANGED <<entries, next>>
    BY <1>6 DEF ListAnswer, Current
  <2>2. Shown' = Shown
    BY <2>1 DEF Shown
  <2>3. RowsOK'
    BY <1>1, <1>5, <1>6, <2>1, <2>2 DEF Inv, RowsOK, RowsBelong
  <2>4. ListOK'
    BY <1>1, <1>5, <1>6, <2>1, <2>2 DEF Inv, ListOK, Complete
  <2>5. TypeOK'
    BY <1>1, <1>2, <1>3, <1>5, <1>6, <2>1 DEF TypeOK, CallsTyped
  <2>. QED  BY <1>3, <1>5, <1>6, <2>3, <2>4, <2>5 DEF Inv, CallsTyped
<1>7. CASE c.mine /\ ok
  <2>1. c.done
    BY <1>7
  <2>2. /\ entries' = entries (+) SetToBag({c.folder} \X c.names)
        /\ next' = c.at /\ error' = error
    BY <1>7 DEF ListAnswer, Current
  <2>3. /\ c.folder = path /\ (\A n \in c.names, m \in Shown : m < n)
        /\ c.at # 0 => \A m \in c.names \cup Shown : m <= c.at
    BY <1>7, <2>1 DEF Inv, RowsOK
  <2>4. c.names \subseteq Names /\ c.at \in 0..MaxName /\ path \in Folders
    BY <1>2 DEF Calls, TypeOK
  <2>. DEFINE X == {path} \X c.names
  <2>5. X \cap DOMAIN entries = {}
    <3>1. ASSUME NEW p \in X, p \in DOMAIN entries
          PROVE  FALSE
      <4>1. p[2] \in c.names /\ p[2] \in Shown
        BY <3>1 DEF Shown
      <4>2. p[2] \in Nat
        BY <2>4, <4>1, PageAssumption DEF Names
      <4>. QED  BY <2>3, <4>1, <4>2
    <3>. QED  BY <3>1
  <2>6. /\ IsABag(entries)' /\ DOMAIN entries' = DOMAIN entries \cup X
        /\ \A p \in DOMAIN entries' : entries'[p] = 1
    <3>1. IsABag(entries) /\ \A p \in DOMAIN entries : entries[p] = 1
      BY <1>2 DEF TypeOK, Inv, RowsOK, RowsBelong
    <3>2. entries' = entries (+) SetToBag(X)
      BY <2>2, <2>3
    <3>. HIDE DEF X
    <3>3. /\ IsABag(entries (+) SetToBag(X)) /\ DOMAIN (entries (+) SetToBag(X)) = DOMAIN entries \cup X
          /\ \A p \in DOMAIN (entries (+) SetToBag(X)) : (entries (+) SetToBag(X))[p] = 1
      BY <2>5, <3>1, RowsAdded
    <3>. QED  BY <3>2, <3>3
  <2>7. Shown' = Shown \cup c.names
    <3>1. \A n \in c.names : <<path, n>> \in X /\ <<path, n>>[2] = n
      OBVIOUS
    <3>2. \A p \in X : p[2] \in c.names
      OBVIOUS
    <3>3. Shown' = {p[2] : p \in DOMAIN entries \cup X}
      BY <2>6 DEF Shown
    <3>. HIDE DEF X
    <3>4. \A n \in Shown' : n \in Shown \cup c.names
      BY <3>2, <3>3 DEF Shown
    <3>5. \A n \in c.names : n \in Shown'
      <4>1. ASSUME NEW n \in c.names
            PROVE  n \in Shown'
        <5>1. <<path, n>> \in DOMAIN entries \cup X /\ n = <<path, n>>[2]
          BY <3>1
        <5>. QED  BY <3>3, <5>1, Zenon
      <4>. QED  BY <4>1
    <3>6. \A n \in Shown : n \in Shown'
      BY <3>3 DEF Shown
    <3>. QED  BY <3>4, <3>5, <3>6
  <2>8. RowsOK'
    <3>1. \A p \in DOMAIN entries' : p[1] = path'
      BY <1>1, <2>6 DEF Inv, RowsOK, RowsBelong
    <3>. QED  BY <1>5, <1>7, <2>2, <2>3, <2>6, <2>7, <3>1 DEF RowsOK, RowsBelong
  <2>9. ListOK'
    BY <1>1, <1>5, <1>7, <2>1, <2>2, <2>7 DEF Inv, ListOK, Complete
  <2>10. TypeOK'
    <3>1. DOMAIN entries' \subseteq Places
      BY <1>2, <2>4, <2>6 DEF TypeOK, Places
    <3>. QED  BY <1>1, <1>2, <1>3, <1>5, <1>7, <2>2, <2>4, <2>6, <3>1 DEF TypeOK, CallsTyped
  <2>. QED  BY <1>3, <1>5, <1>7, <2>8, <2>9, <2>10 DEF Inv, CallsTyped
<1>8. ok \in BOOLEAN
  BY <1>2 DEF Calls
<1>. QED  BY <1>4, <1>6, <1>7, <1>8

(* The page loads a folder again, or another one.                           *)
LEMMA InvLoad ==
  ASSUME Inv, NEW f \in Folders, NEW others \in SUBSET calls, Load(f, others), backed' \in BOOLEAN,
         UNCHANGED <<fs, dialog, location, listed, previews>>, clicks' \in 0..MaxClicks, changes' \in 0..MaxChanges
  PROVE  Inv'
<1>1. RowsOK' /\ ListOK' /\ CallsTyped' /\ ListTyped' /\ cut' = FALSE /\ ticked' \in {{}, ticked}
  BY ListingBegins
<1>2. PickOK'
  BY DEF Inv, PickOK
<1>3. TypeOK'
  BY <1>1, <1>2 DEF Inv, TypeOK, ListTyped, CallsTyped
<1>. QED  BY <1>1, <1>2, <1>3 DEF Inv, CallsTyped

LEMMA InvChangeAnswer ==
  ASSUME Inv, NEW c \in calls, NEW ok, ChangeAnswer(c, ok), UNCHANGED bounds
  PROVE  Inv'
<1>1. TypeOK /\ UNCHANGED <<fs, dialogs, bounds>>
  BY DEF Inv, ChangeAnswer
<1>2. path \in Folders /\ clicks' \in 0..MaxClicks /\ changes' \in 0..MaxChanges
  BY <1>1 DEF TypeOK, bounds
<1>3. CASE Load(path, calls \ {c})
  BY <1>1, <1>2, <1>3, InvLoad DEF dialogs, TypeOK
<1>4. CASE calls' = calls \ {c} /\ UNCHANGED <<list, stayed, cut, ticked>>
  BY <1>1, <1>2, <1>4, InvStays DEF Inv, TypeOK, PickOK, list, dialogs
<1>. QED  BY <1>3, <1>4 DEF ChangeAnswer

LEMMA InvPickAnswer ==
  ASSUME Inv, NEW c \in calls, NEW ok, PickAnswer(c, ok), UNCHANGED bounds
  PROVE  Inv'
<1>1. TypeOK /\ c.folder \in Folders
  BY DEF Inv, TypeOK, Calls
<1>2. /\ listed' \in {c.folder, NoFolder} /\ calls' = calls \ {c}
      /\ UNCHANGED <<fs, list, stayed, cut, dialog, location, previews, backed, ticked, bounds>>
  BY DEF PickAnswer
<1>. QED  BY <1>1, <1>2, InvStays DEF Inv, TypeOK, PickOK, list, bounds

LEMMA InvTicketAnswer ==
  ASSUME Inv, NEW c \in calls, NEW ok, TicketAnswer(c, ok), UNCHANGED bounds
  PROVE  Inv'
<1>1. TypeOK /\ c.folder \in Folders /\ c.names \subseteq Names
  BY DEF Inv, TypeOK, Calls
<1>2. /\ previews' \subseteq previews \cup ({c.folder} \X c.names) /\ calls' = calls \ {c}
      /\ UNCHANGED <<fs, list, stayed, cut, dialog, location, listed, backed, ticked, bounds>>
  BY DEF TicketAnswer
<1>3. previews' \subseteq Places
  BY <1>1, <1>2 DEF TypeOK, Places
<1>. QED  BY <1>1, <1>2, <1>3, InvStays DEF Inv, TypeOK, PickOK, list, bounds

-----------------------------------------------------------------------------
(* The user, and others.                                                    *)

LEMMA Clicks ==
  ASSUME TypeOK, Click
  PROVE  clicks' \in 0..MaxClicks /\ changes' \in 0..MaxChanges
BY BoundAssumption DEF TypeOK, Click

LEMMA InvGoTo ==
  ASSUME Inv, NEW f \in Folders, GoTo(f)
  PROVE  Inv'
<1>1. /\ TypeOK /\ backed' = (backed \/ dialog # NoDialog) /\ Load(f, calls) /\ Click
      /\ UNCHANGED <<fs, dialog, location, listed, previews>>
  BY DEF GoTo, Inv
<1>2. backed' \in BOOLEAN
  BY <1>1, Zenon
<1>. QED  BY <1>1, <1>2, InvLoad, Clicks

LEMMA InvUploadsEnd ==
  ASSUME Inv, UploadsEnd
  PROVE  Inv'
BY InvLoad, Clicks DEF UploadsEnd, Inv, TypeOK, dialogs

LEMMA ShownIs ==
  ASSUME TypeOK
  PROVE  Shown \subseteq Names
BY DEF TypeOK, Shown, Places

LEMMA InvTick ==
  ASSUME Inv, NEW ns \in SUBSET Names, NEW on \in BOOLEAN, Tick(ns, on)
  PROVE  Inv'
<1>1. TypeOK /\ selected' \subseteq Names /\ ticked' \subseteq Places
  BY DEF Inv, TypeOK, Tick
<1>2. UNCHANGED <<fs, calls, path, entries, next, loading, error, stayed, cut, dialogs, bounds>>
  BY DEF Tick
<1>. QED  BY <1>1, <1>2, InvStays DEF Inv, TypeOK, PickOK, dialogs, bounds

(* A new request for a picker's list, or for a ticket.                      *)
LEMMA Asks ==
  ASSUME NEW kind \in {"pick", "preview", "download"}, NEW f \in Folders, NEW ns \in SUBSET Names
  PROVE  Foreign(Call(kind, f, ns, 0)) /\ Call(kind, f, ns, 0).kind = kind
<1>1. 0 \in 0..MaxName
  BY PageAssumption
<1>2. /\ Call(kind, f, ns, 0) \in Calls /\ Call(kind, f, ns, 0).kind = kind
      /\ ~Call(kind, f, ns, 0).mine /\ Call(kind, f, ns, 0).done
  BY <1>1, CallIs
<1>. QED  BY <1>2 DEF Foreign, Known

LEMMA InvOpenDialog ==
  ASSUME Inv, NEW kind \in Changes, OpenDialog(kind)
  PROVE  Inv'
<1>1. /\ TypeOK /\ dialog' = [kind |-> kind, folder |-> path, names |-> Chosen]
      /\ UNCHANGED <<fs, list, stayed, cut, listed, previews, backed, ticked>>
      /\ \/ location' = path /\ calls' = calls \cup {Call("pick", path, {}, 0)}
         \/ kind \notin {"move", "copy"} /\ UNCHANGED <<location, calls>>
  BY DEF Inv, OpenDialog
<1>2. path \in Folders /\ clicks' \in 0..MaxClicks /\ changes' \in 0..MaxChanges
  BY <1>1, Clicks DEF TypeOK, OpenDialog
<1>3. \A c \in calls' : c \in calls \/ Foreign(c)
  BY <1>1, <1>2, Asks
<1>4. Chosen \in SUBSET Names
  BY <1>1, ShownIs DEF Chosen
<1>5. dialog' \in Dialogs /\ dialog'.kind = kind
  BY <1>1, <1>2, <1>4 DEF Dialogs
<1>6. PickOK' /\ {location', listed'} \subseteq Folders \cup {NoFolder}
  BY <1>1, <1>2, <1>5 DEF PickOK, TypeOK
<1>. QED  BY <1>1, <1>2, <1>3, <1>5, <1>6, InvStays DEF TypeOK, list

LEMMA InvPickGoTo ==
  ASSUME Inv, NEW f \in Folders, PickGoTo(f)
  PROVE  Inv'
<1>1. /\ TypeOK /\ location' = f /\ listed' = NoFolder /\ calls' = calls \cup {Call("pick", f, {}, 0)}
      /\ UNCHANGED <<fs, list, stayed, cut, dialog, previews, backed, ticked>>
  BY DEF Inv, PickGoTo
<1>2. clicks' \in 0..MaxClicks /\ changes' \in 0..MaxChanges
  BY <1>1, Clicks DEF PickGoTo
<1>3. \A c \in calls' : c \in calls \/ Foreign(c)
  BY <1>1, Asks
<1>. QED  BY <1>1, <1>2, <1>3, InvStays DEF TypeOK, PickOK, list

LEMMA InvCloseDialog ==
  ASSUME Inv, NEW new, \A c \in new : Foreign(c), CloseDialog(new)
  PROVE  Inv'
<1>1. /\ TypeOK /\ dialog' = NoDialog /\ location' = NoFolder /\ listed' = NoFolder
      /\ ticked' \subseteq ticked /\ calls' = {c \in calls : c.kind # "pick"} \cup new
      /\ backed' = FALSE /\ UNCHANGED <<fs, list, stayed, cut, previews, bounds>>
  BY DEF Inv, CloseDialog
<1>2. dialog' \in Dialogs /\ PickOK'
  BY <1>1 DEF Dialogs, NoDialog, PickOK
<1>3. \A c \in calls' : c \in calls \/ Foreign(c)
  BY <1>1
<1>. QED  BY <1>1, <1>2, <1>3, InvStays DEF TypeOK, list, bounds

(* What Confirm sends, if it sends something.                               *)
LEMMA ConfirmIs ==
  ASSUME TypeOK, PickOK, NEW n \in Names, NEW how \in Policies, Confirm(n, how)
  PROVE  \E c : /\ CloseDialog({c}) \/ CloseDialog({})
                /\ Foreign(c) /\ c.kind = dialog.kind /\ c.folder = path /\ c.names = dialog.names
<1>. DEFINE kind == dialog.kind
            at == IF kind \in {"mkdir", "rename"} THEN n ELSE 0
            to == IF kind \in {"move", "copy"} THEN location ELSE path
            a == Call(kind, path, dialog.names, at)
            c == [a EXCEPT !.to = to, !.how = how]
<1>1. CloseDialog({c}) \/ CloseDialog({})
  BY DEF Confirm
<1>2. kind \in Changes /\ dialog.names \in SUBSET Names /\ path \in Folders
  <2>1. dialog # NoDialog
    BY <1>1 DEF CloseDialog
  <2>. QED  BY <2>1 DEF TypeOK, Dialogs
<1>3. at \in 0..MaxName /\ (kind \in {"mkdir", "rename"} => at \in Names)
  BY PageAssumption DEF Names
<1>4. to \in Folders
  BY <1>2 DEF PickOK
<1>. HIDE DEF at, to
<1>5. /\ a \in Calls /\ a.kind = kind /\ a.folder = path /\ a.names = dialog.names /\ a.at = at
      /\ ~a.mine
  <2>1. kind # "list"
    BY <1>2 DEF Changes
  <2>. QED  BY <1>2, <1>3, <2>1, CallIs
<1>. HIDE DEF a
<1>6. /\ c \in Calls /\ c.kind = kind /\ c.folder = path /\ c.names = dialog.names /\ c.at = at
      /\ ~c.mine
  BY <1>4, <1>5 DEF Calls
<1>7. Foreign(c)
  BY <1>2, <1>3, <1>6 DEF Foreign, Known
<1>. HIDE DEF c
<1>. QED  BY <1>1, <1>6, <1>7

LEMMA InvConfirm ==
  ASSUME Inv, NEW n \in Names, NEW how \in Policies, Confirm(n, how)
  PROVE  Inv'
<1>1. PICK c : (CloseDialog({c}) \/ CloseDialog({})) /\ Foreign(c)
  BY ConfirmIs DEF Inv
<1>2. CASE CloseDialog({c})
  <2>1. \A d \in {c} : Foreign(d)
    BY <1>1
  <2>. QED  BY <1>2, <2>1, InvCloseDialog
<1>3. CASE CloseDialog({})
  BY <1>3, InvCloseDialog
<1>. QED  BY <1>1, <1>2, <1>3

LEMMA InvOpenFile ==
  ASSUME Inv, NEW n \in Names, NEW kind \in {"preview", "download"}, OpenFile(n, kind)
  PROVE  Inv'
<1>1. TypeOK /\ calls' = calls \cup {Call(kind, path, {n}, 0)} /\ UNCHANGED <<fs, list, stayed, cut, dialogs, ticked>>
  BY DEF Inv, OpenFile
<1>2. path \in Folders /\ {n} \in SUBSET Names /\ clicks' \in 0..MaxClicks /\ changes' \in 0..MaxChanges
  BY <1>1, Clicks DEF TypeOK, OpenFile
<1>3. \A c \in calls' : c \in calls \/ Foreign(c)
  BY <1>1, <1>2, Asks
<1>. QED  BY <1>1, <1>2, <1>3, InvStays DEF Inv, TypeOK, PickOK, list, dialogs

LEMMA InvClosePreview ==
  ASSUME Inv, NEW p \in previews, NEW download \in BOOLEAN, ClosePreview(p, download)
  PROVE  Inv'
<1>1. /\ TypeOK /\ previews' = previews \ {p}
      /\ calls' = calls \/ calls' = calls \cup {Call("download", path, {p[2]}, 0)}
      /\ UNCHANGED <<fs, list, stayed, cut, dialog, location, listed, backed, ticked, bounds>>
  BY DEF Inv, ClosePreview
<1>2. path \in Folders /\ {p[2]} \in SUBSET Names
  BY <1>1 DEF TypeOK, Places
<1>3. \A c \in calls' : c \in calls \/ Foreign(c)
  BY <1>1, <1>2, Asks
<1>. QED  BY <1>1, <1>3, InvStays DEF Inv, TypeOK, PickOK, list, bounds

LEMMA InvOthersChange ==
  ASSUME Inv, NEW f \in Folders, NEW n \in Names, OthersChange(f, n)
  PROVE  Inv'
<1>1. /\ TypeOK /\ UNCHANGED <<calls, list, dialogs, ticked, cut, clicks>>
      /\ stayed' = stayed \cap fs'[path]
  BY DEF Inv, OthersChange
<1>2. fs' \in [Folders -> SUBSET Names] /\ changes' \in 0..MaxChanges
  BY <1>1, BoundAssumption DEF OthersChange, TypeOK
<1>3. RowsOK' /\ ListOK' /\ CallsTyped'
  BY <1>1, ListingStays DEF list
<1>4. TypeOK'
  BY <1>1, <1>2 DEF TypeOK, list, dialogs
<1>. QED  BY <1>1, <1>3, <1>4 DEF Inv, CallsTyped, PickOK, dialogs

LEMMA InvInit ==
  ASSUME Init
  PROVE  Inv
<1>. DEFINE c == Call("list", path, {}, 0)
<1>1. fs \in [Folders -> SUBSET Names] /\ path \in Folders /\ 0 \in 0..MaxName
  BY ContentsAssumption, PageAssumption DEF Init
<1>2. /\ c \in Calls /\ c.kind = "list" /\ c.folder = path /\ c.mine /\ ~c.done /\ c.at = 0
      /\ c.names = {} /\ c.upTo = 0
  BY <1>1, CallIs
<1>3. calls = {c}
  BY DEF Init
<1>. HIDE DEF c
<1>4. Shown = {} /\ DOMAIN entries = {} /\ IsABag(entries)
  BY NoRows DEF Init, Shown
<1>5. CallsOK /\ PickOK
  BY <1>2, <1>3 DEF Init, CallsOK, Known, PickOK, NoDialog
<1>6. RowsOK
  BY <1>2, <1>3, <1>4 DEF Init, RowsOK, RowsBelong
<1>7. ListOK
  BY <1>2, <1>3, <1>4 DEF Init, ListOK
<1>8. TypeOK
  <2>1. 0 \in 0..MaxClicks /\ 0 \in 0..MaxChanges
    BY BoundAssumption
  <2>2. fs[path] \subseteq Names /\ dialog \in Dialogs
    BY <1>1 DEF Init, Dialogs
  <2>. QED  BY <1>1, <1>2, <1>3, <1>4, <2>1, <2>2 DEF Init, TypeOK
<1>. QED  BY <1>5, <1>6, <1>7, <1>8 DEF Inv

LEMMA InvNext ==
  ASSUME Inv, [Next]_vars
  PROVE  Inv'
<1>1. ASSUME NEW c \in calls, Serve(c)
      PROVE  Inv'
  <2>1. ~c.done
    BY <1>1 DEF Serve
  <2>. QED  BY <1>1, <2>1, InvServeList, InvServeChange
<1>2. ASSUME NEW c \in calls, Receive(c)
      PROVE  Inv'
  <2>1. PICK ok \in {FALSE, c.done} :
          ListAnswer(c, ok) \/ ChangeAnswer(c, ok) \/ PickAnswer(c, ok) \/ TicketAnswer(c, ok)
    BY <1>2 DEF Receive
  <2>2. UNCHANGED bounds
    BY <1>2 DEF Receive
  <2>. QED  BY <2>1, <2>2, InvListAnswer, InvChangeAnswer, InvPickAnswer, InvTicketAnswer
<1>3. ASSUME NEW ns \in {{n} : n \in Names} \cup {Shown}, NEW on \in BOOLEAN, Tick(ns, on)
      PROVE  Inv'
  <2>1. ns \in SUBSET Names
    BY ShownIs DEF Inv
  <2>. QED  BY <1>3, <2>1, InvTick
<1>4. CASE Cancel
  BY <1>4, InvCloseDialog DEF Cancel
<1>5. CASE UNCHANGED vars
  <2>1. UNCHANGED <<fs, calls, list, dialogs, ticked, stayed, cut, bounds>>
    BY <1>5 DEF vars
  <2>. QED  BY <2>1, InvStays DEF Inv, TypeOK, PickOK, list, dialogs, bounds
<1>. QED  BY <1>1, <1>2, <1>3, <1>4, <1>5, InvGoTo, InvPickGoTo, InvOthersChange, InvLoadMore,
             InvUploadsEnd, InvOpenDialog, InvConfirm, InvOpenFile, InvClosePreview DEF Next

LEMMA Invariance == Spec => []Inv
BY InvInit, InvNext, PTL DEF Spec

(* The folders, the listing, the dialogs and the requests always have the   *)
(* values that the server and portal.js give them.                          *)
THEOREM FilesTyping == Spec => []TypeOK
<1>1. Inv => TypeOK
  BY DEF Inv
<1>. QED  BY <1>1, Invariance, PTL

(* Whatever answers are late or lost: the rows of the page are items of the *)
(* folder that is open, one row for each.                                   *)
THEOREM Belonging == Spec => []RowsBelong
<1>1. Inv => RowsBelong
  BY DEF Inv, RowsOK
<1>. QED  BY <1>1, Invariance, PTL

(* However large a page is and whatever it leaves out, pages that are read  *)
(* one after the other show every item, unless one was taken away.          *)
THEOREM Listing == Spec => []ListsEverything
<1>1. Inv => ListsEverything
  BY DEF Inv, ListOK, Complete, ListsEverything
<1>. QED  BY <1>1, Invariance, PTL

-----------------------------------------------------------------------------
(* Requests are about what the user ticked, and where, but for Back.        *)

LEMMA TicksLoad ==
  ASSUME TicksOK, NEW f, NEW others, Load(f, others), dialog' = dialog,
         backed' \/ dialog = NoDialog \/ (f = path /\ backed' = backed)
  PROVE  TicksOK'
BY DEF TicksOK, Load

LEMMA TicksTick ==
  ASSUME Inv, TicksOK, NEW ns, NEW on \in BOOLEAN, Tick(ns, on)
  PROVE  TicksOK'
<1>1. /\ dialog = NoDialog /\ dialog' = dialog /\ path' = path /\ ns \subseteq Shown
      /\ selected' = IF on THEN selected \cup ns ELSE selected \ ns
      /\ ticked' = IF on THEN ticked \cup {p \in DOMAIN entries : p[2] \in ns}
                         ELSE {p \in ticked : p[2] \notin ns}
  BY DEF Tick, NothingOpen, dialogs
<1>2. CASE on
  <2>1. ASSUME NEW n \in ns
        PROVE  <<path, n>> \in ticked'
    <3>1. PICK p \in DOMAIN entries : n = p[2]
      BY <1>1 DEF Shown
    <3>2. p = <<path, n>>
      BY <3>1 DEF Inv, RowsOK, RowsBelong, TypeOK, Places
    <3>. QED  BY <1>1, <1>2, <3>1, <3>2
  <2>. QED  BY <1>1, <1>2, <2>1 DEF TicksOK
<1>3. CASE ~on
  BY <1>1, <1>3 DEF TicksOK
<1>. QED  BY <1>2, <1>3

LEMMA TicksOpenDialog ==
  ASSUME TicksOK, NEW kind, OpenDialog(kind)
  PROVE  TicksOK'
<1>1. /\ dialog' = [kind |-> kind, folder |-> path, names |-> Chosen]
      /\ UNCHANGED <<path, selected, ticked>>
  BY DEF OpenDialog, list
<1>2. dialog'.folder = path /\ dialog'.names = Chosen
  BY <1>1
<1>3. \A p \in {path} \X Chosen : p \in ticked
  <2>1. \A n \in Chosen : <<path, n>> \in ticked
    BY DEF Chosen, TicksOK
  <2>. QED  BY <2>1
<1>. QED  BY <1>1, <1>2, <1>3 DEF TicksOK

LEMMA TicksCloseDialog ==
  ASSUME TicksOK, NEW new, CloseDialog(new)
  PROVE  TicksOK'
<1>1. dialog' = NoDialog /\ UNCHANGED <<path, selected>> /\ ticked' = {p \in ticked : p[2] \in selected}
  BY DEF CloseDialog, list
<1>2. \A n \in selected : <<path, n>> \in ticked'
  BY <1>1 DEF TicksOK
<1>. QED  BY <1>1, <1>2 DEF TicksOK

LEMMA TicksNext ==
  ASSUME Inv, TicksOK, [Next]_vars
  PROVE  TicksOK'
<1>1. ASSUME UNCHANGED <<path, selected, ticked, dialog, backed>>
      PROVE  TicksOK'
  BY <1>1 DEF TicksOK
<1>2. ASSUME NEW c \in calls, Serve(c) \/ Receive(c)
      PROVE  TicksOK'
  <2>1. CASE Serve(c)
    BY <1>1, <2>1 DEF Serve, list, dialogs
  <2>2. CASE Receive(c)
    <3>1. PICK ok : ListAnswer(c, ok) \/ ChangeAnswer(c, ok) \/ PickAnswer(c, ok) \/ TicketAnswer(c, ok)
      BY <2>2 DEF Receive
    <3>2. CASE ListAnswer(c, ok) \/ PickAnswer(c, ok) \/ TicketAnswer(c, ok)
      BY <1>1, <3>2 DEF ListAnswer, PickAnswer, TicketAnswer, list, dialogs
    <3>3. CASE ChangeAnswer(c, ok)
      <4>1. UNCHANGED dialogs /\ (Load(path, calls \ {c}) \/ UNCHANGED <<list, stayed, cut, ticked>>)
        BY <3>3 DEF ChangeAnswer
      <4>. QED  BY <1>1, <4>1, TicksLoad DEF list, dialogs
    <3>. QED  BY <3>1, <3>2, <3>3
  <2>. QED  BY <1>2, <2>1, <2>2
<1>3. ASSUME NEW f \in Folders, GoTo(f)
      PROVE  TicksOK'
  <2>1. Load(f, calls) /\ dialog' = dialog /\ backed' = (backed \/ dialog # NoDialog)
    BY <1>3 DEF GoTo
  <2>2. backed' \/ dialog = NoDialog
    BY <2>1, Zenon
  <2>. QED  BY <2>1, <2>2, TicksLoad
<1>4. CASE UploadsEnd
  BY <1>4, TicksLoad DEF UploadsEnd, dialogs
<1>5. ASSUME NEW n \in Names, NEW how \in Policies, Confirm(n, how)
      PROVE  TicksOK'
  <2>1. PICK new : CloseDialog(new)
    BY <1>5 DEF Confirm
  <2>. QED  BY <2>1, TicksCloseDialog
<1>6. ASSUME \/ \E f \in Folders : PickGoTo(f) \/ \E n \in Names : OthersChange(f, n)
             \/ ClickMore
             \/ \E n \in Names, kind \in {"preview", "download"} : OpenFile(n, kind)
             \/ \E p \in previews, download \in BOOLEAN : ClosePreview(p, download)
             \/ UNCHANGED vars
      PROVE  TicksOK'
  BY <1>1, <1>6 DEF PickGoTo, OthersChange, ClickMore, LoadMore, OpenFile, ClosePreview, vars, list, dialogs
<1>. QED  BY <1>2, <1>3, <1>4, <1>5, <1>6, TicksTick, TicksOpenDialog, TicksCloseDialog DEF Next, Cancel

(* Only Confirm sends a change to the server.                               *)
LEMMA OnlyConfirm ==
  ASSUME Inv, [Next]_vars, NEW c \in calls' \ calls, c.kind \in Changes, ~c.done
  PROVE  \E n \in Names, how \in Policies : Confirm(n, how)
<1>0. \A d \in calls : ~d.mine => [d EXCEPT !.mine = FALSE] = d
  BY DEF Inv, TypeOK, Calls
<1>1. ASSUME NEW f \in Folders, NEW at \in 0..MaxName, NEW others \in SUBSET calls,
             calls' = {[d EXCEPT !.mine = FALSE] : d \in others} \cup {Call("list", f, {}, at)}
      PROVE  FALSE
  <2>1. Call("list", f, {}, at).kind = "list"
    BY DEF Call
  <2>2. c # Call("list", f, {}, at)
    BY <2>1 DEF Changes
  <2>3. PICK d \in others : c = [d EXCEPT !.mine = FALSE]
    BY <1>1, <2>2
  <2>4. d.kind = c.kind
    BY <2>3 DEF Inv, TypeOK, Calls
  <2>5. ~d.mine
    BY <2>4 DEF Inv, CallsOK, Known, Changes
  <2>6. [d EXCEPT !.mine = FALSE] = d
    BY <1>0, <2>5
  <2>. QED  BY <2>3, <2>6
<1>2. ASSUME NEW kind \in {"pick", "preview", "download"}, NEW f, NEW ns,
             calls' \subseteq calls \cup {Call(kind, f, ns, 0)}
      PROVE  FALSE
  BY <1>2 DEF Call, Changes
<1>3. 0 \in 0..MaxName /\ path \in Folders /\ next \in 0..MaxName
  BY PageAssumption DEF Inv, TypeOK
<1>4. ASSUME NEW d \in calls, Serve(d)
      PROVE  FALSE
  <2>1. d \in Calls /\ \E e : calls' = (calls \ {d}) \cup {e} /\ (e.kind = "list" \/ e.done)
    <3>1. d \in Calls
      BY DEF Inv, TypeOK
    <3>2. CASE d.kind = "list"
      <4>. DEFINE e == IF PageEnds(d) THEN EndPage(d) ELSE ReadOne(d, Min(Rest(d)))
      <4>1. calls' = (calls \ {d}) \cup {e}
        BY <1>4, <3>2 DEF Serve, ServeList
      <4>2. e.kind = "list"
        <5>1. EndPage(d).kind = "list"
          BY <3>1, <3>2, EndIs DEF Inv
        <5>2. ~PageEnds(d) => ReadOne(d, Min(Rest(d))).kind = "list"
          BY <3>2, ReadIs DEF Inv
        <5>. QED  BY <5>1, <5>2
      <4>. QED  BY <3>1, <4>1, <4>2
    <3>3. CASE d.kind # "list"
      <4>1. calls' = (calls \ {d}) \cup {[d EXCEPT !.done = TRUE]}
        BY <1>4, <3>3 DEF Serve, ServeChange
      <4>2. [d EXCEPT !.done = TRUE].done
        BY <3>1 DEF Calls
      <4>. QED  BY <3>1, <4>1, <4>2
    <3>. QED  BY <3>2, <3>3
  <2>. QED  BY <2>1 DEF Changes
<1>5. ASSUME NEW d \in calls, Receive(d)
      PROVE  FALSE
  <2>1. calls' = calls \ {d} \/ Load(path, calls \ {d})
    BY <1>5 DEF Receive, ListAnswer, ChangeAnswer, PickAnswer, TicketAnswer
  <2>. QED  BY <1>1, <1>3, <2>1 DEF Load
<1>6. ASSUME (\E f \in Folders : GoTo(f)) \/ UploadsEnd \/ ClickMore
      PROVE  FALSE
  <2>1. CASE ClickMore
    BY <1>1, <1>3, <2>1 DEF ClickMore, LoadMore
  <2>2. CASE (\E f \in Folders : GoTo(f)) \/ UploadsEnd
    <3>1. PICK f \in Folders : Load(f, calls)
      BY <1>3, <2>2 DEF GoTo, UploadsEnd
    <3>. QED  BY <1>1, <1>3, <3>1 DEF Load
  <2>. QED  BY <1>6, <2>1, <2>2
<1>7. ASSUME \/ \E f \in Folders : PickGoTo(f)
             \/ \E kind \in Changes : OpenDialog(kind)
             \/ \E n \in Names, kind \in {"preview", "download"} : OpenFile(n, kind)
             \/ \E p \in previews, download \in BOOLEAN : ClosePreview(p, download)
             \/ UNCHANGED calls
      PROVE  FALSE
  <2>1. \/ calls' = calls
        \/ \E kind \in {"pick", "preview", "download"} : \E f, ns : calls' = calls \cup {Call(kind, f, ns, 0)}
    BY <1>7 DEF PickGoTo, OpenDialog, OpenFile, ClosePreview
  <2>. QED  BY <1>2, <2>1
<1>8. CASE Cancel
  BY <1>8 DEF Cancel, CloseDialog
<1>9. ASSUME \/ \E f \in Folders, n \in Names : OthersChange(f, n)
             \/ \E ns, on : Tick(ns, on)
             \/ UNCHANGED vars
      PROVE  UNCHANGED calls
  BY <1>9 DEF OthersChange, Tick, vars
<1>. QED  BY <1>4, <1>5, <1>6, <1>7, <1>8, <1>9 DEF Next

(* A request changes only what the user ticked in the folder its dialog is  *)
(* about, and is sent for that folder unless Back was used under it.        *)
THEOREM Ticking == Spec => OnlyBackMisleads
<1>. DEFINE Acts == \A c \in calls' \ calls : c.kind \in Changes /\ ~c.done
                      => /\ c.folder = dialog.folder \/ backed
                         /\ {dialog.folder} \X c.names \subseteq ticked
<1>1. Init => Inv /\ TicksOK
  BY InvInit DEF Init, TicksOK
<1>2. Inv /\ TicksOK /\ [Next]_vars => (Inv /\ TicksOK)'
  BY InvNext, TicksNext
<1>3. ASSUME Inv, TicksOK, [Next]_vars
      PROVE  Acts
  <2>1. ASSUME NEW c \in calls' \ calls, c.kind \in Changes, ~c.done
        PROVE  /\ c.folder = dialog.folder \/ backed
               /\ {dialog.folder} \X c.names \subseteq ticked
    <3>1. PICK n \in Names, how \in Policies : Confirm(n, how)
      BY <1>3, <2>1, OnlyConfirm
    <3>2. PICK d : (CloseDialog({d}) \/ CloseDialog({})) /\ d.folder = path /\ d.names = dialog.names
      BY <1>3, <3>1, ConfirmIs DEF Inv
    <3>3. c = d /\ dialog # NoDialog
      BY <2>1, <3>2 DEF CloseDialog
    <3>. QED  BY <1>3, <3>2, <3>3 DEF TicksOK
  <2>. QED  BY <2>1
<1>4. Inv /\ TicksOK /\ [Next]_vars => [Acts]_vars
  BY <1>3
<1>. QED  BY <1>1, <1>2, <1>4, PTL DEF Spec, OnlyBackMisleads
=============================================================================
