----------------------------- MODULE MCFileOps -----------------------------
(* Instances of FileOps for TLC: folders of a direct root and of a SAF tree. *)
EXTENDS FileOps, TLC

CONSTANTS d1, d2, d3, a, b, r1, c1, c2, c3

PhoneAndCard == [d \in Dirs |-> IF d = d3 THEN "card" ELSE "phone"]

(* "Keep both" of a tries a, then b; of b only b: the bound of the search.  *)
KeepBothNames == (a :> <<a, b>>) @@ (b :> <<b>>)

(* What is there at the start: some items, and the homes of those in slots. *)
Start(items, homes) ==
  [there |-> [x \in Paths |-> IF x \in DOMAIN items THEN items[x] ELSE Nothing],
   rows |-> [i \in Ids |-> IF i \in DOMAIN homes THEN homes[i] ELSE Nothing]]
NoRows == [i \in {} |-> Nothing]

OneFile == {Start(<<d1, a>> :> c1, NoRows)}
(* A file in one root and a folder in the other, in the bin or not.         *)
Assorted ==
  {Start((<<d1, a>> :> c1) @@ (<<d3, b>> :> c3), NoRows),
   Start((<<d1, a>> :> c3) @@ (r1 :> c1), r1 :> <<d3, a>>),
   Start((<<d3, b>> :> c1) @@ (r1 :> c3), r1 :> <<d1, a>>)}
=============================================================================
