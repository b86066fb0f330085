--------------------------- MODULE MCPortalFiles ---------------------------
(* Instances of PortalFiles for TLC: two folders, pages of two.             *)
EXTENDS PortalFiles

CONSTANTS f1, f2

(* The middle item of the first folder is not listed.                       *)
HiddenMiddle == {<<f1, 2>>}
(* An item of the second folder of which no stat can be had.                *)
Odd == {<<f2, 1>>}
Full == {[f \in Folders |-> IF f = f1 THEN Names ELSE {1, 2}]}
=============================================================================
