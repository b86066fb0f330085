--------------------------- MODULE MCSharePage ---------------------------
(* Instances of SharePage for TLC: links of each kind.  A password makes a  *)
(* difference before the page gets to the rest, the storage to uploads.     *)
EXTENDS SharePage

SomeLinks ==
  {l \in [kind : Kinds, locked : BOOLEAN, direct : BOOLEAN] :
     (l.locked => l.kind = "file") /\ (l.direct => l.kind = "upload")}
=============================================================================
