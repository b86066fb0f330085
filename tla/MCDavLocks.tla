----------------------------- MODULE MCDavLocks -----------------------------
(* Instances of DavLocks for TLC: a folder with or without a file in it,    *)
(* and a folder or a file that may take its place.                          *)
EXTENDS DavLocks, TLC

ThreePaths == {<<"d">>, <<"d", "f">>, <<"e">>}
SomeDisks ==
  {<<"d">> :> "folder" @@ <<"d", "f">> :> "file" @@ <<"e">> :> "folder",
   <<"d">> :> "folder" @@ <<"d", "f">> :> "none" @@ <<"e">> :> "file"}
Symmetry == Permutations(Jobs) \cup Permutations(Accounts)
=============================================================================
