----------------------------- MODULE FileVault -----------------------------
(***************************************************************************)
(* What VaultBox promises about the user's data, whatever the storage, the *)
(* protocol or the screen a request comes from: "never destroy the only    *)
(* valid copy of user data before the replacement is verified"             *)
(* (lib/domain/repositories/storage_backend.dart).                         *)
(*                                                                         *)
(*   held      the contents of which a complete copy exists somewhere in   *)
(*             the storage roots, recycle bin included;                    *)
(*   condemned the contents that somebody is at this moment asking to      *)
(*             replace, or to delete for good.                             *)
(***************************************************************************)
CONSTANT Contents

VARIABLES held, condemned

vvars == <<held, condemned>>

Init == held \subseteq Contents /\ condemned = {}

(* New data arrives, copies appear and disappear, requests come and go; the *)
(* last complete copy of a content goes only if it was condemned.           *)
Next ==
  /\ held' \subseteq Contents
  /\ condemned' \subseteq Contents
  /\ held \ held' \subseteq condemned

Spec == Init /\ [][Next]_vvars
=============================================================================
