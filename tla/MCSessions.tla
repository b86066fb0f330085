----------------------------- MODULE MCSessions -----------------------------
(* Instances of Sessions for TLC: one account, whose sign-ins, sessions,    *)
(* remembered passwords and tickets race its changes.                       *)
EXTENDS Sessions, TLC

CONSTANTS u1, x, y

Row(pw, weak) == [pw |-> pw, weak |-> weak, enabled |-> TRUE, version |-> 0]
StrongOrWeak == {(u1 :> Row(x, FALSE)), (u1 :> Row(x, TRUE))}
Strong == {(u1 :> Row(x, FALSE))}
Weak == {(u1 :> Row(x, TRUE))}

Symmetry == Permutations(Jobs) \cup Permutations(Tokens)
=============================================================================
