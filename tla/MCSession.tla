------------------------------ MODULE MCSession ------------------------------
(***************************************************************************)
(* A small instance of Session: an operator who logs in twice, a reviewer  *)
(* who logs in once.  Tabs are interchangeable, and so are the tokens of   *)
(* one account.                                                            *)
(***************************************************************************)
EXTENDS Session, TLC

CONSTANTS operator, reviewer, k1, k2, k3

Roles == (operator :> "operator") @@ (reviewer :> "reviewer")

Issuer == (k1 :> operator) @@ (k2 :> reviewer) @@ (k3 :> operator)

Symmetry == Permutations(Tab) \cup Permutations({k1, k3})
=============================================================================
