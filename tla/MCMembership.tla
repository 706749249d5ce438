---------------------------- MODULE MCMembership ----------------------------
(***************************************************************************)
(* A small instance of Membership: somebody at every stage.  Spending can  *)
(* bring the share of a member down to zero.                               *)
(***************************************************************************)
EXTENDS PasswordReset, TLC

CONSTANTS m1, m2, m3, m4

Stages == m1 :> "active" @@ m2 :> "waiting_deposit" @@ m3 :> "pending" @@ m4 :> "none"
Deposits == m1 :> 2 @@ m2 :> 2 @@ m3 :> 0 @@ m4 :> 0

Symmetry == Permutations(Requests)

=============================================================================
