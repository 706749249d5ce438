------------------------------ MODULE MCReport ------------------------------
(***************************************************************************)
(* A small instance of Report: two rows to a page, three members who have  *)
(* paid everything, and one who may join them, with a name before the      *)
(* others or with the name of the last.                                    *)
(***************************************************************************)
EXTENDS Report, TLC

CONSTANTS u1, u2, u3, u4

MCNamings == {u1 :> 1 @@ u2 :> 2 @@ u3 :> 3 @@ u4 :> n : n \in {0, 3}}
MCSettled == {u1, u2, u3} \X (1..2)

=============================================================================
