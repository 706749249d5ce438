------------------------------ MODULE MCSavings ------------------------------
(***************************************************************************)
(* A small instance of Savings.                                            *)
(***************************************************************************)
EXTENDS Savings

=============================================================================
