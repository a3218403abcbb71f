---------------------------- MODULE MC_Accounts ----------------------------
(* Two users and a guest over two handles.  Users and handles are only ever *)
(* compared, so that both may be permuted.                                  *)
EXTENDS Accounts, TLC

Symmetric == Permutations(Users) \cup Permutations(Names)
=============================================================================
