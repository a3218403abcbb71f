-------------------------- MODULE MC_KeepaliveWorker --------------------------
(***************************************************************************)
(* One room and three cron runs; another room would share the signer's    *)
(* lease and its sequence number, which SignedElsewhere moves.  One unit   *)
(* of time stands for the validity of an envelope; the other durations     *)
(* keep the code's order.                                                  *)
(***************************************************************************)
EXTENDS KeepaliveWorker, TLC

NeverValue == 0 - 4
RoomSymmetry == Permutations(Rooms)
=============================================================================
