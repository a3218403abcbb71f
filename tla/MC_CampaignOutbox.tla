-------------------------- MODULE MC_CampaignOutbox --------------------------
(***************************************************************************)
(* One subscriber with two addresses, two request ids of which the first   *)
(* is followed to the inbox, and two dispatches.  A dispatch may repeat a  *)
(* request for two units of time after its first attempt; the provider     *)
(* remembers a key for three.                                              *)
(***************************************************************************)
EXTENDS CampaignOutbox
=============================================================================
