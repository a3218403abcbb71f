------------------------- MODULE MC_DonationCampaign -------------------------
(***************************************************************************)
(* Shares are counted in tenths, deadlines are the first ticks, and three  *)
(* approvers review, one of them the creator of a campaign.                *)
(***************************************************************************)
EXTENDS DonationCampaign

CONSTANTS yayasan, desa, ani, beni, dewi, eka

Terms(by, cut, funding, review, to) ==
  [creator |-> by, beneficiary |-> to, creator_cut_bps |-> cut,
   funding_deadline |-> funding, review_deadline |-> review,
   approvers |-> {yayasan, dewi, eka}]

\* A campaign that keeps half for its creator, who approves it too; one whose
\* creator is its beneficiary and a donor; and one the contract refuses.
ConfigsSmall ==
  {Terms(yayasan, 5, 1, 2, desa), Terms(ani, 3, 2, 3, ani), Terms(yayasan, 0, 1, 2, Self)}
=============================================================================
