----------------------------- MODULE FloorShare -----------------------------
(***************************************************************************)
(* Both escrow contracts take basis points of an amount without forming    *)
(* amount * bps, which could overflow an i128 (contracts/disaster, cap;    *)
(* contracts/donation-campaign, release).                                  *)
(***************************************************************************)
EXTENDS Integers

\* Faulty variant: the remainder's share is dropped.
FloorShare_Coarse(amount, bps, whole) == (amount \div whole) * bps

FloorShare(amount, bps, whole) ==
  (amount \div whole) * bps + ((amount % whole) * bps) \div whole
=============================================================================
