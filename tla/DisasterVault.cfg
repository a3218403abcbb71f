SPECIFICATION Spec
CONSTANTS
  sari = sari
  tono = tono
  umi = umi
  donor = donor
  relief = relief
  Vault = Vault
  Signers = {sari, tono, umi}
  Accounts = {sari, tono, umi, donor}
  Recipients = {relief, Vault}
  CAP_BPS = 5
  BPS = 10
  TIMELOCK_LEDGERS = 1
  DAY = 3
  Gaps = {1, 2}
  Donors = {donor}
  Wealth = 4
  Gifts = {2}
  Amounts = {1}
  MaxLedger = 3
  MaxProposals = 3
SYMMETRY SignerSymmetry
CHECK_DEADLOCK FALSE
INVARIANTS TypeOK PaidAsApproved RollingCap ControlHistory TimelockKept
