SPECIFICATION FairSpec
CONSTANTS
  yayasan = yayasan
  desa = desa
  ani = ani
  beni = beni
  dewi = dewi
  eka = eka
  Self = Self
  None = None
  MaxCampaigns = 2
  MaxTime = 3
  Accounts = {yayasan, desa, ani, beni, dewi, eka}
  Donors = {ani, beni}
  Configs <- ConfigsSmall
  Proofs = {p1, p2}
  Wealth = 2
  Gifts = {1}
  BPS = 10
  MAX_CUT = 5
CHECK_DEADLOCK FALSE
INVARIANTS TypeOK EscrowBacked AccountsSettled
PROPERTIES RefundRightKept QuorumBinds DonationSettles
