SPECIFICATION FairSpec
CONSTANTS
  host = host
  ana = ana
  budi = budi
  outsider = outsider
  None = None
  MaxRooms = 1
  MaxTime = 10
  Accounts = {host, ana, budi, outsider}
  ContractAccounts = {}
  Codes = {c1}
  Secrets = {}
  Wealth = 3
  LegacyTerms <- OneLegacy
  InstallmentTerms <- OneInstallment
  ScheduledTerms <- OneScheduled
  Amounts = {3}
  Delays = {1}
  CopyHashes = FALSE
  Diligent = {ana, outsider}
  JOIN_WINDOW = 1
  MAX_POSTPONE_SECONDS = 1
  GRACE_PERIOD = 2
  REVEAL_WINDOW = 1
  FIRST_COMMIT_WINDOW = 1
  SCHEDULED_REVEAL_WINDOW = 1
  MIN_MEMBERS = 3
  MAX_MEMBERS = 3
  MAX_FUNDING_WINDOW = 3
  MAX_FIRST_DRAW_DELAY = 5
  MAX_SCHEDULED_SHARE = 1
  MAX_TTL = 10
  SECONDS_PER_DAY = 2
  MIN_INTERVAL_DAYS = 1
  MAX_INTERVAL_DAYS = 2
  CadenceSeconds <- CadenceLength
CHECK_DEADLOCK FALSE
PROPERTIES ActiveRoomSettles OpenRoomEnds
