CONSTANTS
  None = None
  Torn = Torn
  Accounts = {alice}
  Seeds = {s1, s2}
  MaxWallets = 2
  MaxLogins = 2
  MaxStarts = 1
SPECIFICATION FairSpec
CHECK_DEADLOCK FALSE
INVARIANTS
  TypeOK
  LockedByOtherWallet
PROPERTIES
  OnlyActiveReports
  SettlesOnActive
