CONSTANTS
  c1 = c1
  c2 = c2
  a1 = a1
  Clients = {c1}
  Ads = {a1}
  Retries = 3
  MaxCmds = 2
  MaxStops = 1
SPECIFICATION FairSpec
CHECK_DEADLOCK FALSE
INVARIANTS
  TypeOK
  ShownAnswersCommand
  AtMostRetries
PROPERTIES
  EveryCommandReturns
