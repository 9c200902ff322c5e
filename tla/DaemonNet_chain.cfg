CONSTANTS
  d1 = d1
  d2 = d2
  d3 = d3
  alice = alice
  bob = bob
  a1 = a1
  a2 = a2
  b1 = b1
  NoUser = NoUser
  Daemons = {d1, d2, d3}
  Users = {alice, bob}
  Ads = {}
  PosterOf <- PosterOfAd
  AuthorOf <- AuthorOfAd
  PeerArgs <- Chain
  Port <- PortBelow
  DefaultPort = 65090
  InitDb <- EmptyDb
  MaxAdd = 0
  MaxRm = 0
SPECIFICATION FairSpec
CHECK_DEADLOCK FALSE
INVARIANTS
  Introductions
  RestKnowsAll
PROPERTIES
  AllFindEachOther
