CONSTANTS
  d1 = d1
  d2 = d2
  d3 = d3
  alice = alice
  bob = bob
  a1 = a1
  a2 = a2
  b1 = b1
  NoUser = NoUser
  Daemons = {d1, d2}
  Users = {alice, bob}
  Ads = {a1, a2, b1}
  PosterOf <- PosterOfAd
  AuthorOf <- AuthorOfAd
  PeerArgs <- NoArgs
  Port <- PortOnHost
  DefaultPort = 65090
  InitDb <- HersAtD1
  MaxAdd = 1
  MaxRm = 0
SPECIFICATION FairSpec
CHECK_DEADLOCK FALSE
INVARIANTS
  TypeOK
  PeersKnown
  RestKnowsAll
  RestAgrees
PROPERTIES
  ReplicatesAds
  EveryAdSpreads
  ComesToRest
