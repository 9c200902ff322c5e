CONSTANTS
  d1 = d1
  d2 = d2
  d3 = d3
  alice = alice
  bob = bob
  a1 = a1
  a2 = a2
  b1 = b1
  NoUser = NoUser
  Daemons = {d1, d2}
  Users = {alice, bob}
  Ads = {a1, b1}
  PosterOf <- PosterOfAd
  AuthorOf <- AuthorOfAd
  PeerArgs <- OneKnowsTwo
  Port <- PortBelow
  DefaultPort = 65090
  InitDb <- OneAdEach
  MaxAdd = 0
  MaxRm = 1
SPECIFICATION Spec
CHECK_DEADLOCK FALSE
INVARIANTS
  PeersKnown
PROPERTIES
  OnlyOneAuthorsAdsLeave
