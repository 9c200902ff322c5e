CONSTANTS
  d1 = d1
  d2 = d2
  d3 = d3
  alice = alice
  bob = bob
  a1 = a1
  a2 = a2
  b1 = b1
  NoUser = NoUser
  Daemons = {d1, d2}
  Users = {alice, bob}
  Ads = {a1, b1}
  PosterOf <- PosterOfAd
  AuthorOf <- AuthorOfAd
  PeerArgs <- Mesh
  Port <- PortBelow
  DefaultPort = 65090
  InitDb <- AllAtD1
  MaxAdd = 0
  MaxRm = 1
  NoDaemon = NoDaemon
  MaxRestarts = 1
SPECIFICATION CrashSpec
CHECK_DEADLOCK FALSE
INVARIANTS
  RestartedIsCopied
PROPERTIES
  OnlyOneAuthorsAdsLeave
