CONSTANTS
  s1 = s1
  s2 = s2
  s3 = s3
  NoPort = NoPort
  Daemons = {s1, s2, s3}
  MaxPort = 26
  Foreign = {12, 21}
  DefaultP2p = 10
  DefaultRpc = 20
  P2pBindPort <- NoOption
  RpcBindPort <- S3RpcIs23
  PeerArgs <- PeersGiven
  MaxStarts = 2
SPECIFICATION FairSpec
CHECK_DEADLOCK FALSE
INVARIANTS
  TypeOK
  HigherKnowsLower
  NotOwnPeer
PROPERTIES
  SearchEnds
