CONSTANTS
  MaxLogins = 2
  MaxWire = 3
SPECIFICATION OnlineSpec
CHECK_DEADLOCK FALSE
INVARIANTS
  TypeOK
  SessionsApart
  ShutdownIsLast
  RaisedIsHeard
PROPERTIES
  DisconnectEnds
  MsgFollowsMtx
