CONSTANTS
  me = me
  bob = bob
  carol = carol
  phone = phone
  laptop = laptop
  tablet = tablet
  NoFile = NoFile
  Torn = Torn
  Me = me
  Others = {bob, carol}
  Devices = {}
  OwnerOf <- OwnerOfDevice
  MaxRooms = 2
  MaxMsgs = 2
  MaxLogins = 1
  MaxStarts = 0
SPECIFICATION Spec
CHECK_DEADLOCK FALSE
INVARIANTS
  ReachesItsUser
