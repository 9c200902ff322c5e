CONSTANTS
  me = me
  bob = bob
  carol = carol
  phone = phone
  laptop = laptop
  tablet = tablet
  NoFile = NoFile
  Torn = Torn
  Me = me
  Others = {bob}
  Devices = {laptop}
  OwnerOf <- OwnerOfDevice
  MaxRooms = 1
  MaxMsgs = 2
  MaxLogins = 2
  MaxStarts = 1
SPECIFICATION FairSpec
CHECK_DEADLOCK FALSE
INVARIANTS
  TypeOK
  
PROPERTIES
  KeepsPromises
  MissedOnlyIfKeyLate
  ClaimedGetKey
  InvitesTaken
