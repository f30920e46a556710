SPECIFICATION FairSpec
CONSTANTS
  MAX_CLIENTS = 2
  Conns = {c1, c2}
  NONE = NONE
  FRAME = 2
  SOCKET_ROOM = 1
  MaxFrames = 2
  MaxChunks = 1
INVARIANTS
  DescriptorsAgree
PROPERTIES
  ImplementsChannel
  StopsOnlyInSend
CHECK_DEADLOCK FALSE
