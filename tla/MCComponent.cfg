SPECIFICATION FairSpec
CONSTANTS
  MAX_CLIENTS = 2
  Conns = {c1, c2, c3}
  Ends = c1
  Late = c3
  NONE = NONE
  FRAME = 2
  SOCKET_ROOM = 1
  MaxFrames = 2
  MaxChunks = 1
  MaxTotal = 2
CONSTRAINT Bounds
INVARIANTS
  SlotsAgree
  PublishedIsCurrent
PROPERTIES
  ImplementsChannel
  FramesArrive
