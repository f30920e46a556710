SPECIFICATION SysSpec
CONSTANTS
  MAX_CLIENTS = 3
  MAX_CLUSTERS = 1
  NodeIds = {1, 2, 3}
  RingIds <- Rings
  NoRing = NoRing
  SEQ_MOD = 16
  Names = {"c"}
  InitMsgs <- Inits
  ConfigLists <- AllNodes
  MembershipMsgs <- None
  HeuristicsChanges = {}
  KeepActiveOptions = {}
  ReInit = FALSE
  MaxRings = 2
  MaxDrops = 0
  MaxFlips = 0
  MaxReboots = 0
  InstantDrop = TRUE
CONSTRAINT JoinInOrder
INVARIANTS
  HoldersHaveHalf
  NacksTookEffect
PROPERTIES
  ImplementsHandover
CHECK_DEADLOCK FALSE
