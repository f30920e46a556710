SPECIFICATION SysSpec
CONSTANTS
  MAX_CLIENTS = 2
  MAX_CLUSTERS = 1
  NodeIds = {1, 2}
  RingIds <- Rings
  NoRing = NoRing
  SEQ_MOD = 16
  Names = {"c"}
  InitMsgs <- Inits
  ConfigLists <- AllNodes
  MembershipMsgs <- None
  HeuristicsChanges = {}
  KeepActiveOptions = {}
  ReInit = FALSE
  MaxRings = 2
  MaxDrops = 0
  MaxFlips = 0
  MaxReboots = 0
  InstantDrop = TRUE
PROPERTIES
  AckFollowsLastNack
CHECK_DEADLOCK FALSE
