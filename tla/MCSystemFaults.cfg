SPECIFICATION SysSpec
CONSTANTS
  MAX_CLIENTS = 2
  MAX_CLUSTERS = 1
  NodeIds = {1, 2}
  RingIds <- Rings
  NoRing = NoRing
  SEQ_MOD = 4
  Names = {"c"}
  InitMsgs <- Inits
  ConfigLists <- AllNodes
  MembershipMsgs <- None
  HeuristicsChanges = {"FAIL"}
  KeepActiveOptions = {}
  ReInit = FALSE
  MaxRings = 3
  MaxDrops = 1
  MaxFlips = 1
  MaxReboots = 1
  InstantDrop = TRUE
CONSTRAINTS
  RingsOrFaults
  UnansweredFit
  JoinInOrder
INVARIANTS
  SysTypeOK
  NoSplitBrain
  NacksTookEffect
CHECK_DEADLOCK FALSE
