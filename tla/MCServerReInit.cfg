SPECIFICATION Spec
CONSTANTS
  MAX_CLIENTS = 3
  MAX_CLUSTERS = 1
  NodeIds = {1, 2}
  RingIds <- Rings1
  NoRing = NoRing
  SEQ_MOD = 2
  Names = {"a", "b"}
  InitMsgs <- GoodInits
  ConfigLists <- None
  MembershipMsgs <- None
  HeuristicsChanges = {}
  KeepActiveOptions = {}
  ReInit = TRUE
INVARIANTS
  UniqueNodeIds
