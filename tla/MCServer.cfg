SPECIFICATION Spec
CONSTANTS
  MAX_CLIENTS = 2
  MAX_CLUSTERS = 1
  NodeIds = {1, 2, 3}
  RingIds <- Rings3
  NoRing = NoRing
  SEQ_MOD = 2
  Names = {"a", "b"}
  InitMsgs <- MixedInits
  ConfigLists <- TwoOrThree
  MembershipMsgs <- SplitReports
  HeuristicsChanges = {"FAIL"}
  KeepActiveOptions = {FALSE}
  ReInit = FALSE
CONSTRAINT OneVariation
INVARIANTS
  TablesAgree
  TieBreakersAgree
  UniqueNodeIds
  AcksInsideQuoratePartition
  TransferHasDebtor
PROPERTIES
  AcksFollowNacks
  QuorateIsHalf
