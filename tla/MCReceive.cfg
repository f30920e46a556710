SPECIFICATION ReceiveSpec
CONSTANTS
  Slots = {s1, s2}
  Bytes = {0, 1, 2}
  Malformed = {1}
  max_rx_frame_ = 1
  MaxStream = 5
  BYTE = 8
  MAX_NODES_PER_LIST = 2
  MaxLen = 11
  Payloads <- ShortPayloads
  Messages <- AllFrames
  UnknownOptions <- Later
SYMMETRY Symmetry
INVARIANTS
  NothingLostOrMixed
  RestIsIncomplete
  RxStillValid
  MalformedIsLast
  OptionInside
  WalkBounded
  WalkedIsWritten
  RefusedIsMalformed
  ListLimit
  RoundTrip
  UnknownSkipped
  CutIsRefused
CHECK_DEADLOCK FALSE
