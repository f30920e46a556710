SPECIFICATION PollSpec
CONSTANTS
  MAX_CLIENTS = 4
  NodeIds = {1, 2, 3, 4}
  RingIds = {}
  NoRing = NoRing
  SEQ_MOD = 2
  Splits <- FourAndThree
  TieBreakers <- TwoTieBreakers
  Quorates <- Earlier
  Results = {"PASS", "FAIL"}
INVARIANTS
  StayingClientsDecide
CHECK_DEADLOCK FALSE
