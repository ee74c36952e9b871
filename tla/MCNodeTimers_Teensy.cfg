SPECIFICATION Spec
CONSTANTS
  Platform = "teensy"
  Producer = producer
  Peers = {p1}
  Transfers = {k1, k2}
  Rpdos = {r1}
  RpdoPeriod = 1
  Limits = {0, 1, 2}
  Period = 1
  Timeout = 1
  PoolSize = 0
  MaxSlots = 3
  Wrap = 16
  MaxLate = 1
  NoOne = NoOne
INVARIANTS EveryWaitIsTimed TimersInv
PROPERTIES NeverEarly TableStable
SYMMETRY Symmetry
CHECK_DEADLOCK FALSE
