SPECIFICATION ODriveSpec
CONSTANTS
  Platform = "odrive"
  Producer = producer
  Peers = {p1}
  Transfers = {k1, k2}
  Rpdos = {r1}
  RpdoPeriod = 1
  Limits <- NoOrLong
  Period = 1
  Timeout = 1
  PoolSize = 5
  MaxSlots = 5
  Wrap = 16
  MaxLate = 1
  NoOne = NoOne
INVARIANT EveryWaitIsTimed
CHECK_DEADLOCK FALSE
