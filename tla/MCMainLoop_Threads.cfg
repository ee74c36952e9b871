SPECIFICATION Spec
CONSTANTS
  Callers = {c1, c2}
  Tpdos = {t1}
  Nobody = Nobody
  Damaged = Damaged
  Outside = TRUE
  Callbacks = TRUE
  Batch = 2
  Delays <- TwoDelays
  MaxFrames = 3
  MaxFailures = 0
  MaxCalls = 3
  Stops = FALSE
INVARIANTS LoopInv FramesInOrder HandoverIntoEmpty NoLostWakeup SendsBounded
CHECK_DEADLOCK FALSE
