SPECIFICATION LoopSpec
CONSTANTS
  Callers = {c1}
  Tpdos = {t1}
  Nobody = Nobody
  Damaged = Damaged
  Outside = TRUE
  Callbacks = FALSE
  Batch = 2
  Delays <- OneDelay
  MaxFrames = 2
  MaxFailures = 1
  MaxCalls = 2
  Stops = FALSE
PROPERTY RequestsAreSent
CHECK_DEADLOCK FALSE
