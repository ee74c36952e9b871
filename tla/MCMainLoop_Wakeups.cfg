SPECIFICATION LoopSpec
CONSTANTS
  Callers = {c1, c2}
  Tpdos = {t1}
  Nobody = Nobody
  Damaged = Damaged
  Outside = FALSE
  Callbacks = TRUE
  Batch = 2
  Delays <- OneDelay
  MaxFrames = 2
  MaxFailures = 1
  MaxCalls = 2
  Stops = TRUE
PROPERTIES CallersReturn FramesHandled RequestsAreSent ShutdownJoins
CHECK_DEADLOCK FALSE
