SPECIFICATION FairSpec
CONSTANTS
  NoCallback <- NoCb
  t1 = t1
  t2 = t2
  r1 = r1
  r2 = r2
  a = a
  b = b
  c = c
  Tpdos <- OneTpdo
  Rpdos <- OneRpdo
  Map <- SingleMapping
  Entries = {a}
  Values = {v1, v2}
  Initial = v1
  Partial = Partial
  Refused <- RefusedByA
  Payloads <- Singles
  SdoWrites = {}
  LocalWrites = {}
  Parameters <- OwnEntries
  Aborts = TRUE
  Periods <- MixedPeriods
  MaxCalls = 3
INVARIANTS PdoInv NoPdoTimerOutsideOperational EnabledTpdoIsTimed TimeoutMeansSilence
PROPERTIES SilenceIsReported
CHECK_DEADLOCK FALSE
