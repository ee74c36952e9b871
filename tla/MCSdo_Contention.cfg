SPECIFICATION Spec
CONSTANTS
  NoIdx = NoIdx
  Payload = Payload
  fix = fix
  vec = vec
  ro = ro
  wo = wo
  big = big
  Byte <- MCByte
  Zero = 0
  Access <- MCAccess
  Resizable <- MCResizable
  InitData <- MCInitData
  ExpeditedBytes = 1
  SegmentBytes = 2
  BlockModeThreshold = 5
  NumSubBlockSegments = 2
  Chan = {c1, c2}
  Idx = {vec, wo}
  ReadVars <- VectorReads
  WriteVars <- LongWrites
  LocalValues <- LocalOnVec
  CsUnit = 32
  StraySizes <- NoStrays
  MaxOps = 2
  MaxLosses = 1
  TimelyBus = TRUE
INVARIANTS
  EntryOwnership
  TransferIntegrity
  SuccessLeavesNothingBehind
  CallbackSeesWholeWrite
  NobodyWaits
PROPERTIES
  OnlyOwnerWrites
  LockService
CHECK_DEADLOCK FALSE
