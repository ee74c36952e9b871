SPECIFICATION FairSpec
CONSTANTS
  NoIdx = NoIdx
  Payload = Payload
  fix = fix
  vec = vec
  ro = ro
  wo = wo
  big = big
  Byte <- MCByte
  Zero = 0
  Access <- MCAccess
  Resizable <- MCResizable
  InitData <- MCInitData
  ExpeditedBytes = 1
  SegmentBytes = 2
  BlockModeThreshold = 5
  NumSubBlockSegments = 2
  Chan = {c1}
  Idx = {fix, big}
  ReadVars <- BothReads
  WriteVars <- EveryKind
  LocalValues <- NoLocalValues
  CsUnit = 1
  StraySizes <- StrayLengths
  MaxOps = 2
  MaxLosses = 1
  TimelyBus = FALSE
INVARIANTS
  SdoInv
  GenerationFollowsData
PROPERTIES
  EntryReleased
CHECK_DEADLOCK FALSE
