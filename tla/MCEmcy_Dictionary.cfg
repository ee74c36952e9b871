SPECIFICATION NodeSpec
CONSTANTS
  Keys = {0, 1, 2, 3}
  InitTable <- MCInitTable
  KindsAt <- MCKinds
  Values = {v0, v1}
  Initial = v0
  Unheard = Unheard
  BufferKeys = {1}
  Listeners = {l1, l2}
  Transfers = {s1, s2}
  MaxDepth = 2
  MaxCalls = 5
  Register = 0
  Codes = {overcurrent, undervoltage}
  Bits = {Current}
  NoError = NoError
  MaxBus = 2
INVARIANTS DictInv ListenersHearTheLast GenerationTellsChange AllClearIsAnnounced
SYMMETRY Symmetric
CHECK_DEADLOCK FALSE
