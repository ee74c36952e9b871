SPECIFICATION FairSpec
CONSTANTS
  NoCallback <- NoCb
  Peers = {p1}
  Reported = {Operational}
  Offline = Offline
  Unknown = Unknown
  Garbled = Garbled
  Limits <- TwoLimits
  Intervals = {}
  MaxInbox = 1
  Mortal = {p1}
  MaxCalls = 3
PROPERTY DeadPeerDetected
CHECK_DEADLOCK FALSE
