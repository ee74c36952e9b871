SPECIFICATION FairSpec
CONSTANTS
  NoCallback <- NoCb
  Peers = {p1, p2}
  Reported = {Operational}
  Offline = Offline
  Unknown = Unknown
  Garbled = Garbled
  Limits <- TwoLimits
  Intervals <- OneInterval
  MaxInbox = 1
  Mortal = {p1}
  MaxCalls = 2
INVARIANT HeartbeatInv
PROPERTIES PeersMonitored WatchedPeerDetected AlivePeerSeen HeartbeatRecurs
CHECK_DEADLOCK FALSE
