SPECIFICATION Spec
CONSTANTS
  Addr <- MCAddr
  AddrV6 <- MCAddrV6
  Port <- MCPort
  Body = {"m", "garbled"}
  Garbled = "garbled"
  NoData = NoData
  NoKey = NoKey
  Protocol = "UDP"
  DataLink = "EN10MB"
  Frames <- UdpFrames
  Specs <- SomeOptions
  MaxActions = 2
  MaxResets = 0

\* A run of the program ends: the phases "loaded" and "failed" are final.
CHECK_DEADLOCK FALSE
INVARIANTS
  DataComesFromItsSide
  PayloadsAreWhole
  TargetIsAsGiven
  OneConversationPerPair
