SPECIFICATION Spec
CONSTANTS
  Addr <- MCAddr
  AddrV6 <- MCAddrV6
  Port <- MCPort
  Body = {"m", "garbled"}
  Garbled = "garbled"
  NoData = NoData
  NoKey = NoKey
  Protocol = "TCP"
  DataLink = "EN10MB"
  Frames <- TwoStreams
  Specs <- NoOptions
  MaxActions = 2
  MaxResets = 1

\* A run of the program ends: the phases "loaded" and "failed" are final.
CHECK_DEADLOCK FALSE
INVARIANT
  FirstConnectionRequestIsRecorded
