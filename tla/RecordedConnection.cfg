SPECIFICATION ConnectionSpec
CONSTANTS
  Addr <- MCAddr
  AddrV6 <- MCAddrV6
  Port <- MCPort
  Body <- MCBody
  NoData = NoData
  NoKey = NoKey
  Garbled = 0
  Protocol = "TCP"
  DataLink = "EN10MB"
  Frames <- NoFrames
  Specs <- NoFrames
  MaxActions = 20
  MaxResets = 2
  MaxRequests = 2
  MaxResponses = 1
  MaxInFlight = 2
  MaxBeyond = 1
  MaxRetries = 1
  MaxFaults = 1
  Sites <- MCSites

\* The hosts may fall silent.
CHECK_DEADLOCK FALSE
INVARIANTS
  OnlyWhatWasSaid
  ScriptIsWhatTheTapHeard
  RequestsAreInOrder
  ResponsesFollowRequests
