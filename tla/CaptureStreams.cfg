SPECIFICATION Spec
CONSTANTS
  Addr <- MCAddr
  AddrV6 <- MCAddrV6
  Port <- MCPort
  Body = {"m", "garbled"}
  Garbled = "garbled"
  NoData = NoData
  NoKey = NoKey
  Protocol = "TCP"
  DataLink = "NULL"
  Frames <- Streams
  Specs <- NoOptions
  MaxActions = 6
  MaxResets = 2
  TheKey <- KeyOfA

\* A run of the program ends: the phases "loaded" and "failed" are final.
CHECK_DEADLOCK FALSE
INVARIANTS
  TypeOK
  ScriptsAreWellFormed
  ConnectionsAreAccountedFor
  ClientIsInitiator
  DataComesFromItsSide
  OnlyTheFirstUnlessConfigured
PROPERTY
  ImplementsScript
