SPECIFICATION FairSpec
CONSTANTS
  Message <- MCMessage
  Replies <- MCReplies
  Captures <- MCCaptures
  Specs <- MCSpecs
  Faults = {"loss", "duplication", "reordering", "strangers"}
  MaxFaults = 2

\* The program ends.
CHECK_DEADLOCK FALSE
INVARIANTS
  ReportsAreRight
  WaitsInVainOnlyAfterLoss
  NoSocketIsLeft
PROPERTY
  ReplayEnds
