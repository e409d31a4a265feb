SPECIFICATION FairSpec
CONSTANTS
  Headers <- MCHeaders
  TMPSIZ = 4
  Captures <- AllCaptures
  Answers <- AllAnswers
  Cuts = "between lines"
  Framing = "as captured"
  BUFSIZ = 6
  EndOfRequest <- EndOfRequestByte

\* The program ends.
CHECK_DEADLOCK FALSE
INVARIANTS
  TypeOK
  SocketIsOpen
  DescriptorsAreAccountedFor
  CompleteWhenWhole
  ReportsAreRight
  EveryResponseIsCompared
  BuffersHold
PROPERTIES
  AnsweredBeforeNextRequest
  ReplayEnds
