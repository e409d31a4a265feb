SPECIFICATION Spec
CONSTANTS
  Headers <- MCHeaders
  TMPSIZ = 4
  Captures <- SplitCaptures
  Answers <- SplitAnswers
  Cuts = "anywhere"
  Framing = "as captured"
  BUFSIZ = 100
  EndOfRequest <- EndOfRequestByte

\* The program ends.
CHECK_DEADLOCK FALSE
INVARIANT
  DataIsConsumed
