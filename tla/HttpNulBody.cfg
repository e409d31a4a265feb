SPECIFICATION Spec
CONSTANTS
  Headers <- MCHeaders
  TMPSIZ = 4
  Captures <- NulCaptures
  Answers <- NulAnswers
  Cuts = "between lines"
  Framing = "as captured"
  BUFSIZ = 100
  EndOfRequest <- EndOfRequestByte

\* The program ends.
CHECK_DEADLOCK FALSE
INVARIANT
  SameMeansSameData
