SPECIFICATION Spec
CONSTANTS
  Headers <- MCHeaders
  TMPSIZ = 4
  Captures <- MixedCaptures
  Answers <- MixedAnswers
  Cuts = "between lines"
  Framing = "any"
  BUFSIZ = 100
  EndOfRequest <- EndOfRequestByte

\* The program ends.
CHECK_DEADLOCK FALSE
INVARIANT
  ReadByItsOwnHeader
