SPECIFICATION Spec
CONSTANTS
  Conversations <- MCConversations
  EndTag <- MCEndTag
  BUFSIZ = 6
  Window = 4

\* The program ends.
CHECK_DEADLOCK FALSE
INVARIANTS
  ReadsAsWritten
  ComesBack
  OnlyThenComesBack
  TokensArePlaceholders
