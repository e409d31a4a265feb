SPECIFICATION Spec
CONSTANTS
  Message <- MCMessage
  Replies <- MCReplies
  Captures <- TwoConversations
  Specs = {}
  Faults = {}
  MaxFaults = 0

\* The program ends.
CHECK_DEADLOCK FALSE
INVARIANT
  ValidatorIsLive
