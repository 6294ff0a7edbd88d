SPECIFICATION Spec
CONSTANTS
  Char = {"a", "b", "x"}
  LF = "lf"
  CR = "cr"
  FIFO_SIZE = 2
  BUF_SIZE = 4
  Texts <- MCTexts
  Leftovers <- MCLeftovers
  MAX_MSGS = 2
  MAX_RX = 3
INVARIANTS
  TypeOK
  NothingLost
  MessagesComplete
  ReceivedInOrder
PROPERTIES
  HeardToTheEnd
CHECK_DEADLOCK FALSE
