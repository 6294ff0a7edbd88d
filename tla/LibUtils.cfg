SPECIFICATION Spec
CONSTANTS
  LBLOCKSIZE = 2
  BYTE = 4
  SHORT_BITS = 3
  INT_BITS = 5
  QUAD_BITS = 7
  Cmp <- MCCmp
  Calls <- MCCalls
INVARIANTS
  CallsAsSpecified
  FormatsAsAsked
CHECK_DEADLOCK FALSE
