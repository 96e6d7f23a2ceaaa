SPECIFICATION FairGraphSpec
CONSTANTS
  MaxNodes = 4
  MaxUses = 2
INVARIANTS SortSafe InputsFirst
PROPERTY ComesUp
CHECK_DEADLOCK FALSE
