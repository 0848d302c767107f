CONSTANTS
  Keys <- MCKeys
  Fragments <- MCFragments
  BufLen = 6
  MaxCopies = 1
SPECIFICATION Spec
INVARIANTS TypeOK DeliveredWhole ArrivedIsDelivered
CHECK_DEADLOCK FALSE
