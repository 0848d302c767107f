CONSTANTS
  Keys <- MCKeys
  Fragments <- MCFragments
  BufLen = 6
  MaxCopies = 2
SPECIFICATION Spec
INVARIANTS DeliveredWhole
CHECK_DEADLOCK FALSE
