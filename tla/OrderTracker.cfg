SPECIFICATION Spec
CONSTANTS
  o1 = o1
  o2 = o2
  Orders <- TwoOrders
  Qty = 2
  Closings = {"CANCELED", "REJECTED"}
  MaxRetries = 1
  MaxCompleted = 1
  Window = 1
  MaxFaults = 1
INVARIANTS
  BooksAreSound
PROPERTIES
  EveryEndIsSeen
  MismatchIsFound
