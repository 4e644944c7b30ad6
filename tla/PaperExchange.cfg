SPECIFICATION Spec
CONSTANTS
  o1 = o1
  o2 = o2
  o3 = o3
  Orders <- ThreeOrders
  Qtys <- OneLot
  Prices <- TwoPrices
  Fee <- TenPercent
  Base = 1
  Quote = 30
SYMMETRY Interchangeable
INVARIANTS
  TypeOK
  LockedIsReserved
  OnlyLateCancelsFail
PROPERTY
  ImplementsAccount
\* every order that was placed has ended
CHECK_DEADLOCK FALSE
