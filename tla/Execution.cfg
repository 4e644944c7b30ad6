SPECIFICATION FairSpec
CONSTANTS
  Qty = 2
  Attempts = 2
  PlanQtys <- Unclamped
INVARIANTS
  TypeOK
  ExposureBounded
  CarriesOnlyFills
  BooksAreTrue
  EndsAsReported
PROPERTIES
  Returns
  ImplementsLifecycle
\* one execution ends, and nothing follows it
CHECK_DEADLOCK FALSE
