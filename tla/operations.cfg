SPECIFICATION OperationsSpec
CONSTANTS
  Deploys = {d1, d2}
  Images <- AllImages
  Legacy <- FirstImage
  MaxRuns = 2
  None = None
  Unknown = Unknown
  Retained = {1, 2}
  Jobs = {j1, j2}
  Batch = 1
  MaxBatches = 2
  MaxFailures = 1
  Checkout = Checkout
  Shoppers = {s1, s2}
  Everyone = Everyone
  Window = 2
  PerGuest = 1
  Aggregate = 2
  Skews = {0, 1}
  MaxTime = 4
  MaxAttempts = 2
  Requests = {request}
  Receipts = {1, 2, 3, 4}
  Readers = {1, 2}
  Times = {1, 2}
  PageSize = 1
  MaxAsked = 2
CHECK_DEADLOCK FALSE
INVARIANTS
  TypesOK
  LedgerIsHonest
  CompleteMeansDrained
  BoundsHold
  GatewayIsHonest
  ListsAreWhole
  ShownIsAsked
PROPERTIES
  WorkEnds
