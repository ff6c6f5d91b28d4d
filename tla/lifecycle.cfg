SPECIFICATION LifecycleSpec
CONSTANTS
  Requests = {p1, p2, p3, p4}
  Guests = {g1, g2, g3}
  FirstGuests = {g1, g2}
  Keys = {k1, k2}
  Items = {burger, salad, nothing}
  EmptyItems = nothing
  Catalogs <- OneCatalog
  OpenRows <- AllOpen
  OfferedBy <- AlwaysThere
  Bodies <- LifecycleBodies
  FirstCart <- Stocked
  BatchSize = 2
  NoCart = NoCart
  NoRequest = NoRequest
  NoReply = NoReply
  NoRows = NoRows
  g1 = g1  g2 = g2  g3 = g3
  k1 = k1  k2 = k2
  burger = burger  salad = salad  nothing = nothing
SYMMETRY RequestSymmetry
INVARIANTS
  NoOrphanRows
  ReceiptsAreDurable
  QuoteIsHonoured
