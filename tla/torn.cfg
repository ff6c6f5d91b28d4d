SPECIFICATION Spec
CONSTANTS
  Requests = {p1, p2, p3}
  Guests = {g1}
  FirstGuests = {g1}
  Keys = {k1, k2}
  Items = {burger, salad, nothing}
  EmptyItems = nothing
  Catalogs <- TwoCatalogs
  OpenRows <- AllOpen
  OfferedBy <- SaladLeaves
  Bodies <- QuoteBodies
  FirstCart <- Stocked
  BatchSize = 1
  NoCart = NoCart
  NoRequest = NoRequest
  NoReply = NoReply
  NoRows = NoRows
  g1 = g1  g2 = g2  g3 = g3
  k1 = k1  k2 = k2
  burger = burger  salad = salad  nothing = nothing
SYMMETRY RequestSymmetry
INVARIANT QuoteIsCoherent
