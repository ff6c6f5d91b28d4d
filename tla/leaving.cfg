SPECIFICATION ClientSpec
CONSTANTS
  FewCalls = {c1, c2, c3}
  FewRevisions = 3
  FewDetails = {home}
  Calls = {c1, c2, c3}
  Keys = {k1, k2}
  Guests = {g1}
  Items = {one, nothing}
  EmptyItems = nothing
  NoCart = NoCart
  FirstCart <- Stocked
  FirstGuest = g1
  Catalogs = {1, 2}
  Details = {home, work}
  MaxRevision = 3
  Weathers = {{"leave"}}
  None = None
  Damaged = Damaged
  g1 = g1  g2 = g2
  one = one  two = two  nothing = nothing
SYMMETRY CallSymmetry
INVARIANTS
  NoOrderForgotten
