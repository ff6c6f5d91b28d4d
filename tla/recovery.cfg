SPECIFICATION ClientSpec
CONSTANTS
  Calls = {c1, c2, c3, c4}
  FewCalls = {c1, c2}
  FewRevisions = 2
  FewDetails = {home}
  Keys = {k1, k2}
  Guests = {g1, g2}
  Items = {one, nothing}
  EmptyItems = nothing
  NoCart = NoCart
  FirstCart <- Stocked
  FirstGuest = g1
  Catalogs = {1, 2}
  Details = {home, work}
  MaxRevision = 3
  Weathers = {{}, {"leave"}, {"limited", "expiry", "reset", "leave", "revert"}}
  None = None
  Damaged = Damaged
  g1 = g1  g2 = g2
  one = one  two = two  nothing = nothing
SYMMETRY CallSymmetry
INVARIANTS
  TypeOK
  NoOrderForgottenInCalm
  RejectedMeansNoOrderInCalm
  OneOpenAttempt
  OneBodyPerKey
PROPERTIES
  EvidenceIsTrueAndKept
