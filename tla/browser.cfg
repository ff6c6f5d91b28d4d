SPECIFICATION BrowserSpec
CONSTANTS
  Parts = {"baskets", "session", "profile"}
  Tabs = {t1, t2}
  Lines = {pizza, soup}
  RestaurantOf <- Kitchen
  MaxQuantity = 1
  Guests = {g1}
  FirstGuest = g1
  FirstItems <- Stocked
  MaxRevision = 3
  MaxQueue = 1
  MaxLate = 0
  Weather = {"lost"}
  pizza = pizza
  soup = soup
  luigi = luigi
  nonna = nonna
  Calls = {r1, r2}
  MaxGuests = 5
  MaxBoots = 3
  SessionWeather = {"lost", "expiry"}
  Windows <- OneWindow
  FirstCookie = 1
  MaxScopes = 2
  LegacyOrder <- RetiredKeys
  Names = {"visitor"}
  DefaultName = "visitor"
  BadName = "blank"
  Addresses = {"home", "office"}
  FirstAddress = "home"
  FormTabs <- OneWindow
  FormPages <- AllForms
  FirstStores <- AnyStore
  Faults <- Troubled
  FormWeather = {"leaving"}
  Absent = Absent
  Malformed = Malformed
  Foreign = Foreign
  Old = Old
  Synthetic = Synthetic
  Custom = Custom
  None = None
SYMMETRY BrowserSymmetry
CHECK_DEADLOCK FALSE
INVARIANTS
  TypesOK
  NoStaleWriteFits
  PagesNeverMix
  NoWriteCrossesReset
  ProfileIsHonest
  DeliberateInputKept
PROPERTIES
  NoRowsOfEndedGuest
