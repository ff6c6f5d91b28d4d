SPECIFICATION BrowserSpec
CONSTANTS
  Parts = {"baskets"}
  Tabs = {t1}
  Lines = {pizza, soup}
  RestaurantOf <- Kitchen
  MaxQuantity = 1
  Guests = {g1, g2}
  FirstGuest = g1
  FirstItems <- Stocked
  MaxRevision = 3
  MaxQueue = 1
  MaxLate = 1
  Weather = {"reset"}
  pizza = pizza
  soup = soup
  luigi = luigi
  nonna = nonna
  Calls = {r1}
  MaxGuests = 1
  MaxBoots = 1
  SessionWeather = {}
  Windows <- OneWindow
  FirstCookie = 1
  MaxScopes = 2
  LegacyOrder <- RetiredKeys
  Names = {"visitor"}
  DefaultName = "visitor"
  BadName = "blank"
  Addresses = {"home", "office"}
  FirstAddress = "home"
  FormTabs <- OneWindow
  FormPages <- AllForms
  FirstStores <- AnyStore
  Faults <- Troubled
  FormWeather = {}
  Absent = Absent
  Malformed = Malformed
  Foreign = Foreign
  Old = Old
  Synthetic = Synthetic
  Custom = Custom
  None = None
CHECK_DEADLOCK FALSE
INVARIANT NoStaleWriteFits
