SPECIFICATION FairBrowserSpec
CONSTANTS
  Parts = {"baskets", "session"}
  Tabs = {t1}
  Lines = {pizza, soup}
  RestaurantOf <- Kitchen
  MaxQuantity = 2
  Guests = {g1}
  FirstGuest = g1
  FirstItems <- Stocked
  MaxRevision = 3
  MaxQueue = 2
  MaxLate = 1
  Weather = {"lost"}
  pizza = pizza
  soup = soup
  luigi = luigi
  nonna = nonna
  Calls = {r1, r2}
  MaxGuests = 8
  MaxBoots = 6
  SessionWeather = {"lost"}
  Windows <- OneWindow
  FirstCookie = 1
  MaxScopes = 2
  LegacyOrder <- RetiredKeys
  Names = {"visitor"}
  DefaultName = "visitor"
  BadName = "blank"
  Addresses = {"home", "office"}
  FirstAddress = "home"
  FormTabs <- OneWindow
  FormPages <- AllForms
  FirstStores <- AnyStore
  Faults <- Troubled
  FormWeather = {}
  Absent = Absent
  Malformed = Malformed
  Foreign = Foreign
  Old = Old
  Synthetic = Synthetic
  Custom = Custom
  None = None
CHECK_DEADLOCK FALSE
PROPERTIES
  EveryClickIsAnswered
  RequestsSettle
