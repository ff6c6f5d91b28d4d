SPECIFICATION CatalogueSpec
CONSTANTS
  Unset = Unset
  NoPromotion = NoPromotion
  NoQuote = NoQuote
  MaxLines = 2
  MaxQuantity = 2
  Catalogs <- AllCatalogs
  Shops <- AllShops
  Baskets <- AllBaskets
  Tips = {0, 200}
  MaxRevision = 2
  LineIds = {a, b}
  None = None
SYMMETRY LineSymmetry
INVARIANTS
  TypesOK
  QuoteIsCharged
  ReceiptAddsUp
  QuoteSurvivesOtherEdits
  BasketMeansOneThing
