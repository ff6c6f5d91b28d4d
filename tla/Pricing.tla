------------------------------ MODULE Pricing ------------------------------
(***************************************************************************)
(* Money: what a quote promises and what an order charges while the        *)
(* catalogue is edited in between.  One guest, with every request atomic   *)
(* (module Checkout takes the same requests apart into statements and      *)
(* abstracts all that is computed here).  A refused request changes        *)
(* nothing and is not a step.                                              *)
(***************************************************************************)
EXTENDS CatalogRules

CONSTANTS
  Catalogs,        \* contents the catalogue tables may be given
  Baskets,         \* baskets clients send, acceptable or not
  Tips,            \* tips clients choose, in cents
  NoPromotion,     \* a request without promotion_code
  NoQuote,         \* the client holds no quote yet
  MaxRevision      \* bound: revisions of the basket that are explored

Promotions == {NoPromotion, "DEMO5"}

Lines == [id : STRING, restaurant : STRING, item : STRING, quantity : Nat,
          picks : Seq(PickRecords)]

ASSUME PricingAssumption ==
  /\ \A c \in Catalogs : IsCatalog(c)
  /\ \A b \in Baskets : b \in Seq(Lines)
  /\ Tips \subseteq 0 .. 10000
  /\ MaxRevision \in Nat
  /\ NoPromotion # "DEMO5"

VARIABLES
  catalog,         \* the two catalogue tables
  cart,            \* the guest's guest_carts row [revision, lines]
  quote,           \* the last quote the client was given, or NoQuote
  receipts         \* the guest's guest_orders rows

vars == <<catalog, cart, quote, receipts>>

-----------------------------------------------------------------------------
SERVICE_FEE_CENTS        == 249
TAX_RATE_NUMERATOR       == 875
TAX_RATE_DENOMINATOR     == 10000
DEMO5_DISCOUNT_CAP_CENTS == 500

\* Variant for a mutant: the discount may exceed what it is taken from.
FlatDiscount(subtotal, promotion) ==
  IF promotion = NoPromotion THEN 0 ELSE DEMO5_DISCOUNT_CAP_CENTS

PromotionDiscount(subtotal, promotion) ==
  IF promotion = NoPromotion THEN 0
  ELSE IF subtotal < DEMO5_DISCOUNT_CAP_CENTS
       THEN subtotal ELSE DEMO5_DISCOUNT_CAP_CENTS

\* What Python's round() does with an exact half: it goes to the even neighbour.
\* Variant for a mutant.
RoundHalfEven(numerator, denominator) ==
  LET low  == numerator \div denominator
      rest == 2 * (numerator % denominator)
  IN IF rest < denominator \/ (rest = denominator /\ low % 2 = 0)
     THEN low ELSE low + 1

RoundHalfUp(numerator, denominator) ==
  (numerator + denominator \div 2) \div denominator

Tax(taxable) == RoundHalfUp(taxable * TAX_RATE_NUMERATOR, TAX_RATE_DENOMINATOR)

Bill(subtotal, deliveryFee, tip, promotion) ==
  LET discount == PromotionDiscount(subtotal, promotion)
      taxable  == subtotal - discount
  IN [subtotal |-> subtotal,
      discount |-> discount,
      delivery |-> deliveryFee,
      service  |-> SERVICE_FEE_CENTS,
      tax      |-> Tax(taxable),
      tip      |-> tip,
      total    |-> taxable + deliveryFee + SERVICE_FEE_CENTS + Tax(taxable) + tip]

Totals(c, lines, tip, promotion) ==
  Bill(Subtotal(c, lines), c.restaurants[lines[1].restaurant].fee, tip, promotion)

-----------------------------------------------------------------------------
ReceiptOptions(group, line) ==
  Filter(group.options, {o \in ToSet(group.options) : o.id \in ToSet(Picked(line, group))})

ReceiptModifiers(groups, line) ==
  LET chosen == Filter(groups, {g \in ToSet(groups) : Picked(line, g) # <<>>})
  IN [k \in DOMAIN chosen |->
       [group   |-> chosen[k].id,
        name    |-> chosen[k].name,
        options |-> [j \in DOMAIN ReceiptOptions(chosen[k], line) |->
          LET o == ReceiptOptions(chosen[k], line)[j]
          IN [id |-> o.id, name |-> o.name, price |-> o.price]]]]

ReceiptLine(m, line) ==
  [id         |-> line.id,
   restaurant |-> line.restaurant,
   item       |-> line.item,
   name       |-> m.name,
   unit       |-> UnitCents(m, line),
   quantity   |-> line.quantity,
   lineTotal  |-> UnitCents(m, line) * line.quantity,
   modifiers  |-> ReceiptModifiers(m.groups, line)]

ReceiptLines(c, lines) ==
  [i \in DOMAIN lines |-> ReceiptLine(c.menu[lines[i].item], lines[i])]

\* Variant for a mutant: modifier prices and bounds are not covered.
PricedWithoutGroups(m) ==
  [name |-> m.name, price |-> m.price, available |-> m.available]

\* What a menu item contributes to the fingerprint.
PricedPart(m) ==
  [name |-> m.name, price |-> m.price, available |-> m.available,
   groups |-> m.groups]

\* Variant for a mutant: every dish counts, in the basket or not.
WholeMenuFingerprint(c, lines) ==
  [restaurant |-> c.restaurants[lines[1].restaurant], menu |-> c.menu]

\* SHA-256 over JSON is taken to separate different payloads.  The pricing
\* version and the rates are in the payload too, and constants of the program.
Fingerprint(c, lines) ==
  LET r == lines[1].restaurant
  IN [restaurant |-> [id |-> r, open |-> c.restaurants[r].open,
                      fee |-> c.restaurants[r].fee],
      menu |-> [item \in {lines[i].item : i \in DOMAIN lines} |->
                 PricedPart(c.menu[item])]]

-----------------------------------------------------------------------------
Init ==
  /\ catalog \in Catalogs
  /\ cart = [revision |-> 0, lines |-> <<>>]
  /\ quote = NoQuote
  /\ receipts = {}

\* Someone rewrites the catalogue tables.
EditCatalog(c) ==
  /\ c # catalog
  /\ catalog' = c
  /\ UNCHANGED <<cart, quote, receipts>>

\* put_cart with the current revision: the basket is stored in canonical form.
SaveCart(lines) ==
  /\ cart.revision < MaxRevision
  /\ Sound(catalog)
  /\ Accepted(Normal(catalog), lines)
  /\ cart' = [revision |-> cart.revision + 1,
              lines    |-> Canonical(Normal(catalog), lines)]
  /\ UNCHANGED <<catalog, quote, receipts>>

\* delete_cart with the current revision.
ClearCart ==
  /\ cart.revision < MaxRevision
  /\ cart' = [revision |-> cart.revision + 1, lines |-> <<>>]
  /\ UNCHANGED <<catalog, quote, receipts>>

\* The checks a quote and an order share, on the basket as it is stored.
Sellable ==
  /\ cart.lines # <<>>
  /\ Sound(catalog)
  /\ Accepted(Normal(catalog), cart.lines)

\* quote_current_cart for the current revision.  Fields snapshot and basket are
\* history: what the quote was computed from.
QuoteFor(snapshot, basket, revision, tip, promotion) ==
  [revision    |-> revision,
   fingerprint |-> Fingerprint(snapshot, Canonical(snapshot, basket)),
   tip         |-> tip,
   promotion   |-> promotion,
   totals      |-> Totals(snapshot, Canonical(snapshot, basket), tip, promotion),
   snapshot    |-> snapshot,
   basket      |-> basket]

GetQuote(tip, promotion) ==
  /\ Sellable
  /\ quote' = QuoteFor(Normal(catalog), cart.lines, cart.revision, tip, promotion)
  /\ UNCHANGED <<catalog, cart, receipts>>

\* submit_order under a fresh key accepts the fingerprint and revision of q.
Honours(q) ==
  /\ q.revision = cart.revision
  /\ Sellable
  /\ Fingerprint(Normal(catalog), Canonical(Normal(catalog), cart.lines))
       = q.fingerprint

\* The order recomputes lines and totals from the catalogue it reads; tip and
\* promotion come with the order and may differ from those of the quote.
Submit(tip, promotion) ==
  /\ quote # NoQuote
  /\ cart.revision < MaxRevision
  /\ Honours(quote)
  /\ LET snapshot == Normal(catalog)
         lines    == Canonical(snapshot, cart.lines)
     IN receipts' = receipts \union
          {[revision  |-> cart.revision,
            lines     |-> ReceiptLines(snapshot, lines),
            tip       |-> tip,
            promotion |-> promotion,
            totals    |-> Totals(snapshot, lines, tip, promotion),
            quote     |-> quote]}
  /\ cart' = [revision |-> cart.revision + 1, lines |-> <<>>]
  /\ UNCHANGED <<catalog, quote>>

Next ==
  \/ \E c \in Catalogs : EditCatalog(c)
  \/ \E b \in Baskets : SaveCart(b)
  \/ ClearCart
  \/ \E tip \in Tips, promotion \in Promotions : GetQuote(tip, promotion)
  \/ \E tip \in Tips, promotion \in Promotions : Submit(tip, promotion)

Spec == Init /\ [][Next]_vars

-----------------------------------------------------------------------------
Money == [subtotal : Nat, discount : Nat, delivery : Nat, service : Nat,
          tax : Nat, tip : Nat, total : Nat]

StoredLines ==
  [id : STRING, restaurant : STRING, item : STRING, name : STRING,
   quantity : 1 .. MaxQuantity, price : Nat \ {0},
   picks : Seq(PickRecords)]

\* Every stored basket has the shape of CartItem, and no amount that is quoted
\* or charged is negative (the bounds of PricingTotals in models.py).
TypeOK ==
  /\ catalog \in Catalogs
  /\ cart \in [revision : 0 .. MaxRevision, lines : Seq(StoredLines)]
  /\ quote # NoQuote => quote.totals \in Money
  /\ \A r \in receipts : r.totals \in Money

\* What a guest is charged is what the guest was quoted: an accepted order has
\* the lines, names and prices the quote was computed from, whatever happened
\* to the catalogue since, and for the same tip and promotion the same totals.
QuoteIsCharged ==
  \A r \in receipts : LET q == r.quote IN
    /\ r.lines = ReceiptLines(q.snapshot, Canonical(q.snapshot, q.basket))
    /\ r.tip = q.tip /\ r.promotion = q.promotion => r.totals = q.totals

\* The tax is the integer nearest to 8.75 % of the discounted subtotal, and a
\* half cent goes up.
IsNearest(tax, taxable) ==
  /\ 2 * TAX_RATE_DENOMINATOR * tax - 2 * TAX_RATE_NUMERATOR * taxable
       <= TAX_RATE_DENOMINATOR
  /\ 2 * TAX_RATE_DENOMINATOR * tax - 2 * TAX_RATE_NUMERATOR * taxable
       > -TAX_RATE_DENOMINATOR

\* A receipt can be added up by its reader: each unit price is the price on the
\* menu plus the options printed under the line (no option is charged twice or
\* charged unseen), the lines make the subtotal, the discount stays in it, and
\* the tax is the nearest integer.
Shown(line) ==
  SumOf([k \in DOMAIN line.modifiers |->
    SumOf([j \in DOMAIN line.modifiers[k].options |->
            line.modifiers[k].options[j].price])])

ReceiptAddsUp ==
  \A r \in receipts :
    /\ \A i \in DOMAIN r.lines : LET l == r.lines[i] IN
         /\ l.unit = r.quote.snapshot.menu[l.item].price + Shown(l)
         /\ l.lineTotal = l.unit * l.quantity
    /\ r.totals.subtotal = SumOf([i \in DOMAIN r.lines |-> r.lines[i].lineTotal])
    /\ r.totals.discount <= r.totals.subtotal
    /\ IsNearest(r.totals.tax, r.totals.subtotal - r.totals.discount)
    /\ r.totals.total = r.totals.subtotal - r.totals.discount
         + r.totals.delivery + r.totals.service + r.totals.tax + r.totals.tip

\* Storing a basket changes nothing about it: the stored form of an acceptable
\* basket is acceptable, is its own stored form, and is priced and printed like
\* the basket that was sent.
CanonicalIsStable ==
  LET c == Normal(catalog) IN
  Sound(catalog) => \A b \in Baskets : Accepted(c, b) =>
    LET k == Canonical(c, b) IN
    /\ Accepted(c, k)
    /\ Canonical(c, k) = k
    /\ ReceiptLines(c, k) = ReceiptLines(c, b)

\* A quote is refused only for a reason: while the basket keeps its revision and
\* its own restaurant and dishes keep what is sold and charged, edits to other
\* dishes, other restaurants, descriptions, or bounds that are only spelt out
\* leave the quote good.
QuoteSurvivesOtherEdits ==
  quote # NoQuote /\ quote.revision = cart.revision /\ Sound(catalog) =>
    LET then == quote.snapshot
        now  == Normal(catalog)
        r    == quote.basket[1].restaurant
    IN /\ r \in DOMAIN now.restaurants
       /\ now.restaurants[r].open = then.restaurants[r].open
       /\ now.restaurants[r].fee = then.restaurants[r].fee
       /\ \A i \in DOMAIN quote.basket : LET m == quote.basket[i].item IN
            /\ m \in DOMAIN now.menu
            /\ now.menu[m].restaurant = r
            /\ \A f \in {"name", "price", "available", "groups"} :
                 now.menu[m][f] = then.menu[m][f]
       => Honours(quote)
=============================================================================
