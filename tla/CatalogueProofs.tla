--------------------------- MODULE CatalogueProofs ---------------------------
(***************************************************************************)
(* What Catalogue promises for every catalogue, basket, tip and promotion: *)
(* the tax is rounded to the nearest cent with halves going up, an order   *)
(* charges what its quote showed, its receipt can be added up, and the     *)
(* browser and the service agree about a basket.                           *)
(***************************************************************************)
EXTENDS Catalogue, RulesProofs

(***************************************************************************)
(* Rounding.                                                               *)
(***************************************************************************)

\* The integer arithmetic of round_half_up_fraction yields the nearest cent
\* for every taxable amount.
THEOREM TaxIsExact == \A taxable \in Nat : IsNearest(Tax(taxable), taxable)
  BY DEF IsNearest, Tax, RoundHalfUp, TAX_RATE_NUMERATOR, TAX_RATE_DENOMINATOR

\* A bill never discounts more than the subtotal, is never negative, and never
\* falls below its fees: the bounds PricingTotals declares.
THEOREM BillsAreSound ==
  ASSUME NEW subtotal \in Nat, NEW fee \in Nat, NEW tip \in Nat,
         NEW promotion \in Promotions
  PROVE  LET bill == Bill(subtotal, fee, tip, promotion)
         IN /\ bill \in Money
            /\ bill.discount <= bill.subtotal
            /\ bill.total >= bill.delivery + bill.service + bill.tip
<1> DEFINE discount == PromotionDiscount(subtotal, promotion)
<1>1. discount \in Nat /\ discount <= subtotal
  BY DEF PromotionDiscount, DEMO5_DISCOUNT_CAP_CENTS
<1>2. subtotal - discount \in Nat
  BY <1>1
<1>3. Tax(subtotal - discount) \in Nat
  <2> DEFINE taxable == subtotal - discount
  <2>1. taxable \in Nat
    BY <1>2
  <2> HIDE DEF taxable
  <2>2. Tax(taxable) \in Nat
    BY <2>1 DEF Tax, RoundHalfUp, TAX_RATE_NUMERATOR, TAX_RATE_DENOMINATOR
  <2> QED
    BY <2>2 DEF taxable
<1> HIDE DEF discount
<1>4. Bill(subtotal, fee, tip, promotion) =
        [subtotal |-> subtotal, discount |-> discount, delivery |-> fee,
         service |-> 249, tax |-> Tax(subtotal - discount), tip |-> tip,
         total |-> (subtotal - discount) + fee + 249
                     + Tax(subtotal - discount) + tip]
  BY DEF Bill, SERVICE_FEE_CENTS, discount
<1> QED
  BY <1>1, <1>2, <1>3, <1>4 DEF Money

(***************************************************************************)
(* The fingerprint.                                                        *)
(***************************************************************************)

\* The part of a menu item that the fingerprint covers decides everything a
\* line is canonicalised to, priced at and printed as.
LEMMA PricedPartDecides ==
  ASSUME NEW m, NEW n, NEW line, PricedPart(m) = PricedPart(n)
  PROVE  /\ CanonicalLine(m, line) = CanonicalLine(n, line)
         /\ UnitCents(m, line) = UnitCents(n, line)
         /\ ReceiptLine(m, line) = ReceiptLine(n, line)
<1>1. m.name = n.name /\ m.price = n.price /\ m.groups = n.groups
  <2>1. /\ PricedPart(m).name = PricedPart(n).name
        /\ PricedPart(m).price = PricedPart(n).price
        /\ PricedPart(m).groups = PricedPart(n).groups
    OBVIOUS
  <2> QED
    BY <2>1 DEF PricedPart
<1>2. UnitCents(m, line) = UnitCents(n, line)
  BY <1>1 DEF UnitCents
<1> QED
  BY <1>1, <1>2 DEF CanonicalLine, ReceiptLine

\* Canonicalisation keeps the lines in place and leaves what they name alone.
LEMMA CanonicalKeepsNames ==
  ASSUME NEW c, NEW lines
  PROVE  /\ DOMAIN Canonical(c, lines) = DOMAIN lines
         /\ \A i \in DOMAIN lines :
              /\ Canonical(c, lines)[i].item = lines[i].item
              /\ Canonical(c, lines)[i].restaurant = lines[i].restaurant
  BY DEF Canonical, CanonicalLine

\* The fields of a fingerprint, as far as prices depend on them.
LEMMA FingerprintContents ==
  ASSUME NEW c, NEW lines, 1 \in DOMAIN lines
  PROVE  LET print == Fingerprint(c, Canonical(c, lines))
         IN /\ print.restaurant.fee = c.restaurants[lines[1].restaurant].fee
            /\ \A i \in DOMAIN lines :
                 print.menu[lines[i].item] = PricedPart(c.menu[lines[i].item])
<1> DEFINE stored == Canonical(c, lines)
           items  == {stored[i].item : i \in DOMAIN stored}
<1>1. /\ DOMAIN stored = DOMAIN lines
      /\ \A i \in DOMAIN lines : stored[i].item = lines[i].item
      /\ stored[1].restaurant = lines[1].restaurant
  BY CanonicalKeepsNames
<1> HIDE DEF stored
<1>2. \A i \in DOMAIN lines : lines[i].item \in items
  BY <1>1
<1>3. /\ Fingerprint(c, stored).restaurant.fee
           = c.restaurants[stored[1].restaurant].fee
      /\ Fingerprint(c, stored).menu = [item \in items |-> PricedPart(c.menu[item])]
  BY DEF Fingerprint
<1> HIDE DEF items
<1> QED
  BY <1>1, <1>2, <1>3 DEF stored

\* Two catalogues with the same fingerprint for a basket store, price and print
\* that basket alike: the fingerprint covers all that an order depends on.
THEOREM FingerprintDecides ==
  ASSUME NEW c, NEW d, NEW lines, 1 \in DOMAIN lines,
         Fingerprint(c, Canonical(c, lines)) = Fingerprint(d, Canonical(d, lines))
  PROVE  /\ ReceiptLines(c, Canonical(c, lines)) = ReceiptLines(d, Canonical(d, lines))
         /\ \A tip, promotion :
              Totals(c, Canonical(c, lines), tip, promotion)
                = Totals(d, Canonical(d, lines), tip, promotion)
<1>1. /\ DOMAIN Canonical(c, lines) = DOMAIN lines
      /\ \A i \in DOMAIN lines : Canonical(c, lines)[i].item = lines[i].item
      /\ Canonical(c, lines)[1].restaurant = lines[1].restaurant
  BY CanonicalKeepsNames
<1>2. /\ Fingerprint(c, Canonical(c, lines)).restaurant.fee
           = c.restaurants[lines[1].restaurant].fee
      /\ Fingerprint(d, Canonical(d, lines)).restaurant.fee
           = d.restaurants[lines[1].restaurant].fee
  BY FingerprintContents
<1>3. c.restaurants[lines[1].restaurant].fee = d.restaurants[lines[1].restaurant].fee
  BY <1>2
<1>4. \A i \in DOMAIN lines :
        PricedPart(c.menu[lines[i].item]) = PricedPart(d.menu[lines[i].item])
  <2>1. \A i \in DOMAIN lines :
          /\ Fingerprint(c, Canonical(c, lines)).menu[lines[i].item]
               = PricedPart(c.menu[lines[i].item])
          /\ Fingerprint(d, Canonical(d, lines)).menu[lines[i].item]
               = PricedPart(d.menu[lines[i].item])
    BY FingerprintContents
  <2> QED
    BY <2>1
<1>5. Canonical(c, lines) = Canonical(d, lines)
  <2>1. \A i \in DOMAIN lines :
          CanonicalLine(c.menu[lines[i].item], lines[i])
            = CanonicalLine(d.menu[lines[i].item], lines[i])
    BY <1>4, PricedPartDecides
  <2> QED
    BY <2>1 DEF Canonical
<1> DEFINE stored == Canonical(c, lines)
<1>6. /\ DOMAIN stored = DOMAIN lines
      /\ \A i \in DOMAIN lines :
           PricedPart(c.menu[stored[i].item]) = PricedPart(d.menu[stored[i].item])
      /\ stored[1].restaurant = lines[1].restaurant
  BY <1>1, <1>4
<1> HIDE DEF stored
<1>7. \A i \in DOMAIN stored :
        /\ UnitCents(c.menu[stored[i].item], stored[i])
             = UnitCents(d.menu[stored[i].item], stored[i])
        /\ ReceiptLine(c.menu[stored[i].item], stored[i])
             = ReceiptLine(d.menu[stored[i].item], stored[i])
  BY <1>6, PricedPartDecides
<1>8. ReceiptLines(c, stored) = ReceiptLines(d, stored)
  BY <1>7 DEF ReceiptLines
<1>9. Subtotal(c, stored) = Subtotal(d, stored)
  <2>1. [i \in DOMAIN stored |-> UnitCents(c.menu[stored[i].item], stored[i]) * stored[i].quantity]
      = [i \in DOMAIN stored |-> UnitCents(d.menu[stored[i].item], stored[i]) * stored[i].quantity]
    BY <1>7
  <2> QED
    BY <2>1 DEF Subtotal
<1>10. \A tip, promotion :
         Totals(c, stored, tip, promotion) = Totals(d, stored, tip, promotion)
  BY <1>3, <1>6, <1>9 DEF Totals
<1> QED
  BY <1>5, <1>8, <1>10 DEF stored

(***************************************************************************)
(* The invariant.                                                          *)
(***************************************************************************)

\* The quote in the client's hands was computed from the basket that its
\* revision names; the revision can only have moved on since.
QuoteInv ==
  /\ cart.revision \in Nat
  /\ cart.lines # <<>> => 1 \in DOMAIN cart.lines
  /\ quote # NoQuote =>
       /\ \E snapshot, lines, revision, tip, promotion :
            quote = QuoteFor(snapshot, lines, revision, tip, promotion)
       /\ 1 \in DOMAIN quote.basket
       /\ quote.revision \in Nat
       /\ quote.revision <= cart.revision
       /\ quote.revision = cart.revision => quote.basket = cart.lines
  /\ QuoteIsCharged

LEMMA InitQuoteInv == Init => QuoteInv
  BY DEF Init, QuoteInv, QuoteIsCharged

\* A quote spells out what it was computed from.
LEMMA QuoteFields ==
  ASSUME quote # NoQuote, QuoteInv
  PROVE  /\ quote.fingerprint
              = Fingerprint(quote.snapshot, Canonical(quote.snapshot, quote.basket))
         /\ quote.totals
              = Totals(quote.snapshot, Canonical(quote.snapshot, quote.basket),
                       quote.tip, quote.promotion)
<1>1. PICK snapshot, lines, revision, tip, promotion :
        quote = QuoteFor(snapshot, lines, revision, tip, promotion)
  BY DEF QuoteInv
<1>2. /\ quote.snapshot = snapshot
      /\ quote.basket = lines
      /\ quote.tip = tip
      /\ quote.promotion = promotion
      /\ quote.fingerprint = Fingerprint(snapshot, Canonical(snapshot, lines))
      /\ quote.totals = Totals(snapshot, Canonical(snapshot, lines), tip, promotion)
  BY <1>1 DEF QuoteFor
<1> QED
  BY <1>2

\* A basket that is stored is empty or has a first line.
LEMMA SavedBaskets ==
  ASSUME NEW c, NEW b \in Baskets, Canonical(c, b) # <<>>
  PROVE  1 \in DOMAIN Canonical(c, b)
<1>1. b \in Seq(Lines)
  BY PricingAssumption
<1>2. DOMAIN Canonical(c, b) = DOMAIN b
  BY DEF Canonical
<1>3. CASE b = <<>>
  <2>1. Canonical(c, b) = [i \in {} |-> CanonicalLine(c.menu[b[i].item], b[i])]
    BY <1>3 DEF Canonical
  <2>2. Canonical(c, b) = <<>>
    BY <2>1
  <2> QED
    BY <2>2
<1>4. CASE b # <<>>
  BY <1>1, <1>2, <1>4
<1> QED
  BY <1>3, <1>4

\* What an accepted order records agrees with the quote it honours.
LEMMA HonouredQuotes ==
  ASSUME quote # NoQuote, QuoteInv, Honours(quote)
  PROVE  LET snapshot == Normal(catalog)
             lines    == Canonical(snapshot, cart.lines)
         IN /\ ReceiptLines(snapshot, lines)
                 = ReceiptLines(quote.snapshot, Canonical(quote.snapshot, quote.basket))
            /\ Totals(snapshot, lines, quote.tip, quote.promotion) = quote.totals
<1>1. quote.basket = cart.lines /\ 1 \in DOMAIN cart.lines
  BY DEF QuoteInv, Honours
<1>2. Fingerprint(Normal(catalog), Canonical(Normal(catalog), cart.lines))
        = Fingerprint(quote.snapshot, Canonical(quote.snapshot, cart.lines))
  BY <1>1, QuoteFields DEF Honours
<1> QED
  BY <1>1, <1>2, FingerprintDecides, QuoteFields

LEMMA NextQuoteInv == QuoteInv /\ [Next]_vars => QuoteInv'
<1> SUFFICES ASSUME QuoteInv, [Next]_vars PROVE QuoteInv'
  OBVIOUS
<1>1. ASSUME NEW c \in Catalogs, EditCatalog(c) PROVE QuoteInv'
  BY <1>1 DEF QuoteInv, QuoteIsCharged, EditCatalog
<1>2. ASSUME NEW b \in Baskets, SaveCart(b) PROVE QuoteInv'
  <2>1. /\ cart'.revision = cart.revision + 1
        /\ cart'.lines # <<>> => 1 \in DOMAIN cart'.lines
    BY <1>2, SavedBaskets DEF SaveCart
  <2> QED
    BY <1>2, <2>1 DEF QuoteInv, QuoteIsCharged, SaveCart
<1>3. CASE ClearCart
  BY <1>3 DEF QuoteInv, QuoteIsCharged, ClearCart
<1>4. ASSUME NEW tip \in Tips, NEW promotion \in Promotions, GetQuote(tip, promotion)
      PROVE  QuoteInv'
  <2>1. quote' = QuoteFor(Normal(catalog), cart.lines, cart.revision, tip, promotion)
    BY <1>4 DEF GetQuote
  <2>2. quote'.basket = cart.lines /\ quote'.revision = cart.revision
    BY <2>1 DEF QuoteFor
  <2>3. 1 \in DOMAIN cart.lines
    BY <1>4 DEF QuoteInv, GetQuote, Sellable
  <2>4. cart' = cart /\ receipts' = receipts
    BY <1>4 DEF GetQuote
  <2> QED
    BY <2>1, <2>2, <2>3, <2>4 DEF QuoteInv, QuoteIsCharged
<1>5. ASSUME NEW tip \in Tips, NEW promotion \in Promotions, Submit(tip, promotion)
      PROVE  QuoteInv'
  <2> DEFINE snapshot == Normal(catalog)
             lines    == Canonical(snapshot, cart.lines)
             receipt  == [revision  |-> cart.revision,
                          lines     |-> ReceiptLines(snapshot, lines),
                          tip       |-> tip,
                          promotion |-> promotion,
                          totals    |-> Totals(snapshot, lines, tip, promotion),
                          quote     |-> quote]
  <2>1. /\ quote # NoQuote
        /\ Honours(quote)
        /\ receipts' = receipts \union {receipt}
        /\ cart' = [revision |-> cart.revision + 1, lines |-> <<>>]
        /\ quote' = quote
    BY <1>5 DEF Submit
  <2>2. /\ receipt.lines = ReceiptLines(quote.snapshot,
                                        Canonical(quote.snapshot, quote.basket))
        /\ receipt.tip = quote.tip /\ receipt.promotion = quote.promotion
             => receipt.totals = quote.totals
    BY <2>1, HonouredQuotes
  <2>3. receipt.quote = quote
    OBVIOUS
  <2> HIDE DEF receipt
  <2>4. QuoteIsCharged'
    BY <2>1, <2>2, <2>3 DEF QuoteInv, QuoteIsCharged
  <2>5. cart'.revision = cart.revision + 1 /\ cart'.lines = <<>>
    BY <2>1
  <2> QED
    BY <2>1, <2>4, <2>5 DEF QuoteInv
<1>6. CASE UNCHANGED vars
  BY <1>6 DEF QuoteInv, QuoteIsCharged, vars
<1> QED
  BY <1>1, <1>2, <1>3, <1>4, <1>5, <1>6 DEF Next

\* Whatever is edited between quote and order, an accepted order charges what
\* was quoted: for every catalogue, basket, tip and length of run.
THEOREM QuotesAreCharged == Spec => []QuoteIsCharged
<1>1. QuoteInv => QuoteIsCharged
  BY DEF QuoteInv
<1> QED
  BY InitQuoteInv, NextQuoteInv, <1>1, PTL DEF Spec
(***************************************************************************)
(* What leaves a quote good.                                               *)
(***************************************************************************)
\* The quote was given for a basket that its snapshot accepts.
QuoteOfAccepted ==
  quote # NoQuote =>
    /\ Accepted(quote.snapshot, quote.basket)
    /\ quote.basket # <<>>

\* A catalogue that agrees with another on what lines names and costs.
SellsAlike(c, d, lines) ==
  LET r == lines[1].restaurant IN
  /\ r \in DOMAIN c.restaurants
  /\ c.restaurants[r].open = d.restaurants[r].open
  /\ c.restaurants[r].fee = d.restaurants[r].fee
  /\ \A i \in DOMAIN lines : LET m == lines[i].item IN
       /\ m \in DOMAIN c.menu /\ c.menu[m].restaurant = r
       /\ \A f \in {"name", "price", "available", "groups"} : c.menu[m][f] = d.menu[m][f]

\* Such a catalogue accepts what the other does.
LEMMA AcceptedAlike ==
  ASSUME NEW c, NEW d, NEW lines, 1 \in DOMAIN lines, SellsAlike(c, d, lines),
         Accepted(d, lines)
  PROVE  Accepted(c, lines)
<1> DEFINE r == lines[1].restaurant
<1>1. ASSUME NEW i \in DOMAIN lines PROVE LineAccepted(c, lines[i])
  <2>1. LineAccepted(d, lines[i]) /\ lines[i].restaurant = r
    BY DEF Accepted
  <2>2. /\ lines[i].item \in DOMAIN c.menu /\ c.menu[lines[i].item].restaurant = r
        /\ r \in DOMAIN c.restaurants /\ c.restaurants[r].open = d.restaurants[r].open
        /\ c.menu[lines[i].item]["available"] = d.menu[lines[i].item]["available"]
        /\ c.menu[lines[i].item]["groups"] = d.menu[lines[i].item]["groups"]
    BY DEF SellsAlike
  <2> QED
    BY <2>1, <2>2 DEF LineAccepted, OnMenu
<1> QED
  BY <1>1 DEF Accepted

\* It also gives the stored basket the same fingerprint.
LEMMA PrintedAlike ==
  ASSUME NEW c, NEW d, NEW lines, 1 \in DOMAIN lines, SellsAlike(c, d, lines)
  PROVE  Fingerprint(c, Canonical(c, lines)) = Fingerprint(d, Canonical(d, lines))
<1> DEFINE r     == lines[1].restaurant
           items == {lines[i].item : i \in DOMAIN lines}
<1>1. ASSUME NEW e
      PROVE  Fingerprint(e, Canonical(e, lines))
               = [restaurant |-> [id |-> r, open |-> e.restaurants[r].open,
                                  fee |-> e.restaurants[r].fee],
                  menu |-> [item \in items |-> PricedPart(e.menu[item])]]
  <2> DEFINE stored == Canonical(e, lines)
  <2>1. /\ DOMAIN stored = DOMAIN lines
        /\ \A i \in DOMAIN lines : stored[i].item = lines[i].item
        /\ stored[1].restaurant = r
    BY CanonicalKeepsNames
  <2> HIDE DEF stored
  <2>2. {stored[i].item : i \in DOMAIN stored} = items
    BY <2>1
  <2>3. Fingerprint(e, stored)
          = [restaurant |-> [id |-> stored[1].restaurant,
                             open |-> e.restaurants[stored[1].restaurant].open,
                             fee |-> e.restaurants[stored[1].restaurant].fee],
             menu |-> [item \in {stored[i].item : i \in DOMAIN stored} |->
                        PricedPart(e.menu[item])]]
    BY DEF Fingerprint
  <2> QED
    BY <2>1, <2>2, <2>3 DEF stored
<1>2. \A item \in items : PricedPart(c.menu[item]) = PricedPart(d.menu[item])
  <2> SUFFICES ASSUME NEW item \in items PROVE PricedPart(c.menu[item]) = PricedPart(d.menu[item])
    OBVIOUS
  <2>1. \A f \in {"name", "price", "available", "groups"} : c.menu[item][f] = d.menu[item][f]
    BY DEF SellsAlike
  <2>2. /\ c.menu[item].name = d.menu[item].name /\ c.menu[item].price = d.menu[item].price
        /\ c.menu[item].available = d.menu[item].available
        /\ c.menu[item].groups = d.menu[item].groups
    BY <2>1
  <2> QED
    BY <2>2 DEF PricedPart
<1>3. c.restaurants[r].open = d.restaurants[r].open /\ c.restaurants[r].fee = d.restaurants[r].fee
  BY DEF SellsAlike
<1> HIDE DEF items, r
<1>4. [item \in items |-> PricedPart(c.menu[item])] = [item \in items |-> PricedPart(d.menu[item])]
  BY <1>2
<1> QED
  BY <1>1, <1>3, <1>4

\* A quote is refused only for a reason: as long as its basket keeps its revision, and its own
\* restaurant and dishes what is sold and charged, every other edit leaves the quote good.
THEOREM QuotesSurviveOtherEdits == Spec => []QuoteSurvivesOtherEdits
<1>1. Init => QuoteInv /\ QuoteOfAccepted
  BY InitQuoteInv DEF Init, QuoteOfAccepted
<1>2. QuoteInv /\ QuoteOfAccepted /\ [Next]_vars => (QuoteInv /\ QuoteOfAccepted)'
  <2> SUFFICES ASSUME QuoteInv, QuoteOfAccepted, [Next]_vars PROVE QuoteOfAccepted'
    BY NextQuoteInv
  <2>1. ASSUME NEW tip \in Tips, NEW promotion \in Promotions, GetQuote(tip, promotion)
        PROVE  QuoteOfAccepted'
    <3>1. quote'.snapshot = Normal(catalog) /\ quote'.basket = cart.lines
      BY <2>1 DEF GetQuote, QuoteFor
    <3> QED
      BY <2>1, <3>1 DEF QuoteOfAccepted, GetQuote, Sellable
  <2>2. CASE UNCHANGED quote
    BY <2>2 DEF QuoteOfAccepted
  <2> QED
    BY <2>1, <2>2 DEF Next, EditCatalog, SaveCart, ClearCart, Submit, vars
<1>3. QuoteInv /\ QuoteOfAccepted => QuoteSurvivesOtherEdits
  <2> SUFFICES ASSUME QuoteInv, QuoteOfAccepted, quote # NoQuote,
                      quote.revision = cart.revision, Sound(catalog),
                      SellsAlike(Normal(catalog), quote.snapshot, quote.basket)
               PROVE  Honours(quote)
    BY DEF QuoteSurvivesOtherEdits, SellsAlike
  <2>1. quote.basket = cart.lines /\ 1 \in DOMAIN cart.lines /\ cart.lines # <<>>
    BY DEF QuoteInv, QuoteOfAccepted
  <2>2. Accepted(Normal(catalog), cart.lines)
    BY <2>1, AcceptedAlike DEF QuoteOfAccepted
  <2>3. Fingerprint(Normal(catalog), Canonical(Normal(catalog), cart.lines)) = quote.fingerprint
    BY <2>1, PrintedAlike, QuoteFields
  <2> QED
    BY <2>1, <2>2, <2>3 DEF Honours, Sellable
<1> QED
  BY <1>1, <1>2, <1>3, PTL DEF Spec

(***************************************************************************)
(* Stored baskets.                                                         *)
(***************************************************************************)
\* The options that a receipt prints under a line make up what the line's picks cost.
LEMMA ShownIs ==
  ASSUME NEW m, DishOK(m), NEW line
  PROVE  Shown(ReceiptLine(m, line)) = InMenuOrder(m.groups, line)
<1> DEFINE groups == m.groups
           S == {g \in ToSet(groups) : Picked(line, g) # <<>>}
           chosen == Filter(groups, S)
           mods == ReceiptModifiers(groups, line)
           a == [k \in DOMAIN mods |->
                  SumOf([j \in DOMAIN mods[k].options |-> mods[k].options[j].price])]
           b == [i \in DOMAIN groups |-> PricesIn(groups[i], ToSet(Picked(line, groups[i])))]
<1>1. groups \in Seq(Groups) /\ Distinct(groups) /\ \A i \in DOMAIN groups : groups[i] \in Groups
  BY DEF DishOK, GroupsOK
<1>2. ASSUME NEW g \in ToSet(groups)
      PROVE  SumOf([j \in DOMAIN ReceiptOptions(g, line) |-> ReceiptOptions(g, line)[j].price])
               = PricesIn(g, ToSet(Picked(line, g)))
  <2>1. g \in Groups /\ Distinct(g.options)
    BY <1>1 DEF DishOK, GroupsOK, ToSet
  <2> QED
    BY <2>1, PricesOfHits DEF ReceiptOptions
<1>3. DOMAIN mods = DOMAIN chosen /\ \A k \in DOMAIN chosen :
        /\ DOMAIN mods[k].options = DOMAIN ReceiptOptions(chosen[k], line)
        /\ \A j \in DOMAIN mods[k].options :
             mods[k].options[j].price = ReceiptOptions(chosen[k], line)[j].price
  BY DEF ReceiptModifiers
<1>4. ToSet(chosen) = ToSet(groups) \cap S
  BY <1>1, FilterKeeps
<1>5. \A k \in DOMAIN chosen : chosen[k] \in ToSet(groups)
  <2>1. \A k \in DOMAIN chosen : chosen[k] \in ToSet(chosen)
    BY DEF ToSet
  <2> HIDE DEF chosen
  <2> QED
    BY <1>4, <2>1
<1>6. Shown(ReceiptLine(m, line)) = SumOf(a)
  BY DEF Shown, ReceiptLine
<1> HIDE DEF mods
<1>7. ASSUME NEW k \in DOMAIN chosen, NEW i \in DOMAIN groups, chosen[k] = groups[i]
      PROVE  a[k] = b[i]
  <2>1. [j \in DOMAIN mods[k].options |-> mods[k].options[j].price]
          = [j \in DOMAIN ReceiptOptions(chosen[k], line) |->
              ReceiptOptions(chosen[k], line)[j].price]
    BY <1>3
  <2>2. a[k] = PricesIn(chosen[k], ToSet(Picked(line, chosen[k])))
    BY <1>2, <1>3, <1>5, <2>1
  <2> HIDE DEF chosen, a
  <2> QED
    BY <1>7, <2>2
<1>8. \A i \in DOMAIN groups : b[i] \in Nat
  BY <1>1, PricesInAreNat
<1>9. ASSUME NEW i \in DOMAIN groups, groups[i] \notin S PROVE b[i] = 0
  <2>1. Picked(line, groups[i]) = <<>>
    BY <1>9 DEF ToSet
  <2>2. ToSet(Picked(line, groups[i])) = {}
    BY <2>1 DEF ToSet
  <2> QED
    BY <1>1, <2>2, PricesInAreNat
<1>10. Kept(a, b, groups, S)
  <2>1. a = [k \in DOMAIN chosen |-> a[k]] /\ b \in [DOMAIN groups -> Nat]
    BY <1>3, <1>8
  <2> HIDE DEF a, b, S
  <2> QED
    BY <1>1, <1>7, <1>9, <2>1 DEF Kept
<1>11. SumOf(a) = SumOf(b)
  <2> HIDE DEF a, b, S, groups
  <2> QED
    BY <1>1, <1>10, SumOfKept
<1> QED
  BY <1>6, <1>11 DEF InMenuOrder

\* An accepted line is stored in a form that is accepted, stays as it is, and costs and
\* prints the same.
LEMMA LinesAreStable ==
  ASSUME NEW c, SnapshotOK(c), NEW line, LineOK(line), LineAccepted(c, line)
  PROVE  LET m == c.menu[line.item]
             k == CanonicalLine(m, line)
         IN /\ Spelt(line) => k \in StoredLines
            /\ LineOK(k) /\ LineAccepted(c, k)
            /\ CanonicalLine(m, k) = k /\ ReceiptLine(m, k) = ReceiptLine(m, line)
            /\ UnitCents(m, k) = m.price + InMenuOrder(m.groups, k)
            /\ UnitCents(m, k) = UnitCents(m, line)
            /\ m.price \in Nat \ {0} /\ InMenuOrder(m.groups, k) \in Nat
<1> DEFINE m == c.menu[line.item]
           k == CanonicalLine(m, line)
<1>1. /\ line.quantity \in 1 .. MaxQuantity /\ OnMenu(c, line)
      /\ c.restaurants[line.restaurant].open /\ m.available /\ PicksAllowed(m.groups, line)
  BY DEF LineAccepted
<1>2. DishOK(m) /\ GroupsOK(m.groups) /\ m \in Dishes
  BY <1>1 DEF OnMenu, SnapshotOK, DishOK
<1>3. PicksApart(line)
  BY <1>1 DEF LineOK, PicksApart, PicksAllowed
<1>4. /\ k.id = line.id /\ k.restaurant = line.restaurant /\ k.item = line.item
      /\ k.name = m.name /\ k.quantity = line.quantity /\ k.price = m.price
      /\ k.picks = CanonicalPicks(m.groups, line)
  BY DEF CanonicalLine
<1>5. \A x : CanonicalLine(m, x) = [id |-> x.id, restaurant |-> x.restaurant, item |-> x.item,
        name |-> m.name, quantity |-> x.quantity, price |-> m.price,
        picks |-> CanonicalPicks(m.groups, x)]
  BY DEF CanonicalLine
<1>6. m.price \in Nat \ {0} /\ m.name \in STRING /\ m.groups \in Seq(Groups)
  BY <1>2 DEF Dishes
<1>7. k = [id |-> line.id, restaurant |-> line.restaurant, item |-> line.item,
           name |-> m.name, quantity |-> line.quantity, price |-> m.price, picks |-> k.picks]
  BY <1>4, <1>5
<1> HIDE DEF m, k
<1>8. /\ PicksApart(k) /\ PicksAllowed(m.groups, k)
      /\ \A g \in ToSet(m.groups) : /\ Picked(k, g) = Picked(line, g)
                                    /\ PickAt(k, g) # 0 <=> PickAt(line, g) # 0
  BY <1>1, <1>2, <1>3, <1>4, CanonicalPicksSame
<1>9. LineOK(k) /\ (Spelt(line) => k \in StoredLines)
  BY <1>1, <1>4, <1>6, <1>7, <1>8 DEF LineOK, Spelt, PicksApart, StoredLines
<1>10. LineAccepted(c, k)
  BY <1>1, <1>4, <1>8 DEF LineAccepted, OnMenu, m
<1>11. CanonicalPicks(m.groups, k) = CanonicalPicks(m.groups, line)
  <2> DEFINE S == {g \in ToSet(m.groups) : PickAt(line, g) # 0}
             R == {g \in ToSet(m.groups) : PickAt(k, g) # 0}
  <2>1. S = R
    BY <1>8
  <2>2. \A i \in DOMAIN Filter(m.groups, S) : Filter(m.groups, S)[i] \in ToSet(m.groups)
    <3>1. ToSet(Filter(m.groups, S)) \subseteq ToSet(m.groups)
      BY <1>6, FilterKeeps
    <3> QED
      BY <3>1 DEF ToSet
  <2>3. CanonicalPicks(m.groups, line)
          = [i \in DOMAIN Filter(m.groups, S) |->
              [group |-> Filter(m.groups, S)[i].id, options |-> Picked(line, Filter(m.groups, S)[i])]]
    BY <1>1, <1>2, <1>3, CanonicalPicksAre
  <2>4. CanonicalPicks(m.groups, k)
          = [i \in DOMAIN Filter(m.groups, R) |->
              [group |-> Filter(m.groups, R)[i].id, options |-> Picked(k, Filter(m.groups, R)[i])]]
    BY <1>2, <1>8, CanonicalPicksAre
  <2> HIDE DEF S, R
  <2> QED
    BY <1>8, <2>1, <2>2, <2>3, <2>4
<1>12. CanonicalLine(m, k) = k
  BY <1>4, <1>5, <1>7, <1>11
<1>13. /\ UnitCents(m, k) = m.price + InMenuOrder(m.groups, k)
       /\ UnitCents(m, line) = m.price + InMenuOrder(m.groups, line)
  BY <1>1, <1>2, <1>3, <1>8, PicksCentsAre DEF UnitCents
<1>14. UnitCents(m, k) = UnitCents(m, line) /\ InMenuOrder(m.groups, k) \in Nat
  BY <1>2, <1>8, <1>13, InMenuOrderSame, InMenuOrderIsNat
<1>15. ReceiptModifiers(m.groups, k) = ReceiptModifiers(m.groups, line)
  <2> DEFINE S == {g \in ToSet(m.groups) : Picked(line, g) # <<>>}
             R == {g \in ToSet(m.groups) : Picked(k, g) # <<>>}
             f == Filter(m.groups, S)
             Row(x, g) == [group |-> g.id, name |-> g.name,
               options |-> [j \in DOMAIN ReceiptOptions(g, x) |->
                 LET o == ReceiptOptions(g, x)[j]
                 IN [id |-> o.id, name |-> o.name, price |-> o.price]]]
  <2>1. S = R
    BY <1>8
  <2>2. \A i \in DOMAIN f : f[i] \in ToSet(m.groups)
    <3>1. ToSet(f) \subseteq ToSet(m.groups)
      BY <1>6, FilterKeeps
    <3> QED
      BY <3>1 DEF ToSet
  <2>3. \A g \in ToSet(m.groups) : ReceiptOptions(g, k) = ReceiptOptions(g, line)
    BY <1>8 DEF ReceiptOptions
  <2>4. \A g \in ToSet(m.groups) : Row(k, g) = Row(line, g)
    BY <2>3
  <2>5. ReceiptModifiers(m.groups, line) = [i \in DOMAIN f |-> Row(line, f[i])]
    BY DEF ReceiptModifiers
  <2>6. ReceiptModifiers(m.groups, k)
          = [i \in DOMAIN Filter(m.groups, R) |-> Row(k, Filter(m.groups, R)[i])]
    BY DEF ReceiptModifiers
  <2> HIDE DEF S, R, Row
  <2>7. ReceiptModifiers(m.groups, k) = [i \in DOMAIN f |-> Row(k, f[i])]
    BY <2>1, <2>6
  <2> HIDE DEF f
  <2> QED
    BY <2>2, <2>4, <2>5, <2>7
<1>16. ReceiptLine(m, k) = ReceiptLine(m, line)
  BY <1>4, <1>14, <1>15 DEF ReceiptLine
<1> QED
  BY <1>6, <1>9, <1>10, <1>12, <1>13, <1>14, <1>16 DEF m, k

\* The same of a whole basket.
LEMMA BasketsAreStable ==
  ASSUME NEW c, SnapshotOK(c), NEW b, BasketOK(b), Accepted(c, b)
  PROVE  LET k == Canonical(c, b)
         IN /\ (\A i \in DOMAIN b : Spelt(b[i])) => k \in Seq(StoredLines)
            /\ DOMAIN k = DOMAIN b /\ BasketOK(k) /\ Accepted(c, k)
            /\ Canonical(c, k) = k /\ ReceiptLines(c, k) = ReceiptLines(c, b)
            /\ \A i \in DOMAIN k : LET m == c.menu[k[i].item] IN
                 /\ UnitCents(m, k[i]) = m.price + InMenuOrder(m.groups, k[i])
                 /\ UnitCents(m, k[i]) = UnitCents(m, b[i]) /\ UnitCents(m, k[i]) \in Nat
                 /\ k[i].quantity = b[i].quantity
<1> DEFINE k == Canonical(c, b)
<1>1. k = [i \in DOMAIN b |-> CanonicalLine(c.menu[b[i].item], b[i])]
  BY DEF Canonical
<1>2. DOMAIN k = DOMAIN b /\ \A i \in DOMAIN b : k[i] = CanonicalLine(c.menu[b[i].item], b[i])
  BY <1>1
<1>3. DOMAIN b = 1 .. Len(b) /\ Len(b) \in Nat
  BY DEF BasketOK
<1> HIDE DEF k
<1>4. ASSUME NEW i \in DOMAIN b
      PROVE  LET m == c.menu[b[i].item] IN
             /\ Spelt(b[i]) => k[i] \in StoredLines
             /\ LineOK(k[i]) /\ LineAccepted(c, k[i])
             /\ k[i].item = b[i].item /\ k[i].id = b[i].id /\ k[i].restaurant = b[i].restaurant
             /\ k[i].quantity = b[i].quantity
             /\ CanonicalLine(m, k[i]) = k[i] /\ ReceiptLine(m, k[i]) = ReceiptLine(m, b[i])
             /\ UnitCents(m, k[i]) = m.price + InMenuOrder(m.groups, k[i])
             /\ UnitCents(m, k[i]) = UnitCents(m, b[i])
             /\ UnitCents(m, k[i]) \in Nat
  <2>1. LineOK(b[i]) /\ LineAccepted(c, b[i])
    BY DEF BasketOK, Accepted
  <2>2. /\ k[i].item = b[i].item /\ k[i].id = b[i].id /\ k[i].restaurant = b[i].restaurant
        /\ k[i].quantity = b[i].quantity
    BY <1>2 DEF CanonicalLine
  <2>3. LET m == c.menu[b[i].item] IN
          /\ Spelt(b[i]) => k[i] \in StoredLines
          /\ LineOK(k[i]) /\ LineAccepted(c, k[i])
          /\ CanonicalLine(m, k[i]) = k[i] /\ ReceiptLine(m, k[i]) = ReceiptLine(m, b[i])
          /\ UnitCents(m, k[i]) = m.price + InMenuOrder(m.groups, k[i])
          /\ UnitCents(m, k[i]) = UnitCents(m, b[i])
          /\ m.price \in Nat \ {0} /\ InMenuOrder(m.groups, k[i]) \in Nat
    BY <1>2, <2>1, LinesAreStable
  <2> QED
    BY <2>2, <2>3
<1>5. /\ Len(k) = Len(b)
      /\ (\A i \in DOMAIN b : Spelt(b[i])) => k \in Seq(StoredLines)
  <2>1. k = [i \in 1 .. Len(b) |-> k[i]]
    BY <1>1, <1>2, <1>3
  <2>2. Len(k) = Len(b)
    BY <1>3, <2>1
  <2>3. ASSUME \A i \in DOMAIN b : Spelt(b[i]) PROVE k \in Seq(StoredLines)
    <3>1. \A i \in 1 .. Len(b) : k[i] \in StoredLines
      BY <1>3, <1>4, <2>3
    <3> QED
      BY <1>3, <2>1, <3>1
  <2> QED
    BY <2>2, <2>3
<1>6. BasketOK(k)
  <2>1. k = [i \in 1 .. Len(b) |-> k[i]]
    BY <1>1, <1>2, <1>3
  <2>2. k \in Seq(ToSet(k))
    BY <1>2, <1>3, <2>1 DEF ToSet
  <2> QED
    BY <1>2, <1>4, <2>2 DEF BasketOK
<1>7. Accepted(c, k)
  BY <1>2, <1>4, <1>5 DEF Accepted, Distinct
<1>8. Canonical(c, k) = k
  <2>1. [i \in DOMAIN k |-> CanonicalLine(c.menu[k[i].item], k[i])] = [i \in DOMAIN b |-> k[i]]
    BY <1>2, <1>4
  <2>2. k = [i \in DOMAIN b |-> k[i]]
    BY <1>1, <1>2
  <2> QED
    BY <2>1, <2>2 DEF Canonical
<1>9. ReceiptLines(c, k) = ReceiptLines(c, b)
  BY <1>2, <1>4 DEF ReceiptLines
<1> QED
  BY <1>2, <1>4, <1>5, <1>6, <1>7, <1>8, <1>9 DEF k

(***************************************************************************)
(* What is on a receipt.                                                   *)
(***************************************************************************)
LEMMA BasketsAreOK ==
  \A b \in Seq(Lines) \union Seq(StoredLines) :
    BasketOK(b) /\ \A i \in DOMAIN b : Spelt(b[i])
<1>1. ASSUME NEW E, NEW b \in Seq(E), \A l \in E : LineOK(l) /\ Spelt(l)
      PROVE  BasketOK(b) /\ \A i \in DOMAIN b : Spelt(b[i])
  <2>1. DOMAIN b = 1 .. Len(b) /\ Len(b) \in Nat /\ \A i \in DOMAIN b : b[i] \in E
    OBVIOUS
  <2>2. b = [i \in 1 .. Len(b) |-> b[i]]
    OBVIOUS
  <2>3. b \in Seq(ToSet(b))
    BY <2>1, <2>2 DEF ToSet
  <2> QED
    BY <1>1, <2>1, <2>3 DEF BasketOK
<1>2. \A l \in Lines : LineOK(l) /\ Spelt(l)
  BY DEF Lines, LineOK, Spelt
<1>3. \A l \in StoredLines : LineOK(l) /\ Spelt(l)
  BY DEF StoredLines, LineOK, Spelt
<1> QED
  BY <1>1, <1>2, <1>3

\* What an accepted basket comes to in its stored form is a bill of natural numbers.
LEMMA TotalsAreABill ==
  ASSUME NEW c, SnapshotOK(c), NEW b, BasketOK(b), Accepted(c, b), b # <<>>
  PROVE  LET k == Canonical(c, b)
             fee == c.restaurants[k[1].restaurant].fee
         IN /\ Subtotal(c, k) \in Nat /\ fee \in Nat
            /\ \A tip, promotion :
                 Totals(c, k, tip, promotion) = Bill(Subtotal(c, k), fee, tip, promotion)
<1> DEFINE k == Canonical(c, b)
           amounts == [i \in DOMAIN k |-> UnitCents(c.menu[k[i].item], k[i]) * k[i].quantity]
<1>1. BasketOK(k) /\ DOMAIN k = DOMAIN b /\ Accepted(c, k)
  BY BasketsAreStable
<1>2. \A i \in DOMAIN k : UnitCents(c.menu[k[i].item], k[i]) \in Nat
  BY BasketsAreStable
<1>3. 1 \in DOMAIN k
  BY <1>1 DEF BasketOK
<1> HIDE DEF k
<1>4. DOMAIN k = 1 .. Len(k) /\ Len(k) \in Nat
  BY <1>1 DEF BasketOK
<1>5. \A i \in DOMAIN k : k[i].quantity \in Nat
  <2>1. \A i \in DOMAIN k : k[i].quantity \in 1 .. MaxQuantity
    BY <1>1 DEF Accepted, LineAccepted
  <2>2. 1 .. MaxQuantity \subseteq Nat
    BY LimitsAssumption
  <2> QED
    BY <2>1, <2>2
<1>6. amounts \in [1 .. Len(k) -> Nat]
  BY <1>2, <1>4, <1>5
<1>7. Subtotal(c, k) \in Nat
  <2>1. Subtotal(c, k) = SumOf(amounts)
    BY DEF Subtotal
  <2> HIDE DEF amounts
  <2> QED
    BY <1>4, <1>6, <2>1, SumIsNat
<1>8. c.restaurants[k[1].restaurant].fee \in Nat
  BY <1>1, <1>3 DEF Accepted, LineAccepted, OnMenu, SnapshotOK
<1>9. \A tip, promotion : Totals(c, k, tip, promotion)
        = Bill(Subtotal(c, k), c.restaurants[k[1].restaurant].fee, tip, promotion)
  BY DEF Totals
<1> QED
  BY <1>7, <1>8, <1>9 DEF k

\* A quote of an accepted basket.
QuoteOK(q) ==
  /\ SnapshotOK(q.snapshot) /\ BasketOK(q.basket)
  /\ Accepted(q.snapshot, q.basket) /\ q.basket # <<>>
  /\ q.tip \in Nat /\ q.promotion \in Promotions
  /\ q.totals = Totals(q.snapshot, Canonical(q.snapshot, q.basket), q.tip, q.promotion)

\* A receipt of such a quote.
ReceiptOK(r) ==
  /\ QuoteOK(r.quote)
  /\ r.lines = ReceiptLines(r.quote.snapshot, Canonical(r.quote.snapshot, r.quote.basket))
  /\ r.tip \in Nat /\ r.promotion \in Promotions
  /\ r.totals = Totals(r.quote.snapshot, Canonical(r.quote.snapshot, r.quote.basket),
                       r.tip, r.promotion)

LEMMA QuotedTotals ==
  ASSUME NEW q, QuoteOK(q), NEW tip \in Nat, NEW promotion \in Promotions
  PROVE  LET k == Canonical(q.snapshot, q.basket)
             totals == Totals(q.snapshot, k, tip, promotion)
         IN /\ totals \in Money /\ totals.subtotal = Subtotal(q.snapshot, k)
            /\ totals.discount <= totals.subtotal
            /\ IsNearest(totals.tax, totals.subtotal - totals.discount)
            /\ totals.total = totals.subtotal - totals.discount
                 + totals.delivery + totals.service + totals.tax + totals.tip
<1> DEFINE c == q.snapshot
           k == Canonical(q.snapshot, q.basket)
           subtotal == Subtotal(c, k)
           fee == c.restaurants[k[1].restaurant].fee
           totals == Totals(c, k, tip, promotion)
<1>1. subtotal \in Nat /\ fee \in Nat /\ totals = Bill(subtotal, fee, tip, promotion)
  BY TotalsAreABill DEF QuoteOK
<1> HIDE DEF subtotal, fee, totals, k
<1> DEFINE bill == Bill(subtotal, fee, tip, promotion)
<1>2. bill \in Money /\ bill.discount <= bill.subtotal
  BY <1>1, BillsAreSound
<1>3. /\ bill.subtotal = subtotal /\ bill.delivery = fee /\ bill.tip = tip
      /\ bill.tax = Tax(bill.subtotal - bill.discount)
      /\ bill.total = (bill.subtotal - bill.discount) + bill.delivery + bill.service
                       + bill.tax + bill.tip
  BY DEF Bill
<1> HIDE DEF bill
<1>4. bill.subtotal - bill.discount \in Nat
  BY <1>2 DEF Money
<1>5. IsNearest(bill.tax, bill.subtotal - bill.discount)
  BY <1>3, <1>4, TaxIsExact
<1>6. totals = bill
  BY <1>1 DEF bill
<1> QED
  BY <1>2, <1>3, <1>5, <1>6 DEF totals, subtotal, k

LEMMA ReceiptsOKAddUp ==
  ASSUME NEW r, ReceiptOK(r)
  PROVE  /\ r.totals \in Money
         /\ \A i \in DOMAIN r.lines : LET l == r.lines[i] IN
              /\ l.unit = r.quote.snapshot.menu[l.item].price + Shown(l)
              /\ l.lineTotal = l.unit * l.quantity
         /\ r.totals.subtotal = SumOf([i \in DOMAIN r.lines |-> r.lines[i].lineTotal])
         /\ r.totals.discount <= r.totals.subtotal
         /\ IsNearest(r.totals.tax, r.totals.subtotal - r.totals.discount)
         /\ r.totals.total = r.totals.subtotal - r.totals.discount
              + r.totals.delivery + r.totals.service + r.totals.tax + r.totals.tip
<1> DEFINE c == r.quote.snapshot
           b == r.quote.basket
           k == Canonical(c, b)
<1>1. QuoteOK(r.quote) /\ r.tip \in Nat /\ r.promotion \in Promotions
  BY DEF ReceiptOK
<1>2. r.lines = ReceiptLines(c, k) /\ r.totals = Totals(c, k, r.tip, r.promotion)
  BY DEF ReceiptOK
<1>3. /\ r.totals \in Money /\ r.totals.subtotal = Subtotal(c, k)
      /\ r.totals.discount <= r.totals.subtotal
      /\ IsNearest(r.totals.tax, r.totals.subtotal - r.totals.discount)
      /\ r.totals.total = r.totals.subtotal - r.totals.discount
           + r.totals.delivery + r.totals.service + r.totals.tax + r.totals.tip
  BY <1>1, <1>2, QuotedTotals
<1>4. Accepted(c, k) /\ \A i \in DOMAIN k : LET m == c.menu[k[i].item] IN
        UnitCents(m, k[i]) = m.price + InMenuOrder(m.groups, k[i])
  BY <1>1, BasketsAreStable DEF QuoteOK
<1>5. SnapshotOK(c)
  BY <1>1 DEF QuoteOK
<1> HIDE DEF c, k
<1>6. DOMAIN r.lines = DOMAIN k /\ \A i \in DOMAIN k : r.lines[i] = ReceiptLine(c.menu[k[i].item], k[i])
  BY <1>2 DEF ReceiptLines
<1>7. ASSUME NEW i \in DOMAIN k
      PROVE  /\ r.lines[i].unit = c.menu[r.lines[i].item].price + Shown(r.lines[i])
             /\ r.lines[i].lineTotal = r.lines[i].unit * r.lines[i].quantity
             /\ r.lines[i].lineTotal = UnitCents(c.menu[k[i].item], k[i]) * k[i].quantity
  <2> DEFINE m == c.menu[k[i].item]
  <2>1. /\ r.lines[i].item = k[i].item /\ r.lines[i].unit = UnitCents(m, k[i])
        /\ r.lines[i].quantity = k[i].quantity
        /\ r.lines[i].lineTotal = UnitCents(m, k[i]) * k[i].quantity
    <3> HIDE DEF m
    <3>1. /\ ReceiptLine(m, k[i]).item = k[i].item
          /\ ReceiptLine(m, k[i]).unit = UnitCents(m, k[i])
          /\ ReceiptLine(m, k[i]).quantity = k[i].quantity
          /\ ReceiptLine(m, k[i]).lineTotal = UnitCents(m, k[i]) * k[i].quantity
      BY DEF ReceiptLine
    <3> QED
      BY <1>6, <3>1 DEF m
  <2>2. DishOK(m)
    BY <1>4, <1>5 DEF Accepted, LineAccepted, OnMenu, SnapshotOK
  <2>3. Shown(r.lines[i]) = InMenuOrder(m.groups, k[i])
    BY <1>6, <2>2, ShownIs
  <2> QED
    BY <1>4, <2>1, <2>3
<1>8. r.totals.subtotal = SumOf([i \in DOMAIN r.lines |-> r.lines[i].lineTotal])
  <2>1. [i \in DOMAIN r.lines |-> r.lines[i].lineTotal]
          = [i \in DOMAIN k |-> UnitCents(c.menu[k[i].item], k[i]) * k[i].quantity]
    BY <1>6, <1>7
  <2> QED
    BY <1>3, <2>1 DEF Subtotal
<1> QED
  BY <1>3, <1>6, <1>7, <1>8 DEF c

\* Every quote and receipt is one of an accepted basket, computed from a normal catalogue.
MoneyInv ==
  /\ QuoteInv
  /\ catalog \in Catalogs
  /\ cart \in [revision : 0 .. MaxRevision, lines : Seq(StoredLines)]
  /\ quote # NoQuote => QuoteOK(quote)
  /\ \A r \in receipts : ReceiptOK(r)

LEMMA ConstantsAreTyped ==
  MaxRevision \in Nat /\ Tips \subseteq Nat /\ \A c \in Catalogs : IsCatalog(c)
<1>1. MaxRevision \in Nat /\ Tips \subseteq 0 .. 10000
  BY PricingAssumption
<1>2. \A c \in Catalogs : IsCatalog(c)
  BY PricingAssumption
<1> QED
  BY <1>1, <1>2

LEMMA InitMoneyInv == Init => MoneyInv
<1> SUFFICES ASSUME Init PROVE MoneyInv
  OBVIOUS
<1>1. QuoteInv
  BY InitQuoteInv
<1>2. cart \in [revision : 0 .. MaxRevision, lines : Seq(StoredLines)]
  <2>1. 0 \in 0 .. MaxRevision /\ <<>> \in Seq(StoredLines)
    BY PricingAssumption
  <2> QED
    BY <2>1 DEF Init
<1> QED
  BY <1>1, <1>2 DEF Init, MoneyInv

\* What an accepted order charges, whatever tip and promotion it comes with.
LEMMA HonouredTotals ==
  ASSUME quote # NoQuote, QuoteInv, Honours(quote)
  PROVE  \A tip, promotion :
           Totals(Normal(catalog), Canonical(Normal(catalog), cart.lines), tip, promotion)
             = Totals(quote.snapshot, Canonical(quote.snapshot, quote.basket), tip, promotion)
<1>1. quote.basket = cart.lines /\ 1 \in DOMAIN cart.lines
  BY DEF QuoteInv, Honours
<1>2. Fingerprint(Normal(catalog), Canonical(Normal(catalog), cart.lines))
        = Fingerprint(quote.snapshot, Canonical(quote.snapshot, cart.lines))
  BY <1>1, QuoteFields DEF Honours
<1> QED
  BY <1>1, <1>2, FingerprintDecides

LEMMA NextMoneyInv == MoneyInv /\ [Next]_vars => MoneyInv'
<1> SUFFICES ASSUME MoneyInv, [Next]_vars PROVE MoneyInv'
  OBVIOUS
<1>1. QuoteInv'
  BY NextQuoteInv DEF MoneyInv
<1>2. IsCatalog(catalog) /\ (Sound(catalog) => SnapshotOK(Normal(catalog)))
  BY ConstantsAreTyped, NormalIsOK DEF MoneyInv
<1>3. /\ cart.revision \in 0 .. MaxRevision /\ cart.lines \in Seq(StoredLines)
      /\ BasketOK(cart.lines)
  BY BasketsAreOK DEF MoneyInv
<1>4. ASSUME NEW c \in Catalogs, EditCatalog(c) PROVE MoneyInv'
  BY <1>1, <1>4 DEF MoneyInv, EditCatalog
<1>5. ASSUME NEW b \in Baskets, SaveCart(b) PROVE MoneyInv'
  <2>1. BasketOK(b) /\ \A i \in DOMAIN b : Spelt(b[i])
    BY PricingAssumption, BasketsAreOK
  <2>2. Canonical(Normal(catalog), b) \in Seq(StoredLines)
    BY <1>2, <1>5, <2>1, BasketsAreStable DEF SaveCart
  <2>3. cart.revision + 1 \in 0 .. MaxRevision
    BY <1>3, <1>5, ConstantsAreTyped DEF SaveCart
  <2>4. cart' \in [revision : 0 .. MaxRevision, lines : Seq(StoredLines)]
    BY <1>5, <2>2, <2>3 DEF SaveCart
  <2> QED
    BY <1>1, <1>5, <2>4 DEF MoneyInv, SaveCart
<1>6. ASSUME cart' = [revision |-> cart.revision + 1, lines |-> <<>>],
             cart.revision < MaxRevision
      PROVE  cart' \in [revision : 0 .. MaxRevision, lines : Seq(StoredLines)]
  <2>1. cart.revision + 1 \in 0 .. MaxRevision /\ <<>> \in Seq(StoredLines)
    BY <1>3, <1>6, ConstantsAreTyped
  <2> QED
    BY <1>6, <2>1
<1>7. CASE ClearCart
  BY <1>1, <1>6, <1>7 DEF MoneyInv, ClearCart
<1>8. ASSUME NEW tip \in Tips, NEW promotion \in Promotions, GetQuote(tip, promotion)
      PROVE  MoneyInv'
  <2>1. quote' = QuoteFor(Normal(catalog), cart.lines, cart.revision, tip, promotion)
    BY <1>8 DEF GetQuote
  <2>2. /\ quote'.snapshot = Normal(catalog) /\ quote'.basket = cart.lines
        /\ quote'.tip = tip /\ quote'.promotion = promotion
        /\ quote'.totals = Totals(Normal(catalog), Canonical(Normal(catalog), cart.lines),
                                  tip, promotion)
    BY <2>1 DEF QuoteFor
  <2>3. /\ cart.lines # <<>> /\ SnapshotOK(Normal(catalog))
        /\ Accepted(Normal(catalog), cart.lines) /\ tip \in Nat
    BY <1>2, <1>8, ConstantsAreTyped DEF GetQuote, Sellable
  <2>4. QuoteOK(quote')
    BY <1>3, <2>2, <2>3 DEF QuoteOK
  <2> QED
    BY <1>1, <1>8, <2>4 DEF MoneyInv, GetQuote
<1>9. ASSUME NEW tip \in Tips, NEW promotion \in Promotions, Submit(tip, promotion)
      PROVE  MoneyInv'
  <2> DEFINE snapshot == Normal(catalog)
             lines    == Canonical(snapshot, cart.lines)
             receipt  == [revision  |-> cart.revision,
                          lines     |-> ReceiptLines(snapshot, lines),
                          tip       |-> tip,
                          promotion |-> promotion,
                          totals    |-> Totals(snapshot, lines, tip, promotion),
                          quote     |-> quote]
  <2>1. /\ quote # NoQuote /\ Honours(quote) /\ cart.revision < MaxRevision
        /\ receipts' = receipts \union {receipt}
        /\ cart' = [revision |-> cart.revision + 1, lines |-> <<>>]
        /\ quote' = quote /\ catalog' = catalog
    BY <1>9 DEF Submit
  <2>2. /\ receipt.quote = quote /\ receipt.tip = tip /\ receipt.promotion = promotion
        /\ receipt.lines = ReceiptLines(snapshot, lines)
        /\ receipt.totals = Totals(snapshot, lines, tip, promotion)
    OBVIOUS
  <2> HIDE DEF receipt
  <2>3. QuoteOK(quote) /\ tip \in Nat
    BY <2>1, ConstantsAreTyped DEF MoneyInv
  <2>4. /\ ReceiptLines(snapshot, lines)
             = ReceiptLines(quote.snapshot, Canonical(quote.snapshot, quote.basket))
        /\ Totals(snapshot, lines, tip, promotion)
             = Totals(quote.snapshot, Canonical(quote.snapshot, quote.basket), tip, promotion)
    BY <2>1, HonouredQuotes, HonouredTotals DEF MoneyInv
  <2>5. ReceiptOK(receipt)
    BY <2>2, <2>3, <2>4 DEF ReceiptOK
  <2> QED
    BY <1>1, <1>6, <2>1, <2>3, <2>5 DEF MoneyInv
<1>10. CASE UNCHANGED vars
  BY <1>1, <1>10 DEF MoneyInv, vars
<1> QED
  BY <1>4, <1>5, <1>7, <1>8, <1>9, <1>10 DEF Next

LEMMA MoneyHolds == Spec => []MoneyInv
  BY InitMoneyInv, NextMoneyInv, PTL DEF Spec

\* Every stored basket has the shape of CartItem, whatever was sent, and nothing quoted or
\* charged is negative.
THEOREM PricingTypes == Spec => []TypeOK
<1>1. MoneyInv => TypeOK
  <2> SUFFICES ASSUME MoneyInv PROVE TypeOK
    OBVIOUS
  <2>1. ASSUME quote # NoQuote PROVE quote.totals \in Money
    <3>1. QuoteOK(quote)
      BY <2>1 DEF MoneyInv
    <3>2. /\ quote.tip \in Nat /\ quote.promotion \in Promotions
          /\ quote.totals = Totals(quote.snapshot, Canonical(quote.snapshot, quote.basket),
                                   quote.tip, quote.promotion)
      BY <3>1 DEF QuoteOK
    <3> QED
      BY <3>1, <3>2, QuotedTotals
  <2>2. \A r \in receipts : r.totals \in Money
    BY ReceiptsOKAddUp DEF MoneyInv
  <2> QED
    BY <2>1, <2>2 DEF MoneyInv, TypeOK
<1> QED
  BY <1>1, MoneyHolds, PTL

\* A reader of a receipt can add it up: unit prices from the menu and the options printed,
\* the subtotal from the lines, and the total from the rest, for every menu and basket.
THEOREM ReceiptsAddUp == Spec => []ReceiptAddsUp
<1>1. MoneyInv => ReceiptAddsUp
  <2> SUFFICES ASSUME MoneyInv, NEW r \in receipts
      PROVE  /\ \A i \in DOMAIN r.lines : LET l == r.lines[i] IN
                  /\ l.unit = r.quote.snapshot.menu[l.item].price + Shown(l)
                  /\ l.lineTotal = l.unit * l.quantity
             /\ r.totals.subtotal = SumOf([i \in DOMAIN r.lines |-> r.lines[i].lineTotal])
             /\ r.totals.discount <= r.totals.subtotal
             /\ IsNearest(r.totals.tax, r.totals.subtotal - r.totals.discount)
             /\ r.totals.total = r.totals.subtotal - r.totals.discount
                  + r.totals.delivery + r.totals.service + r.totals.tax + r.totals.tip
    BY DEF ReceiptAddsUp
  <2>1. ReceiptOK(r)
    BY DEF MoneyInv
  <2> QED
    BY <2>1, ReceiptsOKAddUp
<1> QED
  BY <1>1, MoneyHolds, PTL

LEMMA StableInMoneyInv == MoneyInv => CanonicalIsStable
<1> SUFFICES ASSUME MoneyInv, Sound(catalog), NEW b \in Baskets,
                    Accepted(Normal(catalog), b)
    PROVE  LET c == Normal(catalog)
               k == Canonical(c, b)
           IN /\ Accepted(c, k) /\ Canonical(c, k) = k
              /\ ReceiptLines(c, k) = ReceiptLines(c, b)
  BY DEF CanonicalIsStable
<1>1. SnapshotOK(Normal(catalog))
  BY ConstantsAreTyped, NormalIsOK DEF MoneyInv
<1>2. BasketOK(b)
  BY PricingAssumption, BasketsAreOK
<1> QED
  BY <1>1, <1>2, BasketsAreStable

\* Storing a basket changes nothing about it: the stored form is accepted, is its own stored
\* form, and is priced and printed like the basket that was sent.
THEOREM StoringIsStable == Spec => []CanonicalIsStable
  BY StableInMoneyInv, MoneyHolds, PTL

(***************************************************************************)
(* What the item page keeps.                                               *)
(***************************************************************************)
\* One pick per group of the dish, in their order, with options on offer, each once.
PicksFollow(groups, picks) ==
  /\ picks \in [DOMAIN groups -> PickRecords]
  /\ \A k \in DOMAIN groups :
       /\ picks[k].group = groups[k].id /\ IsInjective(picks[k].options)
       /\ \A o \in ToSet(picks[k].options) : Offers(groups[k], o)

LEMMA DefaultsFollow ==
  ASSUME NEW m, DishOK(m)
  PROVE  PicksFollow(m.groups, DefaultPicks(m))
<1>1. m.groups \in Seq(Groups) /\ \A k \in DOMAIN m.groups : m.groups[k] \in Groups
  BY DEF DishOK, GroupsOK
<1>2. ASSUME NEW k \in DOMAIN m.groups
      PROVE  LET g == m.groups[k]
                 options == IF g.default # Unset /\ Offers(g, g.default) THEN <<g.default>> ELSE <<>>
             IN /\ g.id \in STRING /\ options \in Seq(STRING) /\ IsInjective(options)
                /\ \A o \in ToSet(options) : Offers(g, o)
  <2> DEFINE g == m.groups[k]
  <2>1. g.id \in STRING /\ g.default \in STRING \union {Unset}
    BY <1>1 DEF Groups
  <2> HIDE DEF g
  <2>2. CASE g.default # Unset /\ Offers(g, g.default)
    <3>1. g.default \in STRING /\ <<g.default>> \in Seq(STRING)
      BY <2>1, <2>2
    <3>2. ToSet(<<g.default>>) = {g.default} /\ IsInjective(<<g.default>>)
      BY DEF ToSet, IsInjective
    <3> QED
      BY <2>1, <2>2, <3>1, <3>2 DEF g
  <2>3. CASE ~(g.default # Unset /\ Offers(g, g.default))
    <3>1. ToSet(<<>>) = {} /\ IsInjective(<<>>) /\ <<>> \in Seq(STRING)
      BY DEF ToSet, IsInjective
    <3> QED
      BY <2>1, <2>3, <3>1 DEF g
  <2> QED
    BY <2>2, <2>3
<1> QED
  BY <1>2 DEF PicksFollow, DefaultPicks, PickRecords

\* Picking other options on offer.
LEMMA RepickFollows ==
  ASSUME NEW groups, NEW picks, PicksFollow(groups, picks), NEW k \in DOMAIN groups,
         NEW options \in Seq(STRING), IsInjective(options),
         \A o \in ToSet(options) : Offers(groups[k], o)
  PROVE  PicksFollow(groups, [picks EXCEPT ![k].options = options])
<1> DEFINE next == [picks EXCEPT ![k].options = options]
<1>1. picks \in [DOMAIN groups -> PickRecords] /\ picks[k] \in PickRecords
  BY DEF PicksFollow
<1>2. /\ DOMAIN next = DOMAIN groups
      /\ next = [j \in DOMAIN groups |-> next[j]]
      /\ next[k] = [group |-> picks[k].group, options |-> options]
      /\ \A j \in DOMAIN groups \ {k} : next[j] = picks[j]
  BY <1>1 DEF PickRecords
<1> HIDE DEF next
<1>3. picks[k].group \in STRING
  BY <1>1 DEF PickRecords
<1>4. next[k] \in PickRecords
  BY <1>2, <1>3 DEF PickRecords
<1>5. next \in [DOMAIN groups -> PickRecords]
  BY <1>1, <1>2, <1>4
<1>6. \A j \in DOMAIN groups :
        /\ next[j].group = groups[j].id /\ IsInjective(next[j].options)
        /\ \A o \in ToSet(next[j].options) : Offers(groups[j], o)
  BY <1>2 DEF PicksFollow
<1> QED
  BY <1>5, <1>6 DEF PicksFollow, next

\* A toggle keeps the options of a group apart.
LEMMA ToggledOptions ==
  ASSUME NEW E, NEW picked \in Seq(E), IsInjective(picked), NEW o \in E
  PROVE  /\ o \notin ToSet(picked) =>
              /\ Append(picked, o) \in Seq(E) /\ IsInjective(Append(picked, o))
              /\ ToSet(Append(picked, o)) = ToSet(picked) \union {o}
         /\ LET rest == Filter(picked, ToSet(picked) \ {o}) IN
              /\ rest \in Seq(E) /\ IsInjective(rest)
              /\ ToSet(rest) \subseteq ToSet(picked)
<1>1. ASSUME o \notin ToSet(picked) PROVE IsInjective(Append(picked, o))
  <2>1. \A i \in DOMAIN picked : picked[i] # o
    BY <1>1 DEF ToSet
  <2> QED
    BY <2>1 DEF IsInjective
<1>2. ToSet(Append(picked, o)) = ToSet(picked) \union {o} /\ Append(picked, o) \in Seq(E)
  BY ToSetOfMore
<1>3. LET rest == Filter(picked, ToSet(picked) \ {o}) IN
        /\ rest \in Seq(E) /\ IsInjective(rest) /\ ToSet(rest) \subseteq ToSet(picked)
  BY FilterKeeps, FilterDistinct
<1> QED
  BY <1>1, <1>2, <1>3, Zenon

LEMMA ClampedIsIn ==
  ASSUME NEW q \in Int
  PROVE  Clamped(q) \in 1 .. MaxQuantity
<1>1. MaxQuantity \in Nat \ {0}
  BY LimitsAssumption
<1>2. \A a, b \in Int : /\ Max({a, b}) = IF a >= b THEN a ELSE b
                        /\ Min({a, b}) = IF a =< b THEN a ELSE b
  <2> SUFFICES ASSUME NEW a \in Int, NEW b \in Int
               PROVE  /\ Max({a, b}) = IF a >= b THEN a ELSE b
                      /\ Min({a, b}) = IF a =< b THEN a ELSE b
    OBVIOUS
  <2>1. \A x \in {a, b} : (\A y \in {a, b} : x >= y) <=> x = IF a >= b THEN a ELSE b
    OBVIOUS
  <2>2. \A x \in {a, b} : (\A y \in {a, b} : x =< y) <=> x = IF a =< b THEN a ELSE b
    OBVIOUS
  <2>3. (IF a >= b THEN a ELSE b) \in {a, b} /\ (IF a =< b THEN a ELSE b) \in {a, b}
    OBVIOUS
  <2>4. Max({a, b}) = IF a >= b THEN a ELSE b
    BY <2>1, <2>3 DEF Max
  <2>5. Min({a, b}) = IF a =< b THEN a ELSE b
    BY <2>2, <2>3 DEF Min
  <2> QED
    BY <2>4, <2>5
<1>3. Min({MaxQuantity, q}) = (IF MaxQuantity =< q THEN MaxQuantity ELSE q)
  BY <1>1, <1>2
<1>4. Max({1, Min({MaxQuantity, q})})
        = IF 1 >= Min({MaxQuantity, q}) THEN 1 ELSE Min({MaxQuantity, q})
  BY <1>1, <1>2, <1>3
<1> QED
  BY <1>1, <1>3, <1>4 DEF Clamped

(***************************************************************************)
(* The storefront's invariant.                                             *)
(***************************************************************************)
\* A line as the service stores it.
PlacedOK(l) ==
  /\ l = [id |-> l.id, restaurant |-> l.restaurant, item |-> l.item, name |-> l.name,
          quantity |-> l.quantity, price |-> l.price, picks |-> l.picks]
  /\ l.id \in LineIds /\ l.quantity \in 1 .. MaxQuantity /\ LineOK(l)

BasketPlaced(b) == b \in Seq(ToSet(b)) /\ \A i \in DOMAIN b : PlacedOK(b[i])

\* An item page, whose catalogue may have been edited since it was read.
ItemPageOK(p) ==
  /\ p = [at |-> "item", snapshot |-> p.snapshot, item |-> p.item, quantity |-> p.quantity,
          picks |-> p.picks]
  /\ SnapshotOK(p.snapshot) /\ p.item \in DOMAIN p.snapshot.menu
  /\ p.quantity \in 1 .. MaxQuantity
  /\ PicksFollow(p.snapshot.menu[p.item].groups, p.picks)

BasketPageOK(p) == p.at = "basket" /\ SnapshotOK(p.snapshot)

\* The basket was stored by the service, and a page holds picks of its own catalogue.
ShopInv ==
  /\ shop \in Shops
  /\ BasketPlaced(basket)
  /\ page # None => ItemPageOK(page) \/ BasketPageOK(page)

LEMMA PlacedOf ==
  ASSUME NEW E, NEW b \in Seq(E), \A l \in E : PlacedOK(l)
  PROVE  BasketPlaced(b)
<1>1. DOMAIN b = 1 .. Len(b) /\ Len(b) \in Nat /\ \A i \in DOMAIN b : b[i] \in E
  OBVIOUS
<1>2. b = [i \in 1 .. Len(b) |-> b[i]]
  OBVIOUS
<1>3. b \in Seq(ToSet(b))
  BY <1>1, <1>2 DEF ToSet
<1> QED
  BY <1>1, <1>3 DEF BasketPlaced

LEMMA EntriesPlaced ==
  ASSUME NEW b, BasketPlaced(b)
  PROVE  /\ DOMAIN b = 1 .. Len(b) /\ Len(b) \in Nat
         /\ \A l \in ToSet(b) : PlacedOK(l)
  BY DEF BasketPlaced, ToSet

LEMMA InitShopInv == ShopInit => ShopInv
<1> SUFFICES ASSUME ShopInit PROVE ShopInv
  OBVIOUS
<1>1. BasketPlaced(<<>>)
  <2> DEFINE E == {}
  <2>1. <<>> \in Seq(E) /\ \A l \in E : PlacedOK(l)
    OBVIOUS
  <2> HIDE DEF E
  <2> QED
    BY <2>1, PlacedOf
<1> QED
  BY <1>1 DEF ShopInit, ShopInv

\* What is sent of a basket is what the rules look at.
LEMMA RequestsAre ==
  ASSUME NEW lines, BasketPlaced(lines)
  PROVE  LET sent == Request(lines) IN
         /\ DOMAIN sent = DOMAIN lines /\ BasketOK(sent)
         /\ \A i \in DOMAIN lines :
              /\ sent[i].id = lines[i].id /\ sent[i].restaurant = lines[i].restaurant
              /\ sent[i].item = lines[i].item /\ sent[i].quantity = lines[i].quantity
              /\ sent[i].picks = lines[i].picks
<1> DEFINE sent == Request(lines)
<1>1. DOMAIN sent = DOMAIN lines /\ \A i \in DOMAIN lines :
        /\ sent[i].id = lines[i].id /\ sent[i].restaurant = lines[i].restaurant
        /\ sent[i].item = lines[i].item /\ sent[i].quantity = lines[i].quantity
        /\ sent[i].picks = lines[i].picks
  BY DEF Request
<1>2. sent = [i \in DOMAIN lines |-> sent[i]]
  BY DEF Request
<1>3. DOMAIN lines = 1 .. Len(lines) /\ Len(lines) \in Nat
  BY EntriesPlaced
<1> HIDE DEF sent
<1>4. sent \in Seq(ToSet(sent))
  BY <1>1, <1>2, <1>3 DEF ToSet
<1>5. \A i \in DOMAIN sent : LineOK(sent[i])
  BY <1>1 DEF BasketPlaced, PlacedOK, LineOK
<1> QED
  BY <1>1, <1>4, <1>5 DEF BasketOK, sent

\* Whatever is sent of placed lines, what the service stores is placed.
LEMMA PutIsPlaced ==
  ASSUME ShopInv, NEW lines, BasketPlaced(lines), Put(lines)
  PROVE  BasketPlaced(basket')
<1> DEFINE c == Normal(shop)
           sent == Request(lines)
           k == Canonical(c, sent)
<1>1. CASE ~(Sound(shop) /\ Accepted(c, sent))
  BY <1>1 DEF Put, ShopInv
<1>2. CASE Sound(shop) /\ Accepted(c, sent)
  <2>1. basket' = k
    BY <1>2 DEF Put
  <2>2. SnapshotOK(c)
    BY <1>2, StorefrontAssumption, NormalIsOK DEF ShopInv
  <2>3. /\ BasketOK(sent) /\ DOMAIN sent = DOMAIN lines
        /\ \A i \in DOMAIN lines : sent[i].id = lines[i].id
    BY RequestsAre
  <2>4. /\ DOMAIN k = DOMAIN sent
        /\ \A i \in DOMAIN sent : k[i] = CanonicalLine(c.menu[sent[i].item], sent[i])
    BY DEF Canonical
  <2>5. BasketOK(k) /\ Accepted(c, k)
    BY <1>2, <2>2, <2>3, BasketsAreStable
  <2> HIDE DEF c, sent, k
  <2>6. ASSUME NEW i \in DOMAIN k PROVE PlacedOK(k[i])
    <3>1. \A m, l : /\ CanonicalLine(m, l) = [id |-> l.id, restaurant |-> l.restaurant,
                         item |-> l.item, name |-> m.name, quantity |-> l.quantity,
                         price |-> m.price, picks |-> CanonicalPicks(m.groups, l)]
      BY DEF CanonicalLine
    <3>2. k[i].id \in LineIds
      BY <2>3, <2>4, <3>1 DEF BasketPlaced, PlacedOK
    <3>3. k[i].quantity \in 1 .. MaxQuantity /\ LineOK(k[i])
      BY <2>5 DEF Accepted, LineAccepted, BasketOK
    <3>4. k[i] = [id |-> k[i].id, restaurant |-> k[i].restaurant, item |-> k[i].item,
                  name |-> k[i].name, quantity |-> k[i].quantity, price |-> k[i].price,
                  picks |-> k[i].picks]
      BY <2>4, <3>1
    <3> QED
      BY <3>2, <3>3, <3>4 DEF PlacedOK
  <2>7. BasketPlaced(k)
    BY <2>5, <2>6 DEF BasketOK, BasketPlaced
  <2> QED
    BY <2>1, <2>7
<1> QED
  BY <1>1, <1>2

\* The line that the item page puts together.
LEMMA ComposedIsPlaced ==
  ASSUME ItemPageOK(page), NEW id \in LineIds
  PROVE  /\ PlacedOK(Composed(id))
         /\ BasketPlaced(<<Composed(id)>>)
         /\ BasketPlaced(basket) => BasketPlaced(Append(basket, Composed(id)))
<1>1. PlacedOK(Composed(id))
  <2> DEFINE l == Composed(id)
  <2>1. /\ l = [id |-> id, restaurant |-> Item.restaurant, item |-> page.item,
                name |-> Item.name, quantity |-> page.quantity, price |-> Item.price,
                picks |-> page.picks]
    BY DEF Composed
  <2>2. /\ l.id = id /\ l.restaurant = Item.restaurant /\ l.item = page.item
        /\ l.name = Item.name /\ l.quantity = page.quantity /\ l.price = Item.price
        /\ l.picks = page.picks
    BY <2>1
  <2>3. page.picks \in Seq(PickRecords)
    <3> DEFINE groups == page.snapshot.menu[page.item].groups
    <3>1. groups \in Seq(Groups)
      BY DEF ItemPageOK, SnapshotOK, DishOK, GroupsOK
    <3>2. page.picks \in [DOMAIN groups -> PickRecords]
      BY DEF ItemPageOK, PicksFollow
    <3> HIDE DEF groups
    <3> QED
      BY <3>1, <3>2
  <2> HIDE DEF l
  <2>4. l = [id |-> l.id, restaurant |-> l.restaurant, item |-> l.item, name |-> l.name,
             quantity |-> l.quantity, price |-> l.price, picks |-> l.picks]
    BY <2>1, <2>2
  <2>5. PlacedOK(l)
    BY <2>2, <2>3, <2>4 DEF PlacedOK, LineOK, ItemPageOK
  <2> QED
    BY <2>5 DEF l
<1> DEFINE l == Composed(id)
<1> HIDE DEF l
<1>2. PlacedOK(l)
  BY <1>1 DEF l
<1>3. BasketPlaced(<<l>>)
  <2> DEFINE E == {l}
  <2>1. <<l>> \in Seq(E) /\ \A e \in E : PlacedOK(e)
    BY <1>2
  <2> HIDE DEF E
  <2> QED
    BY <2>1, PlacedOf
<1>4. ASSUME BasketPlaced(basket) PROVE BasketPlaced(Append(basket, l))
  <2> DEFINE E == ToSet(basket) \union {l}
  <2>1. basket \in Seq(E)
    <3>1. basket \in Seq(ToSet(basket))
      BY <1>4 DEF BasketPlaced
    <3> QED
      BY <3>1
  <2>2. \A e \in E : PlacedOK(e)
    BY <1>2, <1>4, EntriesPlaced
  <2>3. l \in E
    OBVIOUS
  <2> HIDE DEF E
  <2>4. Append(basket, l) \in Seq(E)
    BY <2>1, <2>3
  <2> QED
    BY <2>2, <2>4, PlacedOf
<1> QED
  BY <1>2, <1>3, <1>4 DEF l

\* A line whose quantity changes, and a basket that loses a line.
LEMMA ChangedIsPlaced ==
  ASSUME BasketPlaced(basket), NEW i \in DOMAIN basket, NEW q \in 1 .. MaxQuantity
  PROVE  BasketPlaced([basket EXCEPT ![i].quantity = q])
<1> DEFINE l == [basket[i] EXCEPT !.quantity = q]
           E == ToSet(basket) \union {l}
           b == [basket EXCEPT ![i] = l]
<1>1. PlacedOK(basket[i])
  BY DEF BasketPlaced
<1>2. /\ l.id = basket[i].id /\ l.picks = basket[i].picks /\ l.quantity = q
      /\ l = [id |-> l.id, restaurant |-> l.restaurant, item |-> l.item, name |-> l.name,
              quantity |-> l.quantity, price |-> l.price, picks |-> l.picks]
  BY <1>1 DEF PlacedOK
<1> HIDE DEF l
<1>3. PlacedOK(l)
  BY <1>1, <1>2 DEF PlacedOK, LineOK
<1>4. \A e \in E : PlacedOK(e)
  BY <1>3, EntriesPlaced
<1>5. basket \in Seq(E) /\ l \in E
  <2>1. basket \in Seq(ToSet(basket))
    BY DEF BasketPlaced
  <2> QED
    BY <2>1
<1> HIDE DEF E
<1>6. b \in Seq(E)
  BY <1>5
<1>7. [basket EXCEPT ![i].quantity = q] = b
  BY DEF l
<1> HIDE DEF b
<1> QED
  BY <1>4, <1>6, <1>7, PlacedOf

LEMMA RemovedIsPlaced ==
  ASSUME BasketPlaced(basket), NEW i \in DOMAIN basket
  PROVE  BasketPlaced(RemoveAt(basket, i))
<1> DEFINE E == ToSet(basket)
<1>1. basket \in Seq(E) /\ \A e \in E : PlacedOK(e)
  BY EntriesPlaced DEF BasketPlaced
<1>2. i \in 1 .. Len(basket)
  BY EntriesPlaced
<1> HIDE DEF E
<1>3. RemoveAt(basket, i) \in Seq(E)
  BY <1>1, <1>2 DEF RemoveAt
<1> QED
  BY <1>1, <1>3, PlacedOf

LEMMA NextShopInv == ShopInv /\ [ShopNext]_shopVars => ShopInv'
<1> SUFFICES ASSUME ShopInv, [ShopNext]_shopVars PROVE ShopInv'
  OBVIOUS
<1>1. ASSUME NEW c \in Shops, EditShop(c) PROVE ShopInv'
  BY <1>1 DEF ShopInv, EditShop
<1>2. ASSUME Sound(shop)
      PROVE  SnapshotOK(Normal(shop)) /\ DOMAIN Normal(shop).menu = DOMAIN shop.menu
  BY <1>2, StorefrontAssumption, NormalIsOK DEF ShopInv
<1>3. 1 \in 1 .. MaxQuantity
  BY LimitsAssumption
<1>4. ASSUME NEW item \in DOMAIN shop.menu, OpenItem(item) PROVE ShopInv'
  <2> DEFINE c == Normal(shop)
             p == [at |-> "item", snapshot |-> c, item |-> item, quantity |-> 1,
                   picks |-> DefaultPicks(c.menu[item])]
  <2>1. page' = p /\ shop' = shop /\ basket' = basket
    BY <1>4 DEF OpenItem
  <2>2. SnapshotOK(c) /\ item \in DOMAIN c.menu
    BY <1>2, <1>4 DEF OpenItem
  <2>3. PicksFollow(c.menu[item].groups, DefaultPicks(c.menu[item]))
    BY <2>2, DefaultsFollow DEF SnapshotOK
  <2> HIDE DEF c
  <2>4. ItemPageOK(p)
    BY <1>3, <2>2, <2>3 DEF ItemPageOK
  <2> HIDE DEF p
  <2> QED
    BY <2>1, <2>4 DEF ShopInv
<1>5. ASSUME At("item") PROVE page # None /\ ItemPageOK(page)
  BY <1>5 DEF At, ShopInv, BasketPageOK
<1>6. CASE PickOption
  <2> DEFINE groups == Item.groups
  <2>1. At("item") /\ ItemPageOK(page) /\ shop' = shop /\ basket' = basket
    BY <1>5, <1>6 DEF PickOption
  <2>2. PICK k \in DOMAIN page.picks : \E o \in ToSet(OnOffer(groups[k])) :
          PickSingle(k, o.id) \/ Toggle(k, o.id)
    BY <1>6 DEF PickOption
  <2>3. PICK o \in ToSet(OnOffer(groups[k])) : PickSingle(k, o.id) \/ Toggle(k, o.id)
    BY <2>2
  <2>4. /\ groups \in Seq(Groups) /\ PicksFollow(groups, page.picks)
        /\ DOMAIN page.picks = DOMAIN groups
    BY <2>1 DEF ItemPageOK, Item, SnapshotOK, DishOK, GroupsOK, PicksFollow
  <2> HIDE DEF groups
  <2>5. groups[k] \in Groups /\ groups[k].options \in Seq(Options)
    <3>1. groups[k] \in Groups
      BY <2>4
    <3> QED
      BY <3>1 DEF Groups
  <2>6. o \in Options /\ o.id \in STRING /\ Offers(groups[k], o.id)
    <3>1. o \in ToSet(groups[k].options) /\ o.available
      BY <2>5, FilterKeeps DEF OnOffer
    <3>2. o \in Options
      BY <2>5, <3>1 DEF ToSet
    <3> QED
      BY <3>1, <3>2 DEF Offers, Options
  <2>7. ASSUME NEW options \in Seq(STRING), IsInjective(options),
               \A x \in ToSet(options) : Offers(groups[k], x), Repick(k, options)
        PROVE  ShopInv'
    <3> DEFINE picks == [page.picks EXCEPT ![k].options = options]
               p == [page EXCEPT !.picks = picks]
    <3>1. PicksFollow(groups, picks)
      BY <2>4, <2>7, RepickFollows
    <3>2. page' = p
      BY <2>7 DEF Repick
    <3> HIDE DEF picks
    <3>3. /\ p.picks = picks /\ p.snapshot = page.snapshot /\ p.item = page.item
          /\ p.quantity = page.quantity
          /\ p = [at |-> "item", snapshot |-> p.snapshot, item |-> p.item,
                  quantity |-> p.quantity, picks |-> p.picks]
      BY <2>1 DEF ItemPageOK
    <3> HIDE DEF p
    <3>4. ItemPageOK(p)
      BY <2>1, <3>1, <3>3 DEF ItemPageOK, Item, groups
    <3> QED
      BY <2>1, <3>2, <3>4 DEF ShopInv
  <2> DEFINE picked == page.picks[k].options
  <2>8. /\ picked \in Seq(STRING) /\ IsInjective(picked)
        /\ \A x \in ToSet(picked) : Offers(groups[k], x)
    BY <2>4 DEF PicksFollow, PickRecords
  <2>9. CASE PickSingle(k, o.id)
    <3>1. /\ <<o.id>> \in Seq(STRING) /\ IsInjective(<<o.id>>)
          /\ \A x \in ToSet(<<o.id>>) : Offers(groups[k], x)
      BY <2>6 DEF IsInjective, ToSet
    <3> QED
      BY <2>7, <2>9, <3>1 DEF PickSingle
  <2>10. CASE Toggle(k, o.id)
    <3> DEFINE rest == Filter(picked, ToSet(picked) \ {o.id})
    <3>1. \/ Repick(k, rest)
          \/ o.id \notin ToSet(picked) /\ Repick(k, Append(picked, o.id))
      BY <2>10 DEF Toggle
    <3> HIDE DEF picked
    <3>2. /\ o.id \notin ToSet(picked) =>
               /\ Append(picked, o.id) \in Seq(STRING) /\ IsInjective(Append(picked, o.id))
               /\ ToSet(Append(picked, o.id)) = ToSet(picked) \union {o.id}
          /\ rest \in Seq(STRING) /\ IsInjective(rest) /\ ToSet(rest) \subseteq ToSet(picked)
      <4> DEFINE E == STRING
      <4>1. picked \in Seq(E) /\ o.id \in E
        BY <2>6, <2>8
      <4> HIDE DEF E
      <4> QED
        BY <2>8, <4>1, ToggledOptions DEF E
    <3> HIDE DEF rest
    <3>3. CASE Repick(k, rest)
      BY <2>7, <2>8, <3>2, <3>3
    <3>4. CASE o.id \notin ToSet(picked) /\ Repick(k, Append(picked, o.id))
      BY <2>6, <2>7, <2>8, <3>2, <3>4
    <3> QED
      BY <3>1, <3>3, <3>4
  <2> QED
    BY <2>3, <2>9, <2>10
<1>7. ASSUME NEW delta \in {-1, 1}, SetQuantity(delta) PROVE ShopInv'
  <2> DEFINE q == Clamped(page.quantity + delta)
             p == [page EXCEPT !.quantity = q]
  <2>1. ItemPageOK(page) /\ page' = p /\ shop' = shop /\ basket' = basket
    BY <1>5, <1>7 DEF SetQuantity
  <2>2. q \in 1 .. MaxQuantity
    <3>1. page.quantity + delta \in Int
      BY <2>1, LimitsAssumption DEF ItemPageOK
    <3> QED
      BY <3>1, ClampedIsIn
  <2> HIDE DEF q
  <2>3. /\ p.quantity = q /\ p.snapshot = page.snapshot /\ p.item = page.item
        /\ p.picks = page.picks
        /\ p = [at |-> "item", snapshot |-> p.snapshot, item |-> p.item,
                quantity |-> p.quantity, picks |-> p.picks]
    BY <2>1 DEF ItemPageOK
  <2> HIDE DEF p
  <2>4. ItemPageOK(p)
    BY <2>1, <2>2, <2>3 DEF ItemPageOK
  <2> QED
    BY <2>1, <2>4 DEF ShopInv
<1>8. ASSUME NEW id \in LineIds, AddToCart(id) PROVE ShopInv'
  <2>1. ItemPageOK(page) /\ page' = None /\ shop' = shop /\ BasketPlaced(basket)
    BY <1>5, <1>8 DEF AddToCart, ShopInv
  <2> DEFINE lines == IF SameRestaurant THEN Append(basket, Composed(id)) ELSE <<Composed(id)>>
  <2>2. Put(lines)
    BY <1>8 DEF AddToCart
  <2>3. BasketPlaced(lines)
    BY <2>1, ComposedIsPlaced
  <2> HIDE DEF lines
  <2>4. BasketPlaced(basket')
    BY <2>2, <2>3, PutIsPlaced
  <2> QED
    BY <2>1, <2>4 DEF ShopInv, BasketPlaced
<1>9. CASE OpenBasket
  <2> DEFINE p == [at |-> "basket", snapshot |-> Normal(shop)]
  <2>1. page' = p /\ shop' = shop /\ basket' = basket /\ SnapshotOK(Normal(shop))
    BY <1>2, <1>9 DEF OpenBasket
  <2>2. BasketPageOK(p)
    BY <2>1 DEF BasketPageOK
  <2> HIDE DEF p
  <2> QED
    BY <2>1, <2>2 DEF ShopInv
<1>10. ASSUME NEW i \in DOMAIN basket, RemoveLine(i) PROVE ShopInv'
  <2>1. BasketPlaced(RemoveAt(basket, i)) /\ Put(RemoveAt(basket, i))
    BY <1>10, RemovedIsPlaced DEF ShopInv, RemoveLine
  <2>2. BasketPlaced(basket')
    BY <2>1, PutIsPlaced
  <2> QED
    BY <1>10, <2>2 DEF ShopInv, RemoveLine, BasketPlaced
<1>11. ASSUME NEW i \in DOMAIN basket, NEW delta \in {-1, 1}, ChangeLine(i, delta)
       PROVE  ShopInv'
  <2> DEFINE q == Clamped(basket[i].quantity + delta)
             lines == [basket EXCEPT ![i].quantity = q]
  <2>1. Put(lines) /\ shop' = shop /\ page' = page
    BY <1>11 DEF ChangeLine
  <2>2. q \in 1 .. MaxQuantity
    <3>1. basket[i].quantity + delta \in Int
      BY LimitsAssumption DEF ShopInv, BasketPlaced, PlacedOK
    <3> QED
      BY <3>1, ClampedIsIn
  <2> HIDE DEF q
  <2>3. BasketPlaced(lines)
    BY <2>2, ChangedIsPlaced DEF ShopInv
  <2> HIDE DEF lines
  <2>4. BasketPlaced(basket')
    BY <2>1, <2>3, PutIsPlaced
  <2> QED
    BY <2>1, <2>4 DEF ShopInv, BasketPlaced
<1>12. CASE Leave
  BY <1>12 DEF ShopInv, Leave
<1>13. CASE UNCHANGED shopVars
  BY <1>13 DEF ShopInv, shopVars
<1> QED
  BY <1>1, <1>4, <1>6, <1>7, <1>8, <1>9, <1>10, <1>11, <1>12, <1>13 DEF ShopNext

LEMMA ShopHolds == ShopSpec => []ShopInv
  BY InitShopInv, NextShopInv, PTL DEF ShopSpec

(***************************************************************************)
(* What the browser shows, and what the service makes of it.               *)
(***************************************************************************)
\* For picks that the rules allow, the two sums agree term by term.
LEMMA ItemTotalIs ==
  ASSUME NEW m, DishOK(m), NEW line, LineOK(line), PicksAllowed(m.groups, line)
  PROVE  ItemTotal(m, line) = UnitCents(m, line)
<1> DEFINE a == [k \in DOMAIN line.picks |->
                  IF line.picks[k].group \in Ids(m.groups)
                  THEN Delta(ById(m.groups, line.picks[k].group), line.picks[k].options) ELSE 0]
           b == [k \in DOMAIN line.picks |->
                  PickCents(ById(m.groups, line.picks[k].group), line.picks[k].options)]
<1>1. m.groups \in Seq(Groups) /\ Distinct(m.groups)
  BY DEF DishOK, GroupsOK
<1>2. ASSUME NEW k \in DOMAIN line.picks PROVE a[k] = b[k]
  <2> DEFINE p == line.picks[k]
             g == ById(m.groups, p.group)
  <2>1. p \in ToSet(line.picks) /\ p \in PickRecords
    BY DEF LineOK, ToSet
  <2>2. /\ p.group \in Ids(m.groups) /\ IsInjective(p.options) /\ p.options \in Seq(STRING)
        /\ \A o \in ToSet(p.options) : Offers(g, o)
    BY <2>1 DEF PicksAllowed, PickRecords
  <2>3. PICK i \in DOMAIN m.groups : m.groups[i].id = p.group
    BY <2>2 DEF Ids, ToSet
  <2>4. g = m.groups[i]
    BY <1>1, <2>3, ByIdFinds
  <2>5. g \in Groups /\ Distinct(g.options)
    <3>1. m.groups[i] \in Groups /\ m.groups[i] \in ToSet(m.groups)
      BY <1>1 DEF ToSet
    <3> QED
      BY <2>4, <3>1 DEF DishOK, GroupsOK
  <2> HIDE DEF p, g
  <2>6. Delta(g, p.options) = PickCents(g, p.options)
    BY <2>2, <2>5, PricesOfHits, PickCentsAre DEF Delta
  <2> QED
    BY <2>2, <2>6 DEF p, g
<1>3. a = b
  BY <1>2
<1> HIDE DEF a, b
<1> QED
  BY <1>3 DEF ItemTotal, UnitCents, PicksCents, a, b

\* Rules and prices look at no more of a line than this.
LEMMA AllowedAlike ==
  ASSUME NEW groups, NEW line, NEW other, line.picks = other.picks
  PROVE  /\ PicksAllowed(groups, line) <=> PicksAllowed(groups, other)
         /\ \A g : Picked(line, g) = Picked(other, g)
<1>1. \A g : Picked(line, g) = Picked(other, g)
  BY DEF Picked, PickAt
<1> QED
  BY <1>1 DEF PicksAllowed

LEMMA AcceptedLineAlike ==
  ASSUME NEW c, NEW line, NEW other, line.picks = other.picks, line.item = other.item,
         line.restaurant = other.restaurant, line.quantity = other.quantity
  PROVE  LineAccepted(c, line) <=> LineAccepted(c, other)
  BY AllowedAlike DEF LineAccepted, OnMenu

\* What passes the item page's check is allowed.
LEMMA ComposedPicksAllowed ==
  ASSUME NEW m, DishOK(m), NEW line, PicksFollow(m.groups, line.picks), ItemValid(m, line)
  PROVE  LineOK(line) /\ PicksAllowed(m.groups, line)
<1> DEFINE groups == m.groups
<1>1. groups \in Seq(Groups) /\ Distinct(groups)
  BY DEF DishOK, GroupsOK
<1>2. /\ line.picks \in [DOMAIN groups -> PickRecords] /\ DOMAIN line.picks = DOMAIN groups
      /\ \A k \in DOMAIN groups :
           /\ line.picks[k].group = groups[k].id /\ IsInjective(line.picks[k].options)
           /\ \A o \in ToSet(line.picks[k].options) : Offers(groups[k], o)
  BY DEF PicksFollow
<1>3. LineOK(line)
  <2> HIDE DEF groups
  <2> QED
    BY <1>1, <1>2 DEF LineOK
<1>4. \A i, j \in DOMAIN line.picks : line.picks[i].group = line.picks[j].group => i = j
  BY <1>1, <1>2 DEF Distinct
<1>5. ASSUME NEW p \in ToSet(line.picks)
      PROVE  /\ p.group \in Ids(groups) /\ IsInjective(p.options)
             /\ \A o \in ToSet(p.options) : Offers(ById(groups, p.group), o)
  <2>1. PICK k \in DOMAIN groups : p = line.picks[k]
    BY <1>2 DEF ToSet
  <2>2. ById(groups, p.group) = groups[k]
    BY <1>1, <1>2, <2>1, ByIdFinds
  <2>3. p.group \in Ids(groups)
    BY <1>2, <2>1 DEF Ids, ToSet
  <2> QED
    BY <1>2, <2>1, <2>2, <2>3
<1>6. ASSUME NEW g \in ToSet(groups) PROVE Len(Picked(line, g)) \in g.least .. g.most
  <2>1. GroupValid(g, Picked(line, g)) /\ g.least \in Nat /\ g.most \in Nat
    BY DEF ItemValid, DishOK, BoundsOK
  <2>2. Len(Picked(line, g)) \in Nat
    <3> DEFINE E == STRING
    <3>1. Picked(line, g) \in Seq(E)
      BY <1>3, <1>4, PickedIsSeq DEF PicksApart, LineOK
    <3> HIDE DEF E
    <3> QED
      BY <3>1
  <2> QED
    BY <2>1, <2>2 DEF GroupValid
<1> QED
  BY <1>3, <1>4, <1>5, <1>6 DEF PicksAllowed

\* On an item page that shows the current catalogue.
LEMMA CurrentItem ==
  ASSUME ShopInv, At("item"), UpToDate, CanAdd
  PROVE  /\ SnapshotOK(Normal(shop)) /\ ItemPageOK(page) /\ page.snapshot = Normal(shop)
         /\ page.item \in DOMAIN Normal(shop).menu /\ Item = Normal(shop).menu[page.item]
         /\ DishOK(Item) /\ Item.restaurant \in DOMAIN Normal(shop).restaurants
         /\ \A line : line.picks = page.picks =>
              LineOK(line) /\ PicksAllowed(Item.groups, line)
<1>1. ItemPageOK(page) /\ page.snapshot = Normal(shop)
  BY DEF ShopInv, At, BasketPageOK, UpToDate
<1>2. /\ SnapshotOK(Normal(shop)) /\ page.item \in DOMAIN Normal(shop).menu
      /\ Item = Normal(shop).menu[page.item] /\ PicksFollow(Item.groups, page.picks)
  BY <1>1 DEF ItemPageOK, Item
<1>3. DishOK(Item) /\ Item.restaurant \in DOMAIN Normal(shop).restaurants
  BY <1>2 DEF SnapshotOK
<1>4. ASSUME NEW line, line.picks = page.picks
      PROVE  LineOK(line) /\ PicksAllowed(Item.groups, line)
  <2> DEFINE made == [picks |-> page.picks]
  <2>1. made.picks = page.picks /\ ItemValid(Item, made)
    BY DEF CanAdd
  <2> HIDE DEF made
  <2>2. LineOK(made) /\ PicksAllowed(Item.groups, made)
    BY <1>2, <1>3, <2>1, ComposedPicksAllowed
  <2> QED
    BY <1>4, <2>1, <2>2, AllowedAlike DEF LineOK
<1> QED
  BY <1>1, <1>2, <1>3, <1>4

LEMMA ComposedAccepted == ShopInv => ComposedIsAccepted
<1> SUFFICES ASSUME ShopInv, At("item"), UpToDate, CanAdd, NEW id \in LineIds, Fresh(id)
    PROVE  /\ Accepted(Normal(shop), Request(<<Composed(id)>>))
           /\ SameRestaurant /\ Len(basket) < MaxLines /\ Accepted(Normal(shop), Request(basket))
                => Accepted(Normal(shop), Request(Append(basket, Composed(id))))
  BY DEF ComposedIsAccepted
<1> DEFINE c == Normal(shop)
           l == Composed(id)
<1>1. /\ SnapshotOK(c) /\ ItemPageOK(page) /\ page.snapshot = c
      /\ page.item \in DOMAIN c.menu /\ Item = c.menu[page.item]
      /\ Item.restaurant \in DOMAIN c.restaurants
      /\ \A line : line.picks = page.picks => PicksAllowed(Item.groups, line)
  BY CurrentItem
<1>2. /\ l.id = id /\ l.restaurant = Item.restaurant /\ l.item = page.item
      /\ l.quantity = page.quantity /\ l.picks = page.picks
  BY DEF Composed
<1>3. /\ PlacedOK(l) /\ BasketPlaced(<<l>>) /\ BasketPlaced(basket)
      /\ BasketPlaced(Append(basket, l))
  BY <1>1, ComposedIsPlaced DEF ShopInv
<1> HIDE DEF c, l
<1>4. LineAccepted(c, l)
  BY <1>1, <1>2 DEF LineAccepted, OnMenu, CanAdd, ItemPageOK
<1>5. ASSUME NEW lines, BasketPlaced(lines)
      PROVE  Accepted(c, Request(lines)) <=> Accepted(c, lines)
  <2> DEFINE sent == Request(lines)
  <2>1. /\ DOMAIN sent = DOMAIN lines /\ sent \in Seq(ToSet(sent)) /\ lines \in Seq(ToSet(lines))
        /\ \A i \in DOMAIN lines :
             /\ sent[i].id = lines[i].id /\ sent[i].restaurant = lines[i].restaurant
             /\ sent[i].item = lines[i].item /\ sent[i].quantity = lines[i].quantity
             /\ sent[i].picks = lines[i].picks
    BY <1>5, RequestsAre DEF BasketOK, BasketPlaced
  <2> HIDE DEF sent
  <2>2. \A i \in DOMAIN lines : LineAccepted(c, sent[i]) <=> LineAccepted(c, lines[i])
    BY <2>1, AcceptedLineAlike
  <2>3. Len(sent) = Len(lines)
    BY <2>1
  <2> QED
    BY <2>1, <2>2, <2>3 DEF Accepted, Distinct, sent
<1>6. Accepted(c, <<l>>)
  <2>1. MaxLines >= 1
    BY LimitsAssumption
  <2>2. Len(<<l>>) = 1 /\ DOMAIN <<l>> = {1} /\ <<l>>[1] = l
    OBVIOUS
  <2> QED
    BY <1>4, <2>1, <2>2 DEF Accepted, Distinct
<1>7. ASSUME SameRestaurant, Len(basket) < MaxLines, Accepted(c, basket)
      PROVE  Accepted(c, Append(basket, l))
  <2> DEFINE b == Append(basket, l)
             n == Len(basket)
  <2>1. /\ n \in Nat /\ DOMAIN basket = 1 .. n /\ DOMAIN b = 1 .. (n + 1) /\ Len(b) = n + 1
        /\ b[n + 1] = l /\ \A i \in 1 .. n : b[i] = basket[i]
    <3>1. basket \in Seq(ToSet(basket) \union {l}) /\ l \in ToSet(basket) \union {l}
      <4>1. basket \in Seq(ToSet(basket))
        BY <1>3 DEF BasketPlaced
      <4> QED
        BY <4>1
    <3> QED
      BY <3>1
  <2>2. \A i \in 1 .. n : basket[i].id # l.id
    BY <1>2, <2>1 DEF Fresh
  <2>3. \A i \in 1 .. n : basket[i].restaurant = l.restaurant
    <3>1. CASE n = 0
      BY <3>1
    <3>2. CASE n # 0
      <4>1. 1 \in DOMAIN basket /\ basket # <<>> /\ Head(basket) = basket[1]
        BY <1>3, <2>1, <3>2 DEF BasketPlaced
      <4>2. basket[1].restaurant = l.restaurant
        BY <1>2, <4>1, <1>7 DEF SameRestaurant
      <4> QED
        BY <1>7, <2>1, <4>1, <4>2 DEF Accepted
    <3> QED
      BY <3>1, <3>2
  <2> HIDE DEF b, n
  <2>4. \A i \in 1 .. (n + 1) : i = n + 1 \/ i \in 1 .. n
    BY <2>1
  <2>5. Len(b) <= MaxLines
    BY <1>7, <2>1, LimitsAssumption DEF n
  <2>6. Distinct(b)
    BY <1>7, <2>1, <2>2, <2>4 DEF Accepted, Distinct
  <2>7. \A i, j \in DOMAIN b : b[i].restaurant = b[j].restaurant
    BY <2>1, <2>3, <2>4
  <2>8. \A i \in DOMAIN b : LineAccepted(c, b[i])
    BY <1>4, <1>7, <2>1, <2>4 DEF Accepted
  <2> QED
    BY <2>5, <2>6, <2>7, <2>8 DEF Accepted, b
<1> QED
  BY <1>3, <1>5, <1>6, <1>7 DEF c, l

\* A basket page that shows the current catalogue, over a basket that is for sale.
LEMMA CurrentBasket ==
  ASSUME ShopInv, At("basket"), UpToDate, Accepted(Normal(shop), Request(basket))
  PROVE  /\ SnapshotOK(Normal(shop)) /\ page.snapshot = Normal(shop)
         /\ BasketOK(basket) /\ \A i, j \in DOMAIN basket : basket[i].restaurant = basket[j].restaurant
         /\ \A i \in DOMAIN basket :
              /\ LineOK(basket[i]) /\ LineAccepted(Normal(shop), basket[i])
              /\ DishOK(Normal(shop).menu[basket[i].item])
              /\ PicksApart(basket[i])
<1> DEFINE c == Normal(shop)
           sent == Request(basket)
<1>1. SnapshotOK(c) /\ page.snapshot = c
  BY DEF ShopInv, At, ItemPageOK, BasketPageOK, UpToDate
<1>2. /\ DOMAIN sent = DOMAIN basket
      /\ \A i \in DOMAIN basket :
           /\ sent[i].id = basket[i].id /\ sent[i].restaurant = basket[i].restaurant
           /\ sent[i].item = basket[i].item /\ sent[i].quantity = basket[i].quantity
           /\ sent[i].picks = basket[i].picks
  BY RequestsAre DEF ShopInv
<1>3. /\ \A i, j \in DOMAIN sent : sent[i].restaurant = sent[j].restaurant
      /\ \A i \in DOMAIN sent : LineAccepted(c, sent[i])
  BY DEF Accepted
<1>4. BasketOK(basket) /\ \A i \in DOMAIN basket : LineOK(basket[i])
  BY DEF ShopInv, BasketPlaced, PlacedOK, BasketOK
<1> HIDE DEF c, sent
<1>5. ASSUME NEW i \in DOMAIN basket
      PROVE  /\ LineAccepted(c, basket[i]) /\ DishOK(c.menu[basket[i].item])
             /\ PicksApart(basket[i])
  <2>1. LineAccepted(c, basket[i])
    BY <1>2, <1>3, AcceptedLineAlike
  <2> QED
    BY <1>1, <1>4, <2>1 DEF LineAccepted, OnMenu, SnapshotOK, PicksAllowed, PicksApart, LineOK
<1> QED
  BY <1>1, <1>2, <1>3, <1>4, <1>5 DEF c

LEMMA ChargedIsShown == ShopInv => ShownIsCharged
<1> SUFFICES ASSUME ShopInv PROVE ShownIsCharged
  OBVIOUS
<1>1. ASSUME At("item"), UpToDate, CanAdd
      PROVE  ItemTotal(Item, [picks |-> page.picks]) = UnitCents(Item, [picks |-> page.picks])
  <2> DEFINE made == [picks |-> page.picks]
  <2>1. made.picks = page.picks
    OBVIOUS
  <2> HIDE DEF made
  <2>2. DishOK(Item) /\ LineOK(made) /\ PicksAllowed(Item.groups, made)
    BY <1>1, <2>1, CurrentItem
  <2>3. ItemTotal(Item, made) = UnitCents(Item, made)
    BY <2>2, ItemTotalIs
  <2> QED
    BY <2>3 DEF made
<1>2. ASSUME At("basket"), UpToDate, Accepted(Normal(shop), Request(basket))
      PROVE  SumOf([i \in DOMAIN basket |-> LineTotal(page.snapshot, basket[i])])
               = Subtotal(Normal(shop), Canonical(Normal(shop), basket))
  <2> DEFINE c == Normal(shop)
             k == Canonical(c, basket)
  <2>1. /\ SnapshotOK(c) /\ page.snapshot = c
        /\ \A i \in DOMAIN basket : /\ LineOK(basket[i]) /\ LineAccepted(c, basket[i])
                                    /\ DishOK(c.menu[basket[i].item])
    BY <1>2, CurrentBasket
  <2>2. /\ DOMAIN k = DOMAIN basket
        /\ \A i \in DOMAIN basket : k[i] = CanonicalLine(c.menu[basket[i].item], basket[i])
    BY DEF Canonical
  <2> HIDE DEF c, k
  <2>3. ASSUME NEW i \in DOMAIN basket
        PROVE  LineTotal(c, basket[i]) = UnitCents(c.menu[k[i].item], k[i]) * k[i].quantity
    <3> DEFINE line == basket[i]
               m == c.menu[line.item]
    <3>1. ItemTotal(m, line) = UnitCents(m, line) /\ OnMenu(c, line)
      BY <2>1, ItemTotalIs DEF LineAccepted
    <3>2. UnitCents(m, CanonicalLine(m, line)) = UnitCents(m, line)
      BY <2>1, LinesAreStable
    <3>3. k[i].item = line.item /\ k[i].quantity = line.quantity
      BY <2>2 DEF CanonicalLine
    <3> QED
      BY <2>2, <3>1, <3>2, <3>3 DEF LineTotal
  <2>4. [i \in DOMAIN basket |-> LineTotal(c, basket[i])]
          = [i \in DOMAIN k |-> UnitCents(c.menu[k[i].item], k[i]) * k[i].quantity]
    BY <2>2, <2>3
  <2> QED
    BY <2>1, <2>4 DEF Subtotal, c, k
<1> QED
  BY <1>1, <1>2 DEF ShownIsCharged

LEMMA SellableLetThrough == ShopInv => SellableIsLetThrough
<1> SUFFICES ASSUME ShopInv, At("basket"), UpToDate, Accepted(Normal(shop), Request(basket))
    PROVE  LetThrough(page.snapshot, basket)
  BY DEF SellableIsLetThrough
<1> DEFINE c == Normal(shop)
<1>1. /\ page.snapshot = c
      /\ \A i, j \in DOMAIN basket : basket[i].restaurant = basket[j].restaurant
      /\ \A i \in DOMAIN basket :
           /\ LineAccepted(c, basket[i]) /\ DishOK(c.menu[basket[i].item]) /\ PicksApart(basket[i])
  BY CurrentBasket
<1> HIDE DEF c
<1>2. ASSUME NEW i \in DOMAIN basket
      PROVE  ItemValid(c.menu[basket[i].item], basket[i])
  <2> DEFINE line == basket[i]
             m == c.menu[line.item]
  <2>1. PicksAllowed(m.groups, line) /\ DishOK(m) /\ PicksApart(line)
    BY <1>1 DEF LineAccepted
  <2> HIDE DEF line, m
  <2>2. ASSUME NEW g \in ToSet(m.groups) PROVE GroupValid(g, Picked(line, g))
    <3>1. Len(Picked(line, g)) \in g.least .. g.most /\ BoundsOK(g)
      BY <2>1 DEF PicksAllowed, DishOK
    <3>2. \A o \in ToSet(Picked(line, g)) : Offers(g, o)
      BY <2>1, PickedIsOffered DEF DishOK
    <3>3. Picked(line, g) = <<>> => Len(Picked(line, g)) = 0
      OBVIOUS
    <3> QED
      BY <3>1, <3>2, <3>3 DEF GroupValid, BoundsOK
  <2> QED
    BY <2>2 DEF ItemValid, line, m
<1> QED
  BY <1>1, <1>2 DEF LetThrough, LineAccepted

\* However the catalogue is edited around them, browser and service agree about a basket: what
\* can be composed is accepted, what is shown is charged, what would be sold is let through,
\* and what is stored means what was sent.
THEOREM BasketsMeanOneThing == Spec /\ ShopSpec => []BasketMeansOneThing
<1>1. MoneyInv => CanonicalIsStable
  BY StableInMoneyInv
<1>2. MoneyInv /\ ShopInv => BasketMeansOneThing
  BY <1>1, ComposedAccepted, ChargedIsShown, SellableLetThrough DEF BasketMeansOneThing
<1> QED
  BY <1>2, MoneyHolds, ShopHolds, PTL

\* The types of both parts: every stored basket has the shape of CartItem, nothing quoted or
\* charged is negative, and pages and lines stay within their bounds.
THEOREM CatalogueTypes == Spec /\ ShopSpec => []TypesOK
<1>1. ShopInv => ShopTypeOK
  BY DEF ShopInv, ShopTypeOK, BasketPlaced, PlacedOK, ItemPageOK, BasketPageOK, At
<1>2. ShopSpec => []ShopTypeOK
  BY <1>1, ShopHolds, PTL
<1> QED
  BY PricingTypes, <1>2, PTL DEF TypesOK
=============================================================================
