------------------------------ MODULE Storefront ------------------------------
(***************************************************************************)
(* The item page and the basket page against the service's rules: what the *)
(* browser lets a customer compose, shows as its price and sends on, from  *)
(* a copy of a catalogue that someone may be editing.  One tab, with every *)
(* request atomic; BasketPages takes the writes of the pages apart and     *)
(* leaves out what is in a basket.  Names differ from those of Pricing,    *)
(* beside which module Catalogue puts this one.                            *)
(***************************************************************************)
EXTENDS CatalogRules, FiniteSets

CONSTANTS
  Shops,        \* contents the catalogue tables may be given
  LineIds,      \* makeCartItemId draws each at most once
  None

ASSUME StorefrontAssumption == \A c \in Shops : IsCatalog(c)

VARIABLES
  shop,         \* the two catalogue tables
  basket,       \* the lines of the guest's basket, in canonical form
  page          \* the page the tab shows, with the catalogue it has read, or None

shopVars == <<shop, basket, page>>

ShopInit ==
  /\ shop \in Shops
  /\ basket = <<>>
  /\ page = None

-----------------------------------------------------------------------------
(***************************************************************************)
(* What the browser makes of a catalogue.                                  *)
(***************************************************************************)
\* normalizeModifierGroup; a group it cannot read makes the whole answer unreadable.
ReadableGroup(g) ==
  /\ g.type \in {"single", "multiple"}
  /\ g.least \in Nat
  /\ g.most \in Nat \ {0}
  /\ \A o \in ToSet(g.options) : o.price \in Nat

\* normalizeRestaurant, normalizeMenuItem.
Readable(c) ==
  /\ \A r \in DOMAIN c.restaurants : c.restaurants[r].fee \in Nat
  /\ \A m \in DOMAIN c.menu :
       c.menu[m].price \in Nat \ {0} /\ \A g \in ToSet(c.menu[m].groups) : ReadableGroup(g)

\* getDefaultModifiers: a default that is sold out is not picked.
DefaultPicks(m) ==
  [k \in DOMAIN m.groups |->
     LET g == m.groups[k] IN
     [group |-> g.id,
      options |-> IF g.default # Unset /\ Offers(g, g.default) THEN <<g.default>> ELSE <<>>]]

\* Mutant: a required group may be left empty.
GroupValidUnrequired(g, selected) ==
  /\ Len(selected) <= g.most
  /\ \A o \in ToSet(selected) : Offers(g, o)

\* validateCartItem, for one group; bounds of zero are not looked at.
GroupValid(g, selected) ==
  /\ g.required => selected # <<>>
  /\ Len(selected) >= g.least /\ Len(selected) <= g.most
  /\ \A o \in ToSet(selected) : Offers(g, o)

ItemValid(m, line) == \A g \in ToSet(m.groups) : GroupValid(g, Picked(line, g))

\* The price of a group's picks in getItemTotal: its options that are among them.
Delta(g, options) ==
  LET hit == Filter(g.options, {o \in ToSet(g.options) : o.id \in ToSet(options)}) IN
  SumOf([k \in DOMAIN hit |-> hit[k].price])

\* getItemTotal.
ItemTotal(m, line) ==
  m.price + SumOf([k \in DOMAIN line.picks |->
    IF line.picks[k].group \in Ids(m.groups)
    THEN Delta(ById(m.groups, line.picks[k].group), line.picks[k].options) ELSE 0])

\* getCartLineTotal: a line whose item is not on the menu keeps its stored price.
LineTotal(c, line) ==
  (IF OnMenu(c, line) THEN ItemTotal(c.menu[line.item], line) ELSE line.price) * line.quantity

\* validateCart: the rule behind the link to the checkout.  It looks neither at the
\* opening of the restaurant nor at picks in groups that are gone.
LetThrough(c, lines) ==
  /\ \A i, j \in DOMAIN lines : lines[i].restaurant = lines[j].restaurant
  /\ \A i \in DOMAIN lines :
       /\ lines[i].quantity \in 1..MaxQuantity
       /\ OnMenu(c, lines[i])
       /\ c.menu[lines[i].item].available
       /\ ItemValid(c.menu[lines[i].item], lines[i])

-----------------------------------------------------------------------------
(***************************************************************************)
(* The item page.                                                          *)
(***************************************************************************)
EditShop(c) ==
  /\ c # shop
  /\ shop' = c
  /\ UNCHANGED <<basket, page>>

At(kind) == page # None /\ page.at = kind
Item     == page.snapshot.menu[page.item]

OpenItem(item) ==
  /\ page = None /\ Sound(shop) /\ Readable(Normal(shop)) /\ item \in DOMAIN shop.menu
  /\ page' = [at |-> "item", snapshot |-> Normal(shop), item |-> item, quantity |-> 1,
              picks |-> DefaultPicks(Normal(shop).menu[item])]
  /\ UNCHANGED <<shop, basket>>

Repick(k, options) == page' = [page EXCEPT !.picks[k].options = options]

\* updateSingleModifier.
PickSingle(k, o) ==
  /\ Item.groups[k].type = "single"
  /\ Repick(k, <<o>>)

\* toggleMultipleModifier; a pick too many is refused.
Toggle(k, o) ==
  LET picked == page.picks[k].options IN
  /\ Item.groups[k].type = "multiple"
  /\ IF o \in ToSet(picked) THEN Repick(k, Filter(picked, ToSet(picked) \ {o}))
     ELSE Len(picked) < Item.groups[k].most /\ Repick(k, Append(picked, o))

\* Options that are sold out cannot be pressed.
PickOption ==
  /\ At("item")
  /\ \E k \in DOMAIN page.picks : \E o \in ToSet(OnOffer(Item.groups[k])) :
       PickSingle(k, o.id) \/ Toggle(k, o.id)
  /\ UNCHANGED <<shop, basket>>

\* clampCartQuantity, and the item page's own bounds.
Clamped(q) == Max({1, Min({MaxQuantity, q})})

SetQuantity(delta) ==
  /\ At("item")
  /\ page' = [page EXCEPT !.quantity = Clamped(@ + delta)]
  /\ UNCHANGED <<shop, basket>>

Fresh(id) == \A i \in DOMAIN basket : basket[i].id # id

\* buildCartItem.
Composed(id) ==
  [id |-> id, restaurant |-> Item.restaurant, item |-> page.item, name |-> Item.name,
   quantity |-> page.quantity, price |-> Item.price, picks |-> page.picks]

\* canAddItemToCart.
SameRestaurant == basket = <<>> \/ Head(basket).restaurant = Item.restaurant

\* The button works, and addToCart gets as far as its write.
CanAdd ==
  /\ Item.available /\ page.snapshot.restaurants[Item.restaurant].open
  /\ ItemValid(Item, [picks |-> page.picks])

\* Names and prices are not sent: toApiCartItem.
Request(lines) ==
  [i \in DOMAIN lines |->
     [k \in {"id", "restaurant", "item", "quantity", "picks"} |-> lines[i][k]]]

\* put_cart under the current revision: the basket in canonical form, or a refusal.
Put(lines) ==
  IF Sound(shop) /\ Accepted(Normal(shop), Request(lines))
  THEN basket' = Canonical(Normal(shop), Request(lines))
  ELSE UNCHANGED basket

\* Adds to the basket that was just read, or asks and replaces one of another restaurant.
AddToCart(id) ==
  /\ At("item") /\ CanAdd /\ Fresh(id)
  /\ Put(IF SameRestaurant THEN Append(basket, Composed(id)) ELSE <<Composed(id)>>)
  /\ page' = None
  /\ UNCHANGED shop

-----------------------------------------------------------------------------
(***************************************************************************)
(* The basket page.                                                        *)
(***************************************************************************)
OpenBasket ==
  /\ page = None /\ Sound(shop) /\ Readable(Normal(shop))
  /\ page' = [at |-> "basket", snapshot |-> Normal(shop)]
  /\ UNCHANGED <<shop, basket>>

\* updateCartItemQuantity.
ChangeLine(i, delta) ==
  /\ At("basket")
  /\ Put([basket EXCEPT ![i].quantity = Clamped(@ + delta)])
  /\ UNCHANGED <<shop, page>>

\* removeCartItem.
RemoveLine(i) ==
  /\ At("basket")
  /\ Put(RemoveAt(basket, i))
  /\ UNCHANGED <<shop, page>>

Leave ==
  /\ page # None
  /\ page' = None
  /\ UNCHANGED <<shop, basket>>

ShopNext ==
  \/ \E c \in Shops : EditShop(c)
  \/ \E item \in DOMAIN shop.menu : OpenItem(item)
  \/ PickOption
  \/ \E delta \in {-1, 1} : SetQuantity(delta)
  \/ \E id \in LineIds : AddToCart(id)
  \/ OpenBasket
  \/ \E i \in DOMAIN basket : RemoveLine(i) \/ \E delta \in {-1, 1} : ChangeLine(i, delta)
  \/ Leave

ShopSpec == ShopInit /\ [][ShopNext]_shopVars

-----------------------------------------------------------------------------
(***************************************************************************)
(* Properties.                                                             *)
(***************************************************************************)
\* The types of the variables.
ShopTypeOK ==
  /\ shop \in Shops
  /\ \A i \in DOMAIN basket : basket[i].id \in LineIds /\ basket[i].quantity \in 1..MaxQuantity
  /\ page # None => page.at \in {"item", "basket"}
  /\ At("item") => page.item \in DOMAIN page.snapshot.menu /\ page.quantity \in 1..MaxQuantity

UpToDate == page # None /\ Sound(shop) /\ page.snapshot = Normal(shop)

\* While the page's catalogue is the current one, whatever can be put together on the
\* item page and passes validateCartItem is accepted by canonicalize_cart_items, next to
\* a basket that still is: the two validations, in two languages, agree on what the page
\* can produce.
ComposedIsAccepted ==
  At("item") /\ UpToDate /\ CanAdd =>
    \A id \in LineIds : Fresh(id) =>
      /\ Accepted(Normal(shop), Request(<<Composed(id)>>))
      /\ SameRestaurant /\ Len(basket) < MaxLines /\ Accepted(Normal(shop), Request(basket))
           => Accepted(Normal(shop), Request(Append(basket, Composed(id))))

\* "line unit = canonical item price + selected option deltas" (development.md), twice
\* over: the amount on the item page's button and the item subtotal of the basket page
\* are what the service computes for those lines.
ShownIsCharged ==
  /\ At("item") /\ UpToDate /\ CanAdd =>
       ItemTotal(Item, [picks |-> page.picks]) = UnitCents(Item, [picks |-> page.picks])
  /\ At("basket") /\ UpToDate /\ Accepted(Normal(shop), Request(basket)) =>
       SumOf([i \in DOMAIN basket |-> LineTotal(page.snapshot, basket[i])])
         = Subtotal(Normal(shop), Canonical(Normal(shop), basket))

\* A basket the service would sell is never held back from the checkout by validateCart.
SellableIsLetThrough ==
  At("basket") /\ UpToDate /\ Accepted(Normal(shop), Request(basket))
    => LetThrough(page.snapshot, basket)
=============================================================================
