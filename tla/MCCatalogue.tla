----------------------------- MODULE MCCatalogue -----------------------------
(***************************************************************************)
(* Small instances of Catalogue.  A behaviour takes Pricing or Storefront, *)
(* and the other stays at its start.                                       *)
(***************************************************************************)
EXTENDS MCPricing, Catalogue, TLC

VARIABLE part                 \* the part that is explored

\* At most two of three extras, of which one is sold out, and a group of which nothing
\* is left.
ShopExtras ==
  [Group("extras", "multiple", FALSE,
         <<Option("cheese", 50), Option("bacon", 70),
           [Option("egg", 90) EXCEPT !.available = FALSE]>>) EXCEPT !.most = 2]
Gone == Group("sauce", "multiple", FALSE, <<[Option("mint", 10) EXCEPT !.available = FALSE]>>)

Shop ==
  [restaurants |-> [noor  |-> [open |-> TRUE, fee |-> 199],
                    other |-> [open |-> TRUE, fee |-> 0]],
   menu |-> [soup |-> Dish("noor", 620, <<Size, ShopExtras, Gone>>),
             rice |-> Dish("other", 900, <<>>)]]

AllShops == {
  Shop,
  [Shop EXCEPT !.restaurants.noor.open = FALSE, !.menu.rice.available = FALSE],
  [Shop EXCEPT !.menu.soup.price = 650,
               !.menu.soup.groups[2].required = TRUE,
               !.menu.soup.groups[2].options[1].available = FALSE],
  [Shop EXCEPT !.menu.soup.groups[1].default = "small",
               !.menu.soup.groups[1].options[1].available = FALSE]}

CatalogueInit ==
  /\ part \in {"prices", "storefront"}
  /\ IF part = "prices" THEN shop = Shop ELSE catalog = Base
  /\ Init /\ ShopInit

CatalogueNext ==
  \/ part = "prices" /\ Next /\ UNCHANGED <<part, shopVars>>
  \/ part = "storefront" /\ ShopNext /\ UNCHANGED <<part, vars>>

CatalogueSpec == CatalogueInit /\ [][CatalogueNext]_<<part, vars, shopVars>>

LineSymmetry == Permutations(LineIds)
=============================================================================
