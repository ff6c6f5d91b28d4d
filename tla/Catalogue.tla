------------------------------ MODULE Catalogue ------------------------------
(***************************************************************************)
(* The two models of prices, each with variables of its own: Pricing,      *)
(* where a basket is quoted and ordered, and Storefront, where it is put   *)
(* together.                                                               *)
(***************************************************************************)
EXTENDS Pricing, Storefront

\* The types of the variables.
TypesOK == TypeOK /\ ShopTypeOK

\* A basket means one thing wherever it goes.  What the browser lets a customer compose the
\* service accepts, at the amount that was shown, and it holds no basket back that the
\* service would sell; and the form in which the service stores a basket is accepted,
\* priced and printed like the basket that was sent.
BasketMeansOneThing ==
  /\ ComposedIsAccepted /\ ShownIsCharged /\ SellableIsLetThrough
  /\ CanonicalIsStable
=============================================================================
