------------------------------ MODULE OrderBook ------------------------------
(***************************************************************************)
(* What the ordering service promises one guest, with every database       *)
(* transaction collapsed into a single step: a basket that moves from one  *)
(* revision to the next, and orders that each consume exactly one          *)
(* revision under exactly one idempotency key.  Nothing here knows about   *)
(* locks, statements, lost acknowledgements or the catalogue; module       *)
(* Checkout, which does, is shown to implement this specification.         *)
(***************************************************************************)
EXTENDS Naturals

CONSTANTS
  Guests,          \* guest identities
  Keys,            \* idempotency keys
  Items,           \* basket contents, the empty one included
  EmptyItems,      \* the empty basket
  NoCart,          \* a guest without a guest_carts row
  FirstCart        \* the rows the service starts from

VARIABLES
  cart,            \* guest -> NoCart or [revision, items]
  accepted         \* guest -> set of accepted orders [key, rev, items]

vars == <<cart, accepted>>

Rows == [revision : Nat, items : Items]

Init ==
  /\ cart = FirstCart
  /\ accepted = [g \in Guests |-> {}]

-----------------------------------------------------------------------------
\* The row is created lazily, empty and at revision 0.
Open(g) ==
  /\ cart[g] = NoCart
  /\ cart' = [cart EXCEPT ![g] = [revision |-> 0, items |-> EmptyItems]]
  /\ UNCHANGED accepted

\* One write, or one clear, moves the basket to the next revision.  The first
\* write of a guest creates the row in the same transaction.
Write(g, items) ==
  /\ cart' = [cart EXCEPT ![g] =
       [revision |-> IF cart[g] = NoCart THEN 1 ELSE cart[g].revision + 1,
        items    |-> items]]
  /\ UNCHANGED accepted

\* One order consumes the current revision of a basket that is not empty, under
\* a key this guest has not used, and leaves an empty basket behind.
Accept(g, key) ==
  /\ cart[g] # NoCart
  /\ cart[g].items # EmptyItems
  /\ \A o \in accepted[g] : o.key # key
  /\ accepted' = [accepted EXCEPT ![g] = @ \union
       {[key |-> key, rev |-> cart[g].revision, items |-> cart[g].items]}]
  /\ cart' = [cart EXCEPT ![g] =
       [revision |-> cart[g].revision + 1, items |-> EmptyItems]]

\* Resetting or retiring guests removes everything they owned, at once.
Forget(gs) ==
  /\ cart' = [g \in Guests |-> IF g \in gs THEN NoCart ELSE cart[g]]
  /\ accepted' = [g \in Guests |-> IF g \in gs THEN {} ELSE accepted[g]]

Next ==
  \/ \E g \in Guests : Open(g)
  \/ \E g \in Guests, items \in Items : Write(g, items)
  \/ \E g \in Guests, key \in Keys : Accept(g, key)
  \/ \E gs \in SUBSET Guests : Forget(gs)

Spec == Init /\ [][Next]_vars
=============================================================================
