----------------------------- MODULE MCCheckout -----------------------------
(***************************************************************************)
(* Small instances of Checkout for TLC.                                    *)
(***************************************************************************)
EXTENDS CheckoutInvariant, TLC

CONSTANTS g1, g2, g3,      \* guests
          k1, k2,          \* idempotency keys
          burger, salad, nothing

Catalog(n) == [restaurants |-> n, menu |-> n]

\* Two catalogues that differ in both tables; the second no longer offers salad.
TwoCatalogs == {Catalog(1), Catalog(2)}
OneCatalog  == {Catalog(1)}
AllOpen     == {1, 2}
SaladLeaves == [i \in Items |-> IF i = salad THEN {1} ELSE {1, 2}]
AlwaysThere == [i \in Items |-> {1}]

\* g1 has a basket at revision 1, as one PUT leaves it.
Stocked == [g \in Guests |-> IF g = g1 THEN [revision |-> 1, items |-> burger]
                                       ELSE NoCart]
Nobody  == [g \in Guests |-> NoCart]

Gets(g)          == {[kind |-> "get", guest |-> g]}
Puts(g, rs, is)  == [kind : {"put"}, guest : {g}, rev : rs, items : is]
Deletes(g, rs)   == [kind : {"delete"}, guest : {g}, rev : rs]
Quotes(g, rs)    == [kind : {"quote"}, guest : {g}, rev : rs]
Submits(g, ks, rs, fs) ==
  [kind : {"submit"}, guest : {g}, key : ks, rev : rs, fingerprint : fs]
Resets(g)        == {[kind |-> "reset", guest |-> g]}
Cleanup          == {[kind |-> "cleanup"]}

\* Writers and checkouts of one basket that starts at revision 1.
RaceBodies == Puts(g1, {1, 2}, {salad}) \union Deletes(g1, {1})
  \union Submits(g1, {k1, k2}, {1, 2}, OneCatalog)

\* Quotes, checkouts and a rewrite of the basket while the catalogue changes.
QuoteBodies == Quotes(g1, {1, 2}) \union Puts(g1, {0, 1, 2}, {salad})
  \union Submits(g1, {k1}, {1, 2}, TwoCatalogs)

\* Everything that can meet a guest's deletion.
LifecycleBodies == Gets(g1) \union Gets(g2) \union Puts(g1, {1}, {salad})
  \union Submits(g1, {k1}, {1}, OneCatalog)
  \union Resets(g1) \union Cleanup

\* First use: nobody has a cart row yet.
FirstUseBodies == Gets(g1) \union Puts(g1, {0}, {burger}) \union Quotes(g1, {0})
  \union Submits(g1, {k1}, {0, 1}, OneCatalog) \union Resets(g1) \union Cleanup

RequestSymmetry == Permutations(Requests)
=============================================================================
