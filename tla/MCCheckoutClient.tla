-------------------------- MODULE MCCheckoutClient --------------------------
(***************************************************************************)
(* Small instances of CheckoutClient for TLC.  In fair weather there is    *)
(* room for many submissions; otherwise for fewer calls and writes.        *)
(***************************************************************************)
EXTENDS ClientInvariant, TLC

CONSTANTS g1, g2, one, two, nothing, FewCalls, FewRevisions, FewDetails

\* The browser's guest has one dish in the basket, at revision 1.
Stocked == [g \in Guests |-> IF g = g1 THEN [revision |-> 1, items |-> one] ELSE NoCart]

Few ==
  /\ \A c \in Calls \ FewCalls : call[c] = Unused
  /\ \A g \in Guests : Row(g).revision <= FewRevisions
  /\ page # None => page.details \in FewDetails

ClientNext == Next /\ (weather = {} \/ Few')

ClientSpec == Init /\ [][ClientNext]_vars

CallSymmetry == Permutations(FewCalls) \union Permutations(Keys)
=============================================================================
