----------------------------- MODULE MCLifecycle -----------------------------
(***************************************************************************)
(* Two scenes over the variables of Checkout, of which a behaviour plays   *)
(* one: guests that are reset or retired under requests of their own, and  *)
(* quotes that are honoured while the catalogue changes.                   *)
(***************************************************************************)
EXTENDS MCCheckout

VARIABLE scene

Q == INSTANCE Checkout WITH
  Catalogs <- TwoCatalogs, OfferedBy <- SaladLeaves, Bodies <- QuoteBodies

LifecycleInit ==
  \/ scene = "guests" /\ Init
  \/ scene = "quotes" /\ Q!Init

\* Bound: of the requests of the second scene, one never arrives.
LifecycleNext ==
  /\ UNCHANGED scene
  /\ \/ scene = "guests" /\ Next
     \/ scene = "quotes" /\ Q!Next /\ \E p \in Requests : pc'[p] = "new"

LifecycleSpec == LifecycleInit /\ [][LifecycleNext]_<<scene, vars>>
=============================================================================
