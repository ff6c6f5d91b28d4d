-------------------------- MODULE CheckoutInvariant --------------------------
(***************************************************************************)
(* The inductive invariant behind the safety properties of Checkout: who   *)
(* holds which row lock at which statement, and what the holder may rely   *)
(* on until it commits.  TLC checks it; CheckoutProofs proves it.          *)
(***************************************************************************)
EXTENDS Checkout

\* Statements at which a request has established its cart row.
Reading == {"readCart", "readRestaurants", "readMenu", "commit"}

\* Statements after the cart row has been read (and, by writers, locked).
PastCart == {"readRestaurants", "readMenu", "commit"}

\* Each kind of request executes only statements of its own service function.
KindsAndStatements ==
  \A p \in Requests :
    /\ pc[p] = "new" => req[p] = NoBody
    /\ InFlight(p) => req[p] # NoBody
    /\ pc[p] \in {"begin", "lockGuest"} => req[p].kind = "submit"
    /\ pc[p] \in {"ensureCart", "checkOwner"} \union Reading =>
         req[p].kind \in {"get", "put", "delete", "quote", "submit"}
    /\ pc[p] \in {"revoke", "delete"} => req[p].kind = "reset"
    /\ pc[p] = "select" => req[p].kind = "cleanup"
    /\ pc[p] = "cascade" => req[p].kind \in {"reset", "cleanup"}

\* No two requests hold conflicting locks on one guest row.
SessionLocksExclude ==
  \A g \in Guests : \A p, q \in Requests :
    p # q => ~Conflicts(sessionLock[g][p], sessionLock[g][q])

\* Only requests in flight hold guest-row locks, and only on existing rows; the
\* lock of revoked_at belongs to the DELETE that comes next.
SessionLocksOnLiving ==
  \A g \in Guests : \A p \in Requests :
    /\ sessionLock[g][p] # "none" => Present(g) /\ InFlight(p)
    /\ sessionLock[g][p] = "nokeyupdate" => pc[p] = "delete" /\ Owner(p) = g

\* A cart row is locked by a request of its owner or by a purge that reached it;
\* one whose insert has passed the foreign-key check pins the owner's row.
CartLockHolders ==
  \A g \in Guests : \A p \in Requests :
    cartLock[g] = p =>
      \/ /\ pc[p] \in {"checkOwner"} \union Reading
         /\ Owner(p) = g
         /\ cart[g] = NoCart /\ pc[p] # "checkOwner" =>
              sessionLock[g][p] \in {"keyshare", "update"}
         /\ pc[p] \in PastCart => txn[p].cart = VisibleCart(p, g)
         /\ pc[p] = "checkOwner" => cart[g] = NoCart
         /\ ~LocksCart(p) => cart[g] = NoCart
      \/ /\ pc[p] = "cascade"
         /\ g \in txn[p].purge \ txn[p].cascade
         /\ cart[g] # NoCart

\* A writer that has read the cart holds its row, at the revision it expects.
WritersHoldCart ==
  \A p \in Requests :
    pc[p] \in PastCart /\ LocksCart(p) =>
      /\ cartLock[Owner(p)] = p
      /\ txn[p].cart.revision = req[p].rev
      /\ req[p].kind = "submit" => txn[p].cart.items # EmptyItems

\* What a statement uses has been read by an earlier one.
RowsAreRead ==
  \A p \in Requests :
    /\ pc[p] \in PastCart => txn[p].cart # NoCart
    /\ pc[p] = "readMenu" => txn[p].restaurants \in {c.restaurants : c \in Catalogs}
    /\ pc[p] = "commit" /\ req[p].kind \in {"put", "quote", "submit"} =>
         Snapshot(p) \in CatalogRows

\* Once past the guest lock, a submission holds it and its key stays unused; at
\* commit the catalogue rows it read are the ones the client accepted.
SubmitsHoldGuest ==
  \A p \in Requests :
    pc[p] \in {"ensureCart", "checkOwner"} \union Reading /\ req[p].kind = "submit" =>
      /\ sessionLock[Owner(p)][p] = "update"
      /\ Entries(p) = {}
      /\ pc[p] = "commit" => Snapshot(p) = req[p].fingerprint

\* A purge holds every guest row it deletes, and every cart row it has reached.
PurgesHoldGuests ==
  \A p \in Requests :
    /\ pc[p] = "delete" => sessionLock[Owner(p)][p] = "nokeyupdate"
    /\ pc[p] = "cascade" =>
         /\ txn[p].cascade \subseteq txn[p].purge
         /\ \A g \in txn[p].purge :
              /\ sessionLock[g][p] = "update"
              /\ g \notin txn[p].cascade /\ cart[g] # NoCart => cartLock[g] = p

\* Orders carry the ids of requests that have ended.
OrdersAreOld == \A g \in Guests : \A o \in orders[g] : pc[o.id] = "done"

IInv ==
  /\ TypeOK
  /\ KindsAndStatements
  /\ SessionLocksExclude
  /\ SessionLocksOnLiving
  /\ CartLockHolders
  /\ WritersHoldCart
  /\ RowsAreRead
  /\ SubmitsHoldGuest
  /\ PurgesHoldGuests
  /\ OrdersAreOld
  /\ NoOrphanRows
  /\ OrdersAreSealed
  /\ OneOrderPerRevision
  /\ LedgerMatchesOrders

\* What a request holds is what it came for: reset and cleanup hold the guests they delete,
\* checkout locks its guest, and a request that has inserted a cart row keeps that row and
\* pins its owner.
HoldsItsOwn(p) ==
  /\ \A g \in Guests : sessionLock[g][p] # "none" =>
       \/ pc[p] = "cascade" /\ g \in txn[p].purge
       \/ /\ Owner(p) = g
          /\ \/ pc[p] = "delete"
             \/ sessionLock[g][p] = "keyshare" /\ pc[p] \in Reading /\ cartLock[g] = p
             \/ req[p].kind = "submit" /\ pc[p] \in {"ensureCart", "checkOwner"} \union Reading
  /\ pc[p] = "checkOwner" => cartLock[Owner(p)] = p

-----------------------------------------------------------------------------
(***************************************************************************)
(* What the answers already given may rely on.                             *)
(***************************************************************************)
\* The row as it is inserted, and the basket an order was made from.
FirstRow  == [revision |-> 0, items |-> EmptyItems]
Basket(o) == [revision |-> o.rev, items |-> o.items]

CartReplied(p) == \E s \in {"cart", "cart_conflict", "quote"} : Replied(p, s)

\* The baskets p has shown, or has read and may still show.
Shown(p) ==
  (IF CartReplied(p) THEN {reply[p].cart} ELSE {})
  \union (IF Replied(p, "receipt") THEN {Basket(reply[p].order)} ELSE {})
  \union (IF pc[p] \in PastCart THEN {txn[p].cart} ELSE {})

ShownTo(g) == UNION {Shown(p) : p \in {q \in Requests : Shown(q) # {} /\ Owner(q) = g}}

OrderedBy(g) == {Basket(o) : o \in orders[g]}

\* The baskets g's requests have shown or read, g has ordered, or are stored.
Seen(g) == ShownTo(g) \union OrderedBy(g) \union ({cart[g]} \ {NoCart})

\* A request is answered when it ends, not before.
AnsweredAtEnd == \A p \in Requests : pc[p] # "done" => reply[p] = NoReply

\* Whoever a request acts for has been issued, and cleanup, which acts for
\* nobody, shows no basket: a guest that reset issues later has no past.
OwnersAreIssued ==
  \A p \in Requests : pc[p] # "new" =>
    /\ req[p] \in RequestBodies
    /\ IF req[p].kind = "cleanup" THEN ~CartReplied(p)
                                 ELSE session[Owner(p)] # "unissued"

IdsAreUnique ==
  \A g \in Guests : \A o1, o2 \in orders[g] : o1.id = o2.id => o1 = o2

\* A receipt is for the revision and fingerprint that were sent, and is stored,
\* with p's key leading to it, while its guest exists.
ReceiptStands(p) ==
  Replied(p, "receipt") =>
    /\ req[p].kind = "submit"
    /\ reply[p].order.rev = req[p].rev
    /\ reply[p].order.catalog = req[p].fingerprint
    /\ Present(Owner(p)) =>
         /\ reply[p].order \in orders[Owner(p)]
         /\ \E e \in Entries(p) : e.order = reply[p].order.id

\* No basket seen is ahead of the stored row, so the next revision is unseen; a
\* guest without a row has shown at most the row that an insert starts from.
SeenIsPast(g) ==
  /\ Seen(g) \subseteq CartRows
  /\ \A a, b \in Seen(g) : a.revision = b.revision => a = b
  /\ cart[g] # NoCart => \A a \in Seen(g) : a.revision <= cart[g].revision
  /\ cart[g] = NoCart /\ Present(g) => Seen(g) \subseteq {FirstRow}

AInv ==
  /\ IInv
  /\ AnsweredAtEnd
  /\ OwnersAreIssued
  /\ IdsAreUnique
  /\ \A p \in Requests : ReceiptStands(p)
  /\ KeyMeansOneOrder
  /\ \A g \in Guests : SeenIsPast(g)
=============================================================================
