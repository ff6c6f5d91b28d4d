--------------------------- MODULE CheckoutProofs ---------------------------
(***************************************************************************)
(* Proofs that the inductive invariant of CheckoutInvariant, and with it   *)
(* the safety properties of Checkout, hold for any number of requests,     *)
(* guests, keys, baskets and catalogues, and that Checkout implements      *)
(* OrderBook.                                                              *)
(***************************************************************************)
EXTENDS CheckoutInvariant, TLAPS

(***************************************************************************)
(* Facts about the data.                                                   *)
(***************************************************************************)
\* The fields a request body has follow from its kind.
LEMMA BodyFields ==
  ASSUME NEW b \in RequestBodies
  PROVE  /\ b.kind \in {"get", "put", "delete", "quote", "submit", "reset", "cleanup"}
         /\ b.kind # "cleanup" => b.guest \in Guests
         /\ b.kind \in {"put", "delete", "quote", "submit"} => b.rev \in Nat
         /\ b.kind = "put" => b.items \in Items
         /\ b.kind = "submit" => b.key \in Keys /\ b.fingerprint \in CatalogRows
         /\ b # NoBody
  <1>1. NoBody.kind = "none"
    BY DEF NoBody
  <1>2. CASE b \in [kind : {"get", "reset"}, guest : Guests]
    BY <1>1, <1>2
  <1>3. CASE b \in [kind : {"delete", "quote"}, guest : Guests, rev : Nat]
    BY <1>1, <1>3
  <1>4. CASE b \in [kind : {"put"}, guest : Guests, rev : Nat, items : Items]
    BY <1>1, <1>4
  <1>5. CASE b \in [kind : {"submit"}, guest : Guests, key : Keys, rev : Nat,
                    fingerprint : CatalogRows]
    BY <1>1, <1>5
  <1>6. CASE b \in [kind : {"cleanup"}]
    BY <1>1, <1>6
  <1>7. QED
    BY <1>2, <1>3, <1>4, <1>5, <1>6 DEF RequestBodies

\* A request in flight carries a body, and the body its statement calls for.
LEMMA InFlightBodies ==
  ASSUME TypeOK, KindsAndStatements, NEW p \in Requests, InFlight(p)
  PROVE  /\ req[p] \in RequestBodies
         /\ req[p].kind # "cleanup" => Owner(p) \in Guests
  BY BodyFields DEF TypeOK, KindsAndStatements, Owner

\* Answers that are well-formed.
LEMMA PlainAnswers ==
  ASSUME NEW s \in {"storage_unavailable", "session_invalid", "idempotency_conflict",
                    "invalid_checkout", "invalid_cart", "catalog_changed", "reset",
                    "cleaned"}
  PROVE  Answer(s) \in Replies
  BY DEF Answer, Replies

LEMMA RowAnswers ==
  ASSUME NEW row \in CartRows
  PROVE  /\ CartAnswer("cart", row) \in Replies
         /\ CartAnswer("cart_conflict", row) \in Replies
         /\ \A c \in CatalogRows : QuoteAnswer(row, c) \in Replies
  BY DEF CartAnswer, QuoteAnswer, Replies

LEMMA ReceiptAnswers ==
  ASSUME NEW o \in OrderRows
  PROVE  ReceiptAnswer(o) \in Replies
  BY DEF ReceiptAnswer, Replies

(***************************************************************************)
(* A request that ends without writing preserves the invariant.            *)
(***************************************************************************)
LEMMA FinishType ==
  ASSUME TypeOK, NEW p \in Requests, NEW a \in Replies, Finish(p, a)
  PROVE  /\ sessionLock' \in [Guests -> [Requests -> Modes]]
         /\ cartLock' \in [Guests -> Requests \union {NoRequest}]
         /\ pc' \in [Requests -> Labels]
         /\ req' \in [Requests -> RequestBodies \union {NoBody}]
         /\ txn' \in [Requests -> TxnFields]
         /\ reply' \in [Requests -> Replies \union {NoReply}]
  <1>1. NewTxn \in TxnFields
    BY DEF NewTxn, TxnFields
  <1>2. sessionLock' \in [Guests -> [Requests -> Modes]]
    BY DEF Finish, TypeOK, Modes
  <1>3. QED
    BY <1>1, <1>2 DEF Finish, Goto, TypeOK, Labels

\* What the end of p leaves to the others.
LEMMA FinishFrame ==
  ASSUME TypeOK, NEW p \in Requests, NEW a, Finish(p, a)
  PROVE  /\ \A q \in Requests \ {p} : pc'[q] = pc[q] /\ txn'[q] = txn[q]
         /\ pc'[p] = "done"
         /\ req' = req
         /\ \A g \in Guests : \A q \in Requests \ {p} : sessionLock'[g][q] = sessionLock[g][q]
         /\ \A g \in Guests : sessionLock'[g][p] = "none"
         /\ \A g \in Guests : \A q \in Requests \ {p} : cartLock'[g] = q <=> cartLock[g] = q
         /\ \A g \in Guests : cartLock'[g] # p
  BY SentinelAssumption DEF Finish, Goto, TypeOK

LEMMA RollbackInv ==
  ASSUME IInv, NEW p \in Requests, InFlight(p), NEW a \in Replies, Rollback(p, a)
  PROVE  IInv'
  <1>0. TypeOK /\ Finish(p, a) /\ UNCHANGED tables
    BY DEF IInv, Rollback
  <1> USE FinishFrame
  <1>a. \A q \in Requests : InFlight(q) =>
          req[q] \in RequestBodies /\ (req[q].kind # "cleanup" => Owner(q) \in Guests)
    BY InFlightBodies DEF IInv
  <1>b. \A q \in Requests : txn[q].purge \subseteq Guests
    BY <1>0 DEF TypeOK, TxnFields
  <1>1. TypeOK'
    BY <1>0, FinishType DEF TypeOK, tables
  <1>2. KindsAndStatements'
    BY <1>0 DEF IInv, KindsAndStatements, InFlight, Reading
  <1>3. SessionLocksExclude'
    BY <1>0 DEF IInv, SessionLocksExclude, Conflicts
  <1>4. SessionLocksOnLiving'
    BY <1>0 DEF IInv, SessionLocksOnLiving, Present, InFlight, Owner, tables
  <1>5. CartLockHolders'
    BY <1>0 DEF IInv, CartLockHolders, Owner, VisibleCart, LocksCart, tables, Reading, PastCart
  <1>6. WritersHoldCart'
    BY <1>0, <1>a DEF IInv, WritersHoldCart, Owner, LocksCart, PastCart, InFlight
  <1>7. RowsAreRead'
    BY <1>0 DEF IInv, RowsAreRead, PastCart, Snapshot
  <1>8. SubmitsHoldGuest'
    BY <1>0, <1>a DEF IInv, SubmitsHoldGuest, Owner, Entries, Snapshot, Reading, tables, InFlight
  <1>9. PurgesHoldGuests'
    BY <1>0, <1>a, <1>b DEF IInv, PurgesHoldGuests, KindsAndStatements, InFlight, Owner, tables
  <1>10. OrdersAreOld'
    BY <1>0 DEF IInv, OrdersAreOld, tables, TypeOK, OrderRows
  <1>11. NoOrphanRows' /\ OrdersAreSealed' /\ OneOrderPerRevision' /\ LedgerMatchesOrders'
    BY <1>0 DEF IInv, tables, NoOrphanRows, Present, OrdersAreSealed,
                OneOrderPerRevision, LedgerMatchesOrders
  <1>12. QED
    BY <1>1, <1>2, <1>3, <1>4, <1>5, <1>6, <1>7, <1>8, <1>9, <1>10, <1>11 DEF IInv

(***************************************************************************)
(* Facts about every request that the steps below cite.                    *)
(***************************************************************************)
LEMMA Actors ==
  ASSUME IInv
  PROVE  /\ \A q \in Requests : InFlight(q) => req[q] \in RequestBodies
         /\ \A q \in Requests : InFlight(q) /\ req[q].kind # "cleanup" => Owner(q) \in Guests
         /\ \A q \in Requests : txn[q].purge \subseteq Guests
         /\ \A q \in Requests : pc[q] \in {"ensureCart", "checkOwner"} \union Reading =>
              InFlight(q) /\ Owner(q) \in Guests
         /\ \A q \in Requests : pc[q] \in {"begin", "lockGuest", "revoke", "delete"} =>
              InFlight(q) /\ Owner(q) \in Guests
         /\ \A g \in Guests : \A o \in orders[g] : o.id \in Requests
  <1>1. \A q \in Requests : InFlight(q) =>
          req[q] \in RequestBodies /\ (req[q].kind # "cleanup" => Owner(q) \in Guests)
    BY InFlightBodies DEF IInv
  <1>2. \A q \in Requests : txn[q].purge \subseteq Guests
    BY DEF IInv, TypeOK, TxnFields
  <1>3. \A q \in Requests : pc[q] \in {"ensureCart", "checkOwner"} \union Reading =>
          InFlight(q) /\ Owner(q) \in Guests
    BY <1>1 DEF IInv, KindsAndStatements, InFlight, Reading
  <1>4. \A q \in Requests : pc[q] \in {"begin", "lockGuest", "revoke", "delete"} =>
          InFlight(q) /\ Owner(q) \in Guests
    BY <1>1 DEF IInv, KindsAndStatements, InFlight
  <1>5. \A g \in Guests : \A o \in orders[g] : o.id \in Requests
    BY DEF IInv, TypeOK, OrderRows
  <1>6. QED
    BY <1>1, <1>2, <1>3, <1>4, <1>5

\* The parts of the invariant about stored rows survive a step that leaves the
\* tables alone and brings no finished request back.
LEMMA DataFrame ==
  ASSUME IInv, UNCHANGED tables,
         \A q \in Requests : pc[q] = "done" => pc'[q] = "done"
  PROVE  /\ OrdersAreOld' /\ NoOrphanRows' /\ OrdersAreSealed'
         /\ OneOrderPerRevision' /\ LedgerMatchesOrders'
  <1>1. OrdersAreOld'
    BY Actors DEF IInv, OrdersAreOld, tables
  <1>2. QED
    BY <1>1 DEF IInv, tables, NoOrphanRows, Present, OrdersAreSealed,
                OneOrderPerRevision, LedgerMatchesOrders

LEMMA AdmitInv ==
  ASSUME IInv, NEW p \in Requests, NEW body \in Bodies, Admit(p, body)
  PROVE  IInv'
  <1>0. /\ body \in RequestBodies
        /\ body.kind \in {"get", "put", "delete", "quote", "submit", "reset", "cleanup"}
        /\ body # NoBody
    BY ConstantsAssumption, BodyFields
  <1>1. TypeOK'
    BY <1>0 DEF IInv, TypeOK, Admit, Goto, tables, FirstStatement, Labels
  <1>2. KindsAndStatements'
    BY <1>0 DEF IInv, TypeOK, Admit, Goto, KindsAndStatements, FirstStatement, InFlight, Reading
  <1>3. \A g \in Guests : sessionLock[g][p] = "none" /\ cartLock[g] # p
    BY DEF IInv, TypeOK, Admit, SessionLocksOnLiving, InFlight, CartLockHolders, Reading
  <1>4. SessionLocksExclude' /\ SessionLocksOnLiving'
    BY <1>3 DEF IInv, TypeOK, Admit, Goto, SessionLocksExclude, SessionLocksOnLiving,
                InFlight, Owner, tables, Present
  <1>5. CartLockHolders'
    BY <1>3 DEF IInv, TypeOK, Admit, Goto, CartLockHolders, Owner, VisibleCart, LocksCart,
                tables, Reading, PastCart
  <1>6. WritersHoldCart' /\ RowsAreRead'
    BY <1>0, Actors DEF IInv, TypeOK, Admit, Goto, WritersHoldCart, RowsAreRead, Owner, LocksCart, Snapshot,
                PastCart, FirstStatement, tables
  <1>7. SubmitsHoldGuest'
    BY <1>0, Actors DEF IInv, TypeOK, Admit, Goto, SubmitsHoldGuest, Owner, Entries, Snapshot,
                Reading, FirstStatement, tables
  <1>8. PurgesHoldGuests'
    BY <1>0, Actors DEF IInv, TypeOK, Admit, Goto, PurgesHoldGuests, FirstStatement, Owner, tables
  <1>9. OrdersAreOld' /\ NoOrphanRows' /\ OrdersAreSealed' /\ OneOrderPerRevision' /\ LedgerMatchesOrders'
    BY DataFrame DEF IInv, TypeOK, Admit, Goto
  <1>10. QED
    BY <1>1, <1>2, <1>4, <1>5, <1>6, <1>7, <1>8, <1>9 DEF IInv

LEMMA RefuseInv ==
  ASSUME IInv, NEW p \in Requests, NEW body \in Bodies, Refuse(p, body)
  PROVE  IInv'
  <1>0. body \in RequestBodies
    BY ConstantsAssumption
  <1>1. TypeOK'
    BY <1>0, PlainAnswers DEF IInv, TypeOK, Refuse, Goto, tables, Labels
  <1>2. KindsAndStatements'
    BY <1>0 DEF IInv, TypeOK, Refuse, Goto, KindsAndStatements, InFlight, Reading
  <1>3. \A g \in Guests : sessionLock[g][p] = "none" /\ cartLock[g] # p
    BY DEF IInv, TypeOK, Refuse, SessionLocksOnLiving, InFlight, CartLockHolders, Reading
  <1>4. SessionLocksExclude' /\ SessionLocksOnLiving'
    BY <1>3 DEF IInv, TypeOK, Refuse, Goto, SessionLocksExclude, SessionLocksOnLiving,
                InFlight, Owner, tables, Present
  <1>5. CartLockHolders'
    BY <1>3 DEF IInv, TypeOK, Refuse, Goto, CartLockHolders, Owner, VisibleCart, LocksCart,
                tables, Reading, PastCart
  <1>6. WritersHoldCart' /\ RowsAreRead'
    BY Actors DEF IInv, TypeOK, Refuse, Goto, WritersHoldCart, RowsAreRead, Owner, LocksCart, Snapshot,
                PastCart, tables
  <1>7. SubmitsHoldGuest'
    BY Actors DEF IInv, TypeOK, Refuse, Goto, SubmitsHoldGuest, Owner, Entries, Snapshot,
                Reading, tables
  <1>8. PurgesHoldGuests'
    BY Actors DEF IInv, TypeOK, Refuse, Goto, PurgesHoldGuests, Owner, tables
  <1>9. OrdersAreOld' /\ NoOrphanRows' /\ OrdersAreSealed' /\ OneOrderPerRevision' /\ LedgerMatchesOrders'
    BY DataFrame DEF IInv, TypeOK, Refuse, Goto
  <1>10. QED
    BY <1>1, <1>2, <1>4, <1>5, <1>6, <1>7, <1>8, <1>9 DEF IInv

\* A step of p that changes no table and no lock: p moves on to a statement of
\* the same kind of request, at most recording what it read.
LEMMA MoveInv ==
  ASSUME IInv, NEW p \in Requests, NEW label \in Labels \ {"new", "done", "cascade"},
         InFlight(p), pc[p] \notin {"delete", "cascade"}, label # "delete",
         Goto(p, label), UNCHANGED <<tables, sessionLock, cartLock, req, reply>>,
         txn' \in [Requests -> TxnFields],
         \A q \in Requests \ {p} : txn'[q] = txn[q],
         KindsAndStatements',
         \* a holder of the cart row goes on inside its service function
         (\E g \in Guests : cartLock[g] = p) => label \in PastCart /\ txn'[p].cart = txn[p].cart
                                                /\ pc[p] \in PastCart,
         label \in PastCart => pc[p] \in PastCart /\ txn'[p].cart = txn[p].cart,
         label = "readMenu" => txn'[p].restaurants \in {c.restaurants : c \in Catalogs},
         label = "commit" => Snapshot(p)' \in CatalogRows,
         req[p].kind = "submit" /\ label \in {"ensureCart", "checkOwner"} \union Reading =>
           pc[p] \in {"ensureCart", "checkOwner"} \union Reading,
         req[p].kind = "submit" /\ label = "commit" => Snapshot(p)' = req[p].fingerprint
  PROVE  IInv'
  <1>1. TypeOK'
    BY DEF IInv, TypeOK, Goto, tables
  <1>2. SessionLocksExclude' /\ SessionLocksOnLiving'
    BY DEF IInv, TypeOK, Goto, SessionLocksExclude, SessionLocksOnLiving, InFlight, Owner, tables, Present
  <1>3. CartLockHolders'
    BY DEF IInv, TypeOK, Goto, CartLockHolders, Owner, VisibleCart, LocksCart,
           tables, Reading, PastCart
  <1>4. WritersHoldCart' /\ RowsAreRead'
    <2>1. WritersHoldCart'
      BY Actors DEF IInv, TypeOK, Goto, WritersHoldCart, Owner, LocksCart, PastCart
    <2>2. \A q \in Requests \ {p} : pc'[q] = pc[q] /\ Snapshot(q)' = Snapshot(q)
      BY DEF IInv, TypeOK, Goto, Snapshot
    <2>3. pc'[p] = label
      BY DEF IInv, TypeOK, Goto
    <2>4. RowsAreRead
      BY DEF IInv
    <2>5. \A q \in Requests \ {p} : txn'[q] = txn[q] /\ req'[q] = req[q]
      OBVIOUS
    <2>6. ASSUME NEW q \in Requests \ {p}
          PROVE  /\ pc'[q] \in PastCart => txn'[q].cart # NoCart
                 /\ pc'[q] = "readMenu" => txn'[q].restaurants \in {c.restaurants : c \in Catalogs}
                 /\ pc'[q] = "commit" /\ req'[q].kind \in {"put", "quote", "submit"} =>
                      Snapshot(q)' \in CatalogRows
      BY <2>2, <2>4, <2>5 DEF RowsAreRead
    <2>7. /\ pc'[p] \in PastCart => txn'[p].cart # NoCart
          /\ pc'[p] = "readMenu" => txn'[p].restaurants \in {c.restaurants : c \in Catalogs}
          /\ pc'[p] = "commit" => Snapshot(p)' \in CatalogRows
      BY <2>3, <2>4 DEF RowsAreRead
    <2>8. RowsAreRead'
      BY <2>6, <2>7 DEF RowsAreRead, PastCart
    <2>9. QED
      BY <2>1, <2>8
  <1>5. SubmitsHoldGuest'
    BY Actors DEF IInv, TypeOK, Goto, SubmitsHoldGuest, Owner, Entries, Snapshot,
                Reading, tables
  <1>6. PurgesHoldGuests'
    BY Actors DEF IInv, TypeOK, Goto, PurgesHoldGuests, Owner, tables
  <1>7. OrdersAreOld' /\ NoOrphanRows' /\ OrdersAreSealed' /\ OneOrderPerRevision' /\ LedgerMatchesOrders'
    BY DataFrame DEF IInv, TypeOK, Goto, InFlight
  <1>8. QED
    BY <1>1, <1>2, <1>3, <1>4, <1>5, <1>6, <1>7 DEF IInv

LEMMA BeginInv ==
  ASSUME IInv, NEW p \in Requests, Begin(p)
  PROVE  IInv'
  <1>1. txn' \in [Requests -> TxnFields] /\ \A q \in Requests \ {p} : txn'[q] = txn[q]
    <2> DEFINE live == session[Owner(p)] = "live"
    <2>1. live \in BOOLEAN
      OBVIOUS
    <2>2. txn' = [txn EXCEPT ![p].live = live]
      BY DEF Begin
    <2> HIDE DEF live
    <2>3. txn \in [Requests -> TxnFields]
      BY DEF IInv, TypeOK
    <2>4. [txn[p] EXCEPT !.live = live] \in TxnFields
      BY <2>1, <2>3 DEF TxnFields
    <2>5. QED
      BY <2>2, <2>3, <2>4
  <1>2. KindsAndStatements'
    BY DEF IInv, TypeOK, Begin, Goto, KindsAndStatements, InFlight, Reading
  <1>3. ~\E g \in Guests : cartLock[g] = p
    BY DEF IInv, Begin, CartLockHolders, Reading
  <1>4. QED
    BY <1>1, <1>2, <1>3, MoveInv DEF Begin, InFlight, Labels, PastCart, Reading

LEMMA EnsureCartExistsInv ==
  ASSUME IInv, NEW p \in Requests, EnsureCartExists(p)
  PROVE  IInv'
  <1>1. txn' \in [Requests -> TxnFields] /\ \A q \in Requests \ {p} : txn'[q] = txn[q]
    BY DEF IInv, TypeOK, EnsureCartExists
  <1>2. KindsAndStatements'
    BY DEF IInv, TypeOK, EnsureCartExists, Goto, KindsAndStatements, InFlight, Reading
  <1>3. ~\E g \in Guests : cartLock[g] = p
    BY DEF IInv, EnsureCartExists, CartLockHolders, Reading
  <1>4. QED
    BY <1>1, <1>2, <1>3, MoveInv DEF EnsureCartExists, InFlight, Labels, PastCart, Reading

LEMMA ReadRestaurantsInv ==
  ASSUME IInv, NEW p \in Requests, ReadRestaurants(p)
  PROVE  IInv'
  <1>1. /\ txn' \in [Requests -> TxnFields] /\ \A q \in Requests \ {p} : txn'[q] = txn[q]
        /\ txn'[p].cart = txn[p].cart
        /\ txn'[p].restaurants \in {c.restaurants : c \in Catalogs}
    <2>1. txn \in [Requests -> TxnFields] /\ catalog.restaurants \in {c.restaurants : c \in Catalogs}
      BY DEF IInv, TypeOK, CatalogRows
    <2>2. txn' = [txn EXCEPT ![p].restaurants = catalog.restaurants]
      BY DEF ReadRestaurants
    <2>3. [txn[p] EXCEPT !.restaurants = catalog.restaurants] \in TxnFields
      BY <2>1 DEF TxnFields
    <2>4. /\ txn'[p].restaurants = catalog.restaurants /\ txn'[p].cart = txn[p].cart
      BY <2>1, <2>2 DEF TxnFields
    <2>5. QED
      BY <2>1, <2>2, <2>3, <2>4
  <1>2. KindsAndStatements'
    BY DEF IInv, TypeOK, ReadRestaurants, Goto, KindsAndStatements, InFlight, Reading
  <1>3. QED
    BY <1>1, <1>2, MoveInv DEF ReadRestaurants, InFlight, Labels, PastCart, Reading

LEMMA ReadMenuInv ==
  ASSUME IInv, NEW p \in Requests, ReadMenu(p)
  PROVE  IInv'
  <1> DEFINE snapshot == [restaurants |-> txn[p].restaurants, menu |-> catalog.menu]
  <1>0. InFlight(p)
    BY DEF ReadMenu, InFlight
  <1>1. CASE CatalogVerdict(p, snapshot) # NoReply
    <2>1. CatalogVerdict(p, snapshot) \in Replies
      BY <1>1, PlainAnswers DEF CatalogVerdict
    <2>2. QED
      BY <1>0, <1>1, <2>1, RollbackInv DEF ReadMenu
  <1>2. CASE CatalogVerdict(p, snapshot) = NoReply
    <2>1. /\ txn' \in [Requests -> TxnFields] /\ \A q \in Requests \ {p} : txn'[q] = txn[q]
          /\ txn'[p].cart = txn[p].cart /\ Snapshot(p)' = snapshot
          /\ snapshot \in CatalogRows
      <3>1. txn \in [Requests -> TxnFields] /\ catalog.menu \in {c.menu : c \in Catalogs}
        BY DEF IInv, TypeOK, CatalogRows
      <3>2. txn' = [txn EXCEPT ![p].menu = catalog.menu]
        BY <1>2 DEF ReadMenu
      <3>3. [txn[p] EXCEPT !.menu = catalog.menu] \in TxnFields
        BY <3>1 DEF TxnFields
      <3>4. /\ txn'[p].menu = catalog.menu /\ txn'[p].restaurants = txn[p].restaurants
            /\ txn'[p].cart = txn[p].cart
        BY <3>1, <3>2 DEF TxnFields
      <3>5. QED
        BY <3>1, <3>2, <3>3, <3>4 DEF Snapshot, IInv, RowsAreRead, ReadMenu, CatalogRows
    <2>2. KindsAndStatements'
      BY <1>2 DEF IInv, TypeOK, ReadMenu, Goto, KindsAndStatements, InFlight, Reading
    <2>3. req[p].kind = "submit" => snapshot = req[p].fingerprint
      BY <1>2, ReplyAssumption, PlainAnswers DEF CatalogVerdict
    <2>4. QED
      BY <1>0, <1>2, <2>1, <2>2, <2>3, MoveInv DEF ReadMenu, Labels, PastCart, Reading
  <1>3. QED
    BY <1>1, <1>2

\* Writers keep their cart row through a step of p that leaves it to them.
LEMMA WritersKept ==
  ASSUME IInv, NEW p \in Requests, UNCHANGED req,
         \A q \in Requests \ {p} : pc'[q] = pc[q] /\ txn'[q] = txn[q],
         \A g \in Guests : \A q \in Requests \ {p} : cartLock[g] = q => cartLock'[g] = q,
         pc'[p] \in PastCart /\ LocksCart(p) =>
           /\ cartLock'[Owner(p)] = p
           /\ txn'[p].cart.revision = req[p].rev
           /\ req[p].kind = "submit" => txn'[p].cart.items # EmptyItems
  PROVE  WritersHoldCart'
  <1>1. \A q \in Requests : Owner(q)' = Owner(q) /\ LocksCart(q)' = LocksCart(q)
    BY DEF Owner, LocksCart
  <1>2. \A q \in Requests \ {p} : pc[q] \in PastCart => Owner(q) \in Guests
    BY Actors DEF PastCart, Reading
  <1>3. QED
    BY <1>1, <1>2 DEF IInv, WritersHoldCart

(***************************************************************************)
(* Steps that take a lock.                                                 *)
(***************************************************************************)
\* A known key is answered with a receipt of this guest or a conflict.
LEMMA LedgerAnswers ==
  ASSUME IInv, NEW p \in Requests, Owner(p) \in Guests, Entries(p) # {}
  PROVE  LedgerAnswer(p) \in Replies
  <1> DEFINE entry == CHOOSE e \in Entries(p) : TRUE
             order == CHOOSE o \in orders[Owner(p)] : o.id = entry.order
  <1>1. entry \in ledger[Owner(p)]
    BY DEF Entries
  <1>2. order \in orders[Owner(p)]
    <2>1. \E o \in orders[Owner(p)] : o.id = entry.order
      BY <1>1 DEF IInv, LedgerMatchesOrders
    <2> HIDE DEF entry
    <2>2. QED
      BY <2>1
  <1>3. order \in OrderRows
    BY <1>2 DEF IInv, TypeOK
  <1>4. ReceiptAnswer(order) \in Replies /\ Answer("idempotency_conflict") \in Replies
    BY <1>3, ReceiptAnswers, PlainAnswers
  <1>5. QED
    BY <1>4 DEF LedgerAnswer

\* p takes a lock on the guest row and moves to its next statement.
LEMMA LockSessionInv ==
  ASSUME IInv, NEW p \in Requests, InFlight(p), Owner(p) \in Guests, Present(Owner(p)),
         NEW mode \in Modes \ {"none"}, SessionFree(p, Owner(p), mode),
         LockSession(p, Owner(p), mode),
         NEW label \in {"ensureCart", "readCart", "delete"}, Goto(p, label),
         UNCHANGED <<tables, cartLock, req, txn, reply>>,
         pc[p] \notin {"delete", "cascade"},
         KindsAndStatements',
         mode = "nokeyupdate" <=> label = "delete",
         \* a holder of the cart row is one that has just inserted it
         (\E g \in Guests : cartLock[g] = p) => pc[p] = "checkOwner" /\ label = "readCart",
         req[p].kind = "submit" => mode = "update" /\ Entries(p) = {}
  PROVE  IInv'
  <1>1. TypeOK'
    BY DEF IInv, TypeOK, Goto, LockSession, tables, Labels
  <1>2. /\ \A q \in Requests \ {p} : pc'[q] = pc[q]
        /\ pc'[p] = label
        /\ \A g \in Guests : \A q \in Requests \ {p} : sessionLock'[g][q] = sessionLock[g][q]
        /\ \A g \in Guests \ {Owner(p)} : sessionLock'[g][p] = sessionLock[g][p]
        /\ sessionLock'[Owner(p)][p] = mode
        /\ UNCHANGED <<session, cart, orders, ledger, catalog, cartLock, req, txn>>
    BY DEF IInv, TypeOK, Goto, LockSession, tables
  <1>3. SessionLocksExclude'
    <2>1. \A q \in Requests \ {p} : ~Conflicts(mode, sessionLock[Owner(p)][q])
      BY DEF SessionFree
    <2>2. \A g \in Guests : \A q, r \in Requests :
            q # r => ~Conflicts(sessionLock[g][q], sessionLock[g][r])
      BY DEF IInv, SessionLocksExclude
    <2> SUFFICES ASSUME NEW g \in Guests, NEW q \in Requests, NEW r \in Requests, q # r
                 PROVE  ~Conflicts(sessionLock'[g][q], sessionLock'[g][r])
      BY DEF SessionLocksExclude, Conflicts
    <2>3. CASE g # Owner(p) \/ (q # p /\ r # p)
      BY <1>2, <2>2, <2>3
    <2>4. CASE g = Owner(p) /\ q = p
      BY <1>2, <2>1, <2>4
    <2>5. CASE g = Owner(p) /\ r = p
      BY <1>2, <2>1, <2>5 DEF Conflicts
    <2>6. QED
      BY <2>3, <2>4, <2>5
  <1>4. SessionLocksOnLiving'
    BY <1>2 DEF IInv, SessionLocksOnLiving, Present, InFlight, Owner
  <1>5. CartLockHolders'
    BY <1>2 DEF IInv, CartLockHolders, Owner, VisibleCart, LocksCart, Reading, PastCart, Modes
  <1>6. WritersHoldCart'
    BY <1>2 DEF IInv, WritersHoldCart, Owner, LocksCart, PastCart
  <1>7. RowsAreRead'
    BY <1>2 DEF IInv, RowsAreRead, PastCart, Snapshot
  <1>8. SubmitsHoldGuest'
    BY <1>2, Actors DEF IInv, SubmitsHoldGuest, Owner, Entries, Snapshot, Reading
  <1>9. PurgesHoldGuests'
    BY <1>2, Actors DEF IInv, PurgesHoldGuests, Owner
  <1>10. OrdersAreOld' /\ NoOrphanRows' /\ OrdersAreSealed' /\ OneOrderPerRevision' /\ LedgerMatchesOrders'
    BY <1>2, DataFrame DEF InFlight
  <1>11. QED
    BY <1>1, <1>3, <1>4, <1>5, <1>6, <1>7, <1>8, <1>9, <1>10 DEF IInv

LEMMA LockActiveGuestInv ==
  ASSUME IInv, NEW p \in Requests, LockActiveGuest(p)
  PROVE  IInv'
  <1>1. InFlight(p) /\ Owner(p) \in Guests /\ Unavailable \in Replies
    BY Actors, PlainAnswers DEF LockActiveGuest, Unavailable
  <1>2. CASE ~(txn[p].live /\ Present(Owner(p)))
    BY <1>1, <1>2, RollbackInv DEF LockActiveGuest
  <1>3. CASE txn[p].live /\ Present(Owner(p)) /\ Entries(p) # {}
    <2>1. LedgerAnswer(p) \in Replies
      BY <1>1, <1>3, LedgerAnswers
    <2>2. QED
      BY <1>1, <1>3, <2>1, RollbackInv DEF LockActiveGuest
  <1>4. CASE txn[p].live /\ Present(Owner(p)) /\ Entries(p) = {}
    <2>1. /\ pc[p] = "lockGuest" /\ SessionFree(p, Owner(p), "update")
          /\ LockSession(p, Owner(p), "update") /\ Goto(p, "ensureCart")
          /\ UNCHANGED <<tables, cartLock, req, txn, reply>>
      BY <1>4 DEF LockActiveGuest
    <2>2. KindsAndStatements'
      BY <2>1 DEF IInv, TypeOK, Goto, KindsAndStatements, InFlight, Reading
    <2>3. ~\E g \in Guests : cartLock[g] = p
      BY <2>1 DEF IInv, CartLockHolders, Reading
    <2>4. QED
      BY <1>1, <1>4, <2>1, <2>2, <2>3, LockSessionInv DEF Modes
  <1>5. QED
    BY <1>2, <1>3, <1>4

LEMMA CheckOwnerInv ==
  ASSUME IInv, NEW p \in Requests, CheckOwner(p)
  PROVE  IInv'
  <1>1. InFlight(p) /\ Owner(p) \in Guests /\ Unavailable \in Replies /\ pc[p] = "checkOwner"
    BY Actors, PlainAnswers DEF CheckOwner, Unavailable
  <1>2. CASE ~Present(Owner(p))
    BY <1>1, <1>2, RollbackInv DEF CheckOwner
  <1>3. CASE Present(Owner(p)) /\ sessionLock[Owner(p)][p] = "none"
    <2>1. KindsAndStatements'
      BY <1>1, <1>3 DEF IInv, TypeOK, CheckOwner, Goto, KindsAndStatements, InFlight, Reading
    <2>2. req[p].kind # "submit"
      BY <1>1, <1>3 DEF IInv, SubmitsHoldGuest
    <2>3. QED
      BY <1>1, <1>3, <2>1, <2>2, LockSessionInv DEF CheckOwner, Modes
  <1>4. CASE Present(Owner(p)) /\ sessionLock[Owner(p)][p] # "none"
    <2> DEFINE mode == sessionLock[Owner(p)][p]
    <2>1. mode \in {"keyshare", "update"}
      BY <1>1, <1>4 DEF IInv, TypeOK, Modes, SessionLocksOnLiving
    <2>2. /\ SessionFree(p, Owner(p), mode) /\ LockSession(p, Owner(p), mode)
          /\ Goto(p, "readCart")
          /\ UNCHANGED <<tables, cartLock, req, txn, reply>>
      BY <1>1, <1>4 DEF IInv, TypeOK, CheckOwner, LockSession, SessionFree, SessionLocksExclude
    <2>3. KindsAndStatements'
      BY <1>1, <2>2 DEF IInv, TypeOK, Goto, KindsAndStatements, InFlight, Reading
    <2>4. req[p].kind = "submit" => mode = "update" /\ Entries(p) = {}
      BY <1>1 DEF IInv, SubmitsHoldGuest
    <2> HIDE DEF mode
    <2>5. QED
      BY <1>1, <1>4, <2>1, <2>2, <2>3, <2>4, LockSessionInv DEF Modes
  <1>5. QED
    BY <1>2, <1>3, <1>4

LEMMA RevokeInv ==
  ASSUME IInv, NEW p \in Requests, Revoke(p)
  PROVE  IInv'
  <1>1. InFlight(p) /\ Owner(p) \in Guests /\ Answer("session_invalid") \in Replies
    BY Actors, PlainAnswers DEF Revoke
  <1>2. CASE ~Present(Owner(p))
    BY <1>1, <1>2, RollbackInv DEF Revoke
  <1>3. CASE Present(Owner(p))
    <2>1. KindsAndStatements'
      BY <1>3 DEF IInv, TypeOK, Revoke, Goto, KindsAndStatements, InFlight, Reading
    <2>2. (~\E g \in Guests : cartLock[g] = p) /\ req[p].kind # "submit"
      BY DEF IInv, Revoke, CartLockHolders, KindsAndStatements, Reading
    <2>3. QED
      BY <1>1, <1>3, <2>1, <2>2, LockSessionInv DEF Revoke, Modes
  <1>4. QED
    BY <1>2, <1>3

\* p inserts the cart row, and holds it before its foreign key has been checked.
LEMMA EnsureCartInsertsInv ==
  ASSUME IInv, NEW p \in Requests, EnsureCartInserts(p)
  PROVE  IInv'
  <1>1. /\ InFlight(p) /\ Owner(p) \in Guests /\ pc[p] = "ensureCart"
        /\ cart[Owner(p)] = NoCart /\ cartLock[Owner(p)] \in {NoRequest, p}
    BY Actors DEF EnsureCartInserts, Undecided, CartFree, Reading
  <1>2. /\ \A q \in Requests \ {p} : pc'[q] = pc[q]
        /\ pc'[p] = "checkOwner"
        /\ \A g \in Guests \ {Owner(p)} : cartLock'[g] = cartLock[g]
        /\ cartLock'[Owner(p)] = p
        /\ UNCHANGED <<session, cart, orders, ledger, catalog, sessionLock, req, txn, reply>>
    BY <1>1 DEF IInv, TypeOK, EnsureCartInserts, Goto, tables
  <1>3. TypeOK'
    BY DEF IInv, TypeOK, EnsureCartInserts, Goto, tables, Labels
  <1>4. KindsAndStatements'
    BY <1>1, <1>2 DEF IInv, KindsAndStatements, InFlight, Reading
  <1>5. SessionLocksExclude' /\ SessionLocksOnLiving'
    BY <1>1, <1>2 DEF IInv, SessionLocksExclude, SessionLocksOnLiving, Present, InFlight, Owner
  <1>6. \A g \in Guests : cartLock[g] # p
    BY <1>1 DEF IInv, CartLockHolders, Reading
  <1>7. CartLockHolders'
    BY <1>1, <1>2, <1>6 DEF IInv, CartLockHolders, Owner, VisibleCart, LocksCart, Reading, PastCart
  <1>8. WritersHoldCart'
    BY <1>1, <1>2, SentinelAssumption, WritersKept DEF PastCart
  <1>9. RowsAreRead'
    BY <1>2 DEF IInv, RowsAreRead, PastCart, Snapshot
  <1>10. SubmitsHoldGuest'
    BY <1>1, <1>2 DEF IInv, SubmitsHoldGuest, Owner, Entries, Snapshot, Reading
  <1>11. PurgesHoldGuests'
    BY <1>1, <1>2, Actors DEF IInv, PurgesHoldGuests, Owner
  <1>12. OrdersAreOld' /\ NoOrphanRows' /\ OrdersAreSealed' /\ OneOrderPerRevision' /\ LedgerMatchesOrders'
    BY <1>1, <1>2, DataFrame DEF tables
  <1>13. QED
    BY <1>3, <1>4, <1>5, <1>7, <1>8, <1>9, <1>10, <1>11, <1>12 DEF IInv

LEMMA ReadCartInv ==
  ASSUME IInv, NEW p \in Requests, ReadCart(p)
  PROVE  IInv'
  <1> DEFINE row == VisibleCart(p, Owner(p))
  <1>1. /\ InFlight(p) /\ Owner(p) \in Guests /\ pc[p] = "readCart"
        /\ req[p].kind \in {"get", "put", "delete", "quote", "submit"}
        /\ LocksCart(p) => CartFree(p, Owner(p))
        /\ Unavailable \in Replies
    BY Actors, PlainAnswers DEF IInv, ReadCart, Reading, KindsAndStatements, Unavailable
  <1>2. CASE row = NoCart
    BY <1>1, <1>2, RollbackInv DEF ReadCart
  <1>3. row # NoCart => row \in CartRows
    BY <1>1, ConstantsAssumption DEF IInv, TypeOK, VisibleCart, CartRows
  <1>4. CASE row # NoCart /\ CartVerdict(p, row) # NoReply
    <2>1. CartVerdict(p, row) \in Replies
      BY <1>1, <1>3, <1>4, LedgerAnswers, RowAnswers, PlainAnswers DEF CartVerdict
    <2>2. QED
      BY <1>1, <1>4, <2>1, RollbackInv DEF ReadCart
  <1>5. CASE row # NoCart /\ CartVerdict(p, row) = NoReply
    <2>1. /\ \A q \in Requests \ {p} : pc'[q] = pc[q] /\ txn'[q] = txn[q]
          /\ pc'[p] = IF req[p].kind \in {"get", "delete"} THEN "commit" ELSE "readRestaurants"
          /\ txn'[p].cart = row /\ txn'[p].purge = txn[p].purge
          /\ \A g \in Guests \ {Owner(p)} : cartLock'[g] = cartLock[g]
          /\ cartLock'[Owner(p)] = IF LocksCart(p) THEN p ELSE cartLock[Owner(p)]
          /\ UNCHANGED <<session, cart, orders, ledger, catalog, sessionLock, req, reply>>
      BY <1>1, <1>5 DEF IInv, TypeOK, TxnFields, ReadCart, Goto, tables
    <2>2. /\ req[p].kind # "get" => row.revision = req[p].rev
          /\ req[p].kind = "submit" => row.items # EmptyItems
      <3>1. CartAnswer("cart_conflict", row) # NoReply /\ Answer("invalid_checkout") # NoReply
        BY <1>3, <1>5, RowAnswers, PlainAnswers, ReplyAssumption
      <3>2. ~(req[p].kind = "submit" /\ Entries(p) # {})
        BY <1>1 DEF IInv, SubmitsHoldGuest, Reading
      <3>3. QED
        BY <1>5, <3>1, <3>2 DEF CartVerdict
    <2>3. TypeOK'
      <3>1. txn' \in [Requests -> TxnFields]
        <4>1. txn \in [Requests -> TxnFields]
          BY DEF IInv, TypeOK
        <4>2. txn' = [txn EXCEPT ![p].cart = row]
          BY <1>5 DEF ReadCart
        <4>3. [txn[p] EXCEPT !.cart = row] \in TxnFields
          BY <1>3, <1>5, <4>1 DEF TxnFields
        <4>4. QED
          BY <4>1, <4>2, <4>3
      <3>2. cartLock' \in [Guests -> Requests \union {NoRequest}]
        BY <1>5 DEF IInv, TypeOK, ReadCart
      <3>3. pc' \in [Requests -> Labels]
        BY <1>5 DEF IInv, TypeOK, ReadCart, Goto, Labels
      <3>4. QED
        BY <2>1, <3>1, <3>2, <3>3 DEF IInv, TypeOK
    <2>4. KindsAndStatements'
      BY <1>1, <2>1 DEF IInv, KindsAndStatements, InFlight, Reading
    <2>5. SessionLocksExclude' /\ SessionLocksOnLiving'
      BY <1>1, <2>1 DEF IInv, SessionLocksExclude, SessionLocksOnLiving, Present, InFlight, Owner
    <2>6. CartLockHolders'
      <3>1. \A g \in Guests : cartLock[g] = p => g = Owner(p) /\ (~LocksCart(p) => cart[g] = NoCart)
              /\ (cart[g] = NoCart => sessionLock[g][p] \in {"keyshare", "update"})
        BY <1>1 DEF IInv, CartLockHolders, Reading
      <3>2. cart[Owner(p)] = NoCart => cartLock[Owner(p)] = p
        BY <1>5 DEF VisibleCart
      <3>3. \A g \in Guests : \A q \in Requests : q # p /\ cartLock'[g] = q => cartLock[g] = q
        BY <2>1
      <3>4. QED
        BY <1>1, <2>1, <3>1, <3>2, <3>3
        DEF IInv, CartLockHolders, Owner, VisibleCart, LocksCart, Reading, PastCart
    <2>7. WritersHoldCart'
      <3>1. LocksCart(p) => req[p].kind # "get" /\ cartLock[Owner(p)] \in {NoRequest, p}
        BY <1>1 DEF LocksCart, CartFree
      <3>2. \A g \in Guests : \A q \in Requests \ {p} : cartLock[g] = q => cartLock'[g] = q
        BY <2>1, <3>1, SentinelAssumption
      <3>3. QED
        BY <2>1, <2>2, <3>1, <3>2, WritersKept
    <2>8. RowsAreRead'
      BY <1>1, <1>5, <2>1 DEF IInv, RowsAreRead, PastCart, Snapshot
    <2>9. SubmitsHoldGuest'
      BY <1>1, <2>1 DEF IInv, SubmitsHoldGuest, Owner, Entries, Snapshot, Reading
    <2>10. PurgesHoldGuests'
      BY <1>1, <2>1, Actors, SentinelAssumption DEF IInv, PurgesHoldGuests, CartFree, Owner
    <2>11. OrdersAreOld' /\ NoOrphanRows' /\ OrdersAreSealed' /\ OneOrderPerRevision' /\ LedgerMatchesOrders'
      BY <1>1, <2>1, DataFrame DEF tables
    <2>12. QED
      BY <2>3, <2>4, <2>5, <2>6, <2>7, <2>8, <2>9, <2>10, <2>11 DEF IInv
  <1>6. QED
    BY <1>2, <1>4, <1>5

(***************************************************************************)
(* Purges.                                                                 *)
(***************************************************************************)
\* p locks the rows it will delete.
LEMMA StartPurgeInv ==
  ASSUME IInv, NEW p \in Requests, pc[p] \in {"delete", "select"}, NEW gs \in SUBSET Guests,
         \A g \in gs : Present(g) /\ SessionFree(p, g, "update"),
         pc[p] = "delete" => gs = {Owner(p)},
         StartPurge(p, gs)
  PROVE  IInv'
  <1>1. /\ \A q \in Requests \ {p} : pc'[q] = pc[q] /\ txn'[q] = txn[q]
        /\ pc'[p] = "cascade" /\ txn'[p].purge = gs /\ txn'[p].cascade = gs
        /\ \A g \in Guests : \A q \in Requests \ {p} : sessionLock'[g][q] = sessionLock[g][q]
        /\ \A g \in Guests : sessionLock'[g][p] = IF g \in gs THEN "update" ELSE sessionLock[g][p]
        /\ UNCHANGED <<session, cart, orders, ledger, catalog, cartLock, req, reply>>
    BY DEF IInv, TypeOK, TxnFields, StartPurge, Goto, tables
  <1>2. TypeOK'
    <2>1. txn' \in [Requests -> TxnFields]
      <3>1. txn \in [Requests -> TxnFields]
        BY DEF IInv, TypeOK
      <3>2. txn' = [txn EXCEPT ![p] = [[txn[p] EXCEPT !.purge = gs] EXCEPT !.cascade = gs]]
        BY <3>1 DEF StartPurge
      <3>3. [txn[p] EXCEPT !.purge = gs] \in TxnFields
        BY <3>1 DEF TxnFields
      <3>4. [[txn[p] EXCEPT !.purge = gs] EXCEPT !.cascade = gs] \in TxnFields
        BY <3>3 DEF TxnFields
      <3>5. QED
        BY <3>1, <3>2, <3>4
    <2>2. sessionLock' \in [Guests -> [Requests -> Modes]]
      BY DEF IInv, TypeOK, Modes, StartPurge
    <2>3. pc' \in [Requests -> Labels]
      BY DEF IInv, TypeOK, StartPurge, Goto, Labels
    <2>4. QED
      BY <1>1, <2>1, <2>2, <2>3 DEF IInv, TypeOK
  <1>3. KindsAndStatements'
    BY <1>1 DEF IInv, KindsAndStatements, InFlight, Reading
  <1>4. SessionLocksExclude'
    <2> SUFFICES ASSUME NEW g \in Guests, NEW q \in Requests, NEW r \in Requests, q # r
                 PROVE  ~Conflicts(sessionLock'[g][q], sessionLock'[g][r])
      BY DEF SessionLocksExclude, Conflicts
    <2>1. ~Conflicts(sessionLock[g][q], sessionLock[g][r])
      BY DEF IInv, SessionLocksExclude
    <2>2. CASE g \notin gs \/ (q # p /\ r # p)
      BY <1>1, <2>1, <2>2
    <2>3. CASE g \in gs /\ q = p
      BY <1>1, <2>3 DEF SessionFree
    <2>4. CASE g \in gs /\ r = p
      BY <1>1, <2>4 DEF SessionFree, Conflicts
    <2>5. QED
      BY <2>2, <2>3, <2>4
  <1>5. SessionLocksOnLiving'
    <2>1. \A g \in Guests \ gs : sessionLock[g][p] # "nokeyupdate"
      BY DEF IInv, SessionLocksOnLiving
    <2>2. QED
      BY <1>1, <2>1 DEF IInv, SessionLocksOnLiving, Present, InFlight, Owner
  <1>6. \A g \in Guests : cartLock[g] # p
    BY DEF IInv, CartLockHolders, Reading
  <1>7. CartLockHolders'
    BY <1>1, <1>6 DEF IInv, CartLockHolders, Owner, VisibleCart, LocksCart, Reading, PastCart
  <1>8. WritersHoldCart'
    BY <1>1, WritersKept DEF PastCart
  <1>9. RowsAreRead'
    BY <1>1 DEF IInv, RowsAreRead, PastCart, Snapshot
  <1>10. SubmitsHoldGuest'
    BY <1>1, Actors DEF IInv, SubmitsHoldGuest, Owner, Entries, Snapshot, Reading
  <1>11. PurgesHoldGuests'
    <2>1. \A q \in Requests : pc[q] = "delete" => Owner(q) \in Guests
      BY Actors
    <2>2. QED
      BY <1>1, <2>1, Actors DEF IInv, PurgesHoldGuests, Owner
  <1>12. OrdersAreOld' /\ NoOrphanRows' /\ OrdersAreSealed' /\ OneOrderPerRevision' /\ LedgerMatchesOrders'
    BY <1>1, DataFrame DEF tables
  <1>13. QED
    BY <1>2, <1>3, <1>4, <1>5, <1>7, <1>8, <1>9, <1>10, <1>11, <1>12 DEF IInv

LEMMA DeleteSessionInv ==
  ASSUME IInv, NEW p \in Requests, DeleteSession(p)
  PROVE  IInv'
  <1>1. Owner(p) \in Guests /\ pc[p] = "delete"
    BY Actors DEF DeleteSession
  <1>2. Present(Owner(p))
    BY <1>1 DEF IInv, PurgesHoldGuests, SessionLocksOnLiving
  <1>3. QED
    BY <1>1, <1>2, StartPurgeInv DEF DeleteSession

LEMMA SelectExpiredInv ==
  ASSUME IInv, NEW p \in Requests, SelectExpired(p)
  PROVE  IInv'
  <1> DEFINE candidates == {g \in Guests : session[g] = "expired" /\ SessionFree(p, g, "update")}
  <1>1. CASE candidates = {}
    BY <1>1, RollbackInv, PlainAnswers DEF SelectExpired, InFlight
  <1>2. CASE candidates # {}
    <2>1. PICK batch \in SUBSET candidates : StartPurge(p, batch)
      BY <1>2 DEF SelectExpired
    <2>2. pc[p] = "select" /\ \A g \in batch : Present(g) /\ SessionFree(p, g, "update")
      BY DEF SelectExpired, Present
    <2>3. QED
      BY <2>1, <2>2, StartPurgeInv
  <1>3. QED
    BY <1>1, <1>2

\* The cascade reaches one cart row.
LEMMA CascadeCartInv ==
  ASSUME IInv, NEW p \in Requests, NEW g \in Guests, CascadeCart(p, g)
  PROVE  IInv'
  <1>1. /\ pc[p] = "cascade" /\ g \in txn[p].cascade
        /\ \A q \in Requests \ {p} : txn'[q] = txn[q]
        /\ txn'[p].purge = txn[p].purge /\ txn'[p].cascade = txn[p].cascade \ {g}
        /\ \A h \in Guests \ {g} : cartLock'[h] = cartLock[h]
        /\ cart[g] = NoCart => cartLock'[g] = cartLock[g]
        /\ cart[g] # NoCart => cartLock'[g] = p /\ cartLock[g] \in {NoRequest, p}
        /\ UNCHANGED <<session, cart, orders, ledger, catalog, sessionLock, pc, req, reply>>
    BY DEF IInv, TypeOK, TxnFields, CascadeCart, CartFree, tables
  <1>2. TypeOK'
    <2>1. txn' \in [Requests -> TxnFields]
      <3>1. txn \in [Requests -> TxnFields]
        BY DEF IInv, TypeOK
      <3>2. txn' = [txn EXCEPT ![p].cascade = txn[p].cascade \ {g}]
        BY <3>1 DEF CascadeCart
      <3>3. [txn[p] EXCEPT !.cascade = txn[p].cascade \ {g}] \in TxnFields
        BY <3>1 DEF TxnFields
      <3>4. QED
        BY <3>1, <3>2, <3>3
    <2>2. cartLock' \in [Guests -> Requests \union {NoRequest}]
      BY DEF IInv, TypeOK, CascadeCart
    <2>3. QED
      BY <1>1, <2>1, <2>2 DEF IInv, TypeOK
  <1>3. KindsAndStatements' /\ SessionLocksExclude' /\ SessionLocksOnLiving'
    BY <1>1 DEF IInv, KindsAndStatements, InFlight, SessionLocksExclude, SessionLocksOnLiving,
                Present, Owner
  <1>4. \A h \in Guests : \A q \in Requests \ {p} : cartLock'[h] = q <=> cartLock[h] = q
    BY <1>1, SentinelAssumption
  <1>5. CartLockHolders'
    BY <1>1, <1>4 DEF IInv, CartLockHolders, PurgesHoldGuests, Owner, VisibleCart, LocksCart,
                      Reading, PastCart
  <1>6. WritersHoldCart'
    BY <1>1, <1>4, WritersKept DEF PastCart
  <1>7. RowsAreRead'
    BY <1>1 DEF IInv, RowsAreRead, PastCart, Snapshot
  <1>8. SubmitsHoldGuest'
    BY <1>1 DEF IInv, SubmitsHoldGuest, Owner, Entries, Snapshot, Reading
  <1>9. PurgesHoldGuests'
    BY <1>1, <1>4, Actors DEF IInv, PurgesHoldGuests, Owner
  <1>10. OrdersAreOld' /\ NoOrphanRows' /\ OrdersAreSealed' /\ OneOrderPerRevision' /\ LedgerMatchesOrders'
    BY <1>1, DataFrame DEF tables
  <1>11. QED
    BY <1>2, <1>3, <1>5, <1>6, <1>7, <1>8, <1>9, <1>10 DEF IInv

(***************************************************************************)
(* Commits.                                                                *)
(***************************************************************************)
\* The parts of the invariant that the end of p preserves whatever it wrote.
LEMMA FinishInv ==
  ASSUME IInv, NEW p \in Requests, InFlight(p), NEW a \in Replies, Finish(p, a)
  PROVE  /\ KindsAndStatements' /\ SessionLocksExclude' /\ WritersHoldCart' /\ RowsAreRead'
  <1>1. TypeOK
    BY DEF IInv
  <1>2. KindsAndStatements'
    BY <1>1, FinishFrame DEF IInv, KindsAndStatements, InFlight, Reading
  <1>3. SessionLocksExclude'
    BY <1>1, FinishFrame DEF IInv, SessionLocksExclude, Conflicts
  <1>4. WritersHoldCart'
    BY <1>1, FinishFrame, WritersKept DEF PastCart
  <1>5. RowsAreRead'
    BY <1>1, FinishFrame DEF IInv, RowsAreRead, PastCart, Snapshot
  <1>6. QED
    BY <1>2, <1>3, <1>4, <1>5

\* What a request holds when it commits a cart row.
LEMMA CommitterHolds ==
  ASSUME IInv, NEW p \in Requests, pc[p] = "commit", cartLock[Owner(p)] = p
  PROVE  /\ Owner(p) \in Guests /\ txn[p].cart \in CartRows
         /\ txn[p].cart = VisibleCart(p, Owner(p))
         /\ Present(Owner(p))
         /\ cart[Owner(p)] = NoCart =>
              \A q \in Requests \ {p} : sessionLock[Owner(p)][q] # "update"
         /\ orders[Owner(p)] # {} =>
              LocksCart(p) /\ cart[Owner(p)] # NoCart /\ txn[p].cart = cart[Owner(p)]
  <1>1. Owner(p) \in Guests
    BY Actors DEF Reading
  <1>2. txn[p].cart \in CartRows
    BY DEF IInv, TypeOK, TxnFields, RowsAreRead, PastCart
  <1>3. /\ txn[p].cart = VisibleCart(p, Owner(p))
        /\ cart[Owner(p)] = NoCart => sessionLock[Owner(p)][p] \in {"keyshare", "update"}
        /\ ~LocksCart(p) => cart[Owner(p)] = NoCart
    BY <1>1 DEF IInv, CartLockHolders, Reading, PastCart
  <1>4. Present(Owner(p))
    BY <1>1, <1>3 DEF IInv, SessionLocksOnLiving, NoOrphanRows
  <1>5. cart[Owner(p)] = NoCart => \A q \in Requests \ {p} : sessionLock[Owner(p)][q] # "update"
    BY <1>1, <1>3 DEF IInv, SessionLocksExclude, Conflicts
  <1>6. orders[Owner(p)] # {} => cart[Owner(p)] # NoCart
    BY <1>1 DEF IInv, OrdersAreSealed
  <1>7. QED
    BY <1>1, <1>2, <1>3, <1>4, <1>5, <1>6 DEF VisibleCart

\* Replacing the cart row p holds leaves the other lock holders undisturbed.
LEMMA CartCommitted ==
  ASSUME IInv, NEW p \in Requests, pc[p] = "commit", NEW a \in Replies, Finish(p, a),
         UNCHANGED session,
         cartLock[Owner(p)] = p,
         NEW row \in CartRows, cart' = [cart EXCEPT ![Owner(p)] = row]
  PROVE  SessionLocksOnLiving' /\ CartLockHolders' /\ PurgesHoldGuests'
  <1>1. TypeOK /\ Owner(p) \in Guests /\ InFlight(p)
    BY Actors DEF IInv, Reading, InFlight
  <1>2. \A g \in Guests \ {Owner(p)} : cart'[g] = cart[g]
    BY <1>1 DEF TypeOK
  <1>3. SessionLocksOnLiving'
    BY <1>1, FinishFrame DEF IInv, SessionLocksOnLiving, Present, InFlight, Owner
  <1>4. CartLockHolders'
    BY <1>1, <1>2, FinishFrame DEF IInv, CartLockHolders, Owner, VisibleCart, LocksCart,
                                   Reading, PastCart
  <1>5. PurgesHoldGuests'
    <2> SUFFICES ASSUME NEW q \in Requests, q # p
                 PROVE  /\ pc[q] = "delete" => sessionLock'[Owner(q)][q] = "nokeyupdate"
                        /\ pc[q] = "cascade" =>
                             /\ txn[q].cascade \subseteq txn[q].purge
                             /\ \A g \in txn[q].purge :
                                  /\ sessionLock'[g][q] = "update"
                                  /\ g \notin txn[q].cascade /\ cart'[g] # NoCart => cartLock'[g] = q
      BY <1>1, FinishFrame DEF PurgesHoldGuests, Owner
    <2>1. txn[q].purge \subseteq Guests /\ (pc[q] = "delete" => Owner(q) \in Guests)
      BY Actors
    <2>2. \A g \in Guests : sessionLock'[g][q] = sessionLock[g][q] /\ (cartLock[g] = q => cartLock'[g] = q)
      BY <1>1, FinishFrame
    <2>3. ASSUME NEW g \in txn[q].purge, pc[q] = "cascade", g \notin txn[q].cascade, cart'[g] # NoCart
          PROVE  g # Owner(p) /\ cart[g] # NoCart
      <3>1. sessionLock[g][q] = "update" /\ (cart[g] # NoCart => cartLock[g] = q)
        BY <2>3 DEF IInv, PurgesHoldGuests
      <3>2. g # Owner(p)
        BY <3>1, <2>3, CommitterHolds
      <3>3. QED
        BY <1>2, <2>1, <2>3, <3>2
    <2>4. QED
      BY <2>1, <2>2, <2>3 DEF IInv, PurgesHoldGuests
  <1>6. QED
    BY <1>3, <1>4, <1>5

LEMMA CommitCartInv ==
  ASSUME IInv, NEW p \in Requests, CommitCart(p)
  PROVE  IInv'
  <1>1. /\ TypeOK /\ InFlight(p) /\ Owner(p) \in Guests /\ pc[p] = "commit"
        /\ req[p] \in RequestBodies /\ req[p].kind \in {"get", "put", "delete", "quote"}
        /\ txn[p].cart \in CartRows
        /\ UNCHANGED <<session, orders, ledger, catalog>>
    BY Actors DEF CommitCart, Reading, IInv, TypeOK, TxnFields, RowsAreRead, PastCart
  <1>2. NewRow(p) \in CartRows
    BY <1>1, BodyFields, ConstantsAssumption DEF NewRow, CartRows
  <1>3. PICK a \in Replies : Finish(p, a)
    <2>1. req[p].kind = "quote" => Snapshot(p) \in CatalogRows
      BY <1>1 DEF IInv, RowsAreRead
    <2>2. QED
      BY <1>1, <1>2, <2>1, RowAnswers, PlainAnswers DEF CommitCart, Acknowledge, Unavailable
  <1>4. CASE cartLock[Owner(p)] # p
    BY <1>1, <1>3, <1>4, RollbackInv DEF CommitCart, Rollback, tables
  <1>5. CASE cartLock[Owner(p)] = p
    <2>1. cart' = [cart EXCEPT ![Owner(p)] = NewRow(p)]
      BY <1>5 DEF CommitCart
    <2>2. /\ cart'[Owner(p)] = NewRow(p)
          /\ \A g \in Guests \ {Owner(p)} : cart'[g] = cart[g]
          /\ NewRow(p) # NoCart
      BY <1>1, <1>2, <2>1, SentinelAssumption DEF TypeOK
    <2>3. TypeOK'
      BY <1>1, <1>2, <1>3, <2>1, FinishType DEF TypeOK
    <2>4. KindsAndStatements' /\ SessionLocksExclude' /\ WritersHoldCart' /\ RowsAreRead'
      BY <1>1, <1>3, FinishInv
    <2>5. SessionLocksOnLiving' /\ CartLockHolders' /\ PurgesHoldGuests'
      BY <1>1, <1>2, <1>3, <1>5, <2>1, CartCommitted
    <2>6. SubmitsHoldGuest'
      BY <1>1, <1>3, FinishFrame, Actors DEF IInv, SubmitsHoldGuest, Owner, Entries, Snapshot, Reading, InFlight
    <2>7. NoOrphanRows'
      BY <1>1, <1>5, <2>2, CommitterHolds DEF IInv, NoOrphanRows, Present
    <2>8. OrdersAreSealed'
      <3>1. \A o \in orders[Owner(p)] : o.rev < NewRow(p).revision
        <4>1. SUFFICES ASSUME NEW o \in orders[Owner(p)]
                       PROVE  o.rev < NewRow(p).revision
          OBVIOUS
        <4>2. LocksCart(p) /\ o.rev < txn[p].cart.revision /\ o.rev \in Nat
          BY <1>1, <1>5, CommitterHolds DEF IInv, TypeOK, OrderRows, OrdersAreSealed
        <4>3. txn[p].cart.revision \in Nat /\ NewRow(p).revision = txn[p].cart.revision + 1
          BY <1>1, <4>2 DEF NewRow, LocksCart, CartRows
        <4>4. QED
          BY <4>2, <4>3
      <3>2. QED
        BY <1>1, <2>2, <3>1 DEF IInv, OrdersAreSealed
    <2>9. OrdersAreOld' /\ OneOrderPerRevision' /\ LedgerMatchesOrders'
      BY <1>1, <1>3, FinishFrame, Actors DEF IInv, OrdersAreOld, OneOrderPerRevision, LedgerMatchesOrders
    <2>10. QED
      BY <2>3, <2>4, <2>5, <2>6, <2>7, <2>8, <2>9 DEF IInv
  <1>6. QED
    BY <1>4, <1>5

LEMMA CommitOrderInv ==
  ASSUME IInv, NEW p \in Requests, CommitOrder(p)
  PROVE  IInv'
  <1> DEFINE g0 == Owner(p)
             order == NewOrder(p)
             entry == [key |-> req[p].key, order |-> p, payload |-> Payload(p)]
  <1>1. /\ TypeOK /\ InFlight(p) /\ g0 \in Guests /\ pc[p] = "commit"
        /\ req[p] \in RequestBodies /\ req[p].kind = "submit"
        /\ UNCHANGED <<session, catalog>>
    BY Actors DEF CommitOrder, Reading, IInv
  <1>2. /\ sessionLock[g0][p] = "update" /\ Entries(p) = {} /\ Snapshot(p) = req[p].fingerprint
    BY <1>1 DEF IInv, SubmitsHoldGuest, Reading
  <1>3. /\ cartLock[g0] = p /\ txn[p].cart.revision = req[p].rev
        /\ txn[p].cart.items # EmptyItems
    BY <1>1 DEF IInv, WritersHoldCart, PastCart, LocksCart
  <1>4. /\ txn[p].cart \in CartRows /\ txn[p].cart = VisibleCart(p, g0)
    BY <1>1, <1>3, CommitterHolds
  <1>5. cart[g0] # NoCart /\ txn[p].cart = cart[g0]
    BY <1>3, <1>4 DEF VisibleCart
  <1>6. /\ req[p].rev \in Nat /\ req[p].key \in Keys /\ req[p].fingerprint \in CatalogRows
    BY <1>1, BodyFields
  <1>7. order \in OrderRows /\ entry \in LedgerRows
    BY <1>2, <1>4, <1>6 DEF NewOrder, OrderRows, Payload, LedgerRows, CartRows
  <1>8. /\ NewRow(p) \in CartRows /\ NewRow(p).revision = req[p].rev + 1
    BY <1>1, <1>3, <1>4, ConstantsAssumption DEF NewRow, CartRows
  <1>9. /\ order.id = p /\ order.rev = req[p].rev /\ order.items = txn[p].cart.items
        /\ order.catalog = req[p].fingerprint
        /\ entry.key = req[p].key /\ entry.order = p
        /\ entry.payload.rev = req[p].rev /\ entry.payload.fingerprint = req[p].fingerprint
    BY <1>2 DEF NewOrder, Payload
  <1>10. /\ orders' = [orders EXCEPT ![g0] = @ \union {order}]
         /\ ledger' = [ledger EXCEPT ![g0] = @ \union {entry}]
         /\ cart' = [cart EXCEPT ![g0] = NewRow(p)]
    BY DEF CommitOrder
  <1> HIDE DEF order, entry
  <1>11. /\ \A g \in Guests \ {g0} : orders'[g] = orders[g] /\ ledger'[g] = ledger[g] /\ cart'[g] = cart[g]
         /\ orders'[g0] = orders[g0] \union {order}
         /\ ledger'[g0] = ledger[g0] \union {entry}
         /\ cart'[g0] = NewRow(p) /\ NewRow(p) # NoCart
    BY <1>1, <1>8, <1>10, SentinelAssumption DEF TypeOK
  <1>12. PICK a \in Replies : Finish(p, a)
    BY <1>7, ReceiptAnswers, PlainAnswers DEF CommitOrder, Acknowledge, Unavailable, order
  <1>13. TypeOK'
    BY <1>1, <1>7, <1>8, <1>10, <1>12, FinishType DEF TypeOK
  <1>14. KindsAndStatements' /\ SessionLocksExclude' /\ WritersHoldCart' /\ RowsAreRead'
    BY <1>1, <1>12, FinishInv
  <1>15. SessionLocksOnLiving' /\ CartLockHolders' /\ PurgesHoldGuests'
    BY <1>1, <1>3, <1>8, <1>10, <1>12, CartCommitted
  <1>16. SubmitsHoldGuest'
    <2> SUFFICES ASSUME NEW q \in Requests, q # p, req[q].kind = "submit",
                        pc[q] \in {"ensureCart", "checkOwner"} \union Reading
                 PROVE  /\ sessionLock'[Owner(q)][q] = "update"
                        /\ Entries(q)' = {}
                        /\ pc[q] = "commit" => Snapshot(q)' = req[q].fingerprint
      BY <1>1, <1>12, FinishFrame DEF SubmitsHoldGuest, Owner, Reading
    <2>1. /\ sessionLock[Owner(q)][q] = "update" /\ Entries(q) = {}
          /\ pc[q] = "commit" => Snapshot(q) = req[q].fingerprint
          /\ Owner(q) \in Guests
      BY Actors DEF IInv, SubmitsHoldGuest
    <2>2. Owner(q) # g0
      BY <1>1, <1>2, <2>1 DEF IInv, SessionLocksExclude, Conflicts
    <2>3. ledger'[Owner(q)] = ledger[Owner(q)] /\ req' = req /\ txn'[q] = txn[q]
          /\ sessionLock'[Owner(q)][q] = sessionLock[Owner(q)][q]
      BY <1>1, <1>11, <1>12, <2>1, <2>2, FinishFrame
    <2>4. QED
      BY <2>1, <2>3 DEF Entries, Owner, Snapshot
  <1>17. OrdersAreOld'
    <2>1. pc'[p] = "done" /\ \A q \in Requests \ {p} : pc'[q] = pc[q]
      BY <1>1, <1>12, FinishFrame
    <2>2. QED
      BY <1>9, <1>11, <2>1, Actors DEF IInv, OrdersAreOld
  <1>18. NoOrphanRows'
    <2>1. Present(g0)
      BY <1>1, <1>2 DEF IInv, SessionLocksOnLiving
    <2>2. QED
      BY <1>1, <1>11, <2>1 DEF IInv, NoOrphanRows, Present
  <1>19. \A o \in orders[g0] : o.rev \in Nat /\ o.rev < req[p].rev /\ o.id # p
    BY <1>1, <1>3, <1>5 DEF IInv, TypeOK, OrderRows, OrdersAreSealed, OrdersAreOld
  <1>20. OrdersAreSealed'
    <2>1. \A o \in orders'[g0] : o.items # EmptyItems /\ o.rev < NewRow(p).revision
      <3>1. \A o \in orders[g0] : o.items # EmptyItems /\ o.rev < NewRow(p).revision
        BY <1>1, <1>6, <1>8, <1>19 DEF IInv, OrdersAreSealed
      <3>2. order.items # EmptyItems /\ order.rev < NewRow(p).revision
        BY <1>3, <1>6, <1>8, <1>9
      <3>3. QED
        BY <1>11, <3>1, <3>2
    <2>2. QED
      BY <1>11, <2>1 DEF IInv, OrdersAreSealed
  <1>21. OneOrderPerRevision'
    <2>1. \A o1, o2 \in orders'[g0] : o1.rev = o2.rev => o1 = o2
      BY <1>1, <1>6, <1>9, <1>11, <1>19 DEF IInv, OneOrderPerRevision
    <2>2. QED
      BY <1>11, <2>1 DEF IInv, OneOrderPerRevision
  <1>22. LedgerMatchesOrders'
    <2>1. \A e \in ledger[g0] : e.key # req[p].key
      BY <1>2 DEF Entries
    <2>2. \A e \in ledger[g0] : e.order # p
      BY <1>1, <1>19 DEF IInv, LedgerMatchesOrders
    <2>3. /\ \A e \in ledger'[g0] : \E o \in orders'[g0] :
               o.id = e.order /\ o.rev = e.payload.rev /\ o.catalog = e.payload.fingerprint
          /\ \A o \in orders'[g0] : \E e \in ledger'[g0] : e.order = o.id
          /\ \A e1, e2 \in ledger'[g0] : e1.key = e2.key \/ e1.order = e2.order => e1 = e2
      <3>1. \A e \in ledger[g0] : \E o \in orders[g0] :
               o.id = e.order /\ o.rev = e.payload.rev /\ o.catalog = e.payload.fingerprint
        BY <1>1 DEF IInv, LedgerMatchesOrders
      <3>2. \A o \in orders[g0] : \E e \in ledger[g0] : e.order = o.id
        BY <1>1 DEF IInv, LedgerMatchesOrders
      <3>3. \A e1, e2 \in ledger[g0] : e1.key = e2.key \/ e1.order = e2.order => e1 = e2
        BY <1>1 DEF IInv, LedgerMatchesOrders
      <3>4. QED
        BY <1>9, <1>11, <2>1, <2>2, <3>1, <3>2, <3>3
    <2>4. QED
      BY <1>11, <2>3 DEF IInv, LedgerMatchesOrders
  <1>23. QED
    BY <1>13, <1>14, <1>15, <1>16, <1>17, <1>18, <1>20, <1>21, <1>22 DEF IInv

\* Deleting the purged guests, and issuing new ones.
LEMMA CommitPurgeInv ==
  ASSUME IInv, NEW p \in Requests, NEW issued \in SUBSET Guests, CommitPurge(p, issued)
  PROVE  IInv'
  <1> DEFINE purge == txn[p].purge
  <1>1. TypeOK /\ InFlight(p) /\ pc[p] = "cascade" /\ purge \subseteq Guests /\ UNCHANGED catalog
    BY Actors DEF CommitPurge, IInv, InFlight
  <1>2. PICK a \in Replies : Finish(p, a)
    BY PlainAnswers DEF CommitPurge, Acknowledge, Unavailable
  <1>3. \A g \in purge : sessionLock[g][p] = "update" /\ (cart[g] # NoCart => cartLock[g] = p)
    BY <1>1 DEF IInv, PurgesHoldGuests, CommitPurge
  <1>4. /\ \A g \in purge : session'[g] = "gone" /\ cart'[g] = NoCart /\ orders'[g] = {} /\ ledger'[g] = {}
        /\ \A g \in Guests \ purge : /\ session'[g] \in {session[g], "live"}
                                     /\ cart'[g] = cart[g] /\ orders'[g] = orders[g]
                                     /\ ledger'[g] = ledger[g]
    BY <1>1 DEF CommitPurge, Purged
  <1>5. TypeOK'
    <2>1. /\ session' \in [Guests -> {"unissued", "live", "expired", "gone"}]
          /\ cart' \in [Guests -> CartRows \union {NoCart}]
          /\ orders' \in [Guests -> SUBSET OrderRows]
          /\ ledger' \in [Guests -> SUBSET LedgerRows]
      BY <1>1 DEF CommitPurge, Purged, TypeOK
    <2>2. QED
      BY <1>1, <1>2, <2>1, FinishType DEF TypeOK
  <1>6. KindsAndStatements' /\ SessionLocksExclude' /\ WritersHoldCart' /\ RowsAreRead'
    BY <1>1, <1>2, FinishInv
  <1>7. SessionLocksOnLiving'
    <2>1. \A g \in purge : \A q \in Requests \ {p} : sessionLock[g][q] = "none"
      BY <1>1, <1>3 DEF IInv, SessionLocksExclude, Conflicts
    <2>2. QED
      BY <1>1, <1>2, <1>4, <2>1, FinishFrame DEF IInv, SessionLocksOnLiving, Present, InFlight, Owner
  <1>8. \A g \in Guests : \A q \in Requests \ {p} : cartLock[g] = q => cart'[g] = cart[g]
    BY <1>3, <1>4
  <1>9. CartLockHolders'
    BY <1>1, <1>2, <1>8, FinishFrame DEF IInv, CartLockHolders, Owner, VisibleCart, LocksCart,
                                         Reading, PastCart
  <1>10. SubmitsHoldGuest'
    <2>1. \A g \in Guests : ledger'[g] \subseteq ledger[g]
      BY <1>4
    <2>2. QED
      BY <1>1, <1>2, <2>1, FinishFrame, Actors
      DEF IInv, SubmitsHoldGuest, Owner, Entries, Snapshot, Reading, InFlight
  <1>11. PurgesHoldGuests'
    <2>1. \A g \in Guests : cart'[g] # NoCart => cart[g] # NoCart
      BY <1>4
    <2>2. QED
      BY <1>1, <1>2, <2>1, FinishFrame, Actors DEF IInv, PurgesHoldGuests, Owner
  <1>12. OrdersAreOld'
    BY <1>1, <1>2, <1>4, FinishFrame, Actors DEF IInv, OrdersAreOld
  <1>13. NoOrphanRows'
    BY <1>1, <1>4 DEF IInv, NoOrphanRows, Present
  <1>14. OrdersAreSealed' /\ OneOrderPerRevision'
    BY <1>1, <1>4 DEF IInv, OrdersAreSealed, OneOrderPerRevision
  <1>15. LedgerMatchesOrders'
    BY <1>1, <1>4 DEF IInv, LedgerMatchesOrders
  <1>16. QED
    BY <1>5, <1>6, <1>7, <1>9, <1>10, <1>11, <1>12, <1>13, <1>14, <1>15 DEF IInv

(***************************************************************************)
(* Failures and the environment.                                           *)
(***************************************************************************)
LEMMA FailInv ==
  ASSUME IInv, NEW p \in Requests, Fail(p)
  PROVE  IInv'
  BY RollbackInv, PlainAnswers DEF Fail, Unavailable

LEMMA BreakDeadlockInv ==
  ASSUME IInv, NEW p \in Requests, BreakDeadlock(p)
  PROVE  IInv'
  <1>1. InFlight(p)
    BY DEF BreakDeadlock, Deadlocked, Blocks, InFlight
  <1>2. QED
    BY <1>1, RollbackInv, PlainAnswers DEF BreakDeadlock, Unavailable

\* A step that touches only expiry dates or the catalogue.
LEMMA EnvironmentInv ==
  ASSUME IInv,
         \/ \E g \in Guests : Expire(g)
         \/ WriteRestaurants
  PROVE  IInv'
  <1>1. /\ UNCHANGED <<cart, orders, ledger, sessionLock, cartLock, pc, req, txn, reply>>
        /\ session' \in [Guests -> {"unissued", "live", "expired", "gone"}]
        /\ \A h \in Guests : session'[h] = session[h] \/ (session[h] = "live" /\ session'[h] = "expired")
        /\ catalog' \in CatalogRows
    <2>1. session \in [Guests -> {"unissued", "live", "expired", "gone"}] /\ catalog \in CatalogRows
      BY DEF IInv, TypeOK
    <2>2. CASE \E g \in Guests : Expire(g)
      <3>1. PICK g \in Guests : session[g] = "live" /\ session' = [session EXCEPT ![g] = "expired"]
        BY <2>2 DEF Expire
      <3>2. /\ session' \in [Guests -> {"unissued", "live", "expired", "gone"}]
            /\ \A h \in Guests : session'[h] = session[h] \/ (session[h] = "live" /\ session'[h] = "expired")
        BY <2>1, <3>1
      <3>3. UNCHANGED <<cart, orders, ledger, catalog, sessionLock, cartLock, pc, req, txn, reply>>
        BY <2>2 DEF Expire
      <3>4. QED
        BY <2>1, <3>2, <3>3
    <2>3. CASE WriteRestaurants
      BY <2>1, <2>3, ConstantsAssumption DEF WriteRestaurants
    <2>4. QED
      BY <2>2, <2>3
  <1>2. TypeOK'
    BY <1>1 DEF IInv, TypeOK
  <1>3. KindsAndStatements' /\ SessionLocksExclude' /\ WritersHoldCart' /\ RowsAreRead'
    BY <1>1 DEF IInv, KindsAndStatements, InFlight, SessionLocksExclude, WritersHoldCart,
                RowsAreRead, Snapshot, Owner, LocksCart
  <1>4. SessionLocksOnLiving' /\ NoOrphanRows'
    BY <1>1 DEF IInv, SessionLocksOnLiving, NoOrphanRows, Present, InFlight, Owner
  <1>5. CartLockHolders'
    BY <1>1 DEF IInv, CartLockHolders, Owner, VisibleCart, LocksCart
  <1>6. SubmitsHoldGuest' /\ PurgesHoldGuests'
    BY <1>1 DEF IInv, SubmitsHoldGuest, PurgesHoldGuests, Owner, Entries, Snapshot
  <1>7. OrdersAreOld' /\ OrdersAreSealed' /\ OneOrderPerRevision' /\ LedgerMatchesOrders'
    BY <1>1 DEF IInv, OrdersAreOld, OrdersAreSealed, OneOrderPerRevision, LedgerMatchesOrders
  <1>8. QED
    BY <1>2, <1>3, <1>4, <1>5, <1>6, <1>7 DEF IInv

(***************************************************************************)
(* The theorems.                                                           *)
(***************************************************************************)
LEMMA InitInv ==
  ASSUME Init
  PROVE  IInv
  <1>1. NewTxn \in TxnFields
    BY DEF NewTxn, TxnFields
  <1>2. TypeOK
    BY <1>1, ConstantsAssumption DEF Init, TypeOK, Modes, Labels
  <1>3. KindsAndStatements /\ WritersHoldCart /\ RowsAreRead /\ SubmitsHoldGuest /\ PurgesHoldGuests
    BY DEF Init, KindsAndStatements, InFlight, WritersHoldCart, RowsAreRead, SubmitsHoldGuest,
           PurgesHoldGuests, Reading, PastCart
  <1>4. SessionLocksExclude /\ SessionLocksOnLiving
    BY DEF Init, SessionLocksExclude, SessionLocksOnLiving, Conflicts
  <1>5. CartLockHolders
    BY SentinelAssumption DEF Init, CartLockHolders
  <1>6. NoOrphanRows
    BY ConstantsAssumption DEF Init, NoOrphanRows, Present
  <1>7. OrdersAreOld /\ OrdersAreSealed /\ OneOrderPerRevision /\ LedgerMatchesOrders
    BY DEF Init, OrdersAreOld, OrdersAreSealed, OneOrderPerRevision, LedgerMatchesOrders
  <1>8. QED
    BY <1>2, <1>3, <1>4, <1>5, <1>6, <1>7 DEF IInv

\* A step of a request's program.
LEMMA StepInv ==
  ASSUME IInv, NEW p \in Requests, Step(p)
  PROVE  IInv'
  <1>1. CASE Begin(p) \/ LockActiveGuest(p)
    BY <1>1, BeginInv, LockActiveGuestInv
  <1>2. CASE EnsureCartExists(p) \/ EnsureCartInserts(p) \/ CheckOwner(p) \/ ReadCart(p)
    BY <1>2, EnsureCartExistsInv, EnsureCartInsertsInv, CheckOwnerInv, ReadCartInv
  <1>3. CASE ReadRestaurants(p) \/ ReadMenu(p)
    BY <1>3, ReadRestaurantsInv, ReadMenuInv
  <1>4. CASE CommitCart(p) \/ CommitOrder(p)
    BY <1>4, CommitCartInv, CommitOrderInv
  <1>5. CASE Revoke(p) \/ DeleteSession(p) \/ SelectExpired(p) \/ \E g \in Guests : CascadeCart(p, g)
    BY <1>5, RevokeInv, DeleteSessionInv, SelectExpiredInv, CascadeCartInv
  <1>6. CASE CommitReset(p) \/ CommitCleanup(p)
    BY <1>6, CommitPurgeInv DEF CommitReset, CommitCleanup
  <1>7. QED
    BY <1>1, <1>2, <1>3, <1>4, <1>5, <1>6 DEF Step

LEMMA NextInv ==
  ASSUME IInv, [Next]_vars
  PROVE  IInv'
  <1>1. CASE \E p \in Requests : \E body \in Bodies : Admit(p, body) \/ Refuse(p, body)
    BY <1>1, AdmitInv, RefuseInv
  <1>2. CASE \E p \in Requests : Step(p)
    BY <1>2, StepInv
  <1>3. CASE \E p \in Requests : Fail(p) \/ BreakDeadlock(p)
    BY <1>3, FailInv, BreakDeadlockInv
  <1>4. CASE (\E g \in Guests : Expire(g)) \/ WriteRestaurants
    BY <1>4, EnvironmentInv
  <1>5. CASE UNCHANGED vars
    BY <1>5 DEF vars, tables, IInv, TypeOK, KindsAndStatements, SessionLocksExclude,
                SessionLocksOnLiving, CartLockHolders, WritersHoldCart, RowsAreRead,
                SubmitsHoldGuest, PurgesHoldGuests, OrdersAreOld, NoOrphanRows, OrdersAreSealed,
                OneOrderPerRevision, LedgerMatchesOrders, InFlight, Present, Owner, VisibleCart,
                LocksCart, Entries, Snapshot
  <1>6. QED
    BY <1>1, <1>2, <1>3, <1>4, <1>5 DEF Next

\* The invariant that explains the lock protocol of order_service, cart_service
\* and identity holds in every reachable state.
THEOREM InvariantHolds == Spec => []IInv
  <1>1. Init => IInv
    BY InitInv
  <1>2. IInv /\ [Next]_vars => IInv'
    BY NextInv
  <1>3. QED
    BY <1>1, <1>2, PTL DEF Spec

\* Every row, lock and answer stays inside the schema; revisions in particular
\* never leave the natural numbers.
THEOREM TypeCorrectness == Spec => []TypeOK
  <1>1. IInv => TypeOK
    BY DEF IInv
  <1>2. QED
    BY <1>1, InvariantHolds, PTL

\* However many requests run, with whatever keys, checkout turns one revision of
\* a guest's basket into at most one order (order_service.submit_order).
THEOREM NoDoubleCheckout == Spec => []OneOrderPerRevision
  <1>1. IInv => OneOrderPerRevision
    BY DEF IInv
  <1>2. QED
    BY <1>1, InvariantHolds, PTL

\* A basket that has been ordered is behind the current revision for good.
THEOREM OrderedBasketsAreConsumed == Spec => []OrdersAreSealed
  <1>1. IInv => OrdersAreSealed
    BY DEF IInv
  <1>2. QED
    BY <1>1, InvariantHolds, PTL

\* Receipts and ledger entries stay in one-to-one correspondence through every
\* commit, failure, reset and cleanup.
THEOREM LedgerIsExact == Spec => []LedgerMatchesOrders
  <1>1. IInv => LedgerMatchesOrders
    BY DEF IInv
  <1>2. QED
    BY <1>1, InvariantHolds, PTL

\* No cart, receipt or ledger entry outlives its guest_sessions row.
THEOREM DeletionIsComplete == Spec => []NoOrphanRows
  <1>1. IInv => NoOrphanRows
    BY DEF IInv
  <1>2. QED
    BY <1>1, InvariantHolds, PTL

(***************************************************************************)
(* Compare-and-swap on the basket, as an action property.                  *)
(***************************************************************************)
LEMMA CommitCartAdvances ==
  ASSUME IInv, NEW p \in Requests, pc[p] = "commit", cartLock[Owner(p)] = p,
         req[p].kind \in {"get", "put", "delete", "quote", "submit"},
         cart' = [cart EXCEPT ![Owner(p)] = NewRow(p)]
  PROVE  \A g \in Guests : CartStep(g)
  <1>1. Owner(p) \in Guests /\ txn[p].cart = VisibleCart(p, Owner(p)) /\ txn[p].cart \in CartRows
    BY CommitterHolds
  <1>2. \A g \in Guests \ {Owner(p)} : cart'[g] = cart[g]
    BY <1>1 DEF IInv, TypeOK
  <1>3. cart'[Owner(p)] = NewRow(p)
    BY <1>1 DEF IInv, TypeOK
  <1>4. NewRow(p) \in CartRows
    <2>1. req[p] \in RequestBodies
      BY Actors DEF InFlight
    <2>2. QED
      BY <1>1, <2>1, BodyFields, ConstantsAssumption DEF NewRow, CartRows
  <1>5. CASE cart[Owner(p)] = NoCart
    <2>1. txn[p].cart = [revision |-> 0, items |-> EmptyItems]
      BY <1>1, <1>5 DEF VisibleCart
    <2>2. NewRow(p) = txn[p].cart \/ NewRow(p).revision = 1
      BY <2>1 DEF NewRow
    <2>3. QED
      BY <1>2, <1>3, <1>5, <2>1, <2>2 DEF CartStep
  <1>6. CASE cart[Owner(p)] # NoCart
    <2>1. LocksCart(p) /\ txn[p].cart = cart[Owner(p)]
      BY <1>1, <1>6 DEF IInv, CartLockHolders, Reading, VisibleCart
    <2>2. NewRow(p).revision = cart[Owner(p)].revision + 1
      BY <2>1 DEF NewRow, LocksCart
    <2>3. QED
      BY <1>2, <1>3, <1>4, <1>6, <2>2, SentinelAssumption DEF CartStep
  <1>7. QED
    BY <1>5, <1>6

\* The basket's row moves only by creation, by one revision, or away with its
\* guest, whichever requests interleave and fail (update_guest_cart_row).
THEOREM CartNeverSkipsOrRewinds == Spec => CartAdvances
  <1> DEFINE Advance == \A g \in Guests : CartStep(g)
  <1>1. IInv /\ [Next]_vars => [Advance]_<<cart, session>>
    <2> SUFFICES ASSUME IInv, Next, cart' # cart
                 PROVE  Advance
      BY DEF vars, tables, CartStep
    <2>1. ASSUME NEW p \in Requests, CommitCart(p)
          PROVE  Advance
      BY <2>1, CommitCartAdvances DEF CommitCart
    <2>2. ASSUME NEW p \in Requests, CommitOrder(p)
          PROVE  Advance
      <3>1. cartLock[Owner(p)] = p
        BY <2>2 DEF CommitOrder, IInv, WritersHoldCart, PastCart, LocksCart
      <3>2. QED
        BY <2>2, <3>1, CommitCartAdvances DEF CommitOrder
    <2>3. ASSUME NEW p \in Requests, NEW issued \in SUBSET Guests, CommitPurge(p, issued)
          PROVE  Advance
      BY <2>3 DEF CommitPurge, Purged, CartStep
    <2>4. ASSUME NEW p \in Requests, Step(p)
          PROVE  Advance
      <3>1. \/ CommitCart(p) \/ CommitOrder(p) \/ CommitReset(p) \/ CommitCleanup(p)
        BY <2>4 DEF Step, Begin, LockActiveGuest, EnsureCartExists, EnsureCartInserts, CheckOwner,
                    ReadCart, ReadRestaurants, ReadMenu, Revoke, DeleteSession, SelectExpired,
                    StartPurge, CascadeCart, Rollback, tables
      <3>2. QED
        BY <2>1, <2>2, <2>3, <3>1 DEF CommitReset, CommitCleanup
    <2>5. QED
      BY <2>4 DEF Next, Admit, Refuse, Fail, BreakDeadlock, Expire, WriteRestaurants, Rollback, tables
  <1>2. QED
    BY <1>1, InvariantHolds, PTL DEF Spec, CartAdvances

-----------------------------------------------------------------------------
(***************************************************************************)
(* Lock cycles.  What a request holds tells where it is, and so whom it    *)
(* may wait for and who may wait for it.                                   *)
(***************************************************************************)
\* A step of one request leaves what the others are doing, have read and hold alone.
LEMMA OthersGoOn ==
  ASSUME IInv, NEW p \in Requests, Step(p) \/ (\E a \in Replies : Rollback(p, a)),
         NEW q \in Requests \ {p}
  PROVE  /\ pc'[q] = pc[q] /\ req'[q] = req[q] /\ txn'[q] = txn[q]
         /\ \A g \in Guests : /\ sessionLock'[g][q] = sessionLock[g][q]
                              /\ cartLock[g] = q => cartLock'[g] = q
  <1> USE DEF IInv, TypeOK
  <1>1. CASE \E a : Finish(p, a)
    BY <1>1, FinishFrame
  <1>2. CASE Begin(p) \/ EnsureCartExists(p) \/ EnsureCartInserts(p) \/ ReadRestaurants(p)
    BY <1>2, SentinelAssumption DEF Begin, EnsureCartExists, EnsureCartInserts, ReadRestaurants,
                                    Goto, Undecided, CartFree
  <1>3. CASE LockActiveGuest(p) \/ CheckOwner(p) \/ Revoke(p)
    BY <1>1, <1>3 DEF LockActiveGuest, CheckOwner, Revoke, LockSession, Goto, Rollback
  <1>4. CASE ReadCart(p) \/ ReadMenu(p)
    BY <1>1, <1>4, SentinelAssumption DEF ReadCart, ReadMenu, Goto, Rollback, CartFree
  <1>5. CASE \E gs \in SUBSET Guests : StartPurge(p, gs)
    BY <1>5 DEF StartPurge, Goto
  <1>6. CASE DeleteSession(p) \/ SelectExpired(p)
    BY <1>1, <1>5, <1>6, Actors DEF DeleteSession, SelectExpired, Rollback
  <1>7. CASE \E g \in Guests : CascadeCart(p, g)
    BY <1>7, SentinelAssumption DEF CascadeCart, CartFree
  <1>8. CASE CommitCart(p) \/ CommitOrder(p) \/ CommitReset(p) \/ CommitCleanup(p)
    BY <1>1, <1>8 DEF CommitCart, CommitOrder, CommitReset, CommitCleanup, CommitPurge, Acknowledge
  <1>9. QED
    BY <1>1, <1>2, <1>3, <1>4, <1>6, <1>7, <1>8 DEF Step, Rollback

LEMMA StepHolds ==
  ASSUME IInv, NEW p \in Requests, HoldsItsOwn(p), Step(p)
  PROVE  HoldsItsOwn(p)'
  <1> USE DEF IInv, TypeOK, HoldsItsOwn, Owner
  <1>1. CASE \E a : Finish(p, a)
    BY <1>1, FinishFrame
  <1>2. CASE Begin(p) \/ EnsureCartExists(p) \/ EnsureCartInserts(p) \/ ReadRestaurants(p)
    <2>1. CASE Begin(p)
      BY <2>1 DEF Begin, Goto, Reading
    <2>2. CASE EnsureCartExists(p)
      BY <2>2 DEF EnsureCartExists, Goto, Reading
    <2>3. CASE EnsureCartInserts(p)
      BY <2>3, Actors DEF EnsureCartInserts, Goto, Reading
    <2>4. CASE ReadRestaurants(p)
      BY <2>4 DEF ReadRestaurants, Goto, Reading, TxnFields
    <2>5. QED
      BY <1>2, <2>1, <2>2, <2>3, <2>4
  <1>3. CASE LockActiveGuest(p)
    BY <1>1, <1>3, Actors DEF LockActiveGuest, LockSession, Goto, Rollback, KindsAndStatements, Reading
  <1>4. CASE CheckOwner(p)
    BY <1>1, <1>4, Actors DEF CheckOwner, LockSession, Goto, Rollback, Reading
  <1>5. CASE Revoke(p)
    BY <1>1, <1>5, Actors DEF Revoke, LockSession, Goto, Rollback, Reading
  <1>6. CASE ReadCart(p)
    BY <1>1, <1>6 DEF ReadCart, Goto, Rollback, Reading
  <1>7. CASE ReadMenu(p)
    BY <1>1, <1>7 DEF ReadMenu, Goto, Rollback, Reading
  <1>8. ASSUME NEW gs \in SUBSET Guests, StartPurge(p, gs), pc[p] = "delete" => Owner(p) \in gs,
               pc[p] \in {"delete", "select"}
        PROVE  HoldsItsOwn(p)'
    <2>1. /\ pc'[p] = "cascade" /\ txn'[p].purge = gs
          /\ \A g \in Guests \ gs : sessionLock'[g][p] = sessionLock[g][p]
      BY <1>8 DEF StartPurge, Goto, TxnFields
    <2>2. \A g \in Guests \ gs : sessionLock[g][p] = "none"
      BY <1>8 DEF Reading
    <2>3. QED
      BY <2>1, <2>2
  <1>9. CASE DeleteSession(p) \/ SelectExpired(p)
    <2>1. CASE DeleteSession(p)
      BY <1>8, <2>1, Actors DEF DeleteSession
    <2>2. CASE SelectExpired(p)
      BY <1>1, <1>8, <2>2 DEF SelectExpired, Rollback
    <2>3. QED
      BY <1>9, <2>1, <2>2
  <1>10. CASE \E g \in Guests : CascadeCart(p, g)
    BY <1>10 DEF CascadeCart, TxnFields
  <1>11. CASE CommitCart(p) \/ CommitOrder(p) \/ CommitReset(p) \/ CommitCleanup(p)
    BY <1>1, <1>11 DEF CommitCart, CommitOrder, CommitReset, CommitCleanup, CommitPurge, Acknowledge
  <1>12. QED
    BY <1>2, <1>3, <1>4, <1>5, <1>6, <1>7, <1>9, <1>10, <1>11 DEF Step

LEMMA NextHolds ==
  ASSUME IInv, \A q \in Requests : HoldsItsOwn(q), [Next]_vars
  PROVE  \A q \in Requests : HoldsItsOwn(q)'
  <1>1. ASSUME NEW q \in Requests, pc'[q] = pc[q], req'[q] = req[q], txn'[q] = txn[q],
               \A g \in Guests : /\ sessionLock'[g][q] = sessionLock[g][q]
                                 /\ cartLock[g] = q => cartLock'[g] = q
        PROVE  HoldsItsOwn(q)'
    BY <1>1, Actors DEF HoldsItsOwn, Owner
  <1>2. ASSUME NEW p \in Requests, Step(p) PROVE \A q \in Requests : HoldsItsOwn(q)'
    BY <1>1, <1>2, OthersGoOn, StepHolds
  <1>3. ASSUME NEW p \in Requests, Rollback(p, Unavailable)
        PROVE  \A q \in Requests : HoldsItsOwn(q)'
    <2>1. Unavailable \in Replies
      BY PlainAnswers DEF Unavailable
    <2>2. HoldsItsOwn(p)'
      BY <1>3, FinishFrame DEF Rollback, HoldsItsOwn, IInv
    <2>3. QED
      BY <1>1, <1>3, <2>1, <2>2, OthersGoOn
  <1>4. ASSUME NEW p \in Requests, NEW body \in Bodies, Admit(p, body) \/ Refuse(p, body)
        PROVE  \A q \in Requests : HoldsItsOwn(q)'
    <2>1. \A g \in Guests : sessionLock'[g][p] = "none"
      BY <1>4 DEF Admit, Refuse, IInv, SessionLocksOnLiving, InFlight
    <2>2. HoldsItsOwn(p)'
      BY <1>4, <2>1, ConstantsAssumption, BodyFields
      DEF HoldsItsOwn, Admit, Refuse, Goto, FirstStatement, IInv, TypeOK
    <2>3. QED
      BY <1>1, <1>4, <2>2 DEF Admit, Refuse, Goto, IInv, TypeOK
  <1>5. CASE UNCHANGED vars \/ (\E g \in Guests : Expire(g)) \/ WriteRestaurants
    BY <1>1, <1>5 DEF vars, Expire, WriteRestaurants
  <1>6. QED
    BY <1>2, <1>3, <1>4, <1>5 DEF Next, Fail, BreakDeadlock

\* Statements that wait for a lock.
LEMMA Waits ==
  ASSUME IInv, NEW r \in Requests, NEW s \in Requests, Blocks(r, s)
  PROVE  /\ r # s
         /\ pc[s] \in {"lockGuest", "delete", "revoke", "checkOwner", "ensureCart", "readCart",
                       "cascade"}
         /\ pc[s] # "cascade" => Owner(s) \in Guests
         /\ pc[s] \in {"ensureCart", "readCart"} => cartLock[Owner(s)] = r
  BY Actors DEF Blocks, Reading

\* Who holds a cart row: a request of its owner past the insert, or a purge that reached it.
LEMMA CartHolder ==
  ASSUME IInv, NEW r \in Requests, NEW g \in Guests, cartLock[g] = r
  PROVE  \/ /\ pc[r] \in {"checkOwner"} \union Reading /\ Owner(r) = g
            /\ pc[r] = "checkOwner" => cart[g] = NoCart
         \/ pc[r] = "cascade" /\ g \in txn[r].purge
  BY DEF IInv, CartLockHolders

\* A request holds nothing yet at the first lock it asks for, and a reset that waits to delete
\* its guest waits for a request that has inserted a cart row and goes on.
LEMMA FirstLockWaiter ==
  ASSUME IInv, \A q \in Requests : HoldsItsOwn(q),
         NEW r \in Requests, pc[r] \in {"lockGuest", "revoke"}, NEW u \in Requests
  PROVE  ~Blocks(r, u)
  <1>1. \A g \in Guests : cartLock[g] # r /\ sessionLock[g][r] = "none"
    BY CartHolder DEF HoldsItsOwn, Reading
  <1>2. QED
    BY <1>1, Waits DEF Blocks, Conflicts, IInv, TypeOK, TxnFields

LEMMA DeleteWaits ==
  ASSUME IInv, \A q \in Requests : HoldsItsOwn(q),
         NEW r \in Requests, pc[r] = "delete", NEW s \in Requests, Blocks(s, r),
         NEW t \in Requests
  PROVE  ~Blocks(t, s)
  <1>1. Owner(r) \in Guests /\ sessionLock[Owner(r)][r] = "nokeyupdate" /\ r # s
    BY Waits DEF IInv, PurgesHoldGuests
  <1>2. sessionLock[Owner(r)][s] = "keyshare"
    <2>1. sessionLock[Owner(r)][s] \in Modes /\ sessionLock[Owner(r)][s] # "none"
      BY <1>1 DEF Blocks, Conflicts, IInv, TypeOK
    <2>2. ~Conflicts("nokeyupdate", sessionLock[Owner(r)][s])
      BY <1>1 DEF IInv, SessionLocksExclude
    <2>3. QED
      BY <2>1, <2>2 DEF Conflicts, Modes
  <1>3. pc[s] \in Reading /\ Owner(s) = Owner(r) /\ cartLock[Owner(s)] = s
    BY <1>1, <1>2 DEF HoldsItsOwn, IInv, PurgesHoldGuests, SubmitsHoldGuest
  <1>4. QED
    BY <1>3, Waits DEF Reading

\* A request that waits for a cart row, and is waited for, is a checkout that has locked its
\* guest; a purge that waits for one waits for a request that goes on.
LEMMA CartRowWaiter ==
  ASSUME IInv, \A q \in Requests : HoldsItsOwn(q),
         NEW r \in Requests, pc[r] \in {"ensureCart", "readCart"},
         NEW u \in Requests, Blocks(r, u), NEW s \in Requests, Blocks(s, r)
  PROVE  /\ Owner(r) \in Guests /\ cartLock[Owner(r)] = s /\ r # s
         /\ req[r].kind = "submit" /\ sessionLock[Owner(r)][r] = "update"
  <1>1. Owner(r) \in Guests /\ cartLock[Owner(r)] = s /\ r # s
    BY Waits
  <1>2. \A g \in Guests : cartLock[g] # r
    BY <1>1, CartHolder DEF Reading
  <1>3. \E g \in Guests : sessionLock[g][r] # "none"
    BY <1>2, Waits DEF Blocks, Conflicts, IInv, TypeOK, TxnFields
  <1>4. req[r].kind = "submit"
    BY <1>2, <1>3 DEF HoldsItsOwn
  <1>5. QED
    BY <1>1, <1>4 DEF IInv, SubmitsHoldGuest, Reading

LEMMA PurgeWaits ==
  ASSUME IInv, \A q \in Requests : HoldsItsOwn(q),
         NEW r \in Requests, pc[r] = "cascade", NEW s \in Requests, Blocks(s, r),
         NEW t \in Requests
  PROVE  ~Blocks(t, s)
  <1>1. PICK h \in txn[r].cascade : cart[h] # NoCart /\ cartLock[h] = s
    BY DEF Blocks
  <1>2. h \in Guests /\ sessionLock[h][r] = "update" /\ r # s
    BY <1>1, Waits DEF IInv, TypeOK, TxnFields, PurgesHoldGuests
  <1>3. pc[s] # "cascade"
    <2> SUFFICES ASSUME pc[s] = "cascade" PROVE FALSE
      OBVIOUS
    <2>1. sessionLock[h][s] = "update"
      BY <1>1, <1>2, CartHolder DEF Reading, IInv, PurgesHoldGuests
    <2>2. QED
      BY <1>2, <2>1 DEF IInv, SessionLocksExclude, Conflicts
  <1>4. pc[s] \in Reading /\ Owner(s) = h
    BY <1>1, <1>2, <1>3, CartHolder
  <1>5. QED
    BY <1>1, <1>4, Waits DEF Reading

\* An insert waits for its guest's row: a purge or a checkout has locked it.
LEMMA OwnerCheckWaits ==
  ASSUME IInv, \A q \in Requests : HoldsItsOwn(q),
         NEW r \in Requests, pc[r] = "checkOwner", NEW s \in Requests, Blocks(s, r)
  PROVE  /\ Owner(r) \in Guests /\ cartLock[Owner(r)] = r /\ cart[Owner(r)] = NoCart
         /\ sessionLock[Owner(r)][s] = "update"
         /\ \/ pc[s] = "cascade"
            \/ /\ Owner(s) = Owner(r) /\ req[s].kind = "submit"
               /\ pc[s] \in {"ensureCart"} \union Reading
  <1>1. Owner(r) \in Guests /\ r # s
    BY Waits
  <1>2. cartLock[Owner(r)] = r
    BY DEF HoldsItsOwn
  <1>3. cart[Owner(r)] = NoCart
    BY <1>1, <1>2, CartHolder
  <1>4. sessionLock[Owner(r)][s] = "update"
    BY <1>1 DEF Blocks, Conflicts
  <1>5. pc[s] = "checkOwner" /\ Owner(s) = Owner(r) => FALSE
    BY <1>1, <1>2 DEF HoldsItsOwn
  <1>6. QED
    BY <1>1, <1>2, <1>3, <1>4, <1>5 DEF HoldsItsOwn, IInv, PurgesHoldGuests

\* Waits that go on meet: of three in a row, the second and third are of one pair.
LEMMA WaitsMeet ==
  ASSUME IInv, \A q \in Requests : HoldsItsOwn(q),
         NEW u \in Requests, NEW r \in Requests, NEW s \in Requests, NEW t \in Requests,
         Blocks(r, u), Blocks(s, r), Blocks(t, s), pc[s] # "cascade"
  PROVE  /\ t = r
         /\ {req[r].kind, req[s].kind} \intersect {"reset", "cleanup"} = {}
         /\ Owner(r) = Owner(s) /\ cart[Owner(r)] = NoCart
  <1>1. pc[r] \in {"checkOwner", "ensureCart", "readCart"}
    BY Waits, FirstLockWaiter, DeleteWaits, PurgeWaits
  <1>2. CASE pc[r] = "checkOwner"
    <2>1. /\ Owner(s) = Owner(r) /\ req[s].kind = "submit" /\ cart[Owner(r)] = NoCart
          /\ pc[s] \in {"ensureCart"} \union Reading /\ cartLock[Owner(r)] = r
      BY <1>2, OwnerCheckWaits
    <2>2. cartLock[Owner(s)] = t
      BY <2>1, Waits DEF Reading
    <2>3. req[r].kind \notin {"reset", "cleanup"}
      BY <1>2 DEF IInv, KindsAndStatements
    <2>4. QED
      BY <2>1, <2>2, <2>3
  <1>3. CASE pc[r] \in {"ensureCart", "readCart"}
    <2>1. /\ Owner(r) \in Guests /\ cartLock[Owner(r)] = s /\ r # s
          /\ req[r].kind = "submit" /\ sessionLock[Owner(r)][r] = "update"
      BY <1>3, CartRowWaiter
    <2>2. pc[s] = "checkOwner" /\ Owner(s) = Owner(r)
      BY <2>1, CartHolder, Waits DEF Reading
    <2>3. cart[Owner(r)] = NoCart /\ sessionLock[Owner(r)][t] = "update"
      BY <2>2, OwnerCheckWaits
    <2>4. t = r
      BY <2>1, <2>3 DEF IInv, SessionLocksExclude, Conflicts
    <2>5. req[s].kind \notin {"reset", "cleanup"}
      BY <2>2 DEF IInv, KindsAndStatements
    <2>6. QED
      BY <2>1, <2>2, <2>3, <2>4, <2>5
  <1>4. QED
    BY <1>1, <1>2, <1>3

\* A lock cycle of two requests involves neither reset nor cleanup, and a guest that has no
\* cart row yet: INSERT and its foreign-key check against submit_order's locking order.  It
\* is the only one: a detector that looks at pairs finds every cycle.
THEOREM CyclesNeedFirstUse == Spec => []DeadlockOnlyOnFirstUse
  <1> DEFINE Inv == IInv /\ \A q \in Requests : HoldsItsOwn(q)
  <1>1. Init => Inv
    BY InitInv DEF Init, HoldsItsOwn
  <1>2. Inv /\ [Next]_vars => Inv'
    BY NextInv, NextHolds
  <1>3. Inv => DeadlockOnlyOnFirstUse
    <2> SUFFICES ASSUME Inv PROVE DeadlockOnlyOnFirstUse
      OBVIOUS
    <2>1. ASSUME NEW p \in Requests, NEW q \in Requests, Deadlocked(p, q)
          PROVE  /\ {req[p].kind, req[q].kind} \intersect {"reset", "cleanup"} = {}
                 /\ cart[Owner(p)] = NoCart
      <3>1. Blocks(q, p) /\ Blocks(p, q)
        BY <2>1 DEF Deadlocked
      <3>2. pc[q] # "cascade"
        BY <3>1, PurgeWaits
      <3>3. QED
        BY <3>1, <3>2, WaitsMeet
    <2>2. ASSUME NEW p \in Requests, NEW q \in Requests, NEW r \in Requests,
                 NEW s \in Requests, NEW t \in Requests,
                 Blocks(q, p), Blocks(r, q), Blocks(s, r), Blocks(t, s)
          PROVE  Deadlocked(q, r)
      BY <2>2, PurgeWaits, WaitsMeet DEF Deadlocked
    <2>3. QED
      BY <2>1, <2>2 DEF DeadlockOnlyOnFirstUse
  <1>4. QED
    BY <1>1, <1>2, <1>3, PTL DEF Spec

-----------------------------------------------------------------------------
(***************************************************************************)
(* Checkout, statement by statement and under every interleaving and       *)
(* failure, implements OrderBook: only the three commits are visible       *)
(* there, and each of them is one of its steps.                            *)
(***************************************************************************)

\* The abstract order that a ledger entry and the receipt it leads to make.
AcceptedOrder(e, o) == [key |-> e.key, rev |-> o.rev, items |-> o.items]

Accepted == [g \in Guests |-> AcceptedOrders(g)]

\* The accepted orders, now and after a step, pair entries with receipts.
LEMMA AcceptedMeans ==
  ASSUME NEW g, NEW x
  PROVE  /\ x \in AcceptedOrders(g) <=>
              \E e \in ledger[g], o \in orders[g] : e.order = o.id /\ x = AcceptedOrder(e, o)
         /\ x \in AcceptedOrders(g)' <=>
              \E e \in ledger'[g], o \in orders'[g] : e.order = o.id /\ x = AcceptedOrder(e, o)
  <1> DEFINE Joined(L, O) ==
        {[key |-> z[1].key, rev |-> z[2].rev, items |-> z[2].items] :
           z \in {y \in L \X O : y[1].order = y[2].id}}
  <1>1. ASSUME NEW L, NEW O
        PROVE  x \in Joined(L, O)
               <=> \E e \in L, o \in O : e.order = o.id /\ x = AcceptedOrder(e, o)
    <2> DEFINE pairs == {y \in L \X O : y[1].order = y[2].id}
    <2>1. ASSUME NEW z \in pairs,
                 x = [key |-> z[1].key, rev |-> z[2].rev, items |-> z[2].items]
          PROVE  \E e \in L, o \in O : e.order = o.id /\ x = AcceptedOrder(e, o)
      <3>1. z[1] \in L /\ z[2] \in O /\ z[1].order = z[2].id
        OBVIOUS
      <3>2. QED
        BY <2>1, <3>1 DEF AcceptedOrder
    <2>2. ASSUME NEW e \in L, NEW o \in O, e.order = o.id, x = AcceptedOrder(e, o)
          PROVE  \E z \in pairs : x = [key |-> z[1].key, rev |-> z[2].rev, items |-> z[2].items]
      <3>1. <<e, o>> \in pairs
        BY <2>2
      <3>2. x = [key |-> <<e, o>>[1].key, rev |-> <<e, o>>[2].rev, items |-> <<e, o>>[2].items]
        BY <2>2 DEF AcceptedOrder
      <3> HIDE DEF pairs
      <3>3. QED
        BY <3>1, <3>2
    <2>3. QED
      BY <2>1, <2>2
  <1>2. /\ AcceptedOrders(g) = Joined(ledger[g], orders[g])
        /\ AcceptedOrders(g)' = Joined(ledger'[g], orders'[g])
    BY Zenon DEF AcceptedOrders
  <1> HIDE DEF Joined
  <1>3. QED
    BY <1>1, <1>2

\* A step that leaves a guest's receipts and ledger alone leaves its accepted
\* orders alone.
LEMMA AcceptedKept ==
  ASSUME NEW g, orders'[g] = orders[g], ledger'[g] = ledger[g]
  PROVE  AcceptedOrders(g)' = AcceptedOrders(g)
  BY AcceptedMeans

LEMMA AllAcceptedKept ==
  ASSUME UNCHANGED <<orders, ledger>>
  PROVE  Accepted' = Accepted
  <1>1. \A g \in Guests : AcceptedOrders(g)' = AcceptedOrders(g)
    BY AcceptedKept
  <1>2. QED
    BY <1>1 DEF Accepted

(***************************************************************************)
(* The commits.                                                            *)
(***************************************************************************)
\* A commit of a basket opens the row, or writes it.
LEMMA CommitCartIsOpenOrWrite ==
  ASSUME IInv, NEW p \in Requests, CommitCart(p)
  PROVE  Book!Next \/ UNCHANGED Book!vars
  <1> DEFINE g0 == Owner(p)
  <1>1. UNCHANGED <<orders, ledger>>
    BY DEF CommitCart
  <1>2. Accepted' = Accepted
    BY <1>1, AllAcceptedKept
  <1>3. CASE cartLock[g0] # p
    <2>1. cart' = cart
      BY <1>3 DEF CommitCart
    <2>2. QED
      BY <1>2, <2>1 DEF Book!vars, Accepted
  <1>4. CASE cartLock[g0] = p
    <2>1. /\ g0 \in Guests /\ txn[p].cart \in CartRows /\ txn[p].cart = VisibleCart(p, g0)
          /\ pc[p] = "commit" /\ cart' = [cart EXCEPT ![g0] = NewRow(p)]
          /\ req[p] \in RequestBodies /\ req[p].kind \in {"get", "put", "delete", "quote"}
      BY <1>4, CommitterHolds, Actors DEF CommitCart, InFlight
    <2>2. CASE LocksCart(p)
      <3> DEFINE items == IF req[p].kind = "put" THEN req[p].items ELSE EmptyItems
                 rev   == IF cart[g0] = NoCart THEN 1 ELSE cart[g0].revision + 1
      <3>1. items \in Items
        BY <2>1, BodyFields, ConstantsAssumption
      <3>2. NewRow(p) = [revision |-> txn[p].cart.revision + 1, items |-> items]
        BY <2>1, <2>2 DEF NewRow, LocksCart
      <3>3. txn[p].cart.revision + 1 = rev
        BY <1>4, <2>1 DEF VisibleCart
      <3>4. cart' = [cart EXCEPT ![g0] = [revision |-> rev, items |-> items]]
        BY <2>1, <3>2, <3>3
      <3>5. Book!Write(g0, items)
        BY <1>2, <3>4 DEF Book!Write, Accepted
      <3> HIDE DEF items
      <3>6. QED
        BY <2>1, <3>1, <3>5 DEF Book!Next
    <2>3. CASE ~LocksCart(p)
      <3>1. cart[g0] = NoCart
        BY <1>4, <2>1, <2>3 DEF IInv, CartLockHolders, Reading
      <3>2. NewRow(p) = [revision |-> 0, items |-> EmptyItems]
        BY <1>4, <2>1, <2>3, <3>1 DEF NewRow, LocksCart, VisibleCart
      <3>3. Book!Open(g0)
        BY <1>2, <2>1, <3>1, <3>2 DEF Book!Open, Accepted
      <3>4. QED
        BY <2>1, <3>3 DEF Book!Next
    <2>4. QED
      BY <2>2, <2>3
  <1>5. QED
    BY <1>3, <1>4

\* A commit of an order accepts it, under a key and a revision not used before.
LEMMA CommitOrderIsAccept ==
  ASSUME IInv, NEW p \in Requests, CommitOrder(p)
  PROVE  Book!Next
  <1>0. PICK g0 \in Guests : g0 = Owner(p)
    BY Actors DEF CommitOrder, Reading
  <1> DEFINE order == NewOrder(p)
             entry == [key |-> req[p].key, order |-> p, payload |-> Payload(p)]
  <1>1. /\ TypeOK /\ InFlight(p) /\ g0 = Owner(p) /\ pc[p] = "commit"
        /\ req[p] \in RequestBodies /\ req[p].kind = "submit"
    BY <1>0, Actors DEF CommitOrder, Reading, IInv
  <1>2. /\ Entries(p) = {} /\ cartLock[g0] = p /\ txn[p].cart.revision = req[p].rev
        /\ txn[p].cart.items # EmptyItems
    BY <1>1 DEF IInv, SubmitsHoldGuest, WritersHoldCart, Reading, PastCart, LocksCart
  <1>3. cart[g0] # NoCart /\ txn[p].cart = cart[g0]
    <2>1. txn[p].cart = VisibleCart(p, g0)
      BY <1>1, <1>2, CommitterHolds
    <2>2. QED
      BY <1>2, <2>1 DEF VisibleCart
  <1>4. req[p].key \in Keys
    BY <1>1, BodyFields
  <1>5. /\ orders' = [orders EXCEPT ![g0] = @ \union {order}]
        /\ ledger' = [ledger EXCEPT ![g0] = @ \union {entry}]
        /\ cart' = [cart EXCEPT ![g0] = NewRow(p)]
    BY <1>0 DEF CommitOrder
  <1>6. NewRow(p) = [revision |-> cart[g0].revision + 1, items |-> EmptyItems]
    BY <1>1, <1>3 DEF NewRow
  <1>7. /\ entry.key = req[p].key /\ entry.order = p /\ order.id = p
        /\ AcceptedOrder(entry, order) =
             [key |-> req[p].key, rev |-> cart[g0].revision, items |-> cart[g0].items]
    BY <1>2, <1>3 DEF NewOrder, AcceptedOrder
  <1> HIDE DEF order, entry
  <1>8. /\ \A g \in Guests \ {g0} : orders'[g] = orders[g] /\ ledger'[g] = ledger[g]
        /\ orders'[g0] = orders[g0] \union {order}
        /\ ledger'[g0] = ledger[g0] \union {entry}
    BY <1>1, <1>5 DEF TypeOK
  <1>9. /\ \A o \in orders[g0] : o.id # p
        /\ \A e \in ledger[g0] : e.order # p /\ e.key # req[p].key
    <2>1. \A o \in orders[g0] : o.id # p
      BY <1>1 DEF IInv, OrdersAreOld
    <2>2. \A e \in ledger[g0] : e.order # p
      BY <1>1, <2>1 DEF IInv, LedgerMatchesOrders
    <2>3. \A e \in ledger[g0] : e.key # req[p].key
      BY <1>1, <1>2 DEF Entries
    <2>4. QED
      BY <2>1, <2>2, <2>3
  <1>10. \A g \in Guests \ {g0} : AcceptedOrders(g)' = AcceptedOrders(g)
    BY <1>8, AcceptedKept
  <1>11. AcceptedOrders(g0)' = AcceptedOrders(g0) \union {AcceptedOrder(entry, order)}
    <2>1. ASSUME NEW x
          PROVE  x \in AcceptedOrders(g0)' <=>
                   x \in AcceptedOrders(g0) \/ x = AcceptedOrder(entry, order)
      <3>1. ASSUME NEW e \in ledger'[g0], NEW o \in orders'[g0], e.order = o.id
            PROVE  (e \in ledger[g0] /\ o \in orders[g0]) \/ (e = entry /\ o = order)
        BY <1>7, <1>8, <1>9, <3>1
      <3>2. ledger[g0] \subseteq ledger'[g0] /\ orders[g0] \subseteq orders'[g0]
            /\ entry \in ledger'[g0] /\ order \in orders'[g0] /\ entry.order = order.id
        BY <1>7, <1>8
      <3>3. ASSUME x \in AcceptedOrders(g0)'
            PROVE  x \in AcceptedOrders(g0) \/ x = AcceptedOrder(entry, order)
        <4>1. PICK e \in ledger'[g0], o \in orders'[g0] : e.order = o.id /\ x = AcceptedOrder(e, o)
          BY <3>3, AcceptedMeans
        <4>2. CASE e \in ledger[g0] /\ o \in orders[g0]
          BY <4>1, <4>2, AcceptedMeans
        <4>3. QED
          BY <3>1, <4>1, <4>2
      <3>4. ASSUME x \in AcceptedOrders(g0)
            PROVE  x \in AcceptedOrders(g0)'
        <4>1. PICK e \in ledger[g0], o \in orders[g0] : e.order = o.id /\ x = AcceptedOrder(e, o)
          BY <3>4, AcceptedMeans
        <4>2. QED
          BY <3>2, <4>1, AcceptedMeans
      <3>5. AcceptedOrder(entry, order) \in AcceptedOrders(g0)'
        BY <3>2, AcceptedMeans
      <3>6. QED
        BY <3>3, <3>4, <3>5
    <2>2. QED
      BY <2>1
  <1>12. Accepted' = [Accepted EXCEPT ![g0] = @ \union
           {[key |-> req[p].key, rev |-> cart[g0].revision, items |-> cart[g0].items]}]
    <2> DEFINE new == [key |-> req[p].key, rev |-> cart[g0].revision, items |-> cart[g0].items]
    <2>1. AcceptedOrders(g0)' = AcceptedOrders(g0) \union {new}
      BY <1>7, <1>11
    <2> HIDE DEF new
    <2>2. Accepted' = [Accepted EXCEPT ![g0] = @ \union {new}]
      BY <1>1, <1>10, <2>1 DEF Accepted
    <2>3. QED
      BY <2>2 DEF new
  <1>13. \A o \in Accepted[g0] : o.key # req[p].key
    <2>1. \A o \in AcceptedOrders(g0) : o.key # req[p].key
      BY <1>9, AcceptedMeans DEF AcceptedOrder
    <2>2. QED
      BY <1>1, <2>1 DEF Accepted
  <1>14. Book!Accept(g0, req[p].key)
    BY <1>2, <1>3, <1>5, <1>6, <1>12, <1>13 DEF Book!Accept, Accepted
  <1>15. QED
    BY <1>1, <1>4, <1>14 DEF Book!Next

\* The end of a reset or of a cleanup batch forgets its guests.
LEMMA CommitPurgeIsForget ==
  ASSUME IInv, NEW p \in Requests, NEW issued \in SUBSET Guests, CommitPurge(p, issued)
  PROVE  Book!Next
  <1> DEFINE purge == txn[p].purge
  <1>1. purge \in SUBSET Guests
    BY Actors
  <1>2. /\ cart' = [g \in Guests |-> IF g \in purge THEN NoCart ELSE cart[g]]
        /\ \A g \in purge : orders'[g] = {} /\ ledger'[g] = {}
        /\ \A g \in Guests \ purge : orders'[g] = orders[g] /\ ledger'[g] = ledger[g]
    BY <1>1 DEF CommitPurge, Purged
  <1>3. \A g \in Guests : AcceptedOrders(g)' = IF g \in purge THEN {} ELSE AcceptedOrders(g)
    <2>1. \A g \in purge : AcceptedOrders(g)' = {}
      BY <1>2, AcceptedMeans
    <2>2. \A g \in Guests \ purge : AcceptedOrders(g)' = AcceptedOrders(g)
      BY <1>2, AcceptedKept
    <2>3. QED
      BY <2>1, <2>2
  <1>4. Accepted' = [g \in Guests |-> IF g \in purge THEN {} ELSE Accepted[g]]
    BY <1>3 DEF Accepted
  <1>5. Book!Forget(purge)
    BY <1>2, <1>4 DEF Book!Forget, Accepted
  <1>6. QED
    BY <1>1, <1>5 DEF Book!Next

(***************************************************************************)
(* The theorem.                                                            *)
(***************************************************************************)
\* Every other step is invisible in the order book.
LEMMA OtherStepsAreInvisible ==
  ASSUME UNCHANGED <<cart, orders, ledger>>
  PROVE  UNCHANGED Book!vars
  BY AllAcceptedKept DEF Book!vars, Accepted

LEMMA StepRefines ==
  ASSUME IInv, [Next]_vars
  PROVE  Book!Next \/ UNCHANGED Book!vars
  <1>1. ASSUME NEW p \in Requests, Step(p)
        PROVE  Book!Next \/ UNCHANGED Book!vars
    <2>1. CASE CommitCart(p) \/ CommitOrder(p)
      BY <2>1, CommitCartIsOpenOrWrite, CommitOrderIsAccept
    <2>2. CASE CommitReset(p) \/ CommitCleanup(p)
      <3>1. PICK issued \in SUBSET Guests : CommitPurge(p, issued)
        BY <2>2 DEF CommitReset, CommitCleanup
      <3>2. QED
        BY <3>1, CommitPurgeIsForget
    <2>3. CASE ~(CommitCart(p) \/ CommitOrder(p) \/ CommitReset(p) \/ CommitCleanup(p))
      <3>1. UNCHANGED <<cart, orders, ledger>>
        BY <1>1, <2>3
        DEF Step, Begin, LockActiveGuest, EnsureCartExists, EnsureCartInserts, CheckOwner,
            ReadCart, ReadRestaurants, ReadMenu, Revoke, DeleteSession, SelectExpired,
            StartPurge, CascadeCart, Rollback, tables
      <3>2. QED
        BY <3>1, OtherStepsAreInvisible
    <2>4. QED
      BY <2>1, <2>2, <2>3
  <1>2. CASE ~\E p \in Requests : Step(p)
    <2>1. UNCHANGED <<cart, orders, ledger>>
      BY <1>2 DEF Next, vars, Admit, Refuse, Fail, BreakDeadlock, Expire, WriteRestaurants,
                  Rollback, tables
    <2>2. QED
      BY <2>1, OtherStepsAreInvisible
  <1>3. QED
    BY <1>1, <1>2

LEMMA InitRefines ==
  ASSUME Init
  PROVE  Book!Init
  <1>1. \A g \in Guests : AcceptedOrders(g) = {}
    BY AcceptedMeans DEF Init
  <1>2. QED
    BY <1>1 DEF Init, Book!Init

\* Whatever the number of requests, guests and keys, and however statements,
\* failures and lost acknowledgements interleave, baskets and accepted orders
\* change only as in OrderBook: one write per revision, one order per key and
\* per revision, a guest forgotten whole.
THEOREM ServiceImplementsOrderBook == Spec => ImplementsOrderBook
  <1>1. Init => Book!Init
    BY InitRefines
  <1>2. IInv /\ [Next]_vars => [Book!Next]_(Book!vars)
    BY StepRefines
  <1>3. QED
    BY <1>1, <1>2, InvariantHolds, PTL DEF Spec, ImplementsOrderBook, Book!Spec
=============================================================================
