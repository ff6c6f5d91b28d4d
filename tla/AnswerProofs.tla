---------------------------- MODULE AnswerProofs ----------------------------
(***************************************************************************)
(* Proofs about the answers of the ordering service: what a receipt, a     *)
(* quote or a basket that a client was shown still means later on, for any *)
(* number of requests, guests, keys, baskets and catalogues.               *)
(***************************************************************************)
EXTENDS CheckoutProofs

(***************************************************************************)
(* Facts about answers and baskets.                                        *)
(***************************************************************************)
\* What an answer carries follows from its status.
LEMMA ReplyFields ==
  ASSUME NEW a \in Replies
  PROVE  /\ a # NoReply
         /\ a.status \in {"cart", "cart_conflict", "quote"} => a.cart \in CartRows
         /\ a.status = "quote" => a.catalog \in CatalogRows
         /\ a.status = "receipt" => a.order \in OrderRows
  <1>1. CASE a \in [status : {"storage_unavailable", "session_invalid", "idempotency_conflict",
                              "invalid_checkout", "invalid_cart", "catalog_changed", "reset",
                              "cleaned"}]
    BY <1>1, ReplyAssumption
  <1>2. CASE a \in [status : {"cart", "cart_conflict"}, cart : CartRows]
    BY <1>2, ReplyAssumption
  <1>3. CASE a \in [status : {"quote"}, cart : CartRows, catalog : CatalogRows]
    BY <1>3, ReplyAssumption
  <1>4. CASE a \in [status : {"receipt"}, order : OrderRows]
    BY <1>4, ReplyAssumption
  <1>5. QED
    BY <1>1, <1>2, <1>3, <1>4 DEF Replies

\* The basket of an order is a row, and so is the row an insert starts from.
LEMMA Baskets ==
  /\ FirstRow \in CartRows /\ FirstRow.revision = 0
  /\ \A o \in OrderRows : Basket(o) \in CartRows /\ Basket(o).revision = o.rev
                          /\ Basket(o).items = o.items
  BY ConstantsAssumption DEF FirstRow, Basket, CartRows, OrderRows

\* The ways in which a basket has been seen.
LEMMA SeenMeans ==
  ASSUME NEW g, NEW row
  PROVE  row \in Seen(g) <=>
           \/ \E q \in Requests : row \in Shown(q) /\ Owner(q) = g
           \/ \E o \in orders[g] : row = Basket(o)
           \/ row = cart[g] /\ cart[g] # NoCart
  <1>1. row \in ShownTo(g) <=> \E q \in Requests : row \in Shown(q) /\ Owner(q) = g
    <2>1. ASSUME NEW q \in Requests, row \in Shown(q)
          PROVE  Shown(q) # {}
      BY <2>1
    <2>2. QED
      BY <2>1, Zenon DEF ShownTo
  <1>2. row \in OrderedBy(g) <=> \E o \in orders[g] : row = Basket(o)
    BY DEF OrderedBy
  <1>3. QED
    BY <1>1, <1>2 DEF Seen

\* What p has shown or read, case by case.
LEMMA ShownMeans ==
  ASSUME NEW p, NEW row
  PROVE  row \in Shown(p) <=>
           \/ CartReplied(p) /\ row = reply[p].cart
           \/ Replied(p, "receipt") /\ row = Basket(reply[p].order)
           \/ pc[p] \in PastCart /\ row = txn[p].cart
  BY DEF Shown

\* Answers belong to requests that have ended, and a receipt to a submission of
\* an issued guest.
LEMMA Answered ==
  ASSUME AInv, NEW p \in Requests
  PROVE  /\ \A s : Replied(p, s) => pc[p] = "done"
         /\ pc[p] = "new" => Shown(p) = {}
         /\ Replied(p, "receipt") => /\ Owner(p) \in Guests
                                     /\ session[Owner(p)] # "unissued"
                                     /\ reply[p].order \in OrderRows
  <1>1. \A s : Replied(p, s) => pc[p] = "done"
    BY DEF AInv, AnsweredAtEnd, Replied
  <1>2. pc[p] = "new" => Shown(p) = {}
    BY <1>1 DEF Shown, CartReplied, PastCart
  <1>3. ASSUME Replied(p, "receipt")
        PROVE  /\ Owner(p) \in Guests /\ session[Owner(p)] # "unissued"
               /\ reply[p].order \in OrderRows
    <2>1. reply[p] \in Replies /\ reply[p].status = "receipt"
      BY <1>3 DEF AInv, IInv, TypeOK, Replied
    <2>2. req[p] \in RequestBodies /\ req[p].kind = "submit" /\ session[Owner(p)] # "unissued"
      BY <1>1, <1>3 DEF AInv, OwnersAreIssued, ReceiptStands
    <2>3. QED
      BY <2>1, <2>2, ReplyFields, BodyFields DEF Owner
  <1>4. QED
    BY <1>1, <1>2, <1>3

\* A guest that has not been issued has no past.
LEMMA UnissuedUnseen ==
  ASSUME AInv, NEW g \in Guests, session[g] = "unissued"
  PROVE  Seen(g) = {} /\ cart[g] = NoCart
  <1>1. cart[g] = NoCart /\ orders[g] = {}
    BY DEF AInv, IInv, NoOrphanRows, Present
  <1>2. ASSUME NEW q \in Requests, Shown(q) # {}, Owner(q) = g
        PROVE  FALSE
    <2>1. pc[q] # "new"
      BY <1>2, Answered
    <2>2. req[q] \in RequestBodies /\ req[q].kind = "cleanup"
      BY <1>2, <2>1 DEF AInv, OwnersAreIssued
    <2>3. ~Replied(q, "receipt") /\ pc[q] \notin PastCart
      BY <2>2 DEF AInv, ReceiptStands, IInv, KindsAndStatements, PastCart, Reading
    <2>4. ~CartReplied(q)
      BY <2>1, <2>2 DEF AInv, OwnersAreIssued
    <2>5. QED
      BY <1>2, <2>3, <2>4 DEF Shown
  <1>3. QED
    BY <1>1, <1>2, SeenMeans

(***************************************************************************)
(* What one step adds to the baskets that have been seen.                  *)
(***************************************************************************)
\* The two readings above, of the state that a step leads to.
LEMMA SeenNext ==
  ASSUME NEW g, NEW row
  PROVE  row \in Seen(g)' <=>
           \/ \E q \in Requests : row \in Shown(q)' /\ Owner(q)' = g
           \/ \E o \in orders'[g] : row = Basket(o)
           \/ row = cart'[g] /\ cart'[g] # NoCart
  <1>1. row \in ShownTo(g)' <=> \E q \in Requests : row \in Shown(q)' /\ Owner(q)' = g
    <2>1. ASSUME NEW q \in Requests, row \in Shown(q)'
          PROVE  Shown(q)' # {}
      BY <2>1
    <2>2. QED
      BY <2>1, Zenon DEF ShownTo
  <1>2. row \in OrderedBy(g)' <=> \E o \in orders'[g] : row = Basket(o)
    BY DEF OrderedBy, Basket
  <1>3. QED
    BY <1>1, <1>2 DEF Seen

LEMMA ShownNext ==
  ASSUME NEW p, NEW row
  PROVE  row \in Shown(p)' <=>
           \/ CartReplied(p)' /\ row = reply'[p].cart
           \/ Replied(p, "receipt")' /\ row = Basket(reply'[p].order)
           \/ pc'[p] \in PastCart /\ row = txn'[p].cart
  BY DEF Shown, Basket, PastCart

\* The others show what they showed.
LEMMA OthersShow ==
  ASSUME NEW q, req'[q] = req[q], pc'[q] = pc[q], txn'[q] = txn[q], reply'[q] = reply[q]
  PROVE  /\ Owner(q)' = Owner(q)
         /\ \A row : row \in Shown(q)' <=> row \in Shown(q)
         /\ \A s : Replied(q, s)' <=> Replied(q, s)
         /\ CartReplied(q)' <=> CartReplied(q)
  <1>1. Owner(q)' = Owner(q)
    BY DEF Owner
  <1>2. \A s : Replied(q, s)' <=> Replied(q, s)
    BY DEF Replied
  <1>3. CartReplied(q)' <=> CartReplied(q)
    BY <1>2 DEF CartReplied
  <1>4. \A row : row \in Shown(q)' <=> row \in Shown(q)
    BY <1>2, <1>3, ShownMeans, ShownNext
  <1>5. QED
    BY <1>1, <1>2, <1>3, <1>4

\* A step of p adds to g's baskets at most those in S.
LEMMA SeenGrows ==
  ASSUME NEW p \in Requests, UNCHANGED req,
         \A q \in Requests \ {p} : pc'[q] = pc[q] /\ txn'[q] = txn[q] /\ reply'[q] = reply[q],
         NEW g, NEW S,
         Owner(p) = g => \A row \in Shown(p)' : row \in Seen(g) \/ row \in S,
         \A o \in orders'[g] : o \in orders[g] \/ Basket(o) \in Seen(g),
         cart'[g] = cart[g] \/ cart'[g] = NoCart \/ cart'[g] \in S
  PROVE  \A row \in Seen(g)' : row \in Seen(g) \/ row \in S
  <1> SUFFICES ASSUME NEW row \in Seen(g)'
               PROVE  row \in Seen(g) \/ row \in S
    OBVIOUS
  <1>1. CASE \E q \in Requests : row \in Shown(q)' /\ Owner(q)' = g
    <2>1. PICK q \in Requests : row \in Shown(q)' /\ Owner(q)' = g
      BY <1>1
    <2>2. CASE q = p
      BY <2>1, <2>2 DEF Owner
    <2>3. CASE q # p
      <3>1. row \in Shown(q) /\ Owner(q) = g
        BY <2>1, <2>3, OthersShow
      <3>2. QED
        BY <3>1, SeenMeans
    <2>4. QED
      BY <2>2, <2>3
  <1>2. CASE \E o \in orders'[g] : row = Basket(o)
    BY <1>2, SeenMeans
  <1>3. CASE row = cart'[g] /\ cart'[g] # NoCart
    BY <1>3, SeenMeans
  <1>4. QED
    BY <1>1, <1>2, <1>3, SeenNext

\* A guest whose row stays where it is may still be shown the row of an insert.
LEMMA SeenQuietly ==
  ASSUME NEW g, SeenIsPast(g), cart'[g] = cart[g], Present(g)' <=> Present(g),
         \A row \in Seen(g)' : \/ row \in Seen(g)
                               \/ row = FirstRow /\ cart[g] = NoCart /\ Present(g)
  PROVE  SeenIsPast(g)'
  <1>1. CASE cart[g] = NoCart /\ Present(g)
    <2>1. \A row \in Seen(g)' : row = FirstRow
      BY <1>1 DEF SeenIsPast
    <2>2. QED
      BY <1>1, <2>1, Baskets DEF SeenIsPast, FirstRow
  <1>2. CASE ~(cart[g] = NoCart /\ Present(g))
    <2>1. \A row \in Seen(g)' : row \in Seen(g)
      BY <1>2
    <2>2. QED
      BY <1>2, <2>1 DEF SeenIsPast, FirstRow
  <1>3. QED
    BY <1>1, <1>2

\* A row that is stored ahead of everything seen so far.
LEMMA SeenAhead ==
  ASSUME NEW g, SeenIsPast(g), NEW row \in CartRows, cart'[g] = row,
         \A a \in Seen(g)' : a \in Seen(g) \/ a = row,
         \A a \in Seen(g) : a.revision < row.revision \/ a = row
  PROVE  SeenIsPast(g)'
  <1>1. Seen(g)' \subseteq CartRows /\ \A a \in CartRows : a.revision \in Nat
    BY DEF SeenIsPast, CartRows
  <1>2. \A a, b \in Seen(g)' : a.revision = b.revision => a = b
    BY <1>1 DEF SeenIsPast
  <1>3. \A a \in Seen(g)' : a.revision <= cart'[g].revision
    BY <1>1
  <1>4. cart'[g] # NoCart
    BY SentinelAssumption
  <1>5. QED
    BY <1>1, <1>2, <1>3, <1>4 DEF SeenIsPast

(***************************************************************************)
(* What one step does to receipts.                                         *)
(***************************************************************************)
\* A receipt is new with a step, or was there before, in the same words.
SameReceipt(q) ==
  Replied(q, "receipt") /\ reply'[q] = reply[q] /\ req'[q] = req[q]

\* A step whose new receipts stand, for a guest that exists, keeps keys honest.
LEMMA KeysKept ==
  ASSUME AInv, IInv', IdsAreUnique', \A q \in Requests : ReceiptStands(q)',
         \A q \in Requests : Replied(q, "receipt")' =>
           SameReceipt(q) \/ (Owner(q)' \in Guests /\ Present(Owner(q))')
  PROVE  KeyMeansOneOrder'
  <1> SUFFICES ASSUME NEW p \in Requests, NEW q \in Requests,
                      Replied(p, "receipt")', Replied(q, "receipt")',
                      Owner(p)' = Owner(q)', req'[p].key = req'[q].key
               PROVE  reply'[p].order = reply'[q].order /\ Payload(p)' = Payload(q)'
    BY DEF KeyMeansOneOrder
  <1>1. reply'[p].order = reply'[q].order
    <2>1. CASE SameReceipt(p) /\ SameReceipt(q)
      <3>1. Owner(p) = Owner(q) /\ req[p].key = req[q].key
        BY <2>1 DEF SameReceipt, Owner
      <3>2. QED
        BY <2>1, <3>1 DEF AInv, KeyMeansOneOrder, SameReceipt
    <2>2. CASE Owner(p)' \in Guests /\ Present(Owner(p))'
      <3>1. ReceiptStands(p)' /\ ReceiptStands(q)'
        OBVIOUS
      <3>2. PICK e1 \in ledger'[Owner(p)'] : e1.key = req'[p].key /\ e1.order = reply'[p].order.id
        BY <2>2, <3>1 DEF ReceiptStands, Entries, Present, Owner
      <3>3. PICK e2 \in ledger'[Owner(p)'] : e2.key = req'[p].key /\ e2.order = reply'[q].order.id
        BY <2>2, <3>1 DEF ReceiptStands, Entries, Present, Owner
      <3>4. e1 = e2
        BY <2>2, <3>2, <3>3 DEF IInv, LedgerMatchesOrders
      <3>5. reply'[p].order \in orders'[Owner(p)'] /\ reply'[q].order \in orders'[Owner(p)']
        BY <2>2, <3>1 DEF ReceiptStands, Present, Owner
      <3>6. QED
        BY <2>2, <3>2, <3>3, <3>4, <3>5 DEF IdsAreUnique
    <2>3. CASE Owner(q)' \in Guests /\ Present(Owner(q))'
      BY <2>2, <2>3 DEF Present
    <2>4. QED
      BY <2>1, <2>2, <2>3
  <1>2. QED
    BY <1>1 DEF ReceiptStands, Payload

\* What the invariant asks of each request's receipt, and of each guest, of
\* which a step disturbs little.
LEMMA AnswersKept ==
  ASSUME AInv, IInv', AnsweredAtEnd', OwnersAreIssued', IdsAreUnique',
         \A q \in Requests : ReceiptStands(q)',
         \A g \in Guests : SeenIsPast(g)',
         \A q \in Requests : Replied(q, "receipt")' =>
           SameReceipt(q) \/ (Owner(q)' \in Guests /\ Present(Owner(q))')
  PROVE  AInv'
  BY KeysKept DEF AInv

\* A step that leaves the stored rows alone, changes at most request p, and
\* shows or reads no basket but a seen one.
LEMMA QuietStep ==
  ASSUME AInv, IInv', NEW p \in Requests, UNCHANGED <<cart, orders, ledger, req>>,
         \A g \in Guests : Present(g)' <=> Present(g),
         \A g \in Guests : session'[g] = "unissued" <=> session[g] = "unissued",
         \A q \in Requests \ {p} : pc'[q] = pc[q] /\ txn'[q] = txn[q] /\ reply'[q] = reply[q],
         pc[p] # "new" /\ pc'[p] # "new",
         AnsweredAtEnd',
         \A row \in Shown(p)' : /\ Owner(p) \in Guests /\ req[p].kind # "cleanup"
                                /\ \/ row \in Seen(Owner(p))
                                   \/ row = FirstRow /\ cart[Owner(p)] = NoCart /\ Present(Owner(p)),
         Replied(p, "receipt")' =>
           \/ SameReceipt(p)
           \/ Owner(p) \in Guests /\ Present(Owner(p)) /\ ReceiptStands(p)'
  PROVE  AInv'
  <1> DEFINE S(g) == IF cart[g] = NoCart /\ Present(g) THEN {FirstRow} ELSE {}
  <1>1. ASSUME NEW g \in Guests
        PROVE  SeenIsPast(g)'
    <2>1. Owner(p) = g => \A row \in Shown(p)' : row \in Seen(g) \/ row \in S(g)
      OBVIOUS
    <2>2. \A row \in Seen(g)' : row \in Seen(g) \/ row \in S(g)
      BY <2>1, SeenGrows
    <2>3. QED
      BY <2>2, SeenQuietly DEF AInv
  <1>2. OwnersAreIssued'
    <2> SUFFICES ASSUME NEW q \in Requests, pc'[q] # "new"
                 PROVE  /\ req[q] \in RequestBodies
                        /\ IF req[q].kind = "cleanup" THEN ~CartReplied(q)'
                                                     ELSE session'[Owner(q)] # "unissued"
      BY DEF OwnersAreIssued, Owner
    <2>1. /\ req[q] \in RequestBodies
          /\ IF req[q].kind = "cleanup" THEN ~CartReplied(q) ELSE session[Owner(q)] # "unissued"
      BY DEF AInv, OwnersAreIssued
    <2>2. CASE req[q].kind = "cleanup"
      <3>1. CASE q = p
        BY <2>1, <2>2, <3>1, ShownNext
      <3>2. CASE q # p
        BY <2>1, <2>2, <3>2, OthersShow
      <3>3. QED
        BY <3>1, <3>2
    <2>3. CASE req[q].kind # "cleanup"
      BY <2>1, <2>3, BodyFields DEF Owner
    <2>4. QED
      BY <2>2, <2>3
  <1>3. IdsAreUnique'
    BY DEF AInv, IdsAreUnique
  <1>4. \A q \in Requests : Replied(q, "receipt")' => SameReceipt(q) \/ q = p
    BY OthersShow DEF SameReceipt
  <1>5. ASSUME NEW q \in Requests, SameReceipt(q)
        PROVE  ReceiptStands(q)'
    <2>1. ReceiptStands(q) /\ Owner(q) \in Guests
      BY <1>5, Answered DEF AInv, SameReceipt
    <2>2. Present(Owner(q))' <=> Present(Owner(q))
      BY <2>1 DEF Present, Owner
    <2>3. QED
      BY <1>5, <2>1, <2>2 DEF SameReceipt, ReceiptStands, Owner, Entries, Replied
  <1>6. \A q \in Requests : ReceiptStands(q)'
    BY <1>4, <1>5 DEF ReceiptStands
  <1>7. \A q \in Requests : Replied(q, "receipt")' =>
          SameReceipt(q) \/ (Owner(q)' \in Guests /\ Present(Owner(q))')
    BY <1>4 DEF Owner, Present
  <1>8. QED
    BY <1>1, <1>2, <1>3, <1>6, <1>7, AnswersKept

(***************************************************************************)
(* Steps that store nothing.                                               *)
(***************************************************************************)
\* A basket p may show without storing anything.
Showable(p, row) ==
  /\ Owner(p) \in Guests /\ req[p].kind # "cleanup"
  /\ \/ row \in Seen(Owner(p))
     \/ row = FirstRow /\ cart[Owner(p)] = NoCart /\ Present(Owner(p))

\* A receipt p may be given because it is stored.
Replayable(p, order) ==
  /\ req[p].kind = "submit" /\ Owner(p) \in Guests /\ Present(Owner(p))
  /\ order \in orders[Owner(p)]
  /\ order.rev = req[p].rev /\ order.catalog = req[p].fingerprint
  /\ \E e \in Entries(p) : e.order = order.id

\* p ends and nothing is stored.
LEMMA EndQuietly ==
  ASSUME AInv, IInv', NEW p \in Requests, InFlight(p), NEW a \in Replies, Finish(p, a),
         UNCHANGED <<session, cart, orders, ledger>>,
         a.status \in {"cart", "cart_conflict", "quote"} => Showable(p, a.cart),
         a.status = "receipt" => Replayable(p, a.order)
  PROVE  AInv'
  <1>1. TypeOK
    BY DEF AInv, IInv
  <1>2. /\ \A q \in Requests \ {p} : pc'[q] = pc[q] /\ txn'[q] = txn[q] /\ reply'[q] = reply[q]
        /\ pc'[p] = "done" /\ reply'[p] = a /\ req' = req
    <2>1. reply' = [reply EXCEPT ![p] = a]
      BY DEF Finish
    <2>2. reply'[p] = a /\ \A q \in Requests \ {p} : reply'[q] = reply[q]
      BY <1>1, <2>1 DEF TypeOK
    <2>3. QED
      BY <1>1, <2>2, FinishFrame
  <1>3. AnsweredAtEnd'
    BY <1>2 DEF AInv, AnsweredAtEnd
  <1>4. a # NoReply /\ (a.status = "receipt" => a.order \in OrderRows)
    BY ReplyFields
  <1>5. /\ CartReplied(p)' => a.status \in {"cart", "cart_conflict", "quote"}
        /\ Replied(p, "receipt")' => a.status = "receipt"
    BY <1>2 DEF CartReplied, Replied
  <1>6. ASSUME NEW row \in Shown(p)'
        PROVE  Showable(p, row)
    <2>1. CASE CartReplied(p)' /\ row = reply'[p].cart
      BY <1>2, <1>5, <2>1
    <2>2. CASE Replied(p, "receipt")' /\ row = Basket(reply'[p].order)
      <3>1. Replayable(p, a.order) /\ row = Basket(a.order)
        BY <1>2, <1>5, <2>2
      <3>2. row \in Seen(Owner(p))
        BY <3>1, SeenMeans DEF Replayable
      <3>3. QED
        BY <3>1, <3>2 DEF Replayable, Showable
    <2>3. QED
      BY <1>2, <2>1, <2>2, ShownNext DEF PastCart
  <1>7. Replied(p, "receipt")' => Owner(p) \in Guests /\ Present(Owner(p)) /\ ReceiptStands(p)'
    BY <1>2, <1>5 DEF Replayable, ReceiptStands, Owner, Entries, Present
  <1>8. QED
    BY <1>2, <1>3, <1>6, <1>7, QuietStep DEF InFlight, Present, Showable

\* p goes on and nothing is stored.
LEMMA MoveQuietly ==
  ASSUME AInv, IInv', NEW p \in Requests, InFlight(p), pc'[p] \notin {"new", "done"},
         UNCHANGED <<session, cart, orders, ledger, req, reply>>,
         \A q \in Requests \ {p} : pc'[q] = pc[q] /\ txn'[q] = txn[q],
         pc'[p] \in PastCart => Showable(p, txn'[p].cart)
  PROVE  AInv'
  <1>1. AnsweredAtEnd'
    BY DEF AInv, AnsweredAtEnd, InFlight
  <1>2. ~CartReplied(p)' /\ ~Replied(p, "receipt")'
    BY DEF AInv, AnsweredAtEnd, InFlight, CartReplied, Replied
  <1>3. \A row \in Shown(p)' : Showable(p, row)
    BY <1>2, ShownNext
  <1>4. QED
    BY <1>1, <1>2, <1>3, QuietStep DEF InFlight, Present, Showable

\* What p has read of the cart it may show.
LEMMA ReadIsShowable ==
  ASSUME AInv, NEW p \in Requests, pc[p] \in PastCart
  PROVE  Showable(p, txn[p].cart)
  <1>1. Owner(p) \in Guests /\ req[p].kind # "cleanup"
    BY Actors DEF AInv, IInv, KindsAndStatements, PastCart, Reading
  <1>2. txn[p].cart \in Seen(Owner(p))
    BY SeenMeans, ShownMeans
  <1>3. QED
    BY <1>1, <1>2 DEF Showable

\* What p is about to read of the cart it may show.
LEMMA VisibleIsShowable ==
  ASSUME AInv, NEW p \in Requests, pc[p] = "readCart", VisibleCart(p, Owner(p)) # NoCart
  PROVE  Showable(p, VisibleCart(p, Owner(p)))
  <1> DEFINE g == Owner(p)
  <1>1. g \in Guests /\ req[p].kind # "cleanup"
    BY Actors DEF AInv, IInv, KindsAndStatements, Reading
  <1>2. CASE cart[g] = NoCart /\ cartLock[g] = p
    <2>1. sessionLock[g][p] \in {"keyshare", "update"}
      BY <1>1, <1>2 DEF AInv, IInv, CartLockHolders
    <2>2. Present(g)
      BY <1>1, <2>1 DEF AInv, IInv, SessionLocksOnLiving
    <2>3. QED
      BY <1>1, <1>2, <2>2 DEF VisibleCart, FirstRow, Showable
  <1>3. CASE ~(cart[g] = NoCart /\ cartLock[g] = p)
    <2>1. VisibleCart(p, g) = cart[g]
      BY <1>3 DEF VisibleCart
    <2>2. QED
      BY <1>1, <2>1, SeenMeans DEF Showable
  <1>4. QED
    BY <1>2, <1>3

\* The answer to a known key is the stored receipt or a conflict.
LEMMA LedgerAnswerReplays ==
  ASSUME AInv, NEW p \in Requests, Owner(p) \in Guests, Present(Owner(p)),
         req[p].kind = "submit", Entries(p) # {}
  PROVE  \/ LedgerAnswer(p) = Answer("idempotency_conflict")
         \/ \E order \in OrderRows : /\ LedgerAnswer(p) = ReceiptAnswer(order)
                                     /\ Replayable(p, order)
  <1> DEFINE g == Owner(p)
             entry == CHOOSE e \in Entries(p) : TRUE
             found == CHOOSE o \in orders[g] : o.id = entry.order
  <1>1. entry \in Entries(p) /\ entry \in ledger[g]
    BY DEF Entries
  <1>2. LedgerAnswer(p) = IF entry.payload # Payload(p) THEN Answer("idempotency_conflict")
                                                        ELSE ReceiptAnswer(found)
    BY DEF LedgerAnswer
  <1> HIDE DEF entry
  <1>3. PICK o \in orders[g] : /\ o.id = entry.order
                               /\ o.rev = entry.payload.rev /\ o.catalog = entry.payload.fingerprint
    BY <1>1 DEF AInv, IInv, LedgerMatchesOrders
  <1>4. found \in orders[g] /\ found.id = entry.order
    BY <1>3
  <1> HIDE DEF found
  <1>5. found = o
    BY <1>3, <1>4 DEF AInv, IdsAreUnique
  <1>6. CASE entry.payload = Payload(p)
    <2>1. o.rev = req[p].rev /\ o.catalog = req[p].fingerprint
      BY <1>3, <1>6 DEF Payload
    <2>2. o \in OrderRows
      BY <1>3 DEF AInv, IInv, TypeOK
    <2>3. QED
      BY <1>1, <1>2, <1>3, <1>5, <1>6, <2>1, <2>2 DEF Replayable
  <1>7. QED
    BY <1>2, <1>6

\* An answer that shows nothing.
LEMMA PlainStatus ==
  ASSUME NEW s \in {"storage_unavailable", "session_invalid", "idempotency_conflict",
                    "invalid_checkout", "invalid_cart", "catalog_changed", "reset",
                    "cleaned"}
  PROVE  /\ Answer(s).status = s /\ s \notin {"cart", "cart_conflict", "quote", "receipt"}
         /\ Answer(s) \in Replies
  BY PlainAnswers DEF Answer

\* p ends with an answer that shows nothing.
LEMMA EndPlainly ==
  ASSUME AInv, IInv', NEW p \in Requests, InFlight(p),
         NEW s \in {"storage_unavailable", "session_invalid", "idempotency_conflict",
                    "invalid_checkout", "invalid_cart", "catalog_changed", "reset",
                    "cleaned"},
         Finish(p, Answer(s)), UNCHANGED <<session, cart, orders, ledger>>
  PROVE  AInv'
  BY PlainStatus, EndQuietly

(***************************************************************************)
(* The statements of a request.                                            *)
(***************************************************************************)
LEMMA LockActiveGuestAnswers ==
  ASSUME AInv, IInv', NEW p \in Requests, LockActiveGuest(p)
  PROVE  AInv'
  <1>1. /\ InFlight(p) /\ Owner(p) \in Guests /\ req[p].kind = "submit"
        /\ TypeOK
    BY Actors DEF LockActiveGuest, AInv, IInv, KindsAndStatements
  <1>2. CASE ~(txn[p].live /\ Present(Owner(p)))
    BY <1>1, <1>2, EndPlainly DEF LockActiveGuest, Rollback, tables, Unavailable
  <1>3. CASE txn[p].live /\ Present(Owner(p)) /\ Entries(p) # {}
    <2>1. Finish(p, LedgerAnswer(p)) /\ UNCHANGED <<session, cart, orders, ledger>>
      BY <1>3 DEF LockActiveGuest, Rollback, tables
    <2>2. CASE LedgerAnswer(p) = Answer("idempotency_conflict")
      BY <1>1, <2>1, <2>2, EndPlainly
    <2>3. ASSUME NEW order \in OrderRows, LedgerAnswer(p) = ReceiptAnswer(order), Replayable(p, order)
          PROVE  AInv'
      BY <1>1, <2>1, <2>3, EndQuietly, ReceiptAnswers DEF ReceiptAnswer
    <2>4. QED
      BY <1>1, <1>3, <2>2, <2>3, LedgerAnswerReplays
  <1>4. CASE txn[p].live /\ Present(Owner(p)) /\ Entries(p) = {}
    <2>1. UNCHANGED <<session, cart, orders, ledger, req, txn, reply>> /\ Goto(p, "ensureCart")
      BY <1>4 DEF LockActiveGuest, tables
    <2>2. \A q \in Requests \ {p} : pc'[q] = pc[q]
      BY <1>1, <2>1 DEF Goto, TypeOK
    <2>3. pc'[p] = "ensureCart"
      BY <1>1, <2>1 DEF Goto, TypeOK
    <2>4. QED
      BY <1>1, <2>1, <2>2, <2>3, MoveQuietly DEF PastCart
  <1>5. QED
    BY <1>2, <1>3, <1>4

LEMMA ReadCartAnswers ==
  ASSUME AInv, IInv', NEW p \in Requests, ReadCart(p)
  PROVE  AInv'
  <1> DEFINE row == VisibleCart(p, Owner(p))
  <1>1. /\ InFlight(p) /\ Owner(p) \in Guests /\ pc[p] = "readCart" /\ TypeOK
        /\ req[p].kind \in {"get", "put", "delete", "quote", "submit"}
    BY Actors DEF ReadCart, AInv, IInv, KindsAndStatements, Reading
  <1>2. CASE row = NoCart
    BY <1>1, <1>2, EndPlainly DEF ReadCart, Rollback, tables, Unavailable
  <1>3. row # NoCart => row \in CartRows /\ Showable(p, row)
    <2>1. row # NoCart => row \in CartRows
      BY <1>1, Baskets DEF TypeOK, VisibleCart, FirstRow
    <2>2. QED
      BY <1>1, <2>1, VisibleIsShowable
  <1>4. CASE row # NoCart /\ CartVerdict(p, row) # NoReply
    <2>1. Finish(p, CartVerdict(p, row)) /\ UNCHANGED <<session, cart, orders, ledger>>
      BY <1>4 DEF ReadCart, Rollback, tables
    <2>2. ~(req[p].kind = "submit" /\ Entries(p) # {})
      BY <1>1 DEF AInv, IInv, SubmitsHoldGuest, Reading
    <2>3. CartVerdict(p, row) \in {CartAnswer("cart_conflict", row), Answer("invalid_checkout")}
      BY <1>4, <2>2 DEF CartVerdict
    <2>4. CASE CartVerdict(p, row) = Answer("invalid_checkout")
      BY <1>1, <2>1, <2>4, EndPlainly
    <2>5. CASE CartVerdict(p, row) = CartAnswer("cart_conflict", row)
      <3>1. CartAnswer("cart_conflict", row) \in Replies
        BY <1>3, <1>4, RowAnswers
      <3>2. CartAnswer("cart_conflict", row).cart = row
            /\ CartAnswer("cart_conflict", row).status = "cart_conflict"
        BY DEF CartAnswer
      <3>3. QED
        BY <1>1, <1>3, <1>4, <2>1, <2>5, <3>1, <3>2, EndQuietly
    <2>6. QED
      BY <2>3, <2>4, <2>5
  <1>5. CASE row # NoCart /\ CartVerdict(p, row) = NoReply
    <2>1. /\ UNCHANGED <<session, cart, orders, ledger, req, reply>>
          /\ txn' = [txn EXCEPT ![p].cart = row]
          /\ Goto(p, IF req[p].kind \in {"get", "delete"} THEN "commit" ELSE "readRestaurants")
      BY <1>5 DEF ReadCart, tables
    <2>2. pc'[p] \notin {"new", "done"} /\ \A q \in Requests \ {p} : pc'[q] = pc[q]
      BY <1>1, <2>1 DEF Goto, TypeOK
    <2>3. txn'[p].cart = row /\ \A q \in Requests \ {p} : txn'[q] = txn[q]
      BY <1>1, <2>1 DEF TypeOK, TxnFields
    <2>4. QED
      BY <1>1, <1>3, <1>5, <2>1, <2>2, <2>3, MoveQuietly
  <1>6. QED
    BY <1>2, <1>4, <1>5

LEMMA ReadMenuAnswers ==
  ASSUME AInv, IInv', NEW p \in Requests, ReadMenu(p)
  PROVE  AInv'
  <1> DEFINE snapshot == [restaurants |-> txn[p].restaurants, menu |-> catalog.menu]
  <1>1. InFlight(p) /\ pc[p] = "readMenu" /\ TypeOK /\ Showable(p, txn[p].cart)
    BY ReadIsShowable DEF ReadMenu, InFlight, AInv, IInv, PastCart
  <1>2. CASE CatalogVerdict(p, snapshot) # NoReply
    <2>1. Finish(p, CatalogVerdict(p, snapshot)) /\ UNCHANGED <<session, cart, orders, ledger>>
      BY <1>2 DEF ReadMenu, Rollback, tables
    <2>2. CatalogVerdict(p, snapshot) \in
            {Answer("invalid_cart"), Answer("catalog_changed")}
      BY <1>2 DEF CatalogVerdict
    <2>3. QED
      BY <1>1, <2>1, <2>2, EndPlainly
  <1>3. CASE CatalogVerdict(p, snapshot) = NoReply
    <2>1. /\ UNCHANGED <<session, cart, orders, ledger, req, reply>>
          /\ txn' = [txn EXCEPT ![p].menu = catalog.menu]
          /\ Goto(p, "commit")
      BY <1>3 DEF ReadMenu, tables
    <2>2. pc'[p] \notin {"new", "done"} /\ \A q \in Requests \ {p} : pc'[q] = pc[q]
      BY <1>1, <2>1 DEF Goto, TypeOK
    <2>3. txn'[p].cart = txn[p].cart /\ \A q \in Requests \ {p} : txn'[q] = txn[q]
      BY <1>1, <2>1 DEF TypeOK, TxnFields
    <2>4. QED
      BY <1>1, <2>1, <2>2, <2>3, MoveQuietly
  <1>4. QED
    BY <1>2, <1>3

\* A statement that reads no cart, answers nothing and stores nothing.
LEMMA OtherStatements ==
  ASSUME AInv, IInv', NEW p \in Requests, InFlight(p),
         UNCHANGED <<session, cart, orders, ledger, req, reply>>,
         \A q \in Requests \ {p} : txn'[q] = txn[q],
         NEW label \in Labels \ ({"new", "done"} \union PastCart), Goto(p, label)
  PROVE  AInv'
  <1>1. pc'[p] = label /\ \A q \in Requests \ {p} : pc'[q] = pc[q]
    BY DEF AInv, IInv, TypeOK, Goto
  <1>2. QED
    BY <1>1, MoveQuietly

LEMMA BeginAnswers ==
  ASSUME AInv, IInv', NEW p \in Requests, Begin(p)
  PROVE  AInv'
  <1>1. \A q \in Requests \ {p} : txn'[q] = txn[q]
    BY DEF Begin, AInv, IInv, TypeOK
  <1>2. QED
    BY <1>1, OtherStatements DEF Begin, InFlight, Labels, PastCart, tables

LEMMA EnsureCartAnswers ==
  ASSUME AInv, IInv', NEW p \in Requests, EnsureCartExists(p) \/ EnsureCartInserts(p)
  PROVE  AInv'
  BY OtherStatements DEF EnsureCartExists, EnsureCartInserts, InFlight, Labels, PastCart, tables

LEMMA CheckOwnerAnswers ==
  ASSUME AInv, IInv', NEW p \in Requests, CheckOwner(p)
  PROVE  AInv'
  <1>1. InFlight(p)
    BY DEF CheckOwner, InFlight
  <1>2. CASE Present(Owner(p))
    BY <1>1, <1>2, OtherStatements DEF CheckOwner, Labels, PastCart, tables
  <1>3. CASE ~Present(Owner(p))
    BY <1>1, <1>3, EndPlainly DEF CheckOwner, Rollback, Unavailable, tables
  <1>4. QED
    BY <1>2, <1>3

LEMMA RevokeAnswers ==
  ASSUME AInv, IInv', NEW p \in Requests, Revoke(p)
  PROVE  AInv'
  <1>1. InFlight(p)
    BY DEF Revoke, InFlight
  <1>2. CASE Present(Owner(p))
    BY <1>1, <1>2, OtherStatements DEF Revoke, Labels, PastCart, tables
  <1>3. CASE ~Present(Owner(p))
    BY <1>1, <1>3, EndPlainly DEF Revoke, Rollback, tables
  <1>4. QED
    BY <1>2, <1>3

LEMMA StartPurgeAnswers ==
  ASSUME AInv, IInv', NEW p \in Requests, InFlight(p), NEW gs, StartPurge(p, gs)
  PROVE  AInv'
  <1>1. \A q \in Requests \ {p} : txn'[q] = txn[q]
    BY DEF StartPurge, AInv, IInv, TypeOK
  <1>2. QED
    BY <1>1, OtherStatements DEF StartPurge, Labels, PastCart, tables

LEMMA PurgeStatementsAnswer ==
  ASSUME AInv, IInv', NEW p \in Requests,
         DeleteSession(p) \/ SelectExpired(p) \/ \E g \in Guests : CascadeCart(p, g)
  PROVE  AInv'
  <1>1. InFlight(p)
    BY DEF DeleteSession, SelectExpired, CascadeCart, InFlight
  <1>2. CASE DeleteSession(p)
    BY <1>1, <1>2, StartPurgeAnswers DEF DeleteSession
  <1>3. CASE SelectExpired(p)
    <2>1. \/ Rollback(p, Answer("cleaned"))
          \/ \E batch \in SUBSET Guests : StartPurge(p, batch)
      BY <1>3 DEF SelectExpired
    <2>2. QED
      BY <1>1, <2>1, StartPurgeAnswers, EndPlainly DEF Rollback, tables
  <1>4. ASSUME NEW g \in Guests, CascadeCart(p, g)
        PROVE  AInv'
    <2>1. \A q \in Requests \ {p} : txn'[q] = txn[q]
      BY <1>4 DEF CascadeCart, AInv, IInv, TypeOK
    <2>2. QED
      BY <1>1, <1>4, <2>1, MoveQuietly DEF CascadeCart, PastCart, tables
  <1>5. QED
    BY <1>2, <1>3, <1>4

LEMMA ReadRestaurantsAnswers ==
  ASSUME AInv, IInv', NEW p \in Requests, ReadRestaurants(p)
  PROVE  AInv'
  <1>1. InFlight(p) /\ TypeOK /\ Showable(p, txn[p].cart)
    BY ReadIsShowable DEF ReadRestaurants, InFlight, AInv, IInv, PastCart
  <1>2. /\ UNCHANGED <<session, cart, orders, ledger, req, reply>>
        /\ txn' = [txn EXCEPT ![p].restaurants = catalog.restaurants]
        /\ Goto(p, "readMenu")
    BY DEF ReadRestaurants, tables
  <1>3. pc'[p] \notin {"new", "done"} /\ \A q \in Requests \ {p} : pc'[q] = pc[q]
    BY <1>1, <1>2 DEF Goto, TypeOK
  <1>4. txn'[p].cart = txn[p].cart /\ \A q \in Requests \ {p} : txn'[q] = txn[q]
    BY <1>1, <1>2 DEF TypeOK, TxnFields
  <1>5. QED
    BY <1>1, <1>2, <1>3, <1>4, MoveQuietly

\* Failures of a request in flight.
LEMMA FailuresAnswer ==
  ASSUME AInv, IInv', NEW p \in Requests, Fail(p) \/ BreakDeadlock(p)
  PROVE  AInv'
  <1>1. InFlight(p) /\ Rollback(p, Unavailable)
    BY DEF Fail, BreakDeadlock, Deadlocked, Blocks, InFlight
  <1>2. QED
    BY <1>1, EndPlainly DEF Rollback, Unavailable, tables

(***************************************************************************)
(* Arrivals and the environment.                                           *)
(***************************************************************************)
\* A request arrives for an issued guest, having seen nothing, and is let in or
\* refused.
LEMMA ArrivalAnswers ==
  ASSUME AInv, IInv', NEW p \in Requests, NEW body \in Bodies, Admit(p, body) \/ Refuse(p, body)
  PROVE  AInv'
  <1>1. /\ TypeOK /\ pc[p] = "new" /\ body \in RequestBodies
        /\ UNCHANGED <<session, cart, orders, ledger, txn>>
        /\ req' = [req EXCEPT ![p] = body]
        /\ body.kind # "cleanup" => session[body.guest] # "unissued"
    BY ConstantsAssumption DEF Admit, Refuse, AInv, IInv, tables
  <1>2. \E label \in Labels \ ({"new"} \union PastCart) : Goto(p, label)
    BY DEF Admit, Refuse, FirstStatement, Labels, PastCart
  <1>3. /\ req'[p] = body /\ pc'[p] # "new" /\ pc'[p] \notin PastCart
        /\ \A q \in Requests \ {p} : req'[q] = req[q] /\ pc'[q] = pc[q] /\ txn'[q] = txn[q]
    BY <1>1, <1>2 DEF TypeOK, Goto
  <1>4. /\ \A q \in Requests \ {p} : reply'[q] = reply[q]
        /\ \/ reply'[p] = reply[p]
           \/ pc'[p] = "done" /\ reply'[p] = Answer("session_invalid")
    BY <1>1 DEF Admit, Refuse, Goto, TypeOK
  <1>5. ~CartReplied(p)' /\ ~Replied(p, "receipt")'
    <2>1. CASE reply'[p] = reply[p]
      BY <1>1, <2>1 DEF AInv, AnsweredAtEnd, CartReplied, Replied
    <2>2. CASE reply'[p] = Answer("session_invalid")
      BY <2>2, PlainStatus DEF CartReplied, Replied
    <2>3. QED
      BY <1>4, <2>1, <2>2
  <1>6. \A row : row \notin Shown(p)'
    BY <1>3, <1>5, ShownNext
  <1>7. AnsweredAtEnd'
    BY <1>1, <1>3, <1>4 DEF AInv, AnsweredAtEnd
  <1>8. OwnersAreIssued'
    BY <1>1, <1>3, <1>4, <1>5, OthersShow DEF AInv, OwnersAreIssued, Owner
  <1>9. \A q \in Requests : Replied(q, "receipt")' => SameReceipt(q)
    BY <1>3, <1>4, <1>5, OthersShow DEF SameReceipt
  <1>10. IdsAreUnique'
    BY <1>1 DEF AInv, IdsAreUnique
  <1>11. \A q \in Requests : ReceiptStands(q)'
    BY <1>1, <1>9 DEF AInv, SameReceipt, ReceiptStands, Owner, Entries, Present, Replied
  <1>12. ASSUME NEW g \in Guests
         PROVE  SeenIsPast(g)'
    <2>1. \A row \in Seen(g)' : row \in Seen(g)
      <3> SUFFICES ASSUME NEW row \in Seen(g)'
                   PROVE  row \in Seen(g)
        OBVIOUS
      <3>1. ASSUME NEW q \in Requests, row \in Shown(q)', Owner(q)' = g
            PROVE  row \in Shown(q) /\ Owner(q) = g
        BY <1>3, <1>4, <1>6, <3>1, OthersShow
      <3>2. QED
        BY <1>1, <3>1, SeenMeans, SeenNext
    <2>2. QED
      BY <1>1, <2>1, SeenQuietly DEF AInv, Present
  <1>13. QED
    BY <1>7, <1>8, <1>9, <1>10, <1>11, <1>12, AnswersKept

\* Expiry dates pass and the catalogue changes without a trace in the answers.
LEMMA EnvironmentAnswers ==
  ASSUME AInv, IInv',
         (\E g \in Guests : Expire(g)) \/ WriteRestaurants \/ UNCHANGED vars
  PROVE  AInv'
  <1>1. UNCHANGED <<cart, orders, ledger, pc, req, txn, reply>>
    BY DEF Expire, WriteRestaurants, vars, tables
  <1>2. \A g \in Guests : session'[g] = session[g] \/ (session[g] = "live" /\ session'[g] = "expired")
    BY DEF Expire, WriteRestaurants, vars, tables, AInv, IInv, TypeOK
  <1>3. \A q \in Requests : /\ Owner(q)' = Owner(q)
                            /\ \A row : row \in Shown(q)' <=> row \in Shown(q)
                            /\ \A s : Replied(q, s)' <=> Replied(q, s)
                            /\ CartReplied(q)' <=> CartReplied(q)
    BY <1>1, OthersShow
  <1>4. \A g \in Guests : (Present(g)' <=> Present(g)) /\ (session'[g] = "unissued" <=> session[g] = "unissued")
    BY <1>2 DEF Present
  <1>5. AnsweredAtEnd'
    BY <1>1 DEF AInv, AnsweredAtEnd
  <1>6. OwnersAreIssued'
    BY <1>1, <1>3, <1>4, BodyFields DEF AInv, OwnersAreIssued, Owner
  <1>7. IdsAreUnique'
    BY <1>1 DEF AInv, IdsAreUnique
  <1>8. \A q \in Requests : Replied(q, "receipt")' => SameReceipt(q)
    BY <1>1, <1>3 DEF SameReceipt
  <1>9. ASSUME NEW q \in Requests, SameReceipt(q)
         PROVE  ReceiptStands(q)'
    <2>1. ReceiptStands(q) /\ Owner(q) \in Guests
      BY <1>9, Answered DEF AInv, SameReceipt
    <2>2. Present(Owner(q))' <=> Present(Owner(q))
      BY <1>1, <1>4, <2>1 DEF Present, Owner
    <2>3. QED
      BY <1>1, <1>9, <2>1, <2>2 DEF SameReceipt, ReceiptStands, Owner, Entries, Replied
  <1>10. \A q \in Requests : ReceiptStands(q)'
    BY <1>8, <1>9 DEF ReceiptStands
  <1>11. ASSUME NEW g \in Guests
         PROVE  SeenIsPast(g)'
    <2>1. \A row \in Seen(g)' : row \in Seen(g)
      BY <1>1, <1>3, SeenMeans, SeenNext
    <2>2. QED
      BY <1>1, <1>4, <2>1, SeenQuietly DEF AInv
  <1>12. QED
    BY <1>5, <1>6, <1>7, <1>8, <1>10, <1>11, AnswersKept

(***************************************************************************)
(* Commits.                                                                *)
(***************************************************************************)
\* What a writer has read is the newest basket its guest has seen.
LEMMA CommitterIsNewest ==
  ASSUME AInv, NEW p \in Requests, pc[p] = "commit", cartLock[Owner(p)] = p
  PROVE  /\ Owner(p) \in Guests /\ Present(Owner(p)) /\ txn[p].cart \in CartRows
         /\ \A a \in Seen(Owner(p)) : a.revision \in Nat /\ a.revision <= txn[p].cart.revision
         /\ ~LocksCart(p) => cart[Owner(p)] = NoCart /\ txn[p].cart = FirstRow
  <1> DEFINE g == Owner(p)
  <1>1. /\ IInv /\ g \in Guests /\ Present(g) /\ txn[p].cart \in CartRows
        /\ txn[p].cart = VisibleCart(p, g)
    BY CommitterHolds DEF AInv
  <1>2. ~LocksCart(p) => cart[g] = NoCart
    BY <1>1 DEF IInv, CartLockHolders, Reading
  <1>3. cart[g] = NoCart => txn[p].cart = FirstRow
    BY <1>1 DEF VisibleCart, FirstRow
  <1>4. \A a \in Seen(g) : a.revision \in Nat
    BY <1>1 DEF AInv, SeenIsPast, CartRows
  <1>5. \A a \in Seen(g) : a.revision <= txn[p].cart.revision
    <2>1. CASE cart[g] = NoCart
      BY <1>1, <1>3, <2>1, Baskets DEF AInv, SeenIsPast
    <2>2. CASE cart[g] # NoCart
      <3>1. txn[p].cart = cart[g]
        BY <1>1, <2>2 DEF VisibleCart
      <3>2. QED
        BY <1>1, <2>2, <3>1 DEF AInv, SeenIsPast
    <2>3. QED
      BY <2>1, <2>2
  <1>6. QED
    BY <1>1, <1>2, <1>3, <1>4, <1>5

\* The end of p, for the others and for the schema of answers.
LEMMA EndFrame ==
  ASSUME AInv, NEW p \in Requests, InFlight(p), NEW a \in Replies, Finish(p, a)
  PROVE  /\ \A q \in Requests \ {p} : pc'[q] = pc[q] /\ txn'[q] = txn[q] /\ reply'[q] = reply[q]
         /\ pc'[p] = "done" /\ reply'[p] = a /\ UNCHANGED req
         /\ AnsweredAtEnd'
         /\ \A s : Replied(p, s)' <=> a.status = s
         /\ ~Replied(p, "receipt")
  <1>1. TypeOK
    BY DEF AInv, IInv
  <1>2. reply' = [reply EXCEPT ![p] = a]
    BY DEF Finish
  <1>3. reply'[p] = a /\ \A q \in Requests \ {p} : reply'[q] = reply[q]
    BY <1>1, <1>2 DEF TypeOK
  <1>4. /\ \A q \in Requests \ {p} : pc'[q] = pc[q] /\ txn'[q] = txn[q]
        /\ pc'[p] = "done" /\ req' = req
    BY <1>1, FinishFrame
  <1>5. AnsweredAtEnd'
    BY <1>3, <1>4 DEF AInv, AnsweredAtEnd
  <1>6. \A s : Replied(p, s)' <=> a.status = s
    BY <1>3, ReplyFields DEF Replied
  <1>7. ~Replied(p, "receipt")
    BY DEF AInv, AnsweredAtEnd, Replied, InFlight
  <1>8. QED
    BY <1>3, <1>4, <1>5, <1>6, <1>7

\* The row a request of a known kind commits.
LEMMA CommittedRow ==
  ASSUME AInv, NEW p \in Requests, pc[p] = "commit", cartLock[Owner(p)] = p
  PROVE  /\ NewRow(p) \in CartRows
         /\ \A a \in Seen(Owner(p)) : a.revision < NewRow(p).revision \/ a = NewRow(p)
  <1> DEFINE g == Owner(p)
  <1>1. /\ g \in Guests /\ Present(g) /\ txn[p].cart \in CartRows
        /\ \A a \in Seen(g) : a.revision \in Nat /\ a.revision <= txn[p].cart.revision
        /\ ~LocksCart(p) => cart[g] = NoCart /\ txn[p].cart = FirstRow
    BY CommitterIsNewest
  <1>2. /\ req[p] \in RequestBodies
        /\ req[p].kind \in {"get", "put", "delete", "quote", "submit"}
    BY Actors DEF AInv, IInv, KindsAndStatements, InFlight, Reading
  <1>3. NewRow(p) \in CartRows
    BY <1>1, <1>2, BodyFields, ConstantsAssumption DEF NewRow, CartRows
  <1>4. CASE LocksCart(p)
    <2>1. NewRow(p).revision = txn[p].cart.revision + 1
      BY <1>4 DEF NewRow, LocksCart
    <2>2. txn[p].cart.revision \in Nat
      BY <1>1 DEF CartRows
    <2>3. QED
      BY <1>1, <1>3, <2>1, <2>2
  <1>5. CASE ~LocksCart(p)
    <2>1. NewRow(p) = txn[p].cart
      BY <1>2, <1>5 DEF NewRow, LocksCart
    <2>2. \A a \in Seen(g) : a = FirstRow
      BY <1>1, <1>5 DEF AInv, SeenIsPast
    <2>3. QED
      BY <1>1, <1>3, <1>5, <2>1, <2>2
  <1>6. QED
    BY <1>3, <1>4, <1>5

\* p stores its row, and perhaps an order for what it read, and ends.
LEMMA StoreAnswers ==
  ASSUME AInv, IInv', NEW p \in Requests, pc[p] = "commit", NEW a \in Replies, Finish(p, a),
         UNCHANGED session, cartLock[Owner(p)] = p,
         cart' = [cart EXCEPT ![Owner(p)] = NewRow(p)],
         \A g \in Guests : orders[g] \subseteq orders'[g] /\ ledger[g] \subseteq ledger'[g],
         \A g \in Guests : \A o \in orders'[g] : o \in orders[g] \/ Basket(o) \in Seen(g),
         IdsAreUnique',
         a.status \in {"cart", "cart_conflict", "quote"} =>
           a.cart \in Seen(Owner(p)) \/ a.cart = NewRow(p),
         a.status = "receipt" =>
           ReceiptStands(p)' /\ Basket(a.order) \in Seen(Owner(p))
  PROVE  AInv'
  <1> DEFINE g0 == Owner(p)
  <1>1. /\ InFlight(p) /\ g0 \in Guests /\ Present(g0) /\ TypeOK
        /\ NewRow(p) \in CartRows
        /\ \A b \in Seen(g0) : b.revision < NewRow(p).revision \/ b = NewRow(p)
    BY CommitterIsNewest, CommittedRow DEF InFlight, AInv, IInv
  <1>2. /\ \A q \in Requests \ {p} : pc'[q] = pc[q] /\ txn'[q] = txn[q] /\ reply'[q] = reply[q]
        /\ pc'[p] = "done" /\ reply'[p] = a /\ UNCHANGED req
        /\ AnsweredAtEnd'
        /\ \A s : Replied(p, s)' <=> a.status = s
        /\ ~Replied(p, "receipt")
    BY <1>1, EndFrame
  <1>3. cart'[g0] = NewRow(p) /\ \A g \in Guests \ {g0} : cart'[g] = cart[g]
    BY <1>1 DEF TypeOK
  <1>4. \A row \in Shown(p)' : row \in Seen(g0) \/ row \in {NewRow(p)}
    BY <1>2, ShownNext DEF CartReplied, PastCart
  <1>5. \A g \in Guests : Present(g)' <=> Present(g)
    BY DEF Present
  <1>6. ASSUME NEW g \in Guests
        PROVE  SeenIsPast(g)'
    <2>1. CASE g = g0
      <3>1. \A row \in Seen(g)' : row \in Seen(g) \/ row \in {NewRow(p)}
        BY <1>2, <1>3, <1>4, <2>1, SeenGrows
      <3>2. QED
        BY <1>1, <1>3, <2>1, <3>1, SeenAhead DEF AInv
    <2>2. CASE g # g0
      <3>1. \A row \in Seen(g)' : row \in Seen(g) \/ row \in {}
        BY <1>2, <1>3, <2>2, SeenGrows
      <3>2. QED
        BY <1>3, <1>5, <2>2, <3>1, SeenQuietly DEF AInv
    <2>3. QED
      BY <2>1, <2>2
  <1>7. OwnersAreIssued'
    <2> SUFFICES ASSUME NEW q \in Requests, pc'[q] # "new"
                 PROVE  /\ req[q] \in RequestBodies
                        /\ IF req[q].kind = "cleanup" THEN ~CartReplied(q)'
                                                     ELSE session[Owner(q)] # "unissued"
      BY <1>2 DEF OwnersAreIssued, Owner
    <2>1. CASE q = p
      <3>1. req[p] \in RequestBodies /\ req[p].kind # "cleanup"
        BY <1>1, Actors DEF AInv, IInv, KindsAndStatements, Reading
      <3>2. QED
        BY <1>1, <2>1, <3>1 DEF Present
    <2>2. CASE q # p
      BY <1>2, <2>2, OthersShow DEF AInv, OwnersAreIssued
    <2>3. QED
      BY <2>1, <2>2
  <1>8. \A q \in Requests : Replied(q, "receipt")' => SameReceipt(q) \/ q = p
    BY <1>2, OthersShow DEF SameReceipt
  <1>9. ASSUME NEW q \in Requests, SameReceipt(q)
        PROVE  ReceiptStands(q)'
    <2>1. ReceiptStands(q) /\ Owner(q) \in Guests
      BY <1>9, Answered DEF AInv, SameReceipt
    <2>2. /\ Present(Owner(q))' <=> Present(Owner(q))
          /\ orders[Owner(q)] \subseteq orders'[Owner(q)]
          /\ ledger[Owner(q)] \subseteq ledger'[Owner(q)]
      BY <1>2, <2>1 DEF Present, Owner
    <2>3. QED
      BY <1>9, <2>1, <2>2 DEF SameReceipt, ReceiptStands, Owner, Entries, Replied
  <1>10. ReceiptStands(p)'
    BY <1>2 DEF ReceiptStands
  <1>11. \A q \in Requests : ReceiptStands(q)'
    <2> SUFFICES ASSUME NEW q \in Requests, Replied(q, "receipt")'
                 PROVE  ReceiptStands(q)'
      BY DEF ReceiptStands
    <2>1. QED
      BY <1>8, <1>9, <1>10
  <1>12. \A q \in Requests : Replied(q, "receipt")' =>
           SameReceipt(q) \/ (Owner(q)' \in Guests /\ Present(Owner(q))')
    BY <1>1, <1>2, <1>8 DEF Owner, Present
  <1>13. QED
    BY <1>2, <1>6, <1>7, <1>11, <1>12, AnswersKept

LEMMA CommitCartAnswers ==
  ASSUME AInv, IInv', NEW p \in Requests, CommitCart(p)
  PROVE  AInv'
  <1> DEFINE g0 == Owner(p)
             good == IF req[p].kind = "quote" THEN QuoteAnswer(txn[p].cart, Snapshot(p))
                                              ELSE CartAnswer("cart", NewRow(p))
  <1>1. /\ InFlight(p) /\ TypeOK /\ pc[p] = "commit" /\ Showable(p, txn[p].cart)
        /\ req[p].kind \in {"get", "put", "delete", "quote"}
        /\ txn[p].cart \in CartRows
        /\ UNCHANGED <<session, orders, ledger>>
    BY ReadIsShowable
    DEF CommitCart, InFlight, AInv, IInv, PastCart, TypeOK, TxnFields, RowsAreRead
  <1>2. NewRow(p) \in CartRows /\ (req[p].kind \in {"get", "quote"} => NewRow(p) = txn[p].cart)
    <2>1. req[p] \in RequestBodies
      BY <1>1, Actors DEF AInv
    <2>2. QED
      BY <1>1, <2>1, BodyFields, ConstantsAssumption DEF NewRow, CartRows
  <1>3. good \in Replies /\ good.status \in {"quote", "cart"}
        /\ good.cart = IF req[p].kind = "quote" THEN txn[p].cart ELSE NewRow(p)
    <2>1. req[p].kind = "quote" => Snapshot(p) \in CatalogRows
      BY <1>1 DEF AInv, IInv, RowsAreRead
    <2>2. QED
      BY <1>1, <1>2, <2>1, RowAnswers DEF QuoteAnswer, CartAnswer
  <1>4. PICK a \in {good, Answer("storage_unavailable")} : Finish(p, a)
    BY DEF CommitCart, Acknowledge, Unavailable
  <1> HIDE DEF good
  <1>5. a \in Replies /\ (a.status \in {"cart", "cart_conflict", "quote", "receipt"} => a = good)
    BY <1>3, <1>4, PlainStatus
  <1>6. CASE cartLock[g0] = p
    <2>1. cart' = [cart EXCEPT ![g0] = NewRow(p)]
      BY <1>6 DEF CommitCart
    <2>2. IdsAreUnique'
      BY <1>1 DEF AInv, IdsAreUnique
    <2>3. a.status \in {"cart", "cart_conflict", "quote"} =>
            a.cart \in Seen(g0) \/ a.cart = NewRow(p)
      BY <1>2, <1>3, <1>5
    <2>4. a.status # "receipt"
      BY <1>3, <1>5
    <2>5. QED
      BY <1>1, <1>4, <1>5, <1>6, <2>1, <2>2, <2>3, <2>4, StoreAnswers
  <1>7. CASE cartLock[g0] # p
    <2>1. cart' = cart
      BY <1>7 DEF CommitCart
    <2>2. req[p].kind \notin {"put", "delete"}
      BY <1>1, <1>7 DEF AInv, IInv, WritersHoldCart, PastCart, LocksCart
    <2>3. a.status \in {"cart", "cart_conflict", "quote"} => Showable(p, a.cart)
      BY <1>1, <1>2, <1>3, <1>5, <2>2
    <2>4. a.status # "receipt"
      BY <1>3, <1>5
    <2>5. QED
      BY <1>1, <1>4, <1>5, <2>1, <2>3, <2>4, EndQuietly
  <1>8. QED
    BY <1>6, <1>7

LEMMA CommitOrderAnswers ==
  ASSUME AInv, IInv', NEW p \in Requests, CommitOrder(p)
  PROVE  AInv'
  <1> DEFINE g0 == Owner(p)
             order == NewOrder(p)
             entry == [key |-> req[p].key, order |-> p, payload |-> Payload(p)]
  <1>1. /\ InFlight(p) /\ TypeOK /\ pc[p] = "commit" /\ req[p].kind = "submit" /\ g0 \in Guests
        /\ Showable(p, txn[p].cart) /\ UNCHANGED session
        /\ req[p] \in RequestBodies
    BY ReadIsShowable, Actors
    DEF CommitOrder, InFlight, AInv, IInv, PastCart
  <1>2. /\ cartLock[g0] = p /\ txn[p].cart.revision = req[p].rev
        /\ Snapshot(p) = req[p].fingerprint
    BY <1>1 DEF AInv, IInv, WritersHoldCart, SubmitsHoldGuest, PastCart, Reading, LocksCart
  <1>3. /\ txn[p].cart \in CartRows /\ txn[p].cart \in Seen(g0) /\ Present(g0)
    <2>1. txn[p].cart \in Seen(g0)
      BY <1>1, SeenMeans, ShownMeans DEF PastCart
    <2>2. QED
      BY <1>1, <1>2, <2>1, CommitterIsNewest
  <1>4. /\ order \in OrderRows
        /\ order.id = p /\ order.rev = req[p].rev /\ order.catalog = req[p].fingerprint
        /\ Basket(order) = txn[p].cart
        /\ entry.key = req[p].key /\ entry.order = p
    <2>1. req[p].rev \in Nat /\ req[p].fingerprint \in CatalogRows
      BY <1>1, BodyFields
    <2>2. order \in OrderRows /\ order.rev = req[p].rev /\ order.items = txn[p].cart.items
      BY <1>2, <1>3, <2>1 DEF NewOrder, OrderRows, CartRows
    <2>3. Basket(order) = txn[p].cart
      BY <1>2, <1>3, <2>2 DEF Basket, CartRows
    <2>4. QED
      BY <1>2, <2>2, <2>3 DEF NewOrder
  <1>5. /\ orders' = [orders EXCEPT ![g0] = @ \union {order}]
        /\ ledger' = [ledger EXCEPT ![g0] = @ \union {entry}]
        /\ cart' = [cart EXCEPT ![g0] = NewRow(p)]
    BY DEF CommitOrder
  <1>6. PICK a \in {ReceiptAnswer(order), Answer("storage_unavailable")} : Finish(p, a)
    BY DEF CommitOrder, Acknowledge, Unavailable
  <1> HIDE DEF order, entry
  <1>7. /\ a \in Replies /\ a.status \notin {"cart", "cart_conflict", "quote"}
        /\ a.status = "receipt" => a.order = order
    <2>1. /\ ReceiptAnswer(order) \in Replies /\ ReceiptAnswer(order).status = "receipt"
          /\ ReceiptAnswer(order).order = order
      BY <1>4, ReceiptAnswers DEF ReceiptAnswer
    <2>2. QED
      BY <1>6, <2>1, PlainStatus
  <1>8. /\ \A g \in Guests \ {g0} : orders'[g] = orders[g] /\ ledger'[g] = ledger[g]
        /\ orders'[g0] = orders[g0] \union {order}
        /\ ledger'[g0] = ledger[g0] \union {entry}
    BY <1>1, <1>5 DEF TypeOK
  <1>9. IdsAreUnique'
    <2>1. \A o \in orders[g0] : o.id # p
      BY <1>1 DEF AInv, IInv, OrdersAreOld, InFlight
    <2>2. QED
      BY <1>4, <1>8, <2>1 DEF AInv, IdsAreUnique
  <1>10. \A g \in Guests : \A o \in orders'[g] : o \in orders[g] \/ Basket(o) \in Seen(g)
    BY <1>3, <1>4, <1>8
  <1>11. a.status = "receipt" => ReceiptStands(p)' /\ Basket(a.order) \in Seen(g0)
    <2>1. reply'[p] = a /\ req' = req
      BY <1>1, <1>6, <1>7, EndFrame
    <2>2. ASSUME a.status = "receipt"
          PROVE  ReceiptStands(p)'
      <3>1. reply'[p].order = order /\ order \in orders'[g0]
        BY <1>7, <1>8, <2>1, <2>2
      <3>2. entry \in Entries(p)'
        BY <1>4, <1>8, <2>1 DEF Entries, Owner
      <3>3. QED
        BY <1>1, <1>4, <2>1, <3>1, <3>2 DEF ReceiptStands, Owner
    <2>3. QED
      BY <1>3, <1>4, <1>7, <2>2
  <1>12. \A g \in Guests : orders[g] \subseteq orders'[g] /\ ledger[g] \subseteq ledger'[g]
    BY <1>8
  <1>13. QED
    BY <1>1, <1>2, <1>5, <1>6, <1>7, <1>9, <1>10, <1>11, <1>12, StoreAnswers

\* The purge forgets guests for good; a guest issued with it has no past.
LEMMA CommitPurgeAnswers ==
  ASSUME AInv, IInv', NEW p \in Requests, NEW issued \in SUBSET Guests, CommitPurge(p, issued),
         \A g \in issued : session[g] = "unissued"
  PROVE  AInv'
  <1> DEFINE purge == txn[p].purge
  <1>1. InFlight(p) /\ TypeOK /\ purge \subseteq Guests
    BY Actors DEF CommitPurge, InFlight, AInv, IInv
  <1>2. PICK s \in {"reset", "cleaned", "storage_unavailable"} : Finish(p, Answer(s))
    BY DEF CommitPurge, Acknowledge, Unavailable
  <1>3. /\ \A q \in Requests \ {p} : pc'[q] = pc[q] /\ txn'[q] = txn[q] /\ reply'[q] = reply[q]
        /\ pc'[p] = "done" /\ UNCHANGED req /\ AnsweredAtEnd'
        /\ \A t : Replied(p, t)' <=> t = s
    BY <1>1, <1>2, EndFrame, PlainStatus
  <1>4. ~CartReplied(p)' /\ ~Replied(p, "receipt")'
    BY <1>3 DEF CartReplied
  <1>5. \A row : row \notin Shown(p)'
    BY <1>3, <1>4, ShownNext DEF PastCart
  <1>6. /\ \A g \in purge : session'[g] = "gone" /\ cart'[g] = NoCart /\ orders'[g] = {} /\ ledger'[g] = {}
        /\ \A g \in Guests \ purge :
             /\ session'[g] = IF g \in issued THEN "live" ELSE session[g]
             /\ cart'[g] = cart[g] /\ orders'[g] = orders[g] /\ ledger'[g] = ledger[g]
    BY <1>1 DEF CommitPurge, Purged
  <1>7. ASSUME NEW g \in Guests
        PROVE  SeenIsPast(g)'
    <2>1. \A row \in Seen(g)' : row \in Seen(g) \/ row \in {}
      BY <1>3, <1>5, <1>6, SeenGrows
    <2>2. CASE g \in purge
      BY <1>6, <2>1, <2>2 DEF AInv, SeenIsPast, Present
    <2>3. CASE g \notin purge /\ g \in issued
      <3>1. Seen(g)' = {} /\ cart'[g] = NoCart
        BY <1>6, <2>1, <2>3, UnissuedUnseen
      <3>2. QED
        BY <3>1 DEF SeenIsPast
    <2>4. CASE g \notin purge /\ g \notin issued
      <3>1. cart'[g] = cart[g] /\ (Present(g)' <=> Present(g))
        BY <1>6, <2>4 DEF Present
      <3>2. QED
        BY <2>1, <3>1, SeenQuietly DEF AInv
    <2>5. QED
      BY <2>2, <2>3, <2>4
  <1>8. IdsAreUnique'
    BY <1>6 DEF AInv, IdsAreUnique
  <1>9. OwnersAreIssued'
    <2> SUFFICES ASSUME NEW q \in Requests, pc'[q] # "new"
                 PROVE  /\ req[q] \in RequestBodies
                        /\ IF req[q].kind = "cleanup" THEN ~CartReplied(q)'
                                                     ELSE session'[Owner(q)] # "unissued"
      BY <1>3 DEF OwnersAreIssued, Owner
    <2>1. pc[q] # "new"
      BY <1>1, <1>3 DEF InFlight
    <2>2. /\ req[q] \in RequestBodies
          /\ IF req[q].kind = "cleanup" THEN ~CartReplied(q) ELSE session[Owner(q)] # "unissued"
      BY <2>1 DEF AInv, OwnersAreIssued
    <2>3. CASE req[q].kind = "cleanup"
      BY <1>3, <1>4, <2>2, <2>3, OthersShow
    <2>4. CASE req[q].kind # "cleanup"
      <3>1. Owner(q) \in Guests
        BY <2>2, <2>4, BodyFields DEF Owner
      <3>2. QED
        BY <1>6, <2>2, <2>4, <3>1
    <2>5. QED
      BY <2>3, <2>4
  <1>10. \A q \in Requests : Replied(q, "receipt")' => SameReceipt(q)
    BY <1>3, <1>4, OthersShow DEF SameReceipt
  <1>11. ASSUME NEW q \in Requests, SameReceipt(q)
         PROVE  ReceiptStands(q)'
    <2>1. ReceiptStands(q) /\ Owner(q) \in Guests /\ session[Owner(q)] # "unissued"
      BY <1>11, Answered DEF AInv, SameReceipt
    <2>2. CASE Owner(q) \in purge
      <3>1. ~Present(Owner(q))'
        BY <1>3, <1>6, <2>2 DEF Present, Owner
      <3>2. QED
        BY <1>11, <2>1, <3>1 DEF SameReceipt, ReceiptStands, Replied
    <2>3. CASE Owner(q) \notin purge
      <3>1. /\ Present(Owner(q))' <=> Present(Owner(q))
            /\ orders'[Owner(q)] = orders[Owner(q)] /\ ledger'[Owner(q)] = ledger[Owner(q)]
        BY <1>3, <1>6, <2>1, <2>3 DEF Present, Owner
      <3>2. QED
        BY <1>11, <2>1, <3>1 DEF SameReceipt, ReceiptStands, Owner, Entries, Replied
    <2>4. QED
      BY <2>2, <2>3
  <1>12. \A q \in Requests : ReceiptStands(q)'
    <2> SUFFICES ASSUME NEW q \in Requests, Replied(q, "receipt")'
                 PROVE  ReceiptStands(q)'
      BY DEF ReceiptStands
    <2>1. QED
      BY <1>10, <1>11
  <1>13. QED
    BY <1>3, <1>7, <1>8, <1>9, <1>10, <1>12, AnswersKept

(***************************************************************************)
(* The theorems.                                                           *)
(***************************************************************************)
LEMMA InitAnswers ==
  ASSUME Init
  PROVE  AInv
  <1>1. IInv
    BY InitInv
  <1>2. \A p \in Requests : pc[p] = "new" /\ reply[p] = NoReply
    BY DEF Init
  <1>3. AnsweredAtEnd /\ OwnersAreIssued
    BY <1>2 DEF AnsweredAtEnd, OwnersAreIssued
  <1>4. IdsAreUnique
    BY DEF Init, IdsAreUnique
  <1>5. (\A p \in Requests : ReceiptStands(p)) /\ KeyMeansOneOrder
    BY <1>2 DEF ReceiptStands, KeyMeansOneOrder, Replied
  <1>6. ASSUME NEW g \in Guests
        PROVE  SeenIsPast(g)
    <2>1. \A row \in Seen(g) : row = cart[g] /\ cart[g] # NoCart
      <3>1. \A p \in Requests : \A row : row \notin Shown(p)
        BY <1>2, ShownMeans DEF CartReplied, Replied, PastCart
      <3>2. orders[g] = {}
        BY DEF Init
      <3>3. QED
        BY <3>1, <3>2, SeenMeans
    <2>2. cart[g] \in CartRows \union {NoCart}
      BY <1>1 DEF IInv, TypeOK
    <2>3. QED
      BY <2>1, <2>2 DEF SeenIsPast, CartRows
  <1>7. QED
    BY <1>1, <1>3, <1>4, <1>5, <1>6 DEF AInv

\* A step of a request's program.
LEMMA StepAnswers ==
  ASSUME AInv, IInv', NEW p \in Requests, Step(p)
  PROVE  AInv'
  <1>1. CASE Begin(p) \/ LockActiveGuest(p)
    BY <1>1, BeginAnswers, LockActiveGuestAnswers
  <1>2. CASE EnsureCartExists(p) \/ EnsureCartInserts(p) \/ CheckOwner(p) \/ ReadCart(p)
    BY <1>2, EnsureCartAnswers, CheckOwnerAnswers, ReadCartAnswers
  <1>3. CASE ReadRestaurants(p) \/ ReadMenu(p)
    BY <1>3, ReadRestaurantsAnswers, ReadMenuAnswers
  <1>4. CASE CommitCart(p) \/ CommitOrder(p)
    BY <1>4, CommitCartAnswers, CommitOrderAnswers
  <1>5. CASE Revoke(p) \/ DeleteSession(p) \/ SelectExpired(p) \/ \E g \in Guests : CascadeCart(p, g)
    BY <1>5, RevokeAnswers, PurgeStatementsAnswer
  <1>6. CASE CommitReset(p) \/ CommitCleanup(p)
    <2>1. CASE CommitReset(p)
      <3>1. PICK g \in Guests : session[g] = "unissued" /\ CommitPurge(p, {g})
        BY <2>1 DEF CommitReset
      <3>2. QED
        BY <3>1, CommitPurgeAnswers
    <2>2. CASE CommitCleanup(p)
      BY <2>2, CommitPurgeAnswers DEF CommitCleanup
    <2>3. QED
      BY <1>6, <2>1, <2>2
  <1>7. QED
    BY <1>1, <1>2, <1>3, <1>4, <1>5, <1>6 DEF Step

LEMMA NextAnswers ==
  ASSUME AInv, [Next]_vars
  PROVE  AInv'
  <1>1. IInv'
    BY NextInv DEF AInv
  <1>2. CASE \E p \in Requests : \E body \in Bodies : Admit(p, body) \/ Refuse(p, body)
    BY <1>1, <1>2, ArrivalAnswers
  <1>3. CASE \E p \in Requests : Step(p)
    BY <1>1, <1>3, StepAnswers
  <1>4. CASE \E p \in Requests : Fail(p) \/ BreakDeadlock(p)
    BY <1>1, <1>4, FailuresAnswer
  <1>5. CASE (\E g \in Guests : Expire(g)) \/ WriteRestaurants \/ UNCHANGED vars
    BY <1>1, <1>5, EnvironmentAnswers
  <1>6. QED
    BY <1>2, <1>3, <1>4, <1>5 DEF Next

\* The invariant that ties every answer given to what is stored holds in every
\* reachable state.
THEOREM AnswersHold == Spec => []AInv
  <1>1. Init => AInv
    BY InitAnswers
  <1>2. AInv /\ [Next]_vars => AInv'
    BY NextAnswers
  <1>3. QED
    BY <1>1, <1>2, PTL DEF Spec

\* However often a key is submitted and replayed, with whatever answers lost and
\* whatever resets in between, a guest receives one receipt for it
\* (order_service.submit_order, _replay_or_conflict).
THEOREM KeysAreIdempotent == Spec => []KeyMeansOneOrder
  <1>1. AInv => KeyMeansOneOrder
    BY DEF AInv
  <1>2. QED
    BY <1>1, AnswersHold, PTL

\* A receipt that was handed out can be fetched and replayed while its guest
\* exists.
THEOREM ReceiptsStayRetrievable == Spec => []ReceiptsAreDurable
  <1>1. AInv => ReceiptsAreDurable
    BY DEF AInv, ReceiptStands, ReceiptsAreDurable
  <1>2. QED
    BY <1>1, AnswersHold, PTL

\* A guest's revision number stands for one basket in all answers ever given,
\* in the orders and in the stored row (cart_service's compare-and-swap).
THEOREM RevisionsNameBaskets == Spec => []RevisionNamesOneBasket
  <1>1. ASSUME AInv, NEW g \in Guests, NEW row \in Sightings(g)
        PROVE  row \in Seen(g)
    <2> DEFINE replied == {reply[p].cart : p \in {q \in Requests :
                             /\ \E s \in {"cart", "cart_conflict", "quote"} : Replied(q, s)
                             /\ Owner(q) = g}}
               ordered == {[revision |-> o.rev, items |-> o.items] : o \in orders[g]}
    <2>1. row \in replied \/ row \in ordered \/ (row = cart[g] /\ cart[g] # NoCart)
      BY <1>1 DEF Sightings
    <2>2. ASSUME row \in replied
          PROVE  \E q \in Requests : row \in Shown(q) /\ Owner(q) = g
      <3>1. PICK q \in Requests : CartReplied(q) /\ Owner(q) = g /\ row = reply[q].cart
        BY <2>2 DEF CartReplied
      <3>2. QED
        BY <3>1, ShownMeans
    <2>3. ASSUME row \in ordered
          PROVE  \E o \in orders[g] : row = Basket(o)
      BY <2>3 DEF Basket
    <2> HIDE DEF replied, ordered
    <2>4. QED
      BY <2>1, <2>2, <2>3, SeenMeans
  <1>2. AInv => RevisionNamesOneBasket
    BY <1>1 DEF AInv, SeenIsPast, RevisionNamesOneBasket
  <1>3. QED
    BY <1>2, AnswersHold, PTL

\* A receipt obtained with a quote's revision and fingerprint has the items and
\* the catalogue rows that were quoted (submit_order's fingerprint check).
THEOREM QuotesAreHonoured == Spec => []QuoteIsHonoured
  <1>1. AInv => QuoteIsHonoured
    <2> SUFFICES ASSUME AInv, NEW p \in Requests, NEW q \in Requests,
                        Replied(p, "receipt"), Replied(q, "quote"), Owner(p) = Owner(q),
                        req[p].rev = reply[q].cart.revision,
                        req[p].fingerprint = reply[q].catalog
                 PROVE  /\ reply[p].order.items = reply[q].cart.items
                        /\ reply[p].order.catalog = reply[q].catalog
      BY DEF QuoteIsHonoured
    <2> DEFINE g == Owner(p)
               basket == Basket(reply[p].order)
    <2>1. g \in Guests /\ reply[p].order \in OrderRows
      BY Answered
    <2>2. reply[p].order.rev = req[p].rev /\ reply[p].order.catalog = req[p].fingerprint
      BY DEF AInv, ReceiptStands
    <2>3. basket \in Seen(g)
      BY ShownMeans, SeenMeans
    <2>4. reply[q].cart \in Seen(g)
      BY ShownMeans, SeenMeans DEF CartReplied
    <2>5. basket.revision = reply[q].cart.revision /\ basket.items = reply[p].order.items
      BY <2>1, <2>2, Baskets
    <2>6. basket = reply[q].cart
      BY <2>1, <2>3, <2>4, <2>5 DEF AInv, SeenIsPast
    <2>7. QED
      BY <2>2, <2>5, <2>6
  <1>2. QED
    BY <1>1, AnswersHold, PTL
=============================================================================
