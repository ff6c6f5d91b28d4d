------------------------------ MODULE Checkout ------------------------------
(***************************************************************************)
(* Concurrent API requests against the PostgreSQL state of the ordering    *)
(* service: baskets, quotes, checkout, guest reset and retention cleanup.  *)
(*                                                                         *)
(* A request runs once, one database statement per step, at READ COMMITTED:*)
(* statements read the committed tables, a request's own writes reach the  *)
(* tables at its commit, and row locks are held until its transaction      *)
(* ends.  Any request may fail between two statements, and a commit may    *)
(* succeed while its acknowledgement is lost.                              *)
(***************************************************************************)
EXTENDS Integers, FiniteSets

CONSTANTS
  Requests,        \* the requests that will ever arrive, each used once
  Guests,          \* guest ids, issued and not yet issued
  Keys,            \* idempotency keys, after UUID normalisation
  Items,           \* basket contents, the empty one included
  EmptyItems,      \* the empty basket
  Catalogs,        \* contents [restaurants, menu] the two catalogue tables get
  OpenRows,        \* contents of table restaurants in which the kitchen is open
  OfferedBy,       \* items -> contents of table menu_items that can serve them
  Bodies,          \* the request bodies clients send
  FirstGuests,     \* guests that have bootstrapped before the model starts
  FirstCart,       \* guest -> its guest_carts row at the start, or NoCart
  BatchSize,       \* guests one cleanup transaction may take
  NoCart, NoRequest, NoReply, NoRows

CatalogRows   == [restaurants : {c.restaurants : c \in Catalogs},
                  menu        : {c.menu : c \in Catalogs}]
CartRows      == [revision : Nat, items : Items]
Modes         == {"none", "keyshare", "nokeyupdate", "update"}
OrderRows     == [id : Requests, rev : Nat, items : Items, catalog : CatalogRows]
LedgerRows    == [key : Keys, order : Requests,
                  payload : [rev : Nat, fingerprint : CatalogRows]]
RequestBodies ==
  [kind : {"get", "reset"}, guest : Guests]
    \union [kind : {"delete", "quote"}, guest : Guests, rev : Nat]
    \union [kind : {"put"}, guest : Guests, rev : Nat, items : Items]
    \union [kind : {"submit"}, guest : Guests, key : Keys, rev : Nat,
            fingerprint : CatalogRows]
    \union [kind : {"cleanup"}]

ASSUME ConstantsAssumption ==
  /\ EmptyItems \in Items
  /\ FirstGuests \subseteq Guests
  /\ FirstCart \in [Guests -> CartRows \union {NoCart}]
  /\ \A g \in Guests \ FirstGuests : FirstCart[g] = NoCart
  /\ BatchSize \in Nat \ {0}
  /\ Bodies \subseteq RequestBodies
  /\ OfferedBy \in [Items -> SUBSET {c.menu : c \in Catalogs}]
  /\ Catalogs # {}
  /\ Catalogs \subseteq CatalogRows

ASSUME SentinelAssumption ==
  /\ NoCart \notin CartRows
  /\ NoRequest \notin Requests

VARIABLES
  session,         \* guest_sessions: "unissued", "live", "expired" or "gone"
  cart,            \* guest_carts: guest -> NoCart or its row
  orders,          \* guest_orders: guest -> set of receipts
  ledger,          \* order_idempotency: guest -> set of entries
  catalog,         \* the committed restaurants and menu_items tables
  sessionLock,     \* guest -> request -> mode held on the guest_sessions row
  cartLock,        \* guest -> request that locks or has inserted its cart row
  pc,              \* request -> its next statement
  req,             \* request -> the body it carries
  txn,             \* request -> what its transaction has read so far
  reply            \* request -> the answer it was given

tables == <<session, cart, orders, ledger, catalog>>
vars   == <<tables, sessionLock, cartLock, pc, req, txn, reply>>

NoBody == [kind |-> "none"]
NewTxn == [live |-> FALSE, cart |-> NoCart, restaurants |-> NoRows,
           menu |-> NoRows, purge |-> {}, cascade |-> {}]

Init ==
  /\ session = [g \in Guests |-> IF g \in FirstGuests THEN "live" ELSE "unissued"]
  /\ cart = FirstCart
  /\ orders = [g \in Guests |-> {}]
  /\ ledger = [g \in Guests |-> {}]
  /\ catalog \in Catalogs
  /\ sessionLock = [g \in Guests |-> [p \in Requests |-> "none"]]
  /\ cartLock = [g \in Guests |-> NoRequest]
  /\ pc = [p \in Requests |-> "new"]
  /\ req = [p \in Requests |-> NoBody]
  /\ txn = [p \in Requests |-> NewTxn]
  /\ reply = [p \in Requests |-> NoReply]

-----------------------------------------------------------------------------
(***************************************************************************)
(* Row locks.  KEY SHARE is what a foreign-key check takes, NO KEY UPDATE  *)
(* what UPDATE takes, UPDATE what FOR UPDATE and DELETE take.              *)
(***************************************************************************)
Conflicts(a, b) ==
  \/ a = "update" /\ b # "none"
  \/ b = "update" /\ a # "none"
  \/ a = "nokeyupdate" /\ b = "nokeyupdate"

SessionFree(p, g, mode) ==
  \A q \in Requests \ {p} : ~Conflicts(mode, sessionLock[g][q])

LockSession(p, g, mode) ==
  sessionLock' = [sessionLock EXCEPT ![g] = [@ EXCEPT ![p] = mode]]

CartFree(p, g) == cartLock[g] \in {NoRequest, p}

\* A guest_sessions row that exists; reset's revoked_at is never committed
\* without the DELETE that follows it in the same transaction.
Present(g) == session[g] \in {"live", "expired"}

Owner(p) == req[p].guest

\* A cart row that another transaction has inserted, or deleted, but not
\* committed: INSERT ... ON CONFLICT waits for the outcome.
Undecided(p, g) ==
  /\ ~CartFree(p, g)
  /\ \/ cart[g] = NoCart
     \/ req[cartLock[g]].kind \in {"reset", "cleanup"}

\* The cart row as p's next SELECT sees it: committed, or p's own insert.
VisibleCart(p, g) ==
  IF cart[g] = NoCart /\ cartLock[g] = p
    THEN [revision |-> 0, items |-> EmptyItems]
    ELSE cart[g]

\* Mutant: checkout reads the cart without FOR UPDATE.
LocksCartExceptCheckout(p) == req[p].kind \in {"put", "delete"}

LocksCart(p) == req[p].kind \in {"put", "delete", "submit"}

-----------------------------------------------------------------------------
(***************************************************************************)
(* The ends of a transaction.                                              *)
(***************************************************************************)
Answer(status)           == [status |-> status]
CartAnswer(status, row)  == [status |-> status, cart |-> row]
QuoteAnswer(row, c)      == [status |-> "quote", cart |-> row, catalog |-> c]
ReceiptAnswer(o)         == [status |-> "receipt", order |-> o]

Unavailable == Answer("storage_unavailable")

Goto(p, label) == pc' = [pc EXCEPT ![p] = label]

\* Mutant: the connection is given back without ending its transaction.
FinishLeakingLocks(p, answer) ==
  /\ Goto(p, "done")
  /\ reply' = [reply EXCEPT ![p] = answer]
  /\ txn' = [txn EXCEPT ![p] = NewTxn]
  /\ UNCHANGED <<req, sessionLock, cartLock>>

Finish(p, answer) ==
  /\ Goto(p, "done")
  /\ reply' = [reply EXCEPT ![p] = answer]
  /\ txn' = [txn EXCEPT ![p] = NewTxn]
  /\ sessionLock' = [g \in Guests |-> [sessionLock[g] EXCEPT ![p] = "none"]]
  /\ cartLock' = [g \in Guests |-> IF cartLock[g] = p THEN NoRequest ELSE cartLock[g]]
  /\ UNCHANGED req

Rollback(p, answer) == Finish(p, answer) /\ UNCHANGED tables

\* COMMIT succeeds; its acknowledgement, and with it the answer, may be lost.
Acknowledge(p, answer) == \E a \in {answer, Unavailable} : Finish(p, a)

-----------------------------------------------------------------------------
(***************************************************************************)
(* Arrival: verify_request_guest reads the session on a connection of its  *)
(* own, before and apart from the transaction that acts for the guest.     *)
(***************************************************************************)
FirstStatement(kind) ==
  CASE kind = "submit"  -> "begin"
    [] kind = "reset"   -> "revoke"
    [] kind = "cleanup" -> "select"
    [] OTHER            -> "ensureCart"

Admit(p, body) ==
  /\ pc[p] = "new"
  /\ body.kind # "cleanup" => session[body.guest] = "live"
  /\ req' = [req EXCEPT ![p] = body]
  /\ Goto(p, FirstStatement(body.kind))
  /\ UNCHANGED <<tables, sessionLock, cartLock, txn, reply>>

Refuse(p, body) ==
  /\ pc[p] = "new"
  /\ body.kind # "cleanup" /\ session[body.guest] \in {"expired", "gone"}
  /\ req' = [req EXCEPT ![p] = body]
  /\ reply' = [reply EXCEPT ![p] = Answer("session_invalid")]
  /\ Goto(p, "done")
  /\ UNCHANGED <<tables, sessionLock, cartLock, txn>>

-----------------------------------------------------------------------------
(***************************************************************************)
(* Checkout up to the cart: lock the guest, then look the key up.          *)
(***************************************************************************)
Payload(p) == [rev |-> req[p].rev, fingerprint |-> req[p].fingerprint]

Entries(p) == {e \in ledger[Owner(p)] : e.key = req[p].key}

\* Mutant: a known key replays its receipt whatever the body says.
LedgerAnswerIgnoringDigest(p) ==
  LET entry == CHOOSE e \in Entries(p) : TRUE
  IN  ReceiptAnswer(CHOOSE o \in orders[Owner(p)] : o.id = entry.order)

\* _replay_or_conflict on the entry found for p's key.
LedgerAnswer(p) ==
  LET entry == CHOOSE e \in Entries(p) : TRUE
  IN  IF entry.payload # Payload(p)
        THEN Answer("idempotency_conflict")
        ELSE ReceiptAnswer(CHOOSE o \in orders[Owner(p)] : o.id = entry.order)

\* BEGIN fixes now(), the instant expires_at is later compared with.
Begin(p) ==
  /\ pc[p] = "begin"
  /\ txn' = [txn EXCEPT ![p].live = session[Owner(p)] = "live"]
  /\ Goto(p, "lockGuest")
  /\ UNCHANGED <<tables, sessionLock, cartLock, req, reply>>

\* SELECT ... FOR UPDATE on the guest row; the first ledger lookup follows
\* under that lock, which every writer of this guest's ledger needs.
LockActiveGuest(p) ==
  /\ pc[p] = "lockGuest"
  /\ SessionFree(p, Owner(p), "update")
  /\ IF ~(txn[p].live /\ Present(Owner(p)))
       THEN Rollback(p, Unavailable)
       ELSE IF Entries(p) # {}
         THEN Rollback(p, LedgerAnswer(p))
         ELSE /\ LockSession(p, Owner(p), "update")
              /\ Goto(p, "ensureCart")
              /\ UNCHANGED <<tables, cartLock, req, txn, reply>>

-----------------------------------------------------------------------------
(***************************************************************************)
(* The cart row: INSERT ... ON CONFLICT DO NOTHING, its foreign-key check, *)
(* then the SELECT, FOR UPDATE for requests that write.                    *)
(***************************************************************************)
\* Mutant: ON CONFLICT DO UPDATE, which locks the row and re-checks its owner.
EnsureCartUpserts(p) ==
  /\ pc[p] = "ensureCart"
  /\ ~Undecided(p, Owner(p))
  /\ cart[Owner(p)] # NoCart
  /\ cartLock' = IF CartFree(p, Owner(p))
                   THEN [cartLock EXCEPT ![Owner(p)] = p] ELSE cartLock
  /\ Goto(p, "checkOwner")
  /\ UNCHANGED <<tables, sessionLock, req, txn, reply>>

EnsureCartExists(p) ==
  /\ pc[p] = "ensureCart"
  /\ ~Undecided(p, Owner(p))
  /\ cart[Owner(p)] # NoCart
  /\ Goto(p, "readCart")
  /\ UNCHANGED <<tables, sessionLock, cartLock, req, txn, reply>>

EnsureCartInserts(p) ==
  /\ pc[p] = "ensureCart"
  /\ ~Undecided(p, Owner(p))
  /\ cart[Owner(p)] = NoCart
  /\ cartLock' = [cartLock EXCEPT ![Owner(p)] = p]
  /\ Goto(p, "checkOwner")
  /\ UNCHANGED <<tables, sessionLock, req, txn, reply>>

\* Mutant: guest_carts.owner_id has no foreign key.
CheckOwnerWithoutForeignKey(p) ==
  /\ pc[p] = "checkOwner"
  /\ Goto(p, "readCart")
  /\ UNCHANGED <<tables, sessionLock, cartLock, req, txn, reply>>

CheckOwner(p) ==
  /\ pc[p] = "checkOwner"
  /\ SessionFree(p, Owner(p), "keyshare")
  /\ IF Present(Owner(p))
       THEN /\ IF sessionLock[Owner(p)][p] = "none"
                 THEN LockSession(p, Owner(p), "keyshare")
                 ELSE UNCHANGED sessionLock
            /\ Goto(p, "readCart")
            /\ UNCHANGED <<tables, cartLock, req, txn, reply>>
       ELSE Rollback(p, Unavailable)

\* Mutant: checkout does not compare revisions.
CartVerdictWithoutCas(p, row) ==
  CASE req[p].kind = "submit" /\ Entries(p) # {}
         -> LedgerAnswer(p)
    [] req[p].kind \notin {"get", "submit"} /\ row.revision # req[p].rev
         -> CartAnswer("cart_conflict", row)
    [] req[p].kind \in {"quote", "submit"} /\ row.items = EmptyItems
         -> Answer("invalid_checkout")
    [] OTHER
         -> NoReply

\* Mutant: an empty basket is not refused.
CartVerdictEmptyAllowed(p, row) ==
  IF req[p].kind # "get" /\ row.revision # req[p].rev
    THEN CartAnswer("cart_conflict", row)
    ELSE NoReply

\* Why a request that sees this row stops here, or NoReply if it goes on.
CartVerdict(p, row) ==
  CASE req[p].kind = "submit" /\ Entries(p) # {}
         -> LedgerAnswer(p)
    [] req[p].kind # "get" /\ row.revision # req[p].rev
         -> CartAnswer("cart_conflict", row)
    [] req[p].kind \in {"quote", "submit"} /\ row.items = EmptyItems
         -> Answer("invalid_checkout")
    [] OTHER
         -> NoReply

ReadCart(p) ==
  LET row == VisibleCart(p, Owner(p)) IN
  /\ pc[p] = "readCart"
  /\ LocksCart(p) => CartFree(p, Owner(p))
  /\ IF row = NoCart
       THEN Rollback(p, Unavailable)
       ELSE IF CartVerdict(p, row) # NoReply
         THEN Rollback(p, CartVerdict(p, row))
         ELSE /\ cartLock' = IF LocksCart(p)
                               THEN [cartLock EXCEPT ![Owner(p)] = p]
                               ELSE cartLock
              /\ txn' = [txn EXCEPT ![p].cart = row]
              /\ Goto(p, IF req[p].kind \in {"get", "delete"}
                           THEN "commit" ELSE "readRestaurants")
              /\ UNCHANGED <<tables, sessionLock, req, reply>>

-----------------------------------------------------------------------------
(***************************************************************************)
(* The catalogue: two SELECTs, each with a statement snapshot of its own.  *)
(***************************************************************************)
ReadRestaurants(p) ==
  /\ pc[p] = "readRestaurants"
  /\ txn' = [txn EXCEPT ![p].restaurants = catalog.restaurants]
  /\ Goto(p, "readMenu")
  /\ UNCHANGED <<tables, sessionLock, cartLock, req, reply>>

\* The snapshot p works with.  Table contents stand for the rows the model's
\* baskets use, so that equal fingerprints are equal snapshots.
Snapshot(p) == [restaurants |-> txn[p].restaurants, menu |-> txn[p].menu]

Sells(items, snapshot) ==
  /\ snapshot.restaurants \in OpenRows
  /\ snapshot.menu \in OfferedBy[items]

\* Mutant: checkout does not compare fingerprints.
CatalogVerdictWithoutFingerprint(p, snapshot) ==
  CASE req[p].kind = "put" /\ ~Sells(req[p].items, snapshot)
         -> Answer("invalid_cart")
    [] req[p].kind # "put" /\ ~Sells(txn[p].cart.items, snapshot)
         -> Answer("catalog_changed")
    [] OTHER
         -> NoReply

CatalogVerdict(p, snapshot) ==
  CASE req[p].kind = "put" /\ ~Sells(req[p].items, snapshot)
         -> Answer("invalid_cart")
    [] req[p].kind # "put" /\ ~Sells(txn[p].cart.items, snapshot)
         -> Answer("catalog_changed")
    [] req[p].kind = "submit" /\ snapshot # req[p].fingerprint
         -> Answer("catalog_changed")
    [] OTHER
         -> NoReply

ReadMenu(p) ==
  LET snapshot == [restaurants |-> txn[p].restaurants, menu |-> catalog.menu] IN
  /\ pc[p] = "readMenu"
  /\ IF CatalogVerdict(p, snapshot) # NoReply
       THEN Rollback(p, CatalogVerdict(p, snapshot))
       ELSE /\ txn' = [txn EXCEPT ![p].menu = snapshot.menu]
            /\ Goto(p, "commit")
            /\ UNCHANGED <<tables, sessionLock, cartLock, req, reply>>

-----------------------------------------------------------------------------
(***************************************************************************)
(* Commit.                                                                 *)
(***************************************************************************)
\* Mutants: the revision is not advanced; it is counted down.
NewRowKeepsRevision(p) ==
  [revision |-> txn[p].cart.revision,
   items    |-> IF req[p].kind = "put" THEN req[p].items ELSE EmptyItems]
NewRow(p) ==
  LET row == txn[p].cart IN
  CASE req[p].kind = "put"
         -> [revision |-> row.revision + 1, items |-> req[p].items]
    [] req[p].kind \in {"delete", "submit"}
         -> [revision |-> row.revision + 1, items |-> EmptyItems]
    [] OTHER
         -> row

\* The UPDATE of put_cart and delete_cart; a get commits only the row it may
\* have inserted, and a quote nothing.
CommitCart(p) ==
  /\ pc[p] = "commit"
  /\ req[p].kind \in {"get", "put", "delete", "quote"}
  /\ cart' = IF cartLock[Owner(p)] = p
               THEN [cart EXCEPT ![Owner(p)] = NewRow(p)] ELSE cart
  /\ Acknowledge(p, IF req[p].kind = "quote"
                      THEN QuoteAnswer(txn[p].cart, Snapshot(p))
                      ELSE CartAnswer("cart", NewRow(p)))
  /\ UNCHANGED <<session, orders, ledger, catalog>>

\* The receipt sealed by p; uuid4 gives every request an id of its own.
NewOrder(p) ==
  [id |-> p, rev |-> req[p].rev, items |-> txn[p].cart.items,
   catalog |-> Snapshot(p)]

\* Mutant: the ledger entry is forgotten.
CommitOrderWithoutLedger(p) ==
  /\ pc[p] = "commit"
  /\ req[p].kind = "submit"
  /\ orders' = [orders EXCEPT ![Owner(p)] = @ \union {NewOrder(p)}]
  /\ cart' = [cart EXCEPT ![Owner(p)] = NewRow(p)]
  /\ Acknowledge(p, ReceiptAnswer(NewOrder(p)))
  /\ UNCHANGED <<session, ledger, catalog>>

\* Receipt, ledger entry and consumed cart in one transaction.
CommitOrder(p) ==
  /\ pc[p] = "commit"
  /\ req[p].kind = "submit"
  /\ orders' = [orders EXCEPT ![Owner(p)] = @ \union {NewOrder(p)}]
  /\ ledger' = [ledger EXCEPT ![Owner(p)] = @ \union
       {[key |-> req[p].key, order |-> p, payload |-> Payload(p)]}]
  /\ cart' = [cart EXCEPT ![Owner(p)] = NewRow(p)]
  /\ Acknowledge(p, ReceiptAnswer(NewOrder(p)))
  /\ UNCHANGED <<session, catalog>>

-----------------------------------------------------------------------------
(***************************************************************************)
(* Reset and retention cleanup: deleting a guest_sessions row cascades to  *)
(* its cart, orders and ledger.                                            *)
(***************************************************************************)
\* UPDATE ... SET revoked_at WHERE revoked_at IS NULL.
Revoke(p) ==
  /\ pc[p] = "revoke"
  /\ SessionFree(p, Owner(p), "nokeyupdate")
  /\ IF Present(Owner(p))
       THEN /\ LockSession(p, Owner(p), "nokeyupdate")
            /\ Goto(p, "delete")
            /\ UNCHANGED <<tables, cartLock, req, txn, reply>>
       ELSE Rollback(p, Answer("session_invalid"))

StartPurge(p, gs) ==
  /\ txn' = [txn EXCEPT ![p].purge = gs, ![p].cascade = gs]
  /\ sessionLock' = [g \in Guests |-> IF g \in gs
                       THEN [sessionLock[g] EXCEPT ![p] = "update"]
                       ELSE sessionLock[g]]
  /\ Goto(p, "cascade")
  /\ UNCHANGED <<tables, cartLock, req, reply>>

DeleteSession(p) ==
  /\ pc[p] = "delete"
  /\ SessionFree(p, Owner(p), "update")
  /\ StartPurge(p, {Owner(p)})

\* SELECT ... FOR UPDATE SKIP LOCKED LIMIT batch; which expired guests come
\* first depends on expiry times the model does not keep.
SelectExpired(p) ==
  LET candidates == {g \in Guests : session[g] = "expired" /\ SessionFree(p, g, "update")}
  IN
  /\ pc[p] = "select"
  /\ IF candidates = {}
       THEN Rollback(p, Answer("cleaned"))
       ELSE \E batch \in SUBSET candidates :
              /\ \/ Cardinality(batch) = BatchSize
                 \/ batch = candidates /\ Cardinality(batch) < BatchSize
              /\ StartPurge(p, batch)

\* The cascading DELETE waits for a cart row that is locked; a row another
\* transaction has inserted but not committed is invisible to it.
CascadeCart(p, g) ==
  /\ pc[p] = "cascade"
  /\ g \in txn[p].cascade
  /\ IF cart[g] = NoCart
       THEN UNCHANGED cartLock
       ELSE CartFree(p, g) /\ cartLock' = [cartLock EXCEPT ![g] = p]
  /\ txn' = [txn EXCEPT ![p].cascade = @ \ {g}]
  /\ UNCHANGED <<tables, sessionLock, pc, req, reply>>

\* Mutant: rows are deleted by expiry date instead of by the locked batch.
PurgedByExpiry(p, table, none) ==
  [g \in Guests |-> IF g \in txn[p].purge \/ session[g] = "expired"
                     THEN none ELSE table[g]]

Purged(p, table, none) ==
  [g \in Guests |-> IF g \in txn[p].purge THEN none ELSE table[g]]

CommitPurge(p, issued) ==
  /\ pc[p] = "cascade"
  /\ txn[p].cascade = {}
  /\ session' = [g \in Guests |-> IF g \in txn[p].purge THEN "gone"
                                   ELSE IF g \in issued THEN "live" ELSE session[g]]
  /\ cart' = Purged(p, cart, NoCart)
  /\ orders' = Purged(p, orders, {})
  /\ ledger' = Purged(p, ledger, {})
  /\ UNCHANGED catalog
  /\ Acknowledge(p, Answer(IF req[p].kind = "reset" THEN "reset" ELSE "cleaned"))

\* Reset issues a replacement guest in the transaction that deletes the old
\* one.  Guests bounds the ids the model can issue.
CommitReset(p) ==
  /\ req[p].kind = "reset"
  /\ \E g \in Guests : session[g] = "unissued" /\ CommitPurge(p, {g})

CommitCleanup(p) ==
  /\ req[p].kind = "cleanup"
  /\ CommitPurge(p, {})

-----------------------------------------------------------------------------
(***************************************************************************)
(* Failures and the environment.                                           *)
(***************************************************************************)
InFlight(p) == pc[p] \notin {"new", "done"}

\* A lost connection, a crashed worker or any database error: PostgreSQL rolls
\* the transaction back and the caller is told the storage is unavailable.
Fail(p) == InFlight(p) /\ Rollback(p, Unavailable)

\* q holds the lock that p's next statement needs.
Blocks(q, p) ==
  LET g == Owner(p) IN
  /\ q # p
  /\ CASE pc[p] = "lockGuest"  -> Conflicts("update", sessionLock[g][q])
       [] pc[p] = "delete"     -> Conflicts("update", sessionLock[g][q])
       [] pc[p] = "revoke"     -> Conflicts("nokeyupdate", sessionLock[g][q])
       [] pc[p] = "checkOwner" -> Conflicts("keyshare", sessionLock[g][q])
       [] pc[p] = "ensureCart" -> Undecided(p, g) /\ cartLock[g] = q
       [] pc[p] = "readCart"   -> LocksCart(p) /\ cartLock[g] = q
       [] pc[p] = "cascade"    -> \E h \in txn[p].cascade :
                                    cart[h] # NoCart /\ cartLock[h] = q
       [] OTHER                -> FALSE

Deadlocked(p, q) == Blocks(q, p) /\ Blocks(p, q)

\* PostgreSQL's deadlock detector aborts one of two transactions that wait for
\* each other.  Longer cycles do not occur: see DeadlockOnlyOnFirstUse.
BreakDeadlock(p) ==
  /\ \E q \in Requests : Deadlocked(p, q)
  /\ Rollback(p, Unavailable)

\* expires_at passes.
Expire(g) ==
  /\ session[g] = "live"
  /\ session' = [session EXCEPT ![g] = "expired"]
  /\ UNCHANGED <<cart, orders, ledger, catalog, sessionLock, cartLock, pc, req, txn, reply>>

\* write_restaurants replaces both catalogue tables in one transaction.
WriteRestaurants ==
  /\ catalog' \in Catalogs
  /\ UNCHANGED <<session, cart, orders, ledger, sessionLock, cartLock, pc, req, txn, reply>>

-----------------------------------------------------------------------------
Step(p) ==
  \/ Begin(p)
  \/ LockActiveGuest(p)
  \/ EnsureCartExists(p)
  \/ EnsureCartInserts(p)
  \/ CheckOwner(p)
  \/ ReadCart(p)
  \/ ReadRestaurants(p)
  \/ ReadMenu(p)
  \/ CommitCart(p)
  \/ CommitOrder(p)
  \/ Revoke(p)
  \/ DeleteSession(p)
  \/ SelectExpired(p)
  \/ \E g \in Guests : CascadeCart(p, g)
  \/ CommitReset(p)
  \/ CommitCleanup(p)

Next ==
  \/ \E p \in Requests : \E body \in Bodies : Admit(p, body) \/ Refuse(p, body)
  \/ \E p \in Requests : Step(p)
  \/ \E p \in Requests : Fail(p)
  \/ \E p \in Requests : BreakDeadlock(p)
  \/ \E g \in Guests : Expire(g)
  \/ WriteRestaurants

\* A request that can run its next statement does, and the deadlock detector
\* runs; nothing obliges requests to arrive, to fail, or time to pass.
Fairness ==
  /\ \A p \in Requests : WF_vars(Step(p))
  /\ \A p \in Requests : WF_vars(BreakDeadlock(p))

Spec     == Init /\ [][Next]_vars
FairSpec == Spec /\ Fairness

-----------------------------------------------------------------------------
(***************************************************************************)
(* Properties.                                                             *)
(***************************************************************************)
Labels == {"new", "begin", "lockGuest", "ensureCart", "checkOwner", "readCart",
           "readRestaurants", "readMenu", "commit", "revoke", "delete",
           "select", "cascade", "done"}

Replies ==
  [status : {"storage_unavailable", "session_invalid", "idempotency_conflict",
             "invalid_checkout", "invalid_cart", "catalog_changed", "reset",
             "cleaned"}]
    \union [status : {"cart", "cart_conflict"}, cart : CartRows]
    \union [status : {"quote"}, cart : CartRows, catalog : CatalogRows]
    \union [status : {"receipt"}, order : OrderRows]

ASSUME ReplyAssumption == NoReply \notin Replies

TxnFields ==
  [live : BOOLEAN, cart : CartRows \union {NoCart},
   restaurants : {c.restaurants : c \in Catalogs} \union {NoRows},
   menu : {c.menu : c \in Catalogs} \union {NoRows},
   purge : SUBSET Guests, cascade : SUBSET Guests]

\* Every variable holds a value of the schema; a revision in particular is a
\* natural number, which the guest_carts CHECK demands.
TypeOK ==
  /\ session \in [Guests -> {"unissued", "live", "expired", "gone"}]
  /\ cart \in [Guests -> CartRows \union {NoCart}]
  /\ orders \in [Guests -> SUBSET OrderRows]
  /\ ledger \in [Guests -> SUBSET LedgerRows]
  /\ catalog \in CatalogRows
  /\ sessionLock \in [Guests -> [Requests -> Modes]]
  /\ cartLock \in [Guests -> Requests \union {NoRequest}]
  /\ pc \in [Requests -> Labels]
  /\ req \in [Requests -> RequestBodies \union {NoBody}]
  /\ txn \in [Requests -> TxnFields]
  /\ reply \in [Requests -> Replies \union {NoReply}]

\* Checkout consumes a basket revision once: two submissions of one guest, under
\* different keys, never both turn the same expected revision into an order
\* (order_service.submit_order; test_different_keys_same_revision_yield_one_
\* commit_and_one_cart_conflict tries it with two threads).
OneOrderPerRevision ==
  \A g \in Guests : \A o1, o2 \in orders[g] : o1.rev = o2.rev => o1 = o2

\* The basket an order was made from is gone: the guest's cart has moved past
\* the consumed revision, so no later write or retry can order it again.
OrdersAreSealed ==
  \A g \in Guests : \A o \in orders[g] :
    /\ o.items # EmptyItems
    /\ cart[g] # NoCart /\ o.rev < cart[g].revision

\* Receipts and ledger entries are committed together: each entry leads to a
\* receipt for the body it was sent with, each receipt has exactly one entry,
\* and a guest's key has at most one entry.
LedgerMatchesOrders ==
  \A g \in Guests :
    /\ \A e \in ledger[g] : \E o \in orders[g] :
         /\ o.id = e.order
         /\ o.rev = e.payload.rev /\ o.catalog = e.payload.fingerprint
    /\ \A o \in orders[g] : \E e \in ledger[g] : e.order = o.id
    /\ \A e1, e2 \in ledger[g] :
         e1.key = e2.key \/ e1.order = e2.order => e1 = e2

Replied(p, status) == reply[p] # NoReply /\ reply[p].status = status

\* The baskets a guest's clients have been shown, ordered from, or have stored,
\* each with its revision.
Sightings(g) ==
  {reply[p].cart : p \in {q \in Requests :
     /\ \E s \in {"cart", "cart_conflict", "quote"} : Replied(q, s)
     /\ Owner(q) = g}}
  \union {[revision |-> o.rev, items |-> o.items] : o \in orders[g]}
  \union ({cart[g]} \ {NoCart})

\* A revision number names one basket for ever: no interleaving of writers,
\* clears and checkouts lets two responses of one guest carry the same revision
\* with different contents, which is what makes comparing revisions sound.
RevisionNamesOneBasket ==
  \A g \in Guests : \A a, b \in Sightings(g) : a.revision = b.revision => a = b

\* What was quoted is what is charged: a receipt obtained with the revision and
\* fingerprint of a quote has the quoted items at the quoted catalogue rows,
\* whatever happened to basket and catalogue in between.
QuoteIsHonoured ==
  \A p, q \in Requests :
    /\ Replied(p, "receipt") /\ Replied(q, "quote") /\ Owner(p) = Owner(q)
    /\ req[p].rev = reply[q].cart.revision
    /\ req[p].fingerprint = reply[q].catalog
    => /\ reply[p].order.items = reply[q].cart.items
       /\ reply[p].order.catalog = reply[q].catalog

\* An idempotency key means one order: all receipts ever returned to a guest for
\* a key, first answers and replays alike, are the same receipt of the same body.
KeyMeansOneOrder ==
  \A p, q \in Requests :
    /\ Replied(p, "receipt") /\ Replied(q, "receipt")
    /\ Owner(p) = Owner(q) /\ req[p].key = req[q].key
    => reply[p].order = reply[q].order /\ Payload(p) = Payload(q)

\* A receipt that was handed out stays retrievable, and its key replayable, for
\* as long as the guest exists; only reset and retention cleanup remove it.
ReceiptsAreDurable ==
  \A p \in Requests :
    Replied(p, "receipt") /\ Present(Owner(p)) =>
      /\ reply[p].order \in orders[Owner(p)]
      /\ \E e \in Entries(p) : e.order = reply[p].order.id

\* Nothing survives its owner: a request verified before a reset or cleanup, and
\* acting after it, leaves no cart, receipt or ledger entry of the deleted guest.
NoOrphanRows ==
  \A g \in Guests : ~Present(g) =>
    cart[g] = NoCart /\ orders[g] = {} /\ ledger[g] = {}

\* A guest who already has a cart row can never be hit by a lock cycle; only a
\* first use, where the insert precedes its foreign-key lock while checkout
\* takes the two rows in the other order, can be aborted by the detector.  A chain
\* of four waits contains such a pair, so there is no longer cycle.
DeadlockOnlyOnFirstUse ==
  /\ \A p, q \in Requests : Deadlocked(p, q) =>
       /\ {req[p].kind, req[q].kind} \intersect {"reset", "cleanup"} = {}
       /\ cart[Owner(p)] = NoCart
  /\ \A p, q, r \in Requests : Blocks(q, p) /\ Blocks(r, q) =>
       \A s, t \in Requests : Blocks(s, r) /\ Blocks(t, s) => Deadlocked(q, r)

\* Compare-and-swap on the basket: a cart changes by creation, by exactly one
\* revision at a time, or by disappearing together with its guest.
CartStep(g) ==
  \/ cart'[g] = cart[g]
  \/ cart[g] = NoCart /\ cart'[g] = [revision |-> 0, items |-> EmptyItems]
  \/ cart[g] = NoCart /\ cart'[g].revision = 1
  \/ cart'[g] = NoCart /\ session'[g] = "gone"
  \/ cart[g] # NoCart /\ cart'[g] # NoCart
     /\ cart'[g].revision = cart[g].revision + 1

CartAdvances == [][\A g \in Guests : CartStep(g)]_<<cart, session>>

\* Every admitted request is answered: lock waits end, and lock cycles are
\* broken.
EveryRequestAnswered == \A p \in Requests : InFlight(p) ~> pc[p] = "done"

\* docs/repo_context.md:59, "Each logical catalog/cart/pricing/order operation
\* builds one coherent CatalogSnapshot": a quote prices rows that were committed
\* together.
QuoteIsCoherent ==
  \A q \in Requests : Replied(q, "quote") => reply[q].catalog \in Catalogs

\* The accepted orders of the abstract specification, read from the two tables.
AcceptedOrders(g) ==
  {[key |-> x[1].key, rev |-> x[2].rev, items |-> x[2].items] :
     x \in {y \in ledger[g] \X orders[g] : y[1].order = y[2].id}}

Book == INSTANCE OrderBook WITH
  accepted <- [g \in Guests |-> AcceptedOrders(g)]

\* Statement by statement, under every interleaving and failure, the service
\* does what OrderBook does in single steps.
ImplementsOrderBook == Book!Spec
=============================================================================
