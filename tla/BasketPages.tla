----------------------------- MODULE BasketPages -----------------------------
(***************************************************************************)
(* The basket as the browser edits it: tabs that show the cart page or an  *)
(* item page, each with its own queue of basket writes, one API draft they *)
(* share in localStorage, and the service's revisioned basket behind a     *)
(* network that loses answers and delivers requests late.                  *)
(*                                                                         *)
(* A page that is left keeps its continuations: a write that was clicked   *)
(* still runs, clears or writes the draft, and may take the tab elsewhere. *)
(* The accepted-cart mirror is written and never read; it is left out.     *)
(***************************************************************************)
EXTENDS Integers, Sequences, FiniteSets

CONSTANTS
  Tabs, Lines,     \* browser tabs; basket lines, whose ids are drawn at random
  RestaurantOf,    \* line -> the restaurant of its dish
  MaxQuantity,     \* MAX_CART_QUANTITY
  Guests,          \* guests the service can issue to this browser
  FirstGuest, FirstItems,   \* the guest and the basket at the start
  MaxRevision,     \* bounds the accepted writes of a guest
  MaxQueue,        \* bounds the writes a tab has queued
  MaxLate,         \* bounds the given-up requests the network holds
  Weather,         \* what happens: "lost" answers, "reset" elsewhere, "full" storage
  None

Baskets  == UNION {[S -> 1..MaxQuantity] : S \in SUBSET Lines}
Empty    == [l \in {} |-> 1]
Versions == [revision : Nat, items : Baskets]

\* The states of a mounted page.
CartPages ==
  [kind : {"cart"}, stage : {"loading", "ready", "failed"}, shown : Versions,
   conflict : {None} \union [current : Versions, attempted : Baskets],
   offered : Baskets, error : BOOLEAN, busy : BOOLEAN]
ItemPages ==
  [kind : {"item"}, intent : {None} \union [line : Lines, current : Versions], busy : BOOLEAN]

OneRestaurant(items) ==
  \A l, m \in DOMAIN items : RestaurantOf[l] = RestaurantOf[m]

\* What the constants must satisfy; the service keeps no basket of two restaurants.
BasketConstants ==
  /\ MaxQuantity \in Nat \ {0} /\ {MaxRevision, MaxQueue} \subseteq Nat
  /\ FirstGuest \in Guests /\ FirstItems \in Baskets /\ OneRestaurant(FirstItems)
  /\ None \notin CartPages \union ItemPages

VARIABLES
  basket,          \* guest -> the revisioned basket the service holds
  guest, issued,   \* the guest cookie of the browser; guests issued so far
  minted,          \* lines whose id has been drawn
  draft,           \* the API draft in localStorage; an empty one is no draft
  page,            \* tab -> the mounted page, or None
  reading,         \* tab -> the add that is reading the basket, or None
  queue,           \* tab -> enqueueCartMutation's chain, head first
  late             \* requests given up by their tab that may still arrive

service == <<basket, guest, issued>>
vars    == <<basket, guest, issued, minted, draft, page, reading, queue, late>>

CartPage ==
  [kind |-> "cart", stage |-> "loading", shown |-> [revision |-> 0, items |-> Empty],
   conflict |-> None, offered |-> draft, error |-> FALSE, busy |-> FALSE]
ItemPage == [kind |-> "item", intent |-> None, busy |-> FALSE]

Init ==
  /\ basket = [g \in Guests |->
       IF g = FirstGuest THEN [revision |-> 1, items |-> FirstItems]
       ELSE [revision |-> 0, items |-> Empty]]
  /\ guest = FirstGuest /\ issued = {FirstGuest}
  /\ minted = DOMAIN FirstItems
  /\ draft = Empty
  /\ page = [t \in Tabs |-> None]
  /\ reading = [t \in Tabs |-> None]
  /\ queue = [t \in Tabs |-> <<>>]
  /\ late = {}

-----------------------------------------------------------------------------
(***************************************************************************)
(* Pages.                                                                  *)
(***************************************************************************)
Shows(t, kind) == page[t] # None /\ page[t].kind = kind
Idle(t, kind)  == Shows(t, kind) /\ ~page[t].busy
Ready(t)       == Idle(t, "cart") /\ page[t].stage = "ready"

\* Writes of a page that is left go on, but no longer touch what is shown.
Orphan(w)     == [w EXCEPT !.live = FALSE]
Orphans(t)    == [i \in DOMAIN queue[t] |-> Orphan(queue[t][i])]

Open(t) ==
  /\ page' = [page EXCEPT ![t] = CartPage] \/ page' = [page EXCEPT ![t] = ItemPage]
  /\ queue' = [queue EXCEPT ![t] = Orphans(t)]
  /\ reading' = [reading EXCEPT ![t] = IF @ = None THEN None ELSE Orphan(@)]
  /\ UNCHANGED <<service, minted, draft, late>>

\* The load effect: the basket arrives, or the page shows why it did not.
Load(t) ==
  /\ Shows(t, "cart") /\ page[t].stage = "loading"
  /\ \/ page' = [page EXCEPT ![t].stage = "ready", ![t].shown = basket[guest]]
     \/ page' = [page EXCEPT ![t].stage = "failed"]
  /\ UNCHANGED <<service, minted, draft, reading, queue, late>>

Reload(t) ==
  /\ Shows(t, "cart") /\ page[t].stage = "failed"
  /\ page' = [page EXCEPT ![t] = CartPage]
  /\ UNCHANGED <<service, minted, draft, reading, queue, late>>

-----------------------------------------------------------------------------
(***************************************************************************)
(* Storage, and the queue of writes.                                       *)
(***************************************************************************)
\* writeApiCartDraft and clearApiCartDraft fail quietly.
KeepDraft(items) == draft' \in IF "full" \in Weather THEN {items, draft} ELSE {items}

\* base is the version of the basket the customer was looking at.
Write(by, live, base, items) ==
  [by |-> by, live |-> live, expected |-> base.revision, base |-> base.items,
   items |-> items, sent |-> None, answer |-> None]

Room(t) == Len(queue[t]) < MaxQueue

Enqueue(t, w) == queue' = [queue EXCEPT ![t] = Append(@, w)]

-----------------------------------------------------------------------------
(***************************************************************************)
(* The cart page.                                                          *)
(***************************************************************************)
\* Mutant: the quantity buttons do not stop at the limits.
ClampNothing(q) == q

ClampQuantity(q) == IF q < 1 THEN 1 ELSE IF q > MaxQuantity THEN MaxQuantity ELSE q

\* updateCartItemQuantity, removeCartItem and clearing.
Edits(items) ==
  {[items EXCEPT ![l] = ClampQuantity(@ + d)] : l \in DOMAIN items, d \in {-1, 1}}
    \union {[m \in DOMAIN items \ {l} |-> items[m]] : l \in DOMAIN items}
    \union {Empty}

\* Mutant: the retry takes whatever revision the service is at.
PersistUnreviewed(t, p, base, items) ==
  /\ Ready(t) /\ Room(t)
  /\ page' = [page EXCEPT ![t] = [p EXCEPT !.busy = TRUE, !.error = FALSE, !.offered = items]]
  /\ KeepDraft(items)
  /\ Enqueue(t, [Write("cart", TRUE, base, items) EXCEPT !.expected = basket[guest].revision])
  /\ UNCHANGED <<service, minted, reading, late>>

\* persistApi, up to its await: the draft is written first.
Persist(t, p, base, items) ==
  /\ Ready(t) /\ Room(t)
  /\ page' = [page EXCEPT ![t] = [p EXCEPT !.busy = TRUE, !.error = FALSE, !.offered = items]]
  /\ KeepDraft(items)
  /\ Enqueue(t, Write("cart", TRUE, base, items))
  /\ UNCHANGED <<service, minted, reading, late>>

Change(t) ==
  /\ Ready(t) /\ page[t].shown.items # Empty
  /\ \E items \in Edits(page[t].shown.items) : Persist(t, page[t], page[t].shown, items)

ReapplyConflict(t) ==
  /\ Ready(t) /\ page[t].conflict # None
  /\ Persist(t, [page[t] EXCEPT !.conflict = None],
             page[t].conflict.current, page[t].conflict.attempted)

\* When the page says that the failed change is saved as an API draft.
Offers(t) ==
  /\ Ready(t) /\ page[t].conflict = None /\ page[t].offered # Empty /\ page[t].error

ReapplyDraft(t) ==
  Offers(t) /\ Persist(t, page[t], page[t].shown, page[t].offered)

ReviewCurrent(t) ==
  /\ Ready(t) /\ page[t].conflict # None
  /\ page' = [page EXCEPT ![t].conflict = None]
  /\ UNCHANGED <<service, minted, draft, reading, queue, late>>

-----------------------------------------------------------------------------
(***************************************************************************)
(* The item page.                                                          *)
(***************************************************************************)
\* addToCart asks for the current basket first.
Add(t) ==
  /\ Idle(t, "item") /\ reading[t] = None
  /\ \E l \in Lines \ minted :
       /\ minted' = minted \union {l}
       /\ reading' = [reading EXCEPT ![t] = [line |-> l, live |-> TRUE]]
  /\ page' = [page EXCEPT ![t].busy = TRUE]
  /\ UNCHANGED <<service, draft, queue, late>>

WithLine(items, l) == [m \in DOMAIN items \union {l} |-> IF m = l THEN 1 ELSE items[m]]

\* Mutant: the dish is added whatever restaurant the basket is from.
AddAnything(items, l) == TRUE

\* canAddItemToCart: all lines of a basket are from one restaurant.
CanAddItem(items, l) == \A m \in DOMAIN items : RestaurantOf[m] = RestaurantOf[l]

\* The basket arrives: the dish is added to it, or the customer is asked whether
\* it may replace what is there.
Read(t) ==
  /\ reading[t] # None /\ Room(t)
  /\ LET line == reading[t].line  live == reading[t].live  current == basket[guest] IN
       IF CanAddItem(current.items, line)
         THEN /\ Enqueue(t, Write("item", live, current, WithLine(current.items, line)))
              /\ UNCHANGED page
         ELSE /\ page' = IF live
                THEN [page EXCEPT ![t].busy = FALSE,
                                  ![t].intent = [line |-> line, current |-> current]]
                ELSE page
              /\ UNCHANGED queue
  /\ reading' = [reading EXCEPT ![t] = None]
  /\ UNCHANGED <<service, minted, draft, late>>

ReadFails(t) ==
  /\ reading[t] # None
  /\ page' = IF reading[t].live THEN [page EXCEPT ![t].busy = FALSE] ELSE page
  /\ reading' = [reading EXCEPT ![t] = None]
  /\ UNCHANGED <<service, minted, draft, queue, late>>

KeepBasket(t) ==
  /\ Idle(t, "item") /\ page[t].intent # None
  /\ page' = [page EXCEPT ![t].intent = None]
  /\ UNCHANGED <<service, minted, draft, reading, queue, late>>

\* replaceBasket writes over the basket the customer reviewed.
ReplaceBasket(t) ==
  /\ Idle(t, "item") /\ page[t].intent # None /\ Room(t)
  /\ Enqueue(t, Write("item", TRUE, page[t].intent.current,
                      WithLine(Empty, page[t].intent.line)))
  /\ page' = [page EXCEPT ![t].intent = None, ![t].busy = TRUE]
  /\ UNCHANGED <<service, minted, draft, reading, late>>

-----------------------------------------------------------------------------
(***************************************************************************)
(* A queued write at the service: a compare-and-set on the revision.       *)
(***************************************************************************)
Working(t) == queue[t] # <<>>
Waits(t)   == Working(t) /\ Head(queue[t]).sent # None /\ Head(queue[t]).answer = None

SetHead(t, w) == queue' = [queue EXCEPT ![t][1] = w]

Send(t) ==
  /\ Working(t) /\ Head(queue[t]).sent = None
  /\ SetHead(t, [Head(queue[t]) EXCEPT !.sent = guest])
  /\ UNCHANGED <<service, minted, draft, page, reading, late>>

Fits(g, w) == basket[g].revision = w.expected

Store(g, w) ==
  basket' = [basket EXCEPT ![g] = [revision |-> w.expected + 1, items |-> w.items]]

Handle(t) ==
  LET w == Head(queue[t]) IN
  /\ Waits(t) /\ w.sent = guest
  /\ IF Fits(guest, w)
       THEN /\ basket[guest].revision < MaxRevision
            /\ Store(guest, w)
            /\ SetHead(t, [w EXCEPT !.answer = [ok |-> TRUE, current |-> basket'[guest]]])
       ELSE /\ SetHead(t, [w EXCEPT !.answer = [ok |-> FALSE, current |-> basket[guest]]])
            /\ UNCHANGED basket
  /\ UNCHANGED <<guest, issued, minted, draft, page, reading, late>>

\* The cookie's guest is gone: a 401, a bootstrap that keeps the new cookie, and
\* the same request again.
Resend(t) ==
  /\ Waits(t) /\ Head(queue[t]).sent # guest
  /\ SetHead(t, [Head(queue[t]) EXCEPT !.sent = guest])
  /\ UNCHANGED <<service, minted, draft, page, reading, late>>

HandleLate(w) ==
  /\ w \in late
  /\ late' = late \ {w}
  /\ IF w.sent = guest /\ Fits(guest, w)
       THEN basket[guest].revision < MaxRevision /\ Store(guest, w)
       ELSE UNCHANGED basket
  /\ UNCHANGED <<guest, issued, minted, draft, page, reading, queue>>

-----------------------------------------------------------------------------
(***************************************************************************)
(* The end of a write in the tab.                                          *)
(***************************************************************************)
Dequeue(t) == queue' = [queue EXCEPT ![t] = Tail(@)]

\* router.push: the tab is taken to the cart page, wherever it is.
TakeToCart(t) ==
  /\ page' = IF Shows(t, "cart") THEN page ELSE [page EXCEPT ![t] = [CartPage EXCEPT !.offered = draft']]
  /\ queue' = [queue EXCEPT ![t] = IF Shows(t, "cart") THEN Tail(@) ELSE Tail(Orphans(t))]
  /\ reading' = [reading EXCEPT ![t] =
       IF @ = None \/ Shows(t, "cart") THEN @ ELSE Orphan(@)]

Accepted(t) ==
  LET w == Head(queue[t]) IN
  /\ KeepDraft(Empty)
  /\ IF w.by = "item" THEN TakeToCart(t)
     ELSE /\ page' = IF w.live
               THEN [page EXCEPT ![t] = [@ EXCEPT !.shown = w.answer.current,
                 !.conflict = None, !.offered = Empty, !.error = FALSE, !.busy = FALSE]]
               ELSE page
          /\ Dequeue(t)
          /\ UNCHANGED reading
  /\ UNCHANGED <<service, minted, late>>

\* A cart page shows the conflict beside the current basket; every other failure,
\* and every failure of an item page, leaves what was shown.
Failed(t, conflict) ==
  LET w == Head(queue[t]) IN
  /\ IF w.by = "item" THEN KeepDraft(w.items) ELSE UNCHANGED draft
  /\ page' =
       IF ~w.live THEN page
       ELSE IF w.by = "item" THEN [page EXCEPT ![t].busy = FALSE]
       ELSE IF conflict
         THEN [page EXCEPT ![t] = [@ EXCEPT !.busy = FALSE, !.error = TRUE,
                !.shown = w.answer.current,
                !.conflict = [current |-> w.answer.current, attempted |-> w.items]]]
         ELSE [page EXCEPT ![t].busy = FALSE, ![t].error = TRUE]
  /\ UNCHANGED <<service, minted, reading>>

Finish(t) ==
  /\ Working(t) /\ Head(queue[t]).answer # None
  /\ IF Head(queue[t]).answer.ok THEN Accepted(t)
     ELSE Failed(t, TRUE) /\ Dequeue(t) /\ UNCHANGED late

\* What the service may still receive of a write the tab stops waiting for.
Travelling(t) ==
  LET w == Head(queue[t]) IN
  IF Waits(t) /\ Cardinality(late) < MaxLate
    THEN {[sent |-> w.sent, expected |-> w.expected, base |-> w.base, items |-> w.items]}
    ELSE {}

\* Mutant: a failed write blocks the writes queued behind it.
GiveUpAndBlock(t) ==
  /\ "lost" \in Weather /\ Working(t)
  /\ Failed(t, FALSE)
  /\ late' = late \union Travelling(t)
  /\ UNCHANGED queue

\* A timeout, a lost connection or answer, a 5xx or a refusal of the content.
GiveUp(t) ==
  /\ "lost" \in Weather /\ Working(t)
  /\ Failed(t, FALSE)
  /\ late' = late \union Travelling(t)
  /\ Dequeue(t)

-----------------------------------------------------------------------------
\* startFreshGuest, in a tab of its own.
ResetElsewhere ==
  /\ "reset" \in Weather
  /\ \E g \in Guests \ issued : guest' = g /\ issued' = issued \union {g}
  /\ UNCHANGED <<basket, minted, draft, page, reading, queue, late>>

Customer(t) ==
  \/ Open(t) \/ Reload(t) \/ Change(t) \/ ReapplyConflict(t) \/ ReapplyDraft(t)
  \/ ReviewCurrent(t) \/ Add(t) \/ KeepBasket(t) \/ ReplaceBasket(t)

Browser(t) ==
  Load(t) \/ Read(t) \/ ReadFails(t) \/ Send(t) \/ Handle(t) \/ Resend(t)
    \/ Finish(t) \/ GiveUp(t)

Next ==
  \/ \E t \in Tabs : Customer(t) \/ Browser(t)
  \/ \E w \in late : HandleLate(w)
  \/ ResetElsewhere

\* Requests end: an answer that arrived is applied, and the timers of fetchApi and
\* of the gateway end the others.  The queue's next write is sent at once.
Fairness ==
  \A t \in Tabs : /\ WF_vars(Send(t))
                  /\ WF_vars(Finish(t) \/ GiveUp(t))
                  /\ WF_vars(Read(t) \/ ReadFails(t))

Spec == Init /\ [][Next]_vars /\ Fairness

-----------------------------------------------------------------------------
(***************************************************************************)
(* Properties.                                                             *)
(***************************************************************************)
Writes ==
  [by : {"cart", "item"}, live : BOOLEAN, expected : Nat, base : Baskets, items : Baskets,
   sent : {None} \union Guests, answer : {None} \union [ok : BOOLEAN, current : Versions]]

\* The types of the variables; the queues stay within their bound.
TypeOK ==
  /\ basket \in [Guests -> Versions]
  /\ guest \in issued /\ issued \subseteq Guests
  /\ minted \subseteq Lines /\ draft \in Baskets
  /\ \A t \in Tabs : /\ page[t] \in {None} \union CartPages \union ItemPages
                     /\ reading[t] \in {None} \union [line : Lines, live : BOOLEAN]
                     /\ queue[t] \in Seq(Writes) /\ Len(queue[t]) <= MaxQueue
  /\ late \subseteq [sent : Guests, expected : Nat, base : Baskets, items : Baskets]

\* Writes the service has not decided yet.
Pending ==
  late \union UNION {{w \in {queue[t][i] : i \in DOMAIN queue[t]} : w.answer = None} : t \in Tabs}

\* INV-06 of the development plan: a write that the service would accept replaces
\* exactly the basket its customer was looking at, whichever tab, retry, conflict
\* or late request it comes from (persistApi, reapplyConflict, replaceBasket).
NoStaleWriteFits ==
  \A w \in Pending : Fits(guest, w) => basket[guest].items = w.base

\* What the pages write, keep as a draft or may reapply is never a mixture of two
\* restaurants, however old the basket it was built from (canAddItemToCart is
\* asked of the basket the write is based on).
PagesNeverMix ==
  /\ OneRestaurant(draft)
  /\ \A w \in Pending : OneRestaurant(w.items)

\* Every click is answered: the buttons of a page do not stay disabled, although
\* the write waits behind the tab's other writes and its answer may be lost.
EveryClickIsAnswered ==
  \A t \in Tabs : (page[t] # None /\ page[t].busy) ~> (page[t] = None \/ ~page[t].busy)
=============================================================================
