# OrderlyApp: formal models of the ordering service

OrderlyApp is a food-ordering demo: a Next.js browser client, a same-origin
gateway, a FastAPI service (`backend/app`) and a PostgreSQL database, with Redis
for rate limits. This directory holds TLA+ models of its core, the TLC
configurations that check them, and TLAPS proofs. Paths below are relative to the
repository root.

    tlc -workers 2 -config races.cfg MCCheckout.tla     # one run
    for m in *Proofs.tla; do tlapm $m; done             # all proofs

## Inventory

| Component | State | Operations | What must hold |
|---|---|---|---|
| Order submission (`order_service.py`) | `guest_orders`, `order_idempotency` | `submit_order`: lock guest, look the key up, lock cart, validate, compare fingerprint, write three rows | one order per basket revision and per key; all three writes or none; retries replay |
| Basket service (`cart_service.py`, `store.py` 303-356) | `guest_carts` (revision, items) | `get_cart`, `put_cart`, `delete_cart`; lazy row creation | a revision names one basket; compare-and-swap |
| Quotes (`pricing.py`) | none | `quote_current_cart`, fingerprint, totals | what was quoted is charged; cents add up |
| Guest identity (`identity.py`) | `guest_sessions` | verify, bootstrap, reset, cleanup | nothing of a deleted guest survives |
| Catalogue (`catalog.py`, `store.py` 106-300) | `restaurants`, `menu_items` | read, rewrite, normalise, canonicalise lines | one operation sees one catalogue |
| Receipt queries (`store.py` 438-490) | none | by id, keyset pages | no receipt repeated or skipped |
| Rate limiter (`main.py` 175-201, `redis_store.py`) | Redis counters per window | count and refuse | limit respected, retries not lost |
| Retention job (`scripts/cleanup_guests.py`) | none | batches of `cleanup_expired_guests` | drains, or says so |
| Migrations (`scripts/migrate.py`) | `schema_migrations` | apply once, detect drift | ledger and schema agree |
| API client (`lib/api.ts`) | bootstrap promise, mutation queue, guest scope | protected fetch with one re-bootstrap, reset, submit | requests act for the guest they were built for |
| Checkout page (`app/checkout/page.tsx`) | page state, recovery record in sessionStorage | place, retry, resolve, reload | an unresolved order is never forgotten |
| Basket and item pages (`app/cart`, `app/restaurants`) | accepted basket, draft, conflict | edit, conflict, reapply | no silent overwrite |
| Account, demo profile (`app/account`, `lib/auth.ts`) | localStorage profile | fresh guest, forget | profile never decides ownership |
| Gateway (`app/api/orderly`) | none | proxy with timeout and allow-list | adds lost answers, nothing else |

Requests run concurrently in several workers; they interact only through
PostgreSQL (READ COMMITTED transactions, row locks, foreign-key cascades) and the
Redis counters. Browser tabs share the guest cookie and localStorage; each tab has
its own sessionStorage. What makes the system hard: basket, order and deletion
requests of one guest interleave at statement granularity; a session is verified
on one connection and used on another; a commit can succeed while its answer is
lost; the basket row is created lazily, so first requests take their locks in the
opposite order from checkout; catalogue reads are two statements.
`PROJECT.json` lists each hazard at its line.

## Modules

**`OrderBook`** is what the service promises one guest: a basket that moves from one
revision to the next and orders that each consume one revision under one key. Every
operation is one atomic step: `Open`, `Write`, `Accept`, `Forget`.

**`Checkout`** is the service. Each element of `Requests` is an HTTP request that
arrives once (`Admit`, `Refuse`) and runs its service function one SQL statement per
step; `pc` is its next statement:

| Action | Code |
|---|---|
| `Admit`, `Refuse` | `verify_request_guest`, on a connection of its own |
| `Begin`, `LockActiveGuest` | start of `submit_order`, `_lock_active_guest`, first ledger look-up |
| `EnsureCartExists`, `EnsureCartInserts`, `CheckOwner` | `ensure_guest_cart_row` and its foreign-key check |
| `ReadCart` | `get_guest_cart_row`, second ledger look-up, revision and emptiness checks |
| `ReadRestaurants`, `ReadMenu` | the two SELECTs of `_restaurants_from_connection`, then validation and fingerprint |
| `CommitCart`, `CommitOrder` | the final writes and COMMIT |
| `Revoke`, `DeleteSession`, `CascadeCart`, `CommitReset` | `reset_guest` |
| `SelectExpired`, `CascadeCart`, `CommitCleanup` | `cleanup_expired_guests` |
| `Fail`, `BreakDeadlock` | any database error or crash; PostgreSQL's deadlock detector |
| `Expire`, `WriteRestaurants` | time passing; `write_restaurants` |

Tables are functions from guests; `txn[p]` is what p's transaction has read;
`sessionLock` and `cartLock` are the row locks. PostgreSQL is not under `src/`; its
locks are modelled from how the statements use them: KEY SHARE for foreign-key
checks, NO KEY UPDATE for UPDATE, UPDATE for FOR UPDATE and DELETE; a request's
writes become visible at COMMIT; INSERT ... ON CONFLICT waits for an undecided row.
A statement that reads under locks held to the end (the look-ups after the guest
lock, the inserts before COMMIT) is merged with its neighbour, since no other
request can tell them apart. COMMIT may succeed while the caller is told the storage
is unavailable (`Acknowledge`).

Data is abstract. A basket is one value; a catalogue is a pair of table contents, and
equal fingerprints are equal pairs, so contents stand for the rows the baskets use.
A body's digest is told apart by revision and fingerprint; name, address, tip and
promotion code, which the digest also covers, are not kept.

**`CheckoutClient`** is one browser tab that checks out. Its service is `OrderBook`
(`Service == INSTANCE OrderBook`), which `Checkout` implements: one POST is one step of
`OrderBook` plus the digest of the body each key was accepted with. The network is in the
calls: a call waits, is answered, is resent once after a 401, or is given up by the tab
while its POST travels on and may still be processed.

| Action | Code |
|---|---|
| `Mount`, `ReadBasket`, `TakeQuote`, `EditDetails`, `EditBasket` | `app/checkout/page.tsx`: `load`, quote effect, form and basket handlers |
| `Place`, `PlaceRefusedByStorage`, `Retry` | `placeOrder` (record saved before the POST), `retryUncertainOrder` |
| `HandleUnauthorized`, `HandleLimited`, `Handle` | `orders_create`: session, limiter, `submit_order` |
| `ResolveAccepted`, `ResolveRejected`, `ResolveUncertain`, `Resend` | `resolveSubmission`, `reconcileDefinitiveFailure`, `submitCheckoutOrder`, `fetchProtectedResponse` |
| `Leave`, `Reload`, `StartFreshGuest` | navigation, reload or crash of the tab, `account/page.tsx` |
| `WriteElsewhere`, `RewriteCatalog`, `Expire`, `BootstrapElsewhere`, `ResetElsewhere` | other pages and tabs, the catalogue, time |

`record` is sessionStorage and survives `Reload`; `page` is the mounted page and does not.
A call whose page was left (`mine` false) still runs its continuation, which may remove the
record and navigate. `verdict` is history: what the customer was last told of each key.
A 5xx, a timeout and an unreadable answer are one event, `ResolveUncertain`, since the
client treats them alike; refusals that leave the basket alone share one status. `weather`,
chosen at the start from `Weathers`, is the set of events the client cannot prevent that occur
in a behaviour: the limiter refusing, expiry, reset, leaving a page that waits, and a
catalogue returning to earlier contents.

**`CatalogRules`** holds the pure rules of `catalog.py`: when a modifier group can be
satisfied and how its bounds and default are made explicit (`Satisfiable`, `NormalGroup`),
when a basket is accepted (`Accepted`), and its canonical form (`Canonical`). The code
lists one issue per failing conjunct; only whether there is one matters here.

**`Pricing`** computes with them: unit prices, subtotal, promotion, tax, total
(`Bill`), receipt lines and the fingerprint, and lets one guest save, clear, quote and
order while the catalogue is edited (`SaveCart`, `ClearCart`, `GetQuote`, `Submit`,
`EditCatalog`). Requests are atomic, because `Checkout` already takes them apart; a
refused request changes nothing and is no step. A quote carries the snapshot and basket
it was computed from as history. Names of options and dishes are kept, since the
fingerprint must cover them; special instructions, emoji and the like are left out
(`blurb` stands for all that is not priced). SHA-256 is taken to be injective.

**`Storefront`** puts the browser's half of these rules (`lib/cart.ts`, the item page and
`validateCart`) next to `CatalogRules`: one tab reads a catalogue that may be edited
(`OpenItem`, `OpenBasket`), picks options (`PickOption`), sees a price (`ItemTotal`,
`LineTotal`) and sends a basket (`AddToCart`, `ChangeLine`, `RemoveLine`). The rules are
written twice, in TypeScript and in Python, and only a model has both. **`Catalogue`** puts
it beside `Pricing` and states what must hold across the two (`BasketMeansOneThing`); the
tables are `catalog` in one and `shop` in the other: the parts share the rules alone.

**`BasketPages`** is the item page and the cart page of several tabs: `queue` is
`enqueueCartMutation`'s chain, `draft` the API draft the tabs share in localStorage,
`page` what each tab shows (accepted basket, conflict, offered draft), `late` the writes a
tab has given up and the service may still receive. A write carries the revision it was
built from and, as history, the basket its customer was looking at. `Customer` collects the
handlers, `Browser` the continuations; continuations of a page that was left still run.

**`GuestSession`** is `ensureGuestSession`, `fetchProtectedResponse`, `requestJson`,
the mutation queue and `resetGuestSession` of `lib/api.ts` for every request at once:
`session` is the shared bootstrap promise, `scope` and `aborted` are the guest scope and its
abort controller, `boots` the bootstraps under way. A request's `made` is the scope it was
clicked in; `origin` and `ended` are history: the reset that issued a guest and the one that
ended it. What a request does to a basket is left to `BasketPages`.

**`ProfileStore`** is `lib/auth.ts` as functions from a localStorage, of which any
operation may throw, to a result and the storage left behind; **`DemoProfile`** the account,
sign-in and checkout pages that use them, with a reset that outlives its page.

**`ReceiptHistory`** is `store.py` 438-490 and the confirmation and history pages: a reader
follows keyset cursors while orders arrive (`StartWalk`, `ContinueWalk`), and a page asks,
is retried or re-addressed while answers are under way (`Serve`, `Fail`, `Arrive`).

**`Gateway`** is one protected request and its three parties: the page with `fetchApi`'s
timer, `app/api/orderly/[...path]/route.ts` with its own, and the service, which carries out
what its askers have given up. **`RateLimiter`** is `_enforce_checkout_rate_limits` over
`redis_store.increment_window`, with processes whose clocks may differ.
**`GuestRetention`** is `cleanup_guests.py`: batches, cap and report of runs that
overlap, beside checkouts that hold guest rows. **`Migrations`** is `migrate.py`: deploys of
different source versions, the advisory lock, the ledger, backfilled checksums, drift and
loss of a process at any point.

**`CheckoutInvariant`** has the inductive invariants of `Checkout`: `IInv`, of its locks and
rows, and `AInv`, which adds what the answers given so far rely on. **`ClientInvariant`** has
that of `CheckoutClient`, `CInv`. **`Operations`** brings `Migrations`, `GuestRetention`,
`RateLimiter`, `Gateway` and `ReceiptHistory` together under one set of variables and names
what is asked of each, and **`Browser`** does so for `BasketPages`, `GuestSession` and
`DemoProfile`. `CheckoutProofs`, `AnswerProofs`, `RulesProofs`, `CatalogueProofs`,
`ClientProofs`, `OperationsProofs`, `BasketProofs` and `BrowserProofs` are the proofs.
The modules named `MC...` are the
instances. Components that share no state are checked side by side: `MCBrowser`
(the parts of `Browser`), `MCCatalogue` (the parts of `Catalogue`) and
`MCOperations` (the parts of `Operations`, `GuestRetention` and `ReceiptHistory` twice) have
a variable `part` that a behaviour chooses at its start; the other parts keep their initial
states, so what is checked of each part is what a run of its own would check. `MCLifecycle`
chooses in the same way between two scenes, which are instances of one module with different
constants. `MCCheckoutClient` gives behaviours in bad weather fewer calls, revisions and
details (`FewCalls`, `FewRevisions`, `FewDetails`).

## Runs

| Run | Question | Instance |
|---|---|---|
| `races` | Do concurrent writes, clears and checkouts of one basket keep orders, ledger and basket consistent, and implement `OrderBook`? | four requests of one guest, basket at revision 1, two keys, expected revisions 1 and 2 |
| `lifecycle` | Does reset, expiry and cleanup leave anything behind, or lose what it should keep? Is a quoted basket charged at quoted rows? | scene `guests`: four requests, three guest ids (one to issue), batches of two; scene `quotes`: three requests, two catalogues that change at any time, the second lacking one dish |
| `firstuse` | Do requests that meet a guest without a basket row always get an answer? | three requests, resets and a cleanup among them, two guest ids, fair |
| `recovery` | Does the tab forget an order, contradict a rejection, open a second attempt or change a retry? | two keys, two guests, two catalogues; four calls, revisions up to 3 and two sets of details in fair weather; two calls, revisions up to 2 and one set when waiting pages may be left, and when everything may happen |
| `catalogue` | Is what was quoted charged, to the cent, whatever is edited in between? Does the browser compose and show what the service accepts and charges? | part `prices`: thirteen catalogues, fourteen baskets of which nine are mistaken, two tips, two revisions; part `storefront`: four catalogues, two lines of up to two portions |
| `browser` | Can a stale write fit, a write cross a reset, or a page show a profile that is not stored? | two tabs and two lines for the basket; one tab, two requests, five guests and three bootstraps for the session; three pages, 32 stores found at the start and six kinds of failing storage for the profile, whose pages may be left during a reset |
| `clicks` | Is every click and every request answered? | as `browser`, one tab with a queue of two and a late write; six bootstraps, so that the bound is not what ends a request; fair |
| `operations` | Do the parts around the checkout keep their promises, and end? | two deploys twice each, of five images; two retention jobs on two guests, uncapped and capped; two shoppers over four seconds in windows of two; one request through the gateway; four receipts on pages of two; a page that asks twice; fair |
| `torn` | Is a quote priced from one committed catalogue? | as scene `quotes`; violated |
| `limited` | Is a rejection final when the limiter refuses a retry? | two calls; violated |
| `leaving` | Is an order remembered when a waiting page is left? | three calls; violated |
| `oldtab` | Can an old tab's edit fit the basket of a fresh guest? | one tab, two guests; violated |

### The service

In the runs of `Checkout`, four requests are what the hardest cases need: two writers of one
revision, a retry of one of them, and a fourth that moves the basket again. Two keys and two
bodies per key cover replay, conflict and distinct submissions; two revisions cover current
and stale expectations; three guests cover old, unrelated and newly issued. `Requests` are
interchangeable, so runs without liveness use symmetry. The number of requests bounds every
behaviour, hence revisions, without a constraint. `WriteRestaurants` may always happen, so
a state in which all requests are answered is not a deadlock; a request that could not
proceed would show in `EveryRequestAnswered`.

* `OneOrderPerRevision`, `LedgerMatchesOrders`: a basket is ordered once, and receipts and
  ledger entries correspond one to one.
* `KeyMeansOneOrder`, `ReceiptsAreDurable`: whatever clients were told stays true, over
  retries, lost acknowledgements and other guests' deletion.
* `RevisionNamesOneBasket`, `CartAdvances`: comparing revisions is sound, because a
  number never comes back with another basket.
* `QuoteIsHonoured`: revision and fingerprint together pin what is charged.
* `NoOrphanRows`: a request verified before a deletion leaves nothing after it.
* `DeadlockOnlyOnFirstUse`, `EveryRequestAnswered`: the only lock cycle is the one
  between the lazy insert and the guest lock, no longer one exists, and it ends.
* `ImplementsOrderBook`: refinement, with `accepted` read from ledger and receipts.
* `AInv`: the inductive invariant of the proofs below.

### The checkout page

Four calls are a submission, two retries and a second attempt; two keys suffice for an
attempt and its successor, and `MaxRevision` leaves room for two writes before or after an
order. In bad weather two calls are left, a submission and its retry or its successor, since
each kind of weather needs no more to matter, and the proofs below cover any number.
`NoOrderForgotten` and `RejectedMeansNoOrder` are asked of fair weather (the second also
where pages that wait may be left) because each fails under other single kinds, which is the
code's behaviour and not the model's: `limited` and `leaving` show two of the cases; with
`expiry`, `reset` or `revert` a POST that was given up is refused when retried and accepted
when it is finally processed, because the replaced guest's revisions count from 0 again or
the catalogue is back at the quoted fingerprint.

* `NoOrderForgottenInCalm`: a committed order is confirmed or recoverable from
  sessionStorage alone, so a crash of the tab at any moment loses nothing.
* `RejectedMeansNoOrderInCalm`: what was shown as rejected never turns into an order, not
  even when the first POST is processed after the retry was answered.
* `OneOpenAttempt`: unless a page that waits is left, attempts are made one at a time.
* `OneBodyPerKey`: in any weather a retry is the original submission, whatever the form, the
  basket or the catalogue have become.
* `EvidenceIsTrueAndKept`: no confirmation without an order; damaged recovery data is
  neither overwritten nor cleared.

### Prices and the storefront

* `QuoteIsCharged`: an accepted order has the lines, names and, for the same tip and
  promotion, the totals of its quote; the fingerprint misses nothing that matters.
* `QuoteSurvivesOtherEdits`: and it covers nothing else: edits to other dishes, other
  restaurants or descriptions, and bounds that are merely spelt out, as migration 003 does,
  leave a quote good. The one exception is the guard `Sound`: a single group that cannot be
  satisfied, on any menu, makes every quote and order fail.
* `ReceiptAddsUp`: the printed options and lines sum to what is charged; the tax is the
  nearest cent, half a cent up.
* `BasketMeansOneThing`: storing a basket changes neither its acceptance nor its price; with
  an up-to-date catalogue, what the item page lets through is accepted, at the price on its
  button, and a basket that would be sold is not held back.

In `prices` every catalogue differs from the first in one thing the fingerprint must, or
must not, notice; the baskets make one mistake each; prices are chosen so that the
promotion exceeds one dish and leaves exactly half a cent of tax on another. Two
revisions are a save and an order; limits of two lines and two portions stand for 50
and 10. The catalogues of `storefront` close the restaurant, sell dishes and options out,
make a group required, and give a group a default that is sold out.

### The browser

* `NoStaleWriteFits`: of all writes that wait, travel or arrive late, one whose revision
  fits replaces exactly the basket its customer was looking at. `oldtab` shows the case it
  does not cover: every guest counts revisions from zero.
* `PagesNeverMix`: no write, draft or offer mixes two restaurants.
* `NoWriteCrossesReset`, `NoRowsOfEndedGuest`: nothing clicked before a reset is sent for
  the guest after it, and no body read after it shows the old guest's rows.
* `ProfileIsHonest`: a page works on the stored profile only once nothing retired or
  rejected is left, every error can be left, and no other profile is shown.
* `DeliberateInputKept`: a profile that loads late never overwrites what was typed.
* `EveryClickIsAnswered`, `RequestsSettle`: no button stays disabled and no request waits
  for ever, whatever is lost.

Two tabs are what a conflict needs, two requests what sharing a bootstrap and queueing need;
three bootstraps are one per request after an expiry and one more. `DemoProfile` is checked
with one tab that keeps no page open during a reset; with two, a page may go on showing a
profile another tab has forgotten.

### Around the service

* `LedgerIsHonest`: no migration runs twice; the ledger names what ran, with its text;
  completion means that every file agrees with it, and a refusal means drift. A row from
  before the checksums is given the checksum of whatever file has its name now, so for such
  rows the ledger says what was agreed on, not what ran.
* `CompleteMeansDrained`: a retention run that reports completion has drained all that it
  did not find locked, and no guest disappears under a checkout.
* `BoundsHold`: no window admits more than its bound whatever the clocks say, and no span of
  a window's length more than twice the bound while clocks agree to a second.
* `GatewayIsHonest`: what a page is told was refused was not done, and nothing is done twice.
* `ListsAreWhole`: pages of receipts neither repeat nor skip one and belong to one guest, and
  a history page shows no list older than itself.
* `ShownIsAsked`: a confirmation page shows the receipt its own address names, or none.
* `WorkEnds`: deploys end, expired guests go, requests through the gateway settle, and no
  receipt page stays at "Loading".

### Violations

* `torn`: the docs promise each operation one coherent catalogue snapshot, but the two
  catalogue SELECTs run at READ COMMITTED and a rewrite may commit between them.
  `QuoteIsHonoured` shows that this does not corrupt a charge: such a quote can only be
  honoured at the very rows it showed.
* `limited`: the limiter counts an attempt before the key is looked up, so the retry of a
  committed order can be refused with 429, and the client takes 429 as definitive.
* `leaving`: the record is removed without comparing keys, so the late answer to an earlier
  submission removes the record of a newer one, whose key was drawn while the earlier
  attempt was open.
* `oldtab`: after a reset in another tab an old tab's edit replaces the new guest's basket
  without a conflict once that has the same revision.

While modelling, other differences between code and documents came up that the modules
contain but no run singles out:

* `development.md:494` and `test_receipts.py:195` take 40 taxable cents to tell half-up from
  banker's rounding; 3.5 goes to 4 under both, and 120 cents would tell them apart.
* After a lost answer the cart page says that the failed change "has not changed the
  accepted basket" (`app/cart/page.tsx:277`), although it may have; and the draft it calls
  saved is shared by all tabs, so another tab may have replaced or removed it.
* `requestJson` re-checks the scope after the body of an accepted answer only: a 409 whose
  body is read across a reset delivers the deleted guest's basket (`lib/api.ts:216`), which
  `development.md:333` rules out. `NoRowsOfEndedGuest` is about accepted answers.
* `resetGuestSession` returns false when the answer to a reset is lost after the guest was
  deleted, and the page says that the guest remains (`app/account/page.tsx:153`).
* Two tabs that bootstrap at once are issued a guest each, and the later cookie takes the
  browser away from a guest in use (`lib/api.ts:156`), against
  `docs/ST03_DEMO_PROFILES.md:7`. This and the lost reset are why two hazards in
  `PROJECT.json` name no property.
* `startFreshGuest` keeps the stored profile if the profile was temporary at the click
  (`app/account/page.tsx:163`, against `docs/ST03_DEMO_PROFILES.md:57`).
* During a retry of an unresolved order the profile panel's Retry button sets the page back
  to uncertain, so the order can be sent a second time while the first request is in flight
  (`app/checkout/page.tsx:577`); the key makes that harmless. The address list may name
  another address than the form holds after a recovered order over a damaged profile
  (`app/checkout/page.tsx:157`).
* Both timers, the gateway's and the page's, stop at the head of an answer, so a body that
  stalls is held open without a limit (`route.ts:222`, `lib/api.ts:86`).
* The gateway copies two headers, so the `Retry-After` that `docs/INFRASTRUCTURE.md:42`
  promises never reaches a page (`route.ts:5`).
* A retention run whose last permitted batch takes exactly the last candidates still fails
  as capped (`cleanup_guests.py:37`).

### Fairness

`firstuse`: a request that can run its next statement does (the worker thread is scheduled
and PostgreSQL grants free locks), and the deadlock detector runs. Weak fairness is enough
for lock waits because every request runs at most once: a lock is taken away from a waiter
only finitely often. `clicks`: a tab's event loop goes on, each fetch ends by its answer or
its timer, and a body that has begun arrives; the last is what the code does not enforce.
`operations`: a deploy's process goes on and the queue of the advisory lock is served; the
page's and the gateway's timers fire and a body that has begun ends; answers to receipt
queries arrive or fail; the job is due every day and a checkout ends. Arrivals, failures,
expiry, edits and customers are never forced. At its start no part has a step that is asked
for, so fairness of one part does not disturb another.

## Proofs

`CheckoutProofs` proves first, for every number of requests, guests, keys, baskets and
catalogues, `Spec => []IInv` and from it `TypeOK`, `OneOrderPerRevision`,
`OrdersAreSealed`, `LedgerMatchesOrders`, `NoOrphanRows` and the action property
`CartAdvances`. The assumptions are those of `Checkout` on its constants: the starting
rows are well-formed and belong to issued guests, the catalogues are contents of the two
tables, bodies are request bodies, and the sentinels are not values.

None of these properties is inductive alone, because each depends on what a request
remembers between its read and its commit. `IInv` adds the lock protocol:

* `SessionLocksExclude`, `SessionLocksOnLiving`: guest-row locks exclude each other and
  are held only by requests in flight on rows that exist;
* `CartLockHolders`: who may hold a basket row, and that a holder past its read still
  sees the row it read; an inserter past its foreign-key check also pins the guest row;
* `WritersHoldCart`: a writer at its commit holds the basket at the revision it expects,
  so one revision is consumed once;
* `SubmitsHoldGuest`: a submission holds its guest row, so its key stays unused until
  its commit (which also shows that the second ledger look-up never finds anything);
* `PurgesHoldGuests`: a deletion holds the guest row, and each basket row it has reached,
  so that an uncommitted insert cannot slip past the cascade;
* `OrdersAreOld`: receipts carry ids of finished requests, so ids are unique.

A second invariant, `HoldsItsOwn`, says that locks are held by requests on behalf of their own
guest. From the two follows `DeadlockOnlyOnFirstUse`. Nobody in a cycle waits at its first
lock or in a deletion (`FirstLockWaiter`, `DeleteWaits`, `PurgeWaits`). What is left are an
insert's check of the guest row, by the holder of the basket row (`OwnerCheckWaits`), and a
wait for the basket row, by a checkout that holds the guest row (`CartRowWaiter`); a guest has
one holder of each, so three waits in a row are back at the first (`WaitsMeet`).

`RollbackInv` handles every step that ends without writing, `MoveInv` every step that
changes neither table nor lock, `LockSessionInv` every step that locks a guest row, and
`FinishInv`, `CommitterHolds` and `CartCommitted` what the commits share; each action has
one lemma, and `NextInv` joins them.

`AnswerProofs` proves, under the same assumptions, `Spec => []AInv` and from it the
properties about what clients were told: `KeyMeansOneOrder`, `ReceiptsAreDurable`,
`RevisionNamesOneBasket` and `QuoteIsHonoured`. They speak of answers given long ago, so
`AInv` ties every answer to the present:

* `SeenIsPast`: of all baskets a guest's requests have shown, have read and may still show,
  or have ordered (`Seen`), none is ahead of the stored row, so the revision a writer
  commits next is unseen; a guest without a row has shown at most the row of an insert;
* `ReceiptStands`: a receipt is for the revision and fingerprint that were sent, and while
  its guest exists it is stored and the key's ledger entry leads to it;
* `OwnersAreIssued`, `AnsweredAtEnd`: a guest that reset issues has no past, and only
  requests that have ended have answers;
* `IdsAreUnique`: a ledger entry leads to one receipt.

The conjunct `KeyMeansOneOrder` is kept because a receipt of a deleted guest no longer has
rows to stand on: a new receipt is given only to a guest that exists, where entry and id
are unique; two receipts of a deleted guest are both old (`KeysKept`). `SeenGrows` says
what a step adds to the baskets seen, `SeenQuietly` and `SeenAhead` why that preserves
`SeenIsPast`; `QuietStep` handles every step that stores nothing, `StoreAnswers` the two
commits that store a row, and `CommitPurgeAnswers` the deletions.

The second part of `CheckoutProofs` is `Spec => ImplementsOrderBook`, that is `Spec => Book!Spec` with
`accepted` read from ledger and receipts. `IInv` gives what the abstract guards ask for at
the commits: a writer without a row of its own inserts one (`Open`) or advances the row it
has locked (`Write`), an order consumes that row under a key not in the ledger (`Accept`),
a purge removes whole guests (`Forget`). Every other step leaves basket, receipts and
ledger alone and is invisible.

`CatalogueProofs` proves for every taxable amount that the tax is the nearest cent
(`TaxIsExact`), for every subtotal, fee, tip and promotion that the bill is sound
(`BillsAreSound`), that the fingerprint decides storage form, price and print of a basket
(`FingerprintDecides`), of `Spec` `TypeOK`, `QuoteIsCharged`,
`QuoteSurvivesOtherEdits`, `ReceiptAddsUp` and `CanonicalIsStable`, and of `Spec` and
`ShopSpec` together `BasketMeansOneThing` and `TypesOK`, for any catalogues that the tables
and `models.py` can hold (`IsCatalog`) and any baskets.

* Its invariant `QuoteInv` says that a quote was computed from the basket its revision
  names, and that revisions only grow: at an accepted order the basket is the quoted one, so
  `FingerprintDecides` applies. For the converse, a quote is of an accepted basket
  (`QuoteOfAccepted`), and two catalogues that sell a basket alike (`SellsAlike`) accept and
  print it alike (`AcceptedAlike`, `PrintedAlike`).
* `MoneyInv` adds that every quote and receipt is one of an accepted basket and a normal
  catalogue (`QuoteOK`, `ReceiptOK`). `LinesAreStable` says of one line, and
  `BasketsAreStable` of a basket, that its stored form is accepted, stays as it is, and costs
  and prints the same; `ShownIs` that the printed options make up the price of the picks.
* `ShopInv` is `Storefront`'s: the basket holds only lines as the service stores them
  (`PlacedOK`), and an item page has one pick per group of its own catalogue's dish, in their
  order, with options that this catalogue offers, each once (`PicksFollow`). `Toggle` keeps
  that because a filter keeps places apart (`FilterPlaces`). When that catalogue is the
  current one, such picks that pass `validateCartItem` pass the service's rules
  (`ComposedPicksAllowed`) and cost the same on both sides (`ItemTotalIs`); for the converse, an
  allowed line passes the page's check because a required group asks for one option at least
  (`BoundsOK`), which only a normal catalogue guarantees.

They rest on `RulesProofs`, which is about the rules alone. The service sums the options of
a line in the order in which they were picked, the receipt prints them in the order of the
menu, and the storefront takes the groups in one order and their options in the other; all
are compared with one sum over the menu (`InMenuOrder`). `SumOfNamed` says when a sum over names is that sum: the entries of a
list with distinct ids, each named at most once. The library's induction theorems cannot be used, so sums
and filters are taken apart with `Induction`: a set with 0 that holds with each number the
next holds them all. `Filter` and `PickAt` are written without `SelectSeq`, whose local
recursion the prover cannot unfold.

Of `Migrations`, `OperationsProofs` proves `Spec => []LedgerIsHonest` for any number of deploys, images and
runs; assumed is that names differ within an image, which `validated_migrations` ensures,
and that checksums are not NULL. The invariant `LInv` says that who is past the lock
statement holds the lock, that what it has read is therefore still the ledger, that its
uncommitted rows agree with the files it has passed and override only rows without a
checksum, and that what it has executed is what its rows add (`HolderKnows`,
`ExecutedIsRecorded`). A commit then keeps every checksum others rely on, which is why
reports of completion and drift stay true (`Agreed`, `DriftStands`).
`OneMoves` reduces a step that leaves the tables alone to the deploy that takes it,
`RowAgrees` serves both `Backfill` and `Apply`, and `CommittedLedger` the commit.

`ClientProofs` proves `Spec => []CInv` for `CheckoutClient`, for any number of calls, keys,
guests and baskets, and from it `TypeOK`, `OneBodyPerKey`, `OneOpenAttempt`,
`NoOrderForgottenInCalm`, `RejectedMeansNoOrderInCalm` and the action property
`EvidenceIsTrueAndKept`. Assumed are that catalogues are numbered, that the first guest and
its basket are a guest and a row, and that the sentinels are not values. `CInv` has three
layers, because what can be relied on depends on the weather:

* always, a call that waits for the mounted page carries the submission the page is locked to
  (`PageHoldsItsCall`), and evidence is sound (`Evidence`): keys that travel are drawn, the
  service's digests were sent and match its orders, a receipt on its way is of an order, and
  over a damaged record nothing is sent;
* unless waiting pages are left, the open attempt is the stored one (`OpenIsStored`);
* when at most that happens, a refusal is for a body that the service will refuse for ever,
  since revisions and catalogues only move on (`RefusedStaysDead`, `Dead`); and unless there
  is a reset no attempt is abandoned (`NothingAbandoned`).

On the instance of `recovery` TLC finds `CInv` to hold, too. `PageTurns` handles the steps of the page
without a call, `NoNewSubmission` every step that sends nothing new, `CallsMove` and
`LockMoves` what happens to one call and to the page it locks, `DeadStays` the world moving
on; `StepKeeps` joins the layers.

`OperationsProofs` proves what is asked of the other parts of `Operations`:

* `GatewayIsHonest`: the invariant `Honest` says of each exchange that the service is only
  asked by a gateway that waits, that a status a page takes for a refusal is there only if
  nothing was or will be carried out, and that a page asks again only on such a status.
* `CompleteMeansDrained`: a run locks only expired rows of its open batch (`LocksAreHeld`);
  a batch that came out short holds all that is owed (`ShortBatchIsLast`), since the first n
  of a finite set are all of it when they are fewer than n (`FewerThanAskedIsAll`).
* `ShownIsAsked`: requests are numbered and made for the page's address, ids are drawn once,
  so the answer that a page takes notice of is its own receipt or none (`ReceiptInv`).
* `ListsAreWhole`: what a walk has read is in descending order and of one guest, and what it
  still owes is below the last row read, while its guest is the browser's (`WalkInv`); what a
  page knew of the current guest is still stored (`HistoryInv`). That a page of rows lists the
  newest of them is `NewestFirstLists`: a row's position is the number of rows before it, and
  distinct rows fill all positions (`PositionsAreTaken`, by counting).
* `WindowBound` for any clocks that differ by less than a window: a counter outlives the last
  moment at which a process may count in its window, and as long as one may, the counter is
  no less than what was let through (`CountersKnow`); and, while clocks agree to a second,
  `SpanBound`, because a span of a window's length then touches two windows.

* `TypesOK`: the invariants above say most of it. Added are that a retention run that goes on
  has a batch left before its cap (`RunsAreBounded`), that a deploy outside its loop stands at
  its first file (`RunsStart`), that counters have not expired (`LimiterTypes`), that a
  request is settled exactly when it has a verdict (`Honest`), and that answers, walks and
  pages hold lists of receipts (`ReadersTypes`).

The assumptions are those of the modules on their settings (`OperationsAssumption`).

`BasketProofs` is about `BasketPages` with any number of tabs, dishes, guests and writes, and
any bounds. It proves `Spec => []TypeOK`, `Spec => []PagesNeverMix`, and
`Spec => []NoStaleWriteFits` when `Weather` has no `"reset"`; `oldtab` shows that this is
needed. The invariant `BasketInv` says that every version of the basket that a page shows, a
queued or late write was built from or a conflict brought is the stored one or of a lower
revision (`Seen`), that all baskets kept anywhere are of one restaurant, and that what a tab
reads or sends for its page still finds a page of that kind (`LiveOK`). A write that fits has
the stored revision, hence was built from the stored basket. Assumed are positive bounds, a
first basket of one restaurant, and that `None` is no page.

`BrowserProofs` has the other two parts of `Browser`.

* For `GuestSession` with any tabs, requests, bootstraps and scopes: `NoWriteCrossesReset`
  and the action property `NoRowsOfEndedGuest`. `SessionInv` relates each request on its way
  to the scopes of its tab (`CallOK`): it was made in the scope it is sent in, a guest that a
  reset of this tab issued is older than that scope, and if the tab has since ended the guest
  whose rows were accepted, the scope is over or its controller aborted. A guest is new
  when a reset issues it and no longer lives when a reset has ended it (`GuestsInv`).
  `WaitingHolds` adds that whoever waits for a bootstrap, the promise the tab keeps included,
  waits for one that has not ended (`AwaitedIsUnderWay`, part of `GuestSession`'s `TypeOK`).
* For `DemoProfile` over any storage whose operations may fail in any combination: types,
  `DeliberateInputKept`, and for any number of tabs that storage is clean where a page works
  on it and every error page can be left (`NothingLeftBehind`, `ErrorsCanBeLeft`). With one
  tab also `NoOtherProfileShown`, hence `ProfileIsHonest`; a second tab may write another
  profile behind an open page, which the runs, having one tab, leave out. `ProfileInv` says what each
  page knows of the store (`FormOK`); the lemmas before it say what each function of `lib/auth.ts`
  returns and leaves behind under every fault, e.g. that
  what a removal leaves is the store with some keys emptied (`RemovedEmpties`).

With the types of `BasketPages` these give `BrowserTypes`, the `TypesOK` of run `browser`.
The assumptions are those of the three modules on their settings (`BrowserAssumption`).

Only model-checked: `EveryRequestAnswered`, `EveryClickIsAnswered`, `RequestsSettle` and
`WorkEnds`, since liveness under fairness is beyond the prover.

## Not modelled

Legacy session-keyed store helpers (no endpoint reaches them), the JSON-file catalogue of
development mode, seeding, token signing, health reports, search and sorting, logging, voice
commands, telemetry, page layout and fixtures. Redis losing its data resets every window and
is left out of `RateLimiter`; outages are in it. Cookie attributes that the gateway rewrites
and the purge of retired cache keys after a cleanup change nothing that is read.

## Plan

1. Composition: `CheckoutClient` through `Gateway` and `RateLimiter` in place of its own
   lost answers and refusals; `BasketPages` over `GuestSession`.
