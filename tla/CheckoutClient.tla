--------------------------- MODULE CheckoutClient ---------------------------
(***************************************************************************)
(* One browser tab that checks out, over a network that loses and delays,  *)
(* against the ordering service as OrderBook promises it.                  *)
(*                                                                         *)
(* The tab mounts and leaves the checkout page; it keeps an unresolved     *)
(* submission in sessionStorage (record), which survives a reload, and in  *)
(* the mounted page.  A submission whose page has been left still runs to  *)
(* its end.  The service may process a POST long after the tab gave it up. *)
(* Events the tab cannot prevent and may not meet are the weather.         *)
(***************************************************************************)
EXTENDS Naturals, FiniteSets

CONSTANTS
  Calls,           \* runs of submitCheckoutOrder, each used once
  Keys,            \* idempotency keys; randomUUID draws each at most once
  Guests, Items, EmptyItems, NoCart, FirstCart,   \* as in OrderBook
  FirstGuest,      \* the guest whose cookie the browser starts with
  Catalogs,        \* how many contents the catalogue tables take
  Details,         \* delivery details the form can hold
  MaxRevision,     \* bounds the basket writes of a behaviour
  Weathers,        \* what may happen in one behaviour: sets of "limited", "expiry",
                   \* "reset", "leave" and "revert"
  None,            \* no record, page, quote, basket or answer
  Damaged          \* a recovery record that does not validate

Bodies  == [rev : Nat, fingerprint : Catalogs, details : Details]
Records == [key : Keys, body : Bodies]

ASSUME CatalogsAreNumbered == Catalogs \subseteq Nat /\ 1 \in Catalogs
ASSUME FirstGuestIsKnown   == FirstGuest \in Guests

VARIABLES
  weather,         \* what happens in this behaviour
  cart, accepted,  \* the service: OrderBook's variables
  digest,          \* guest -> key -> the body it was accepted with, or None
  catalog,         \* contents of the catalogue tables
  session,         \* guest -> "unissued", "live" or "gone"
  guest,           \* the guest cookie of this browser
  record,          \* sessionStorage: None, Damaged or the unresolved submission
  page,            \* the mounted checkout page, or None
  call,            \* call -> the submission it carries and how far it is
  verdict          \* key -> what the customer was told of it

server == <<cart, accepted, digest, catalog, session>>
vars   == <<weather, server, guest, record, page, call, verdict>>

Service == INSTANCE OrderBook

\* A guest's basket as the service reads it; the row is created lazily.
Row(g) ==
  IF cart[g] = NoCart THEN [revision |-> 0, items |-> EmptyItems] ELSE cart[g]

Unused == [stage |-> "unused"]

NewPage(recovery, writable, details) ==
  [phase |-> IF recovery = None THEN "idle" ELSE "uncertain",
   recovery |-> recovery, writable |-> writable, details |-> details,
   basket |-> None, quote |-> None]

Init ==
  /\ weather \in Weathers
  /\ Service!Init
  /\ digest = [g \in Guests |-> [k \in Keys |-> None]]
  /\ catalog = 1
  /\ session = [g \in Guests |-> IF g = FirstGuest THEN "live" ELSE "unissued"]
  /\ guest = FirstGuest
  /\ record \in {None, Damaged}
  /\ page = None
  /\ call = [c \in Calls |-> Unused]
  /\ verdict = [k \in Keys |-> "unused"]

-----------------------------------------------------------------------------
(***************************************************************************)
(* The page.                                                               *)
(***************************************************************************)
Editable == page # None /\ page.phase \in {"idle", "rejected"}

\* Mutant: a damaged record counts as an empty store.
MountOverDamage ==
  /\ page = None
  /\ \E d \in Details :
       page' = IF record \in {None, Damaged} THEN NewPage(None, TRUE, d)
               ELSE NewPage(record, TRUE, record.body.details)
  /\ UNCHANGED <<server, guest, record, call, verdict>>

\* Mutant: the form, not the record, supplies the body of a retry.
MountWithFormDetails ==
  /\ page = None
  /\ \E d \in Details :
       page' = IF record = None THEN NewPage(None, TRUE, d)
               ELSE IF record = Damaged THEN NewPage(None, FALSE, d)
               ELSE NewPage([record EXCEPT !.body.details = d], TRUE, d)
  /\ UNCHANGED <<server, guest, record, call, verdict>>

\* Mutant: a stored submission does not lock the page.
MountUnlocked ==
  /\ page = None
  /\ \E d \in Details : page' = NewPage(None, record # Damaged, d)
  /\ UNCHANGED <<server, guest, record, call, verdict>>

\* load: what sessionStorage holds decides whether the page is locked, and a
\* stored submission brings its own details back into the form.
Mount ==
  /\ page = None
  /\ \E d \in Details :
       page' = IF record = None THEN NewPage(None, TRUE, d)
               ELSE IF record = Damaged THEN NewPage(None, FALSE, d)
               ELSE NewPage(record, TRUE, record.body.details)
  /\ UNCHANGED <<server, guest, record, call, verdict>>

\* fetchRevisionedCart, which creates the guest's row on first use.
ReadBasket ==
  /\ page # None /\ page.basket = None /\ session[guest] = "live"
  /\ page' = [page EXCEPT !.basket = Row(guest)]
  /\ IF cart[guest] = NoCart THEN Service!Open(guest) ELSE UNCHANGED <<cart, accepted>>
  /\ UNCHANGED <<digest, catalog, session, guest, record, call, verdict>>

\* fetchCheckoutQuote; a stale revision earns an error and no quote.
TakeQuote ==
  /\ Editable /\ page.basket # None /\ page.quote = None
  /\ page.basket.items # EmptyItems
  /\ session[guest] = "live"
  /\ Row(guest).revision = page.basket.revision
  /\ page' = [page EXCEPT !.quote =
       [rev |-> page.basket.revision, fingerprint |-> catalog]]
  /\ UNCHANGED <<server, guest, record, call, verdict>>

\* Any edit returns a rejected page to idle, which drops the quote.
Edited(p, basket) ==
  [p EXCEPT !.phase = "idle", !.basket = basket,
            !.quote = IF p.phase = "rejected" \/ basket # p.basket THEN None ELSE @]

EditDetails(d) ==
  /\ Editable
  /\ page' = Edited([page EXCEPT !.details = d], page.basket)
  /\ UNCHANGED <<server, guest, record, call, verdict>>

\* saveRevisionedCart and clearRevisionedCart compare revisions; the answer to a
\* write that happened may be lost, a conflict returns the current basket.
EditBasket(items) ==
  /\ Editable /\ page.basket # None /\ session[guest] = "live"
  /\ \/ /\ Row(guest).revision = page.basket.revision
        /\ page.basket.revision < MaxRevision
        /\ Service!Write(guest, items)
        /\ \E seen \in {cart'[guest], page.basket} : page' = Edited(page, seen)
     \/ /\ Row(guest).revision # page.basket.revision
        /\ page' = Edited(page, Row(guest))
        /\ UNCHANGED <<cart, accepted>>
  /\ UNCHANGED <<digest, catalog, session, guest, record, call, verdict>>

-----------------------------------------------------------------------------
(***************************************************************************)
(* Submission.                                                             *)
(***************************************************************************)
Waiting(c) == call[c].stage = "waiting"

Post(c, submission) ==
  /\ call[c] = Unused
  /\ call' = [call EXCEPT ![c] =
       [stage |-> "waiting", mine |-> TRUE, resent |-> FALSE, guest |-> guest,
        key |-> submission.key, body |-> submission.body, answer |-> None]]

Submitting(submission) ==
  [page EXCEPT !.phase = "submitting", !.recovery = submission, !.quote = None]

\* The submission the customer confirms, under a key drawn for it.
Submission(key) ==
  [key |-> key,
   body |-> [rev |-> page.quote.rev, fingerprint |-> page.quote.fingerprint,
             details |-> page.details]]

MayPlace ==
  /\ Editable /\ page.writable
  /\ page.basket # None /\ page.quote # None
  /\ page.basket.items # EmptyItems
  /\ page.quote.rev = page.basket.revision

\* Mutant: the record is written when the outcome turns out uncertain.
PlaceUnrecorded(c, key) ==
  /\ MayPlace
  /\ verdict[key] = "unused"
  /\ Post(c, Submission(key))
  /\ page' = Submitting(Submission(key))
  /\ verdict' = [verdict EXCEPT ![key] = "open"]
  /\ UNCHANGED <<server, guest, record>>

\* placeOrder writes the record before it sends the POST.
Place(c, key) ==
  /\ MayPlace
  /\ verdict[key] = "unused"
  /\ record' = Submission(key)
  /\ Post(c, Submission(key))
  /\ page' = Submitting(Submission(key))
  /\ verdict' = [verdict EXCEPT ![key] = "open"]
  /\ UNCHANGED <<server, guest>>

\* setItem fails, or the form does not validate: nothing is sent.
PlaceRefusedByStorage ==
  /\ MayPlace
  /\ page' = [page EXCEPT !.phase = "rejected", !.quote = None]
  /\ UNCHANGED <<server, guest, record, call, verdict>>

Retry(c) ==
  /\ page # None /\ page.phase = "uncertain"
  /\ Post(c, page.recovery)
  /\ page' = Submitting(page.recovery)
  /\ UNCHANGED <<server, guest, record, verdict>>

-----------------------------------------------------------------------------
(***************************************************************************)
(* POST /v1/orders at the service: session, limiter, submit_order.         *)
(***************************************************************************)
Status(s) == [status |-> s, basket |-> None]

\* Mutant: a known key is not looked up before the basket is checked.
OutcomeWithoutReplay(g, key, body) ==
  IF Row(g).revision # body.rev
    THEN [status |-> "cart_conflict", basket |-> Row(g)]
  ELSE IF Row(g).items = EmptyItems THEN Status("refused")
  ELSE IF body.fingerprint # catalog THEN Status("catalog_changed")
  ELSE Status("accept")

\* submit_order's answer to a live guest; "refused" stands for the refusals that
\* leave the page's basket alone.
Outcome(g, key, body) ==
  IF digest[g][key] # None
    THEN Status(IF digest[g][key] = body THEN "receipt" ELSE "refused")
  ELSE IF Row(g).revision # body.rev
    THEN [status |-> "cart_conflict", basket |-> Row(g)]
  ELSE IF Row(g).items = EmptyItems THEN Status("refused")
  ELSE IF body.fingerprint # catalog THEN Status("catalog_changed")
  ELSE Status("accept")

Spent(c) == [stage |-> "spent", key |-> call[c].key, body |-> call[c].body]

\* An answer for a tab that no longer waits is dropped.
Answered(c, answer) ==
  call' = [call EXCEPT ![c] =
    IF Waiting(c) THEN [call[c] EXCEPT !.answer = answer] ELSE Spent(c)]

Travelling(c) ==
  call[c].stage = "given_up" \/ (Waiting(c) /\ call[c].answer = None)

HandleUnauthorized(c) ==
  /\ Travelling(c) /\ session[call[c].guest] # "live"
  /\ Answered(c, Status("session"))
  /\ UNCHANGED <<server, guest, record, page, verdict>>

\* The limiter counts before submit_order looks the key up; other guests use up
\* the aggregate window, so any attempt may be the one too many.
HandleLimited(c) ==
  /\ "limited" \in weather
  /\ Travelling(c) /\ session[call[c].guest] = "live"
  /\ Answered(c, Status("refused"))
  /\ UNCHANGED <<server, guest, record, page, verdict>>

Handle(c) ==
  LET g == call[c].guest  key == call[c].key  body == call[c].body
      outcome == Outcome(g, key, body)
  IN
  /\ Travelling(c) /\ session[g] = "live"
  /\ IF outcome.status = "accept"
       THEN /\ Service!Accept(g, key)
            /\ digest' = [digest EXCEPT ![g][key] = body]
            /\ Answered(c, Status("receipt"))
       ELSE /\ Answered(c, outcome)
            /\ UNCHANGED <<cart, accepted, digest>>
  /\ UNCHANGED <<catalog, session, guest, record, page, verdict>>

-----------------------------------------------------------------------------
(***************************************************************************)
(* The end of a submission in the tab.                                     *)
(***************************************************************************)
Arrived(c) == Waiting(c) /\ call[c].answer # None

\* The tab stops waiting for c; the service may still process the POST.
GivenUp(c) ==
  IF ~Waiting(c) THEN call[c]
  ELSE IF call[c].answer # None THEN Spent(c)
  ELSE [stage |-> "given_up", guest |-> call[c].guest,
        key |-> call[c].key, body |-> call[c].body]

Left(c) == IF Waiting(c) THEN [call[c] EXCEPT !.mine = FALSE] ELSE call[c]

\* removeItem may throw, which the page ignores.
ClearRecord == record' \in {None, record}

\* A receipt: the customer is taken to its confirmation, wherever the tab is.
ResolveAccepted(c) ==
  /\ Arrived(c) /\ call[c].answer.status = "receipt"
  /\ ClearRecord
  /\ verdict' = [verdict EXCEPT ![call[c].key] = "accepted"]
  /\ page' = None
  /\ call' = [d \in Calls |-> IF d = c THEN Spent(c) ELSE Left(d)]
  /\ UNCHANGED <<server, guest>>

\* The basket the page shows after a refusal; a failed re-read keeps the old one.
Reconciled(answer) ==
  CASE answer.status = "cart_conflict"   -> {answer.basket}
    [] answer.status = "catalog_changed" -> {page.basket, Row(guest)}
    [] OTHER                             -> {page.basket}

\* fetchProtectedResponse answers the first 401 by bootstrapping and resending.
Definitive(c) ==
  /\ Arrived(c)
  /\ call[c].answer.status # "receipt"
  /\ call[c].answer.status = "session" => call[c].resent

ResolveRejected(c) ==
  /\ Definitive(c)
  /\ ClearRecord
  /\ verdict' = [verdict EXCEPT ![call[c].key] = "rejected"]
  /\ IF call[c].mine
       THEN \E basket \in Reconciled(call[c].answer) :
              page' = [page EXCEPT !.phase = "rejected", !.recovery = None,
                                   !.quote = None, !.basket = basket]
       ELSE UNCHANGED page
  /\ call' = [call EXCEPT ![c] = Spent(c)]
  /\ UNCHANGED <<server, guest>>

\* Mutant: the failure's kind becomes the state of the page.
ResolveUncertainAsNetwork(c) ==
  /\ Waiting(c)
  /\ page' = IF call[c].mine THEN [page EXCEPT !.phase = "network"] ELSE page
  /\ call' = [call EXCEPT ![c] = GivenUp(c)]
  /\ UNCHANGED <<server, guest, record, verdict>>

\* Timeout, lost connection, any 5xx, a failed bootstrap or an unreadable body.
ResolveUncertain(c) ==
  /\ Waiting(c)
  /\ page' = IF call[c].mine THEN [page EXCEPT !.phase = "uncertain"] ELSE page
  /\ call' = [call EXCEPT ![c] = GivenUp(c)]
  /\ UNCHANGED <<server, guest, record, verdict>>

\* POST /session keeps a live guest and otherwise issues a new one.
Bootstrap ==
  IF session[guest] = "live"
    THEN UNCHANGED <<session, guest>>
    ELSE \E g \in Guests :
           /\ session[g] = "unissued"
           /\ session' = [session EXCEPT ![g] = "live"]
           /\ guest' = g

Resend(c) ==
  /\ Arrived(c) /\ call[c].answer.status = "session" /\ ~call[c].resent
  /\ Bootstrap
  /\ call' = [call EXCEPT ![c].answer = None, ![c].resent = TRUE, ![c].guest = guest']
  /\ UNCHANGED <<cart, accepted, digest, catalog, record, page, verdict>>

-----------------------------------------------------------------------------
(***************************************************************************)
(* The rest of the tab, the browser and the world.                         *)
(***************************************************************************)
\* Client-side navigation.  Unless the weather allows it, the tab does not leave a
\* page that waits for an answer.
Leave ==
  /\ page # None
  /\ "leave" \in weather \/ \A c \in Calls : ~Waiting(c)
  /\ page' = None
  /\ call' = [c \in Calls |-> Left(c)]
  /\ UNCHANGED <<server, guest, record, verdict>>

\* A reload, or a crash of the tab, ends everything but sessionStorage.
Reload ==
  /\ page' = None
  /\ call' = [c \in Calls |-> GivenUp(c)]
  /\ UNCHANGED <<server, guest, record, verdict>>

\* Another page or tab of this guest writes the basket.
WriteElsewhere(items) ==
  /\ session[guest] = "live"
  /\ Row(guest).revision < MaxRevision
  /\ Service!Write(guest, items)
  /\ UNCHANGED <<digest, catalog, session, guest, record, page, call, verdict>>

RewriteCatalog ==
  /\ catalog' \in Catalogs
  /\ "revert" \in weather \/ catalog' > catalog
  /\ UNCHANGED <<cart, accepted, digest, session, guest, record, page, call, verdict>>

\* The session expires or is retired; its rows can no longer be reached.
Expire ==
  /\ "expiry" \in weather
  /\ session[guest] = "live"
  /\ session' = [session EXCEPT ![guest] = "gone"]
  /\ UNCHANGED <<cart, accepted, digest, catalog, guest, record, page, call, verdict>>

\* Some other protected request of the browser meets the 401 first.
BootstrapElsewhere ==
  /\ session[guest] = "gone"
  /\ Bootstrap
  /\ UNCHANGED <<cart, accepted, digest, catalog, record, page, call, verdict>>

\* reset_guest: the old guest's rows go, a new guest is issued.
ResetGuest(new) ==
  /\ session[guest] = "live" /\ session[new] = "unissued"
  /\ session' = [session EXCEPT ![guest] = "gone", ![new] = "live"]
  /\ Service!Forget({guest})
  /\ digest' = [digest EXCEPT ![guest] = [k \in Keys |-> None]]
  /\ UNCHANGED catalog

ResetElsewhere ==
  /\ "reset" \in weather
  /\ \E new \in Guests : ResetGuest(new) /\ guest' = new
  /\ UNCHANGED <<record, page, call, verdict>>

\* startFreshGuest, on the account page: the guest scope is aborted first; if the
\* answer is lost, so is the new cookie, and the record stays.
StartFreshGuest ==
  /\ "reset" \in weather /\ page = None
  /\ call' = [c \in Calls |-> GivenUp(c)]
  /\ \E new \in Guests :
       /\ ResetGuest(new)
       /\ \/ /\ guest' = new
             /\ ClearRecord
             /\ verdict' = [k \in Keys |-> IF verdict[k] = "open" THEN "abandoned"
                                            ELSE verdict[k]]
          \/ UNCHANGED <<guest, record, verdict>>
  /\ UNCHANGED page

-----------------------------------------------------------------------------
Step ==
  \/ Mount \/ ReadBasket \/ TakeQuote
  \/ \E d \in Details : EditDetails(d)
  \/ \E items \in Items : EditBasket(items) \/ WriteElsewhere(items)
  \/ \E c \in Calls, key \in Keys : Place(c, key)
  \/ PlaceRefusedByStorage
  \/ \E c \in Calls :
       \/ Retry(c) \/ HandleUnauthorized(c) \/ HandleLimited(c) \/ Handle(c)
       \/ ResolveAccepted(c) \/ ResolveRejected(c) \/ ResolveUncertain(c)
       \/ Resend(c)
  \/ Leave \/ Reload \/ RewriteCatalog \/ Expire \/ BootstrapElsewhere
  \/ ResetElsewhere \/ StartFreshGuest

Next == Step /\ UNCHANGED weather

Spec == Init /\ [][Next]_vars

-----------------------------------------------------------------------------
(***************************************************************************)
(* Properties.                                                             *)
(***************************************************************************)
Quotes == [rev : Nat, fingerprint : Catalogs]

PageStates ==
  [phase : {"idle", "submitting", "uncertain", "rejected"},
   recovery : Records \union {None}, writable : BOOLEAN, details : Details,
   basket : Service!Rows \union {None}, quote : Quotes \union {None}]

Answers ==
  [status : {"receipt", "refused", "session", "catalog_changed"}, basket : {None}]
    \union [status : {"cart_conflict"}, basket : Service!Rows]

WaitingCalls ==
  [stage : {"waiting"}, mine : BOOLEAN, resent : BOOLEAN, guest : Guests,
   key : Keys, body : Bodies, answer : Answers \union {None}]
GivenUpCalls == [stage : {"given_up"}, guest : Guests, key : Keys, body : Bodies]
SpentCalls   == [stage : {"spent"}, key : Keys, body : Bodies]
CallStates   == {Unused} \union WaitingCalls \union GivenUpCalls \union SpentCalls

ASSUME BasketsAreRows ==
  /\ EmptyItems \in Items
  /\ FirstCart \in [Guests -> Service!Rows \union {NoCart}]
  /\ NoCart \notin Service!Rows

ASSUME SentinelsAreNoValues ==
  /\ None \notin Records \union Bodies \union PageStates \union Answers
  /\ None \notin Quotes \union Service!Rows
  /\ Damaged \notin Records \union {None}

\* Every variable holds a value the page, the wire and the tables can hold.
TypeOK ==
  /\ weather \in Weathers
  /\ cart \in [Guests -> Service!Rows \union {NoCart}]
  /\ accepted \in [Guests -> SUBSET [key : Keys, rev : Nat, items : Items]]
  /\ digest \in [Guests -> [Keys -> Bodies \union {None}]]
  /\ catalog \in Catalogs
  /\ session \in [Guests -> {"unissued", "live", "gone"}]
  /\ guest \in Guests
  /\ record \in Records \union {None, Damaged}
  /\ page \in PageStates \union {None}
  /\ call \in [Calls -> CallStates]
  /\ verdict \in [Keys -> {"unused", "open", "accepted", "rejected", "abandoned"}]

\* The submissions that exist anywhere: on the wire, in storage, in the page.
Submissions ==
  {[key |-> call[c].key, body |-> call[c].body] : c \in {d \in Calls : call[d] # Unused}}
  \union ({record} \ {None, Damaged})
  \union (IF page = None THEN {} ELSE {page.recovery} \ {None})

\* A retry is the original submission: whatever the form, the basket and the
\* catalogue have become, and however often the tab was reloaded, one key never
\* goes out with two bodies (ST09: the persisted checkout body wins).
OneBodyPerKey ==
  \A s, t \in Submissions : s.key = t.key => s.body = t.body

\* An order of this browser is never forgotten: either its receipt was shown, or
\* sessionStorage still holds the submission that will recover it, through lost
\* answers, late processing, reloads and writes from other pages.
NoOrderForgotten ==
  \A o \in accepted[guest] :
    \/ verdict[o.key] = "accepted"
    \/ record \in Records /\ record.key = o.key

\* It holds in fair weather: each of the five kinds of weather can break it.
NoOrderForgottenInCalm == weather = {} => NoOrderForgotten

\* docs/ST09_CHECKOUT_RECOVERY.md: "A new idempotency key is generated only after
\* the previous attempt has a definitive result."  It is, unless a page is left while
\* it waits: then a late answer may remove the record of an attempt that is open.
OneOpenAttempt ==
  "leave" \notin weather =>
    \A k1, k2 \in Keys : verdict[k1] = "open" /\ verdict[k2] = "open" => k1 = k2

\* A rejection is final: no order appears for a submission that the customer was
\* told had been rejected, not even from a POST that was delayed.
RejectedMeansNoOrder ==
  \A o \in accepted[guest] : verdict[o.key] # "rejected"

\* It holds while neither limiter, expiry, reset nor a returning catalogue interferes.
RejectedMeansNoOrderInCalm == weather \subseteq {"leave"} => RejectedMeansNoOrder

\* Nothing invented: a confirmation is shown for a key only if the service holds
\* an order for it, unless the guest it belonged to is gone.
NoInventedOrder ==
  [][\A k \in Keys : verdict'[k] = "accepted" =>
       \/ verdict[k] = "accepted"
       \/ \E g \in Guests : session[g] = "gone"
       \/ \E g \in Guests : \E o \in accepted[g] : o.key = k]_vars

\* Damaged evidence is preserved: it is neither overwritten by a new submission nor
\* cleared by any answer; only a fresh guest removes it (ST09, Operational notes).
DamagedIsKept ==
  [][record = Damaged => record' = Damaged \/ guest' # guest]_vars

\* What the browser knows of orders is true and stays: no confirmation is invented, and
\* damaged evidence is not overwritten or cleared.
EvidenceIsTrueAndKept == NoInventedOrder /\ DamagedIsKept
=============================================================================
