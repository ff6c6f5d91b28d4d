---------------------------- MODULE ClientProofs ----------------------------
(***************************************************************************)
(* Proofs that the inductive invariant of ClientInvariant, and with it the *)
(* safety properties of CheckoutClient, hold for any number of calls,      *)
(* keys, guests, baskets, catalogues and details, in any weather.          *)
(***************************************************************************)
EXTENDS ClientInvariant, TLAPS

(***************************************************************************)
(* Facts about calls.                                                      *)
(***************************************************************************)
\* The stage of a call tells its other fields.
LEMMA CallFields ==
  ASSUME TypeOK, NEW c \in Calls
  PROVE  /\ call[c] \in CallStates
         /\ Waiting(c) => call[c] \in WaitingCalls
         /\ call[c].stage = "given_up" => call[c] \in GivenUpCalls
         /\ Sent(c) <=> call[c].stage \in {"waiting", "given_up", "spent"}
         /\ Sent(c) => call[c].key \in Keys /\ call[c].body \in Bodies
  BY DEF TypeOK, CallStates, WaitingCalls, GivenUpCalls, SpentCalls, Waiting, Sent, Unused

\* What a sent call can turn into.
LEMMA CallOutcomes ==
  ASSUME TypeOK, NEW c \in Calls, Sent(c)
  PROVE  /\ Spent(c) \in SpentCalls
         /\ GivenUp(c) \in CallStates
         /\ Left(c) \in CallStates
         /\ Waiting(c) => \A a \in Answers : [call[c] EXCEPT !.answer = a] \in WaitingCalls
  BY CallFields DEF Spent, GivenUp, Left, CallStates, WaitingCalls, GivenUpCalls, SpentCalls,
    Waiting

\* And of a call that is not sent, nothing becomes of it.
LEMMA UnusedStays ==
  ASSUME NEW c \in Calls, ~Sent(c)
  PROVE  /\ ~Waiting(c) /\ call[c].stage = "unused"
         /\ GivenUp(c) = Unused /\ Left(c) = Unused
  BY DEF Sent, Unused, Waiting, GivenUp, Left

\* A page is idle, rejected, submitting or uncertain.
LEMMA PageFields ==
  ASSUME TypeOK, page # None
  PROVE  page \in PageStates
  BY DEF TypeOK

\* The row of a guest.
LEMMA RowIsRow ==
  ASSUME TypeOK, NEW g \in Guests
  PROVE  Row(g) \in Service!Rows
  BY BasketsAreRows DEF TypeOK, Row, Service!Rows

\* The statuses an answer has.
LEMMA StatusIsAnswer ==
  ASSUME NEW s \in {"receipt", "refused", "session", "catalog_changed"}
  PROVE  Status(s) \in Answers
  BY DEF Status, Answers

LEMMA OutcomeIsAnswer ==
  ASSUME TypeOK, NEW g \in Guests, NEW k, NEW b,
         Outcome(g, k, b).status # "accept"
  PROVE  Outcome(g, k, b) \in Answers
  BY RowIsRow, StatusIsAnswer DEF Outcome, Status, Answers

\* A submission that is placed is well-formed.
LEMMA SubmissionIsRecord ==
  ASSUME TypeOK, MayPlace, NEW k \in Keys
  PROVE  Submission(k) \in Records
  <1>1. page \in PageStates /\ page.quote \in Quotes
    BY PageFields DEF MayPlace, Editable, PageStates
  <1>2. QED
    BY <1>1 DEF Submission, Records, Bodies, PageStates, Quotes

(***************************************************************************)
(* Types.                                                                  *)
(***************************************************************************)
\* A step of one call.
LEMMA CallStep ==
  ASSUME TypeOK, NEW c \in Calls, NEW new \in CallStates, call' = [call EXCEPT ![c] = new]
  PROVE  call' \in [Calls -> CallStates]
  BY DEF TypeOK

LEMMA AnsweredType ==
  ASSUME TypeOK, NEW c \in Calls, Travelling(c), NEW a \in Answers, Answered(c, a)
  PROVE  call' \in [Calls -> CallStates]
  <1>1. Sent(c)
    BY CallFields DEF Travelling, Waiting
  <1>2. (IF Waiting(c) THEN [call[c] EXCEPT !.answer = a] ELSE Spent(c)) \in CallStates
    BY <1>1, CallOutcomes DEF CallStates
  <1>3. QED
    BY <1>2, CallStep DEF Answered

LEMMA PostType ==
  ASSUME TypeOK, NEW c \in Calls, NEW s \in Records, Post(c, s)
  PROVE  call' \in [Calls -> CallStates]
  <1> DEFINE new == [stage |-> "waiting", mine |-> TRUE, resent |-> FALSE, guest |-> guest,
                     key |-> s.key, body |-> s.body, answer |-> None]
  <1>1. new \in WaitingCalls
    BY DEF WaitingCalls, TypeOK, Records
  <1>2. QED
    BY <1>1, CallStep DEF Post, CallStates

\* What the operations of OrderBook do to its variables.
LEMMA ServiceType ==
  ASSUME TypeOK, NEW g \in Guests
  PROVE  /\ Service!Open(g) \/ (\E i \in Items : Service!Write(g, i))
              \/ (\E k \in Keys : Service!Accept(g, k)) \/ Service!Forget({g}) =>
              /\ cart' \in [Guests -> Service!Rows \union {NoCart}]
              /\ accepted' \in [Guests -> SUBSET [key : Keys, rev : Nat, items : Items]]
  <1>0. /\ cart \in [Guests -> Service!Rows \union {NoCart}]
        /\ accepted \in [Guests -> SUBSET [key : Keys, rev : Nat, items : Items]]
    BY DEF TypeOK
  <1> USE <1>0, BasketsAreRows
  <1>1. ASSUME Service!Open(g)
        PROVE  /\ cart' \in [Guests -> Service!Rows \union {NoCart}]
               /\ accepted' = accepted
    BY <1>1 DEF Service!Open, Service!Rows
  <1>2. ASSUME NEW i \in Items, Service!Write(g, i)
        PROVE  /\ cart' \in [Guests -> Service!Rows \union {NoCart}]
               /\ accepted' = accepted
    BY <1>2 DEF Service!Write, Service!Rows
  <1>3. ASSUME NEW k \in Keys, Service!Accept(g, k)
        PROVE  /\ cart' \in [Guests -> Service!Rows \union {NoCart}]
               /\ accepted' \in [Guests -> SUBSET [key : Keys, rev : Nat, items : Items]]
    <2>1. cart[g] \in Service!Rows
      BY <1>3 DEF Service!Accept
    <2>2. [key |-> k, rev |-> cart[g].revision, items |-> cart[g].items]
            \in [key : Keys, rev : Nat, items : Items]
      BY <2>1 DEF Service!Rows
    <2>3. QED
      BY <1>3, <2>1, <2>2 DEF Service!Accept, Service!Rows
  <1>4. ASSUME Service!Forget({g})
        PROVE  /\ cart' \in [Guests -> Service!Rows \union {NoCart}]
               /\ accepted' \in [Guests -> SUBSET [key : Keys, rev : Nat, items : Items]]
    BY <1>4 DEF Service!Forget
  <1>5. QED
    BY <1>1, <1>2, <1>3, <1>4

LEMMA EditedType ==
  ASSUME NEW p \in PageStates, NEW b \in Service!Rows \union {None}
  PROVE  Edited(p, b) \in PageStates
  BY DEF Edited, PageStates

\* The page has type PageStates after each of its steps.
LEMMA PageType ==
  ASSUME TypeOK
  PROVE  /\ Mount => page' \in PageStates
         /\ ReadBasket \/ TakeQuote => page' \in PageStates
         /\ \A d \in Details : EditDetails(d) => page' \in PageStates
         /\ PlaceRefusedByStorage => page' \in PageStates
  <1>1. ASSUME Mount PROVE page' \in PageStates
    <2>1. \A w \in BOOLEAN, d \in Details, r \in Records \union {None} :
            NewPage(r, w, d) \in PageStates
      BY DEF NewPage, PageStates
    <2>2. record \notin {None, Damaged} => record \in Records /\ record.body.details \in Details
      BY DEF TypeOK, Records, Bodies
    <2>3. QED
      BY <1>1, <2>1, <2>2 DEF Mount
  <1>2. ASSUME ReadBasket PROVE page' \in PageStates
    BY <1>2, RowIsRow DEF ReadBasket, PageStates, TypeOK
  <1>3. ASSUME TakeQuote PROVE page' \in PageStates
    BY <1>3 DEF TakeQuote, Editable, PageStates, TypeOK, Quotes, Service!Rows
  <1>4. ASSUME NEW d \in Details, EditDetails(d) PROVE page' \in PageStates
    <2>1. [page EXCEPT !.details = d] \in PageStates /\ page.basket \in Service!Rows \union {None}
      BY <1>4 DEF EditDetails, Editable, TypeOK, PageStates
    <2>2. QED
      BY <1>4, <2>1, EditedType DEF EditDetails
  <1>5. ASSUME PlaceRefusedByStorage PROVE page' \in PageStates
    BY <1>5 DEF PlaceRefusedByStorage, MayPlace, Editable, TypeOK, PageStates
  <1>6. QED
    BY <1>1, <1>2, <1>3, <1>4, <1>5

LEMMA EditBasketType ==
  ASSUME TypeOK, NEW items \in Items, EditBasket(items)
  PROVE  /\ page' \in PageStates
         /\ cart' \in [Guests -> Service!Rows \union {NoCart}]
         /\ accepted' \in [Guests -> SUBSET [key : Keys, rev : Nat, items : Items]]
  <1>1. guest \in Guests /\ page \in PageStates /\ page.basket \in Service!Rows
    BY DEF TypeOK, EditBasket, Editable, PageStates
  <1>2. CASE Service!Write(guest, items)
    <2>1. /\ cart' \in [Guests -> Service!Rows \union {NoCart}]
          /\ accepted' \in [Guests -> SUBSET [key : Keys, rev : Nat, items : Items]]
      BY <1>1, <1>2, ServiceType
    <2>2. cart'[guest] \in Service!Rows
      BY <1>1, <1>2, BasketsAreRows DEF Service!Write, Service!Rows, TypeOK
    <2>3. page' \in PageStates
      BY <1>1, <1>2, <2>2, RowIsRow, EditedType DEF EditBasket
    <2>4. QED
      BY <2>1, <2>3
  <1>3. CASE page' = Edited(page, Row(guest)) /\ UNCHANGED <<cart, accepted>>
    BY <1>1, <1>3, RowIsRow, EditedType DEF TypeOK
  <1>4. QED
    BY <1>2, <1>3 DEF EditBasket

LEMMA HandleType ==
  ASSUME TypeOK, NEW c \in Calls,
         HandleUnauthorized(c) \/ HandleLimited(c) \/ Handle(c), UNCHANGED weather
  PROVE  TypeOK'
  <1> DEFINE g == call[c].guest
             k == call[c].key
             b == call[c].body
  <1>0. Travelling(c)
    BY DEF HandleUnauthorized, HandleLimited, Handle
  <1>1. g \in Guests /\ k \in Keys /\ b \in Bodies
    BY <1>0, CallFields DEF Travelling, WaitingCalls, GivenUpCalls
  <1>2. CASE HandleUnauthorized(c)
    BY <1>0, <1>2, StatusIsAnswer, AnsweredType DEF HandleUnauthorized, TypeOK, server
  <1>3. CASE HandleLimited(c)
    BY <1>0, <1>3, StatusIsAnswer, AnsweredType DEF HandleLimited, TypeOK, server
  <1>4. ASSUME Handle(c), Outcome(g, k, b).status = "accept"
        PROVE  TypeOK'
    <2>1. Service!Accept(g, k) /\ digest' = [digest EXCEPT ![g][k] = b]
      BY <1>4 DEF Handle
    <2>2. digest' \in [Guests -> [Keys -> Bodies \union {None}]]
      BY <1>1, <2>1 DEF TypeOK
    <2>3. call' \in [Calls -> CallStates]
      BY <1>0, <1>4, StatusIsAnswer, AnsweredType DEF Handle
    <2>4. /\ cart' \in [Guests -> Service!Rows \union {NoCart}]
          /\ accepted' \in [Guests -> SUBSET [key : Keys, rev : Nat, items : Items]]
      BY <1>1, <2>1, ServiceType
    <2>5. UNCHANGED <<catalog, session, guest, record, page, verdict>>
      BY <1>4 DEF Handle
    <2>6. QED
      BY <2>2, <2>3, <2>4, <2>5 DEF TypeOK
  <1>5. ASSUME Handle(c), Outcome(g, k, b).status # "accept"
        PROVE  TypeOK'
    BY <1>0, <1>1, <1>5, OutcomeIsAnswer, AnsweredType DEF Handle, TypeOK
  <1>6. QED
    BY <1>2, <1>3, <1>4, <1>5

LEMMA PlaceType ==
  ASSUME TypeOK, NEW c \in Calls, NEW k \in Keys, Place(c, k), UNCHANGED weather
  PROVE  TypeOK'
  <1>1. Submission(k) \in Records /\ page \in PageStates
    BY SubmissionIsRecord, PageFields DEF Place, MayPlace, Editable
  <1>2. page' \in PageStates
    BY <1>1 DEF Place, Submitting, PageStates
  <1>3. call' \in [Calls -> CallStates]
    BY <1>1, PostType DEF Place
  <1>4. QED
    BY <1>1, <1>2, <1>3 DEF Place, TypeOK, server

LEMMA RetryType ==
  ASSUME TypeOK, NEW c \in Calls, Retry(c), page.recovery \in Records, UNCHANGED weather
  PROVE  TypeOK'
  <1>1. page \in PageStates
    BY PageFields DEF Retry
  <1>2. page' \in PageStates
    BY <1>1 DEF Retry, Submitting, PageStates
  <1>3. call' \in [Calls -> CallStates]
    BY PostType DEF Retry
  <1>4. QED
    BY <1>2, <1>3 DEF Retry, TypeOK, server

\* A page that waits for an answer has its submission.
LEMMA WaitingPage ==
  ASSUME TypeOK, PageHoldsItsCall, NEW c \in Calls, Waiting(c), call[c].mine
  PROVE  /\ page \in PageStates /\ page.phase = "submitting"
         /\ page.recovery = [key |-> call[c].key, body |-> call[c].body]
  BY PageFields DEF PageHoldsItsCall

LEMMA ResolveType ==
  ASSUME TypeOK, PageHoldsItsCall, NEW c \in Calls,
         ResolveAccepted(c) \/ ResolveRejected(c) \/ ResolveUncertain(c) \/ Resend(c),
         UNCHANGED weather
  PROVE  TypeOK'
  <1>0. Waiting(c) /\ Sent(c)
    BY CallFields DEF ResolveAccepted, ResolveRejected, Definitive, ResolveUncertain, Resend,
      Arrived, Waiting
  <1>1. call[c] \in WaitingCalls /\ call[c].key \in Keys
    BY <1>0, CallFields
  <1>2. CASE ResolveAccepted(c)
    <2>1. \A d \in Calls : Left(d) \in CallStates
      BY CallFields, CallOutcomes, UnusedStays DEF CallStates
    <2>2. call' \in [Calls -> CallStates]
      BY <1>0, <1>2, <2>1, CallOutcomes DEF ResolveAccepted, CallStates
    <2>3. verdict' \in [Keys -> {"unused", "open", "accepted", "rejected", "abandoned"}]
      BY <1>1, <1>2 DEF ResolveAccepted, TypeOK
    <2>4. record' \in Records \union {None, Damaged}
      BY <1>2 DEF ResolveAccepted, ClearRecord, TypeOK
    <2>5. page' = None /\ UNCHANGED <<server, guest>>
      BY <1>2 DEF ResolveAccepted
    <2>6. QED
      BY <2>2, <2>3, <2>4, <2>5 DEF TypeOK, server
  <1>3. CASE ResolveRejected(c)
    <2>2. call' \in [Calls -> CallStates]
      BY <1>0, <1>3, CallOutcomes, CallStep DEF ResolveRejected, CallStates
    <2>3. verdict' \in [Keys -> {"unused", "open", "accepted", "rejected", "abandoned"}]
      BY <1>1, <1>3 DEF ResolveRejected, TypeOK
    <2>4. record' \in Records \union {None, Damaged}
      BY <1>3 DEF ResolveRejected, ClearRecord, TypeOK
    <2>5. page' \in PageStates \union {None}
      <3>1. CASE call[c].mine
        <4>1. page \in PageStates
          BY <1>0, <3>1, WaitingPage
        <4>2. call[c].answer \in Answers
          BY <1>1, <1>3 DEF ResolveRejected, Definitive, Arrived, WaitingCalls
        <4>3. Reconciled(call[c].answer) \subseteq Service!Rows \union {None}
          BY <4>1, <4>2, RowIsRow DEF Reconciled, Answers, PageStates, TypeOK
        <4>4. QED
          BY <1>3, <3>1, <4>1, <4>3 DEF ResolveRejected, PageStates
      <3>2. CASE ~call[c].mine
        BY <1>3, <3>2 DEF ResolveRejected, TypeOK
      <3>3. QED
        BY <3>1, <3>2
    <2>6. UNCHANGED <<server, guest>>
      BY <1>3 DEF ResolveRejected
    <2>7. QED
      BY <2>2, <2>3, <2>4, <2>5, <2>6 DEF TypeOK, server
  <1>4. CASE ResolveUncertain(c)
    <2>1. call' \in [Calls -> CallStates]
      BY <1>0, <1>4, CallOutcomes, CallStep DEF ResolveUncertain
    <2>2. page' \in PageStates \union {None}
      BY <1>0, <1>4, WaitingPage DEF ResolveUncertain, PageStates, TypeOK
    <2>3. QED
      BY <1>4, <2>1, <2>2 DEF ResolveUncertain, TypeOK, server
  <1>5. CASE Resend(c)
    <2>1. guest' \in Guests /\ session' \in [Guests -> {"unissued", "live", "gone"}]
      BY <1>5 DEF Resend, Bootstrap, TypeOK
    <2>2. [call[c] EXCEPT !.answer = None, !.resent = TRUE, !.guest = guest'] \in CallStates
      BY <1>1, <2>1 DEF WaitingCalls, CallStates
    <2>3. call' = [call EXCEPT ![c] =
                     [call[c] EXCEPT !.answer = None, !.resent = TRUE, !.guest = guest']]
      BY <1>5, <1>1 DEF Resend, TypeOK
    <2>4. call' \in [Calls -> CallStates]
      BY <2>2, <2>3, CallStep
    <2>5. QED
      BY <1>5, <2>1, <2>4 DEF Resend, TypeOK
  <1>6. QED
    BY <1>2, <1>3, <1>4, <1>5

LEMMA WorldType ==
  ASSUME TypeOK, UNCHANGED weather,
         \/ Leave \/ Reload \/ RewriteCatalog \/ Expire \/ BootstrapElsewhere
         \/ ResetElsewhere \/ StartFreshGuest
         \/ \E items \in Items : WriteElsewhere(items)
  PROVE  TypeOK'
  <1>1. ASSUME Leave PROVE TypeOK'
    <2>1. \A d \in Calls : Left(d) \in CallStates
      BY CallFields, CallOutcomes, UnusedStays DEF CallStates
    <2>2. QED
      BY <1>1, <2>1 DEF Leave, TypeOK, server
  <1>2. \A d \in Calls : GivenUp(d) \in CallStates
    BY CallFields, CallOutcomes, UnusedStays DEF CallStates
  <1>3. ASSUME Reload PROVE TypeOK'
    BY <1>2, <1>3 DEF Reload, TypeOK, server
  <1>4. ASSUME RewriteCatalog PROVE TypeOK'
    BY <1>4 DEF RewriteCatalog, TypeOK
  <1>5. ASSUME Expire PROVE TypeOK'
    BY <1>5 DEF Expire, TypeOK
  <1>6. ASSUME BootstrapElsewhere PROVE TypeOK'
    BY <1>6 DEF BootstrapElsewhere, Bootstrap, TypeOK
  <1>7. ASSUME NEW new \in Guests, ResetGuest(new)
        PROVE  /\ cart' \in [Guests -> Service!Rows \union {NoCart}]
               /\ accepted' \in [Guests -> SUBSET [key : Keys, rev : Nat, items : Items]]
               /\ digest' \in [Guests -> [Keys -> Bodies \union {None}]]
               /\ session' \in [Guests -> {"unissued", "live", "gone"}]
               /\ catalog' \in Catalogs
    <2>1. guest \in Guests
      BY DEF TypeOK
    <2>2. /\ cart' \in [Guests -> Service!Rows \union {NoCart}]
          /\ accepted' \in [Guests -> SUBSET [key : Keys, rev : Nat, items : Items]]
      BY <1>7, <2>1, ServiceType DEF ResetGuest
    <2>3. [k \in Keys |-> None] \in [Keys -> Bodies \union {None}]
      OBVIOUS
    <2>4. digest' \in [Guests -> [Keys -> Bodies \union {None}]]
      BY <1>7, <2>1, <2>3 DEF ResetGuest, TypeOK
    <2>5. session' \in [Guests -> {"unissued", "live", "gone"}] /\ catalog' \in Catalogs
      BY <1>7 DEF ResetGuest, TypeOK
    <2>6. QED
      BY <2>2, <2>4, <2>5
  <1>8. ASSUME ResetElsewhere PROVE TypeOK'
    BY <1>7, <1>8 DEF ResetElsewhere, TypeOK
  <1>9. ASSUME StartFreshGuest PROVE TypeOK'
    <2>1. PICK new \in Guests :
            /\ ResetGuest(new)
            /\ \/ /\ guest' = new
                  /\ ClearRecord
                  /\ verdict' = [k \in Keys |-> IF verdict[k] = "open" THEN "abandoned"
                                                 ELSE verdict[k]]
               \/ UNCHANGED <<guest, record, verdict>>
      BY <1>9 DEF StartFreshGuest
    <2>2. call' \in [Calls -> CallStates] /\ page' = page
      BY <1>2, <1>9 DEF StartFreshGuest
    <2>3. /\ guest' \in Guests /\ record' \in Records \union {None, Damaged}
          /\ verdict' \in [Keys -> {"unused", "open", "accepted", "rejected", "abandoned"}]
      BY <2>1 DEF ClearRecord, TypeOK
    <2>4. QED
      BY <1>7, <2>1, <2>2, <2>3 DEF TypeOK
  <1>10. ASSUME NEW items \in Items, WriteElsewhere(items) PROVE TypeOK'
    <2>1. guest \in Guests
      BY DEF TypeOK
    <2>2. QED
      BY <1>10, <2>1, ServiceType DEF WriteElsewhere, TypeOK
  <1>11. QED
    BY <1>1, <1>3, <1>4, <1>5, <1>6, <1>8, <1>9, <1>10

\* Every step keeps the types.
LEMMA StepType ==
  ASSUME TypeOK, PageHoldsItsCall, Step, UNCHANGED weather
  PROVE  TypeOK'
  <1>1. ASSUME ReadBasket PROVE TypeOK'
    <2>1. page' \in PageStates /\ guest \in Guests
      BY <1>1, PageType DEF TypeOK
    <2>2. /\ cart' \in [Guests -> Service!Rows \union {NoCart}]
          /\ accepted' \in [Guests -> SUBSET [key : Keys, rev : Nat, items : Items]]
      BY <1>1, <2>1, ServiceType DEF ReadBasket, TypeOK
    <2>3. QED
      BY <1>1, <2>1, <2>2 DEF ReadBasket, TypeOK
  <1>2. ASSUME Mount \/ TakeQuote \/ PlaceRefusedByStorage PROVE TypeOK'
    BY <1>2, PageType DEF Mount, TakeQuote, PlaceRefusedByStorage, TypeOK, server
  <1>3. ASSUME NEW d \in Details, EditDetails(d) PROVE TypeOK'
    BY <1>3, PageType DEF EditDetails, TypeOK, server
  <1>4. ASSUME NEW items \in Items, EditBasket(items) PROVE TypeOK'
    BY <1>4, EditBasketType DEF EditBasket, TypeOK
  <1>5. ASSUME NEW c \in Calls, Retry(c) PROVE TypeOK'
    BY <1>5, RetryType DEF Retry, PageHoldsItsCall, Editable
  <1>6. QED
    BY <1>1, <1>2, <1>3, <1>4, <1>5, PlaceType, HandleType, ResolveType, WorldType DEF Step

(***************************************************************************)
(* What a step leaves of the calls and of the page's call.                 *)
(***************************************************************************)
\* No call is sent or forgotten; each keeps key and body, and waits, or belongs to the
\* mounted page, no more than before.
Kept ==
  \A c \in Calls :
    /\ (call'[c] # Unused) <=> Sent(c)
    /\ Sent(c) => call'[c].key = call[c].key /\ call'[c].body = call[c].body
    /\ call'[c].stage = "waiting" => Waiting(c) /\ (call'[c].mine => call[c].mine)
    /\ call'[c].stage = "given_up" => call[c].stage \in {"waiting", "given_up"}

LEMMA KeptByAll ==
  ASSUME TypeOK,
         \/ UNCHANGED call
         \/ call' = [c \in Calls |-> Left(c)]
         \/ call' = [c \in Calls |-> GivenUp(c)]
         \/ \E d \in Calls : Waiting(d) /\ call' = [c \in Calls |-> IF c = d THEN Spent(c) ELSE Left(c)]
         \/ \E d \in Calls : Waiting(d) /\ call' = [call EXCEPT ![d] = Spent(d)]
         \/ \E d \in Calls : Waiting(d) /\ call' = [call EXCEPT ![d] = GivenUp(d)]
  PROVE  Kept
  <1>1. \A c \in Calls : Sent(c) =>
          /\ Spent(c).stage = "spent" /\ Spent(c) # Unused
          /\ Spent(c).key = call[c].key /\ Spent(c).body = call[c].body
    BY DEF Spent, Unused
  <1>2. \A c \in Calls : Sent(c) =>
          /\ GivenUp(c).stage # "waiting" /\ GivenUp(c) # Unused
          /\ GivenUp(c).stage = "given_up" => call[c].stage \in {"waiting", "given_up"}
          /\ GivenUp(c).key = call[c].key /\ GivenUp(c).body = call[c].body
    BY <1>1, CallFields DEF GivenUp, Waiting, Unused, Sent
  <1>3. \A c \in Calls : Sent(c) =>
          /\ Left(c) # Unused /\ Left(c).stage = call[c].stage
          /\ Left(c).stage = "waiting" => ~Left(c).mine
          /\ Left(c).key = call[c].key /\ Left(c).body = call[c].body
    <2> TAKE c \in Calls
    <2> HAVE Sent(c)
    <2>1. CASE Waiting(c)
      BY <2>1, CallFields DEF Left, WaitingCalls, Unused, Waiting
    <2>2. CASE ~Waiting(c)
      BY <2>2 DEF Left, Waiting, Sent
    <2>3. QED
      BY <2>1, <2>2
  <1>4. \A c \in Calls : Waiting(c) => Sent(c)
    BY CallFields DEF Waiting
  <1>5. \A c \in Calls : ~Sent(c) => GivenUp(c) = Unused /\ Left(c) = Unused
    BY UnusedStays
  <1>6. call \in [Calls -> CallStates] /\ Unused.stage = "unused"
    BY DEF TypeOK, Unused
  <1>a. CASE UNCHANGED call
    BY <1>a DEF Kept, Sent, Waiting
  <1>b. CASE call' = [c \in Calls |-> Left(c)]
    BY <1>b, <1>3, <1>5, <1>6 DEF Kept, Waiting
  <1>c. CASE call' = [c \in Calls |-> GivenUp(c)]
    BY <1>c, <1>2, <1>5, <1>6 DEF Kept, Waiting
  <1>d. ASSUME NEW d \in Calls, Waiting(d),
               call' = [c \in Calls |-> IF c = d THEN Spent(c) ELSE Left(c)]
        PROVE  Kept
    BY <1>d, <1>1, <1>3, <1>4, <1>5, <1>6 DEF Kept, Waiting
  <1>e. ASSUME NEW d \in Calls, Waiting(d), call' = [call EXCEPT ![d] = Spent(d)]
        PROVE  Kept
    BY <1>e, <1>1, <1>4, <1>6 DEF Kept, Waiting, Sent
  <1>f. ASSUME NEW d \in Calls, Waiting(d), call' = [call EXCEPT ![d] = GivenUp(d)]
        PROVE  Kept
    BY <1>f, <1>2, <1>4, <1>6 DEF Kept, Waiting, Sent
  <1>7. QED
    BY <1>a, <1>b, <1>c, <1>d, <1>e, <1>f

LEMMA KeptByAnswer ==
  ASSUME TypeOK, NEW c \in Calls, Travelling(c), NEW a, Answered(c, a)
  PROVE  Kept
  <1>1. Sent(c) /\ (Waiting(c) => call[c] \in WaitingCalls)
    BY CallFields DEF Travelling, Waiting
  <1>2. call \in [Calls -> CallStates]
    BY DEF TypeOK
  <1>3. CASE Waiting(c)
    BY <1>1, <1>2, <1>3 DEF Answered, Kept, WaitingCalls, Sent, Unused, Waiting
  <1>4. CASE ~Waiting(c)
    BY <1>1, <1>2, <1>4 DEF Answered, Kept, Spent, Sent, Unused, Waiting
  <1>5. QED
    BY <1>3, <1>4

LEMMA KeptByResend ==
  ASSUME TypeOK, NEW c \in Calls, Resend(c)
  PROVE  Kept
  <1>1. call[c] \in WaitingCalls /\ Sent(c)
    BY CallFields DEF Resend, Arrived, Waiting
  <1>2. QED
    BY <1>1 DEF Resend, Kept, TypeOK, WaitingCalls, Sent, Unused, Waiting

\* Only placing and retrying send something.
LEMMA StepKeeps ==
  ASSUME TypeOK, Step
  PROVE  \/ Kept
         \/ \E c \in Calls : Retry(c) \/ \E k \in Keys : Place(c, k)
  <1>1. ASSUME NEW c \in Calls, HandleUnauthorized(c) \/ HandleLimited(c) \/ Handle(c)
        PROVE  Kept
    BY <1>1, KeptByAnswer DEF HandleUnauthorized, HandleLimited, Handle
  <1>2. ASSUME NEW c \in Calls,
               ResolveAccepted(c) \/ ResolveRejected(c) \/ ResolveUncertain(c)
        PROVE  Kept
    <2>1. CASE ResolveAccepted(c)
      <3>1. Waiting(c) /\ call' = [d \in Calls |-> IF d = c THEN Spent(d) ELSE Left(d)]
        BY <2>1 DEF ResolveAccepted, Arrived
      <3>2. QED
        BY <3>1, KeptByAll
    <2>2. CASE ResolveRejected(c)
      BY <2>2, KeptByAll DEF ResolveRejected, Definitive, Arrived
    <2>3. CASE ResolveUncertain(c)
      BY <2>3, KeptByAll DEF ResolveUncertain
    <2>4. QED
      BY <1>2, <2>1, <2>2, <2>3
  <1>3. CASE Leave \/ Reload \/ StartFreshGuest
    BY <1>3, KeptByAll DEF Leave, Reload, StartFreshGuest
  <1>4. CASE UNCHANGED call
    BY <1>4, KeptByAll
  <1>5. QED
    BY <1>1, <1>2, <1>3, <1>4, KeptByResend
       DEF Step, Mount, ReadBasket, TakeQuote, EditDetails, EditBasket, WriteElsewhere,
           PlaceRefusedByStorage, RewriteCatalog, Expire, BootstrapElsewhere, ResetElsewhere

(***************************************************************************)
(* The mounted page and its call.                                          *)
(***************************************************************************)
\* A step that posts nothing and either leaves the page's phase and submission alone,
\* or ends all waiting for the page.
LEMMA PageFollows ==
  ASSUME TypeOK, PageHoldsItsCall, Kept,
         \/ page' = page
         \/ /\ page # None /\ page' # None
            /\ page'.phase = page.phase /\ page'.recovery = page.recovery
         \/ /\ \A c \in Calls : call'[c].stage = "waiting" => ~call'[c].mine
            /\ \/ page' = None
               \/ page'.phase \in {"idle", "rejected"}
               \/ page'.recovery \in Records
  PROVE  PageHoldsItsCall'
  <1>1. \A c \in Calls : Waiting(c) => Sent(c)
    BY CallFields DEF Waiting
  <1>2. \A c \in Calls : (Waiting(c) /\ call[c].mine)' =>
          /\ Waiting(c) /\ call[c].mine
          /\ call'[c].key = call[c].key /\ call'[c].body = call[c].body
    BY <1>1 DEF Kept, Waiting
  <1>3. CASE page' = page
    BY <1>2, <1>3 DEF PageHoldsItsCall, Editable
  <1>4. CASE /\ page # None /\ page' # None
             /\ page'.phase = page.phase /\ page'.recovery = page.recovery
    BY <1>2, <1>4 DEF PageHoldsItsCall, Editable
  <1>5. CASE /\ \A c \in Calls : call'[c].stage = "waiting" => ~call'[c].mine
             /\ \/ page' = None
                \/ page'.phase \in {"idle", "rejected"}
                \/ page'.recovery \in Records
    BY <1>5 DEF PageHoldsItsCall, Editable, Waiting
  <1>6. QED
    BY <1>3, <1>4, <1>5

\* While the page is editable, or none is mounted, nothing waits for it.
LEMMA NothingWaits ==
  ASSUME PageHoldsItsCall,
         page = None \/ page.phase # "submitting"
  PROVE  \A c \in Calls : Waiting(c) => ~call[c].mine
  BY DEF PageHoldsItsCall

LEMMA PostHeld ==
  ASSUME TypeOK, PageHoldsItsCall, NEW c \in Calls, NEW s \in Records, Post(c, s),
         page # None, page.phase # "submitting", page' = Submitting(s), page' # None
  PROVE  PageHoldsItsCall'
  <1>1. page \in PageStates
    BY PageFields
  <1>2. page'.phase = "submitting" /\ page'.recovery = s
    BY <1>1 DEF Submitting, PageStates
  <1>3. \A d \in Calls \ {c} : call'[d] = call[d]
    BY DEF Post, TypeOK
  <1>4. call'[c].key = s.key /\ call'[c].body = s.body
    BY DEF Post, TypeOK
  <1>5. \A d \in Calls : (Waiting(d) /\ call[d].mine)' => d = c
    BY <1>3, NothingWaits DEF Waiting
  <1>6. s = [key |-> s.key, body |-> s.body]
    BY DEF Records
  <1>7. QED
    BY <1>2, <1>4, <1>5, <1>6 DEF PageHoldsItsCall, Editable

LEMMA StepHolds ==
  ASSUME TypeOK, TypeOK', PageHoldsItsCall, Step
  PROVE  PageHoldsItsCall'
  <1>1. ASSUME NEW c \in Calls, NEW k \in Keys, Place(c, k) PROVE PageHoldsItsCall'
    <2>1. Submission(k) \in Records
      BY <1>1, SubmissionIsRecord DEF Place
    <2>2. page # None /\ page.phase # "submitting"
      BY <1>1 DEF Place, MayPlace, Editable
    <2>3. page' # None
      BY <2>1, <2>2, <1>1, PageFields, SentinelsAreNoValues DEF Place, Submitting, PageStates
    <2>4. QED
      BY <1>1, <2>1, <2>2, <2>3, PostHeld DEF Place
  <1>2. ASSUME NEW c \in Calls, Retry(c) PROVE PageHoldsItsCall'
    <2>1. page # None /\ page.phase # "submitting" /\ page.recovery \in Records
      BY <1>2 DEF Retry, PageHoldsItsCall, Editable
    <2>2. page' # None
      BY <1>2, <2>1, PageFields, SentinelsAreNoValues DEF Retry, Submitting, PageStates
    <2>3. QED
      BY <1>2, <2>1, <2>2, PostHeld DEF Retry
  <1>3. ASSUME Kept PROVE PageHoldsItsCall'
    <2>1. CASE UNCHANGED page
      BY <1>3, <2>1, PageFollows
    <2>2. ASSUME Mount PROVE PageHoldsItsCall'
      <3>1. \A c \in Calls : call'[c].stage = "waiting" => ~call'[c].mine
        BY <2>2, NothingWaits DEF Mount, Waiting
      <3>2. page'.phase \in {"idle", "rejected"} \/ page'.recovery \in Records
        BY <2>2 DEF Mount, NewPage, TypeOK
      <3>3. QED
        BY <1>3, <3>1, <3>2, PageFollows
    <2>3. ASSUME ReadBasket PROVE PageHoldsItsCall'
      <3>1. /\ page # None /\ page' # None
            /\ page'.phase = page.phase /\ page'.recovery = page.recovery
        BY <2>3, PageFields, PageType, SentinelsAreNoValues DEF ReadBasket, PageStates
      <3>2. QED
        BY <1>3, <3>1, PageFollows
    <2>4. ASSUME \/ TakeQuote \/ PlaceRefusedByStorage
                 \/ \E d \in Details : EditDetails(d)
                 \/ \E items \in Items : EditBasket(items)
          PROVE  PageHoldsItsCall'
      <3>1. page \in PageStates /\ Editable /\ UNCHANGED call
        BY <2>4, PageFields DEF TakeQuote, PlaceRefusedByStorage, MayPlace, EditDetails, EditBasket,
          Editable
      <3>2. \A p, b : p \in PageStates => Edited(p, b).phase = "idle"
        BY DEF Edited, PageStates
      <3>3. \A d \in Details : [page EXCEPT !.details = d] \in PageStates
        BY <3>1 DEF PageStates
      <3>4. page'.phase \in {"idle", "rejected"}
        <4>1. CASE TakeQuote \/ PlaceRefusedByStorage
          BY <3>1, <4>1 DEF TakeQuote, PlaceRefusedByStorage, PageStates, Editable
        <4>2. ASSUME NEW d \in Details, EditDetails(d) PROVE page'.phase = "idle"
          BY <3>2, <3>3, <4>2 DEF EditDetails
        <4>3. ASSUME NEW items \in Items, EditBasket(items) PROVE page'.phase = "idle"
          BY <3>1, <3>2, <4>3 DEF EditBasket
        <4>4. QED
          BY <2>4, <4>1, <4>2, <4>3
      <3>5. \A c \in Calls : call'[c].stage = "waiting" => ~call'[c].mine
        BY <3>1, NothingWaits DEF Editable, Waiting
      <3>6. QED
        BY <1>3, <3>4, <3>5, PageFollows
    <2>5. ASSUME NEW c \in Calls, ResolveAccepted(c) PROVE PageHoldsItsCall'
      <3>1. \A d \in Calls : call'[d].stage = "waiting" => ~call'[d].mine
        <4> TAKE d \in Calls
        <4>1. call'[d] = IF d = c THEN Spent(d) ELSE Left(d)
          BY <2>5 DEF ResolveAccepted
        <4>2. Waiting(d) => call[d] \in WaitingCalls
          BY CallFields
        <4>3. QED
          BY <4>1, <4>2 DEF Spent, Left, Waiting, WaitingCalls
      <3>2. QED
        BY <1>3, <2>5, <3>1, PageFollows DEF ResolveAccepted
    <2>6. ASSUME NEW c \in Calls, ResolveRejected(c) \/ ResolveUncertain(c), call[c].mine
          PROVE  PageHoldsItsCall'
      <3>1. Waiting(c)
        BY <2>6 DEF ResolveRejected, Definitive, Arrived, ResolveUncertain
      <3>2. /\ page \in PageStates
            /\ page.recovery = [key |-> call[c].key, body |-> call[c].body]
            /\ page.recovery \in Records
        BY <2>6, <3>1, CallFields, WaitingPage DEF PageHoldsItsCall, Editable
      <3>3. page'.phase = "rejected" \/ page'.recovery \in Records
        BY <2>6, <3>2 DEF ResolveRejected, ResolveUncertain, PageStates
      <3>4. call'[c].stage # "waiting"
        <4>1. call' \in {[call EXCEPT ![c] = Spent(c)], [call EXCEPT ![c] = GivenUp(c)]}
          BY <2>6 DEF ResolveRejected, ResolveUncertain
        <4>2. Spent(c).stage # "waiting" /\ GivenUp(c).stage # "waiting"
          BY <3>1 DEF Spent, GivenUp
        <4>3. QED
          BY <4>1, <4>2 DEF TypeOK
      <3>5. \A d \in Calls : call'[d].stage = "waiting" => ~call'[d].mine
        BY <1>3, <2>6, <3>1, <3>4 DEF PageHoldsItsCall, Kept
      <3>6. QED
        BY <1>3, <3>3, <3>5, PageFollows
    <2>7. ASSUME Leave \/ Reload PROVE PageHoldsItsCall'
      <3>1. \A d \in Calls : call'[d].stage = "waiting" => ~call'[d].mine
        <4> TAKE d \in Calls
        <4>1. call'[d] \in {Left(d), GivenUp(d)}
          BY <2>7 DEF Leave, Reload
        <4>2. Waiting(d) => call[d] \in WaitingCalls
          BY CallFields
        <4>3. QED
          BY <4>1, <4>2 DEF Spent, Left, GivenUp, Waiting, WaitingCalls
      <3>2. QED
        BY <1>3, <2>7, <3>1, PageFollows DEF Leave, Reload
    <2>8. ASSUME NEW c \in Calls, ResolveRejected(c) \/ ResolveUncertain(c), ~call[c].mine
          PROVE  UNCHANGED page
      BY <2>8 DEF ResolveRejected, ResolveUncertain
    <2>9. QED
      BY <1>1, <1>2, <2>1, <2>2, <2>3, <2>4, <2>5, <2>6, <2>7, <2>8
         DEF Step, WriteElsewhere, HandleUnauthorized, HandleLimited, Handle, Resend,
             RewriteCatalog, Expire, BootstrapElsewhere, ResetElsewhere, StartFreshGuest
  <1>4. QED
    BY <1>1, <1>2, <1>3, StepKeeps

(***************************************************************************)
(* Submissions: nothing but placing an order makes one.                    *)
(***************************************************************************)
LEMMA Submitted ==
  ASSUME NEW s
  PROVE  s \in Submissions <=>
           \/ \E c \in Calls : Sent(c) /\ s = [key |-> call[c].key, body |-> call[c].body]
           \/ s = record /\ record \notin {None, Damaged}
           \/ page # None /\ s = page.recovery /\ s # None
  BY DEF Submissions, Sent

LEMMA SubmittedNext ==
  ASSUME NEW s
  PROVE  s \in Submissions' <=>
           \/ \E c \in Calls : /\ call'[c] # Unused
                               /\ s = [key |-> call'[c].key, body |-> call'[c].body]
           \/ s = record' /\ record' \notin {None, Damaged}
           \/ page' # None /\ s = page'.recovery /\ s # None
  BY DEF Submissions, Unused

LEMMA SubmissionsAreRecords ==
  ASSUME TypeOK
  PROVE  Submissions \subseteq Records
  <1> SUFFICES ASSUME NEW s \in Submissions PROVE s \in Records
    OBVIOUS
  <1>1. ASSUME NEW c \in Calls, Sent(c)
        PROVE  [key |-> call[c].key, body |-> call[c].body] \in Records
    BY <1>1, CallFields DEF Records
  <1>2. ASSUME page # None, page.recovery # None PROVE page.recovery \in Records
    BY <1>2, PageFields DEF PageStates
  <1>3. record \notin {None, Damaged} => record \in Records
    BY DEF TypeOK
  <1>4. QED
    BY <1>1, <1>2, <1>3, Submitted

\* What a step does to the mounted page's submission.
LEMMA PageTurns ==
  ASSUME TypeOK, PageHoldsItsCall, Step
  PROVE  \/ page' = page
         \/ page' = None
         \/ Mount
         \/ /\ page # None /\ page'.recovery \in {None, page.recovery}
            /\ page'.writable = page.writable
         \/ \E c \in Calls, k \in Keys : Place(c, k)
  <1> DEFINE Turned == /\ page # None /\ page'.recovery \in {None, page.recovery}
                       /\ page'.writable = page.writable
  <1>1. \A p, b : p \in PageStates =>
          Edited(p, b).recovery = p.recovery /\ Edited(p, b).writable = p.writable
    BY DEF Edited, PageStates
  <1>2. page # None => page \in PageStates
    BY PageFields
  <1>3. ASSUME NEW d \in Details, EditDetails(d) PROVE Turned
    <2>1. /\ [page EXCEPT !.details = d] \in PageStates
          /\ [page EXCEPT !.details = d].recovery = page.recovery
          /\ [page EXCEPT !.details = d].writable = page.writable
      BY <1>2, <1>3 DEF EditDetails, Editable, PageStates
    <2>2. QED
      BY <1>1, <1>3, <2>1 DEF EditDetails, Editable
  <1>4. ASSUME NEW items \in Items, EditBasket(items) PROVE Turned
    BY <1>1, <1>2, <1>4 DEF EditBasket, Editable
  <1>5. ASSUME ReadBasket \/ TakeQuote \/ PlaceRefusedByStorage PROVE Turned
    BY <1>2, <1>5 DEF ReadBasket, TakeQuote, PlaceRefusedByStorage, MayPlace, Editable, PageStates
  <1>6. ASSUME NEW c \in Calls, Retry(c) PROVE Turned
    BY <1>2, <1>6 DEF Retry, Submitting, PageStates
  <1>7. ASSUME NEW c \in Calls, ResolveRejected(c) \/ ResolveUncertain(c), call[c].mine
        PROVE  Turned
    <2>1. Waiting(c) /\ page \in PageStates
      BY <1>7, WaitingPage DEF ResolveRejected, Definitive, Arrived, ResolveUncertain
    <2>2. page # None
      BY <2>1, SentinelsAreNoValues
    <2>3. QED
      BY <1>7, <2>1, <2>2 DEF ResolveRejected, ResolveUncertain, PageStates
  <1>8. ASSUME NEW c \in Calls, ResolveRejected(c) \/ ResolveUncertain(c), ~call[c].mine
        PROVE  page' = page
    BY <1>8 DEF ResolveRejected, ResolveUncertain
  <1>9. ASSUME NEW c \in Calls, ResolveAccepted(c) PROVE page' = None
    BY <1>9 DEF ResolveAccepted
  <1>10. ASSUME Leave \/ Reload PROVE page' = None
    BY <1>10 DEF Leave, Reload
  <1>11. QED
    BY <1>3, <1>4, <1>5, <1>6, <1>7, <1>8, <1>9, <1>10
       DEF Step, WriteElsewhere, HandleUnauthorized, HandleLimited, Handle, Resend,
           RewriteCatalog, Expire, BootstrapElsewhere, ResetElsewhere, StartFreshGuest

\* The stored submission is only written by Place.
LEMMA RecordStays ==
  ASSUME Step
  PROVE  record' \in {None, record} \/ \E c \in Calls, k \in Keys : Place(c, k)
  <1>1. ASSUME NEW c \in Calls,
               \/ Retry(c) \/ HandleUnauthorized(c) \/ HandleLimited(c) \/ Handle(c)
               \/ ResolveAccepted(c) \/ ResolveRejected(c) \/ ResolveUncertain(c) \/ Resend(c)
        PROVE  record' \in {None, record}
    BY <1>1 DEF Retry, HandleUnauthorized, HandleLimited, Handle, ResolveAccepted,
      ResolveRejected, ResolveUncertain, Resend, ClearRecord
  <1>2. QED
    BY <1>1
       DEF Step, Mount, ReadBasket, TakeQuote, EditDetails, EditBasket, WriteElsewhere,
           PlaceRefusedByStorage, Leave, Reload, RewriteCatalog, Expire, BootstrapElsewhere,
           ResetElsewhere, StartFreshGuest, ClearRecord

LEMMA NoNewSubmission ==
  ASSUME TypeOK, PageHoldsItsCall, Step
  PROVE  \/ Submissions' \subseteq Submissions
         \/ \E c \in Calls, k \in Keys : Place(c, k)
  <1> SUFFICES ASSUME ~ \E c \in Calls, k \in Keys : Place(c, k),
                      NEW s \in Submissions'
               PROVE  s \in Submissions
    OBVIOUS
  <1>1. CASE s = record' /\ record' \notin {None, Damaged}
    BY <1>1, RecordStays, Submitted
  <1>2. CASE page' # None /\ s = page'.recovery /\ s # None
    <2>1. CASE Mount
      <3>1. page'.recovery \in {None, record} /\ (record = Damaged => page'.recovery = None)
        BY <2>1 DEF Mount, NewPage
      <3>2. QED
        BY <1>2, <3>1, Submitted
    <2>2. CASE ~Mount
      BY <1>2, <2>2, PageTurns, Submitted
    <2>3. QED
      BY <2>1, <2>2
  <1>3. ASSUME NEW c \in Calls, call'[c] # Unused,
               s = [key |-> call'[c].key, body |-> call'[c].body]
        PROVE  s \in Submissions
    <2>1. CASE Kept
      BY <1>3, <2>1, Submitted DEF Kept
    <2>2. ASSUME NEW d \in Calls, Retry(d) PROVE s \in Submissions
      <3>1. page # None /\ page.recovery \in Records
        BY <2>2 DEF Retry, PageHoldsItsCall, Editable
      <3>2. CASE c = d
        <4>1. s = page.recovery
          BY <1>3, <2>2, <3>1, <3>2 DEF Retry, Post, TypeOK, Records
        <4>2. QED
          BY <3>1, <4>1, Submitted, SentinelsAreNoValues
      <3>3. CASE c # d
        BY <1>3, <2>2, <3>3, Submitted DEF Retry, Post, TypeOK, Sent
      <3>4. QED
        BY <3>2, <3>3
    <2>3. QED
      BY <2>1, <2>2, StepKeeps
  <1>4. QED
    BY <1>1, <1>2, <1>3, SubmittedNext

\* Place makes the one submission that it draws a key for.
LEMMA PlaceSubmits ==
  ASSUME TypeOK, NEW c \in Calls, NEW k \in Keys, Place(c, k)
  PROVE  /\ Submission(k) \in Records /\ Submission(k).key = k
         /\ Submissions' \subseteq Submissions \union {Submission(k)}
         /\ verdict[k] = "unused" /\ verdict' = [verdict EXCEPT ![k] = "open"]
  <1>1. Submission(k) \in Records /\ Submission(k).key = k
    BY SubmissionIsRecord DEF Place, Submission
  <1>2. page'.recovery = Submission(k)
    BY PageFields DEF Place, MayPlace, Editable, Submitting, PageStates
  <1>3. ASSUME NEW s \in Submissions' PROVE s \in Submissions \union {Submission(k)}
    <2>1. CASE s = record'
      BY <2>1 DEF Place
    <2>2. CASE s = page'.recovery
      BY <1>2, <2>2
    <2>3. ASSUME NEW d \in Calls, call'[d] # Unused,
                 s = [key |-> call'[d].key, body |-> call'[d].body]
          PROVE  s \in Submissions \union {Submission(k)}
      <3>1. CASE d = c
        BY <1>1, <2>3, <3>1 DEF Place, Post, TypeOK, Records
      <3>2. CASE d # c
        BY <2>3, <3>2, Submitted DEF Place, Post, TypeOK, Sent
      <3>3. QED
        BY <3>1, <3>2
    <2>4. QED
      BY <2>1, <2>2, <2>3, SubmittedNext
  <1>4. QED
    BY <1>1, <1>3 DEF Place

(***************************************************************************)
(* What a step does to the other parts of the state.                       *)
(***************************************************************************)
\* What was sent stays sent, whatever happens.
LEMMA SentStays ==
  ASSUME TypeOK, Step, NEW c \in Calls, Sent(c)
  PROVE  call'[c] # Unused /\ call'[c].key = call[c].key /\ call'[c].body = call[c].body
  <1>1. ASSUME NEW d \in Calls, NEW s, Post(d, s) PROVE c # d /\ call'[c] = call[c]
    BY <1>1 DEF Post, Sent, TypeOK
  <1>2. QED
    BY <1>1, StepKeeps DEF Kept, Retry, Place, Sent

\* A key is drawn once, and only by Place.
LEMMA VerdictMoves ==
  ASSUME TypeOK, Step, NEW k \in Keys
  PROVE  \/ verdict'[k] = verdict[k]
         \/ verdict'[k] = "open" /\ \E c \in Calls : Place(c, k)
         \/ /\ verdict'[k] = "accepted"
            /\ \E c \in Calls : call[c].key = k /\ ResolveAccepted(c)
         \/ /\ verdict'[k] = "rejected"
            /\ \E c \in Calls : call[c].key = k /\ ResolveRejected(c)
         \/ verdict'[k] = "abandoned" /\ StartFreshGuest
  <1>1. ASSUME NEW c \in Calls, NEW j \in Keys, Place(c, j)
        PROVE  verdict'[k] = verdict[k] \/ (j = k /\ verdict'[k] = "open")
    BY <1>1 DEF Place, TypeOK
  <1>2. ASSUME NEW c \in Calls, ResolveAccepted(c)
        PROVE  verdict'[k] = verdict[k] \/ (call[c].key = k /\ verdict'[k] = "accepted")
    BY <1>2 DEF ResolveAccepted, TypeOK
  <1>3. ASSUME NEW c \in Calls, ResolveRejected(c)
        PROVE  verdict'[k] = verdict[k] \/ (call[c].key = k /\ verdict'[k] = "rejected")
    BY <1>3 DEF ResolveRejected, TypeOK
  <1>4. ASSUME StartFreshGuest PROVE verdict'[k] \in {verdict[k], "abandoned"}
    BY <1>4 DEF StartFreshGuest
  <1>5. ASSUME NEW c \in Calls,
               \/ Retry(c) \/ HandleUnauthorized(c) \/ HandleLimited(c) \/ Handle(c)
               \/ ResolveUncertain(c) \/ Resend(c)
        PROVE  verdict'[k] = verdict[k]
    BY <1>5 DEF Retry, HandleUnauthorized, HandleLimited, Handle, ResolveUncertain, Resend
  <1>6. QED
    BY <1>1, <1>2, <1>3, <1>4, <1>5
       DEF Step, Mount, ReadBasket, TakeQuote, EditDetails, EditBasket, WriteElsewhere,
           PlaceRefusedByStorage, Leave, Reload, RewriteCatalog, Expire, BootstrapElsewhere,
           ResetElsewhere

\* The guests of this browser come and go, and never come back.
LEMMA SessionMoves ==
  ASSUME TypeOK, Step
  PROVE  \A g \in Guests :
           /\ session[g] = "gone" => session'[g] = "gone"
           /\ session[g] = "live" => session'[g] \in {"live", "gone"}
  <1>1. ASSUME Bootstrap
        PROVE  \A g \in Guests : session[g] # "unissued" => session'[g] = session[g]
    BY <1>1 DEF Bootstrap, TypeOK
  <1>2. ASSUME NEW new \in Guests, ResetGuest(new)
        PROVE  \A g \in Guests :
                 /\ session[g] = "gone" => session'[g] = "gone"
                 /\ session[g] = "live" => session'[g] \in {"live", "gone"}
    BY <1>2 DEF ResetGuest, TypeOK
  <1>3. CASE Expire
    BY <1>3 DEF Expire, TypeOK
  <1>4. CASE UNCHANGED session
    BY <1>4
  <1>5. ASSUME NEW c \in Calls,
               \/ Retry(c) \/ HandleUnauthorized(c) \/ HandleLimited(c) \/ Handle(c)
               \/ ResolveAccepted(c) \/ ResolveRejected(c) \/ ResolveUncertain(c)
        PROVE  UNCHANGED session
    BY <1>5 DEF Retry, HandleUnauthorized, HandleLimited, Handle, ResolveAccepted,
      ResolveRejected, ResolveUncertain, server
  <1>6. ASSUME NEW c \in Calls, NEW k \in Keys, Place(c, k) PROVE UNCHANGED session
    BY <1>6 DEF Place, server
  <1>7. QED
    BY <1>1, <1>2, <1>3, <1>4, <1>5, <1>6
       DEF Step, Mount, ReadBasket, TakeQuote, EditDetails, EditBasket, WriteElsewhere,
           PlaceRefusedByStorage, Leave, Reload, RewriteCatalog, BootstrapElsewhere, Resend,
           ResetElsewhere, StartFreshGuest, server

\* The service accepts an order, or a guest goes, or its orders and digests stay.
AcceptsCall(c) ==
  /\ Travelling(c) /\ session[call[c].guest] = "live"
  /\ Outcome(call[c].guest, call[c].key, call[c].body).status = "accept"
  /\ Service!Accept(call[c].guest, call[c].key)
  /\ digest' = [digest EXCEPT ![call[c].guest][call[c].key] = call[c].body]
  /\ Answered(c, Status("receipt"))
  /\ UNCHANGED <<catalog, session, guest, record, page, verdict>>

LEMMA OrdersMove ==
  ASSUME Step
  PROVE  \/ UNCHANGED <<accepted, digest>>
         \/ \E new \in Guests : ResetGuest(new) /\ "reset" \in weather
         \/ \E c \in Calls : AcceptsCall(c)
  <1>1. ASSUME NEW c \in Calls, Handle(c)
        PROVE  UNCHANGED <<accepted, digest>> \/ AcceptsCall(c)
    BY <1>1 DEF Handle, AcceptsCall
  <1>2. ASSUME NEW c \in Calls,
               \/ Retry(c) \/ HandleUnauthorized(c) \/ HandleLimited(c)
               \/ ResolveAccepted(c) \/ ResolveRejected(c) \/ ResolveUncertain(c) \/ Resend(c)
        PROVE  UNCHANGED <<accepted, digest>>
    BY <1>2 DEF Retry, HandleUnauthorized, HandleLimited, ResolveAccepted,
      ResolveRejected, ResolveUncertain, Resend, server
  <1>3. ASSUME NEW c \in Calls, NEW k \in Keys, Place(c, k) PROVE UNCHANGED <<accepted, digest>>
    BY <1>3 DEF Place, server
  <1>4. QED
    BY <1>1, <1>2, <1>3
       DEF Step, Mount, ReadBasket, TakeQuote, EditDetails, EditBasket, WriteElsewhere,
           PlaceRefusedByStorage, Leave, Reload, RewriteCatalog, Expire, BootstrapElsewhere,
           ResetElsewhere, StartFreshGuest, server, Service!Open, Service!Write

\* A call that the service may still process, or that waits, was posted or resent just
\* now, or keeps its guest and its answer, or the service has just given it one.
CarriedOn(c) ==
  /\ call[c].stage \in {"waiting", "given_up"} /\ call'[c].guest = call[c].guest
  /\ call'[c].stage = "waiting" => Waiting(c) /\ call'[c].answer = call[c].answer

LEMMA TurnsCarryOn ==
  ASSUME TypeOK, NEW c \in Calls, call'[c] \in {call[c], Left(c), GivenUp(c), Spent(c)},
         call'[c].stage \in {"waiting", "given_up"}
  PROVE  CarriedOn(c)
  <1>1. Waiting(c) => call[c] \in WaitingCalls
    BY CallFields
  <1>2. CASE call'[c] = call[c]
    BY <1>2 DEF CarriedOn, Waiting
  <1>3. CASE call'[c] = Left(c)
    BY <1>1, <1>3 DEF CarriedOn, Left, Waiting, WaitingCalls
  <1>4. CASE call'[c] = GivenUp(c)
    BY <1>1, <1>4 DEF CarriedOn, GivenUp, Waiting, WaitingCalls, Spent
  <1>5. QED
    BY <1>2, <1>3, <1>4 DEF Spent

LEMMA CallsMove ==
  ASSUME TypeOK, Step, NEW c \in Calls, call'[c].stage \in {"waiting", "given_up"}
  PROVE  \/ CarriedOn(c)
         \/ /\ Retry(c) \/ \E k \in Keys : Place(c, k)
            /\ call'[c].guest = guest /\ call'[c].answer = None
         \/ /\ Resend(c)
            /\ call'[c].guest = guest' /\ call'[c].answer = None
         \/ /\ HandleUnauthorized(c) \/ HandleLimited(c) \/ Handle(c)
            /\ Waiting(c) /\ call'[c].stage = "waiting" /\ call'[c].guest = call[c].guest
  <1> DEFINE Turned == call'[c] \in {call[c], Left(c), GivenUp(c), Spent(c)}
             Answers1 == /\ Waiting(c) /\ call'[c].stage = "waiting"
                         /\ call'[c].guest = call[c].guest
             Posts1 == call'[c].guest = guest /\ call'[c].answer = None
  <1>0. call \in [Calls -> CallStates]
    BY DEF TypeOK
  <1>1. ASSUME NEW d \in Calls, NEW s, Post(d, s) PROVE Turned \/ (c = d /\ Posts1)
    BY <1>0, <1>1 DEF Post
  <1>2. ASSUME NEW d \in Calls, NEW a, Answered(d, a) PROVE Turned \/ (c = d /\ Answers1)
    <2>1. Waiting(c) => call[c] \in WaitingCalls
      BY CallFields
    <2>2. CASE c = d /\ Waiting(c)
      BY <1>0, <1>2, <2>1, <2>2 DEF Answered, WaitingCalls
    <2>3. CASE ~(c = d /\ Waiting(c))
      BY <1>0, <1>2, <2>3 DEF Answered
    <2>4. QED
      BY <2>2, <2>3
  <1>3. ASSUME NEW d \in Calls, Resend(d)
        PROVE  Turned \/ (c = d /\ call'[c].guest = guest' /\ call'[c].answer = None)
    <2>1. call[d] \in WaitingCalls
      BY <1>3, CallFields DEF Resend, Arrived
    <2>2. QED
      BY <1>0, <1>3, <2>1 DEF Resend, WaitingCalls
  <1>4. ASSUME NEW d \in Calls,
               ResolveAccepted(d) \/ ResolveRejected(d) \/ ResolveUncertain(d)
        PROVE  Turned
    BY <1>0, <1>4 DEF ResolveAccepted, ResolveRejected, ResolveUncertain
  <1>5. ASSUME Leave \/ Reload \/ StartFreshGuest PROVE Turned
    BY <1>5 DEF Leave, Reload, StartFreshGuest
  <1>6. CASE Turned
    BY <1>6, TurnsCarryOn
  <1>7. ASSUME NEW d \in Calls, NEW k \in Keys, Place(d, k)
        PROVE  Turned \/ (c = d /\ Posts1)
    BY <1>1, <1>7 DEF Place
  <1>8. ASSUME NEW d \in Calls, Retry(d) PROVE Turned \/ (c = d /\ Posts1)
    BY <1>1, <1>8 DEF Retry
  <1>9. ASSUME NEW d \in Calls, HandleUnauthorized(d) \/ HandleLimited(d) \/ Handle(d)
        PROVE  Turned \/ (c = d /\ Answers1)
    BY <1>2, <1>9 DEF HandleUnauthorized, HandleLimited, Handle
  <1>10. CASE UNCHANGED call
    BY <1>10, <1>6
  <1>11. QED
    BY <1>3, <1>4, <1>5, <1>6, <1>7, <1>8, <1>9, <1>10
       DEF Step, Mount, ReadBasket, TakeQuote, EditDetails, EditBasket, WriteElsewhere,
           PlaceRefusedByStorage, RewriteCatalog, Expire, BootstrapElsewhere, ResetElsewhere

(***************************************************************************)
(* The evidence, step by step.                                             *)
(***************************************************************************)
LEMMA KeysStayDrawn ==
  ASSUME TypeOK, PageHoldsItsCall, KeysAreDrawn, Step
  PROVE  KeysAreDrawn'
  <1> SUFFICES ASSUME NEW s \in Submissions' PROVE verdict'[s.key] # "unused"
    BY DEF KeysAreDrawn
  <1>1. CASE s \in Submissions
    <2>1. s.key \in Keys /\ verdict[s.key] # "unused"
      BY <1>1, SubmissionsAreRecords DEF KeysAreDrawn, Records
    <2>2. QED
      BY <2>1, VerdictMoves
  <1>2. ASSUME NEW c \in Calls, NEW k \in Keys, Place(c, k), s \notin Submissions
        PROVE  verdict'[s.key] # "unused"
    BY <1>2, PlaceSubmits DEF TypeOK
  <1>3. QED
    BY <1>1, <1>2, NoNewSubmission

LEMMA BodiesStayOne ==
  ASSUME TypeOK, PageHoldsItsCall, KeysAreDrawn, OneBodyPerKey, Step
  PROVE  OneBodyPerKey'
  <1>1. ASSUME Submissions' \subseteq Submissions PROVE OneBodyPerKey'
    BY <1>1 DEF OneBodyPerKey
  <1>2. ASSUME NEW c \in Calls, NEW k \in Keys, Place(c, k) PROVE OneBodyPerKey'
    <2>1. \A s \in Submissions : s.key # k
      BY <1>2, PlaceSubmits DEF KeysAreDrawn
    <2>2. QED
      BY <1>2, <2>1, PlaceSubmits DEF OneBodyPerKey
  <1>3. QED
    BY <1>1, <1>2, NoNewSubmission

\* A call that was sent has its submission among those that exist.
LEMMA SentIsSubmitted ==
  ASSUME NEW c \in Calls, Sent(c)
  PROVE  [key |-> call[c].key, body |-> call[c].body] \in Submissions
  BY Submitted

LEMMA DigestsStaySent ==
  ASSUME TypeOK, DigestsWereSent, Step
  PROVE  DigestsWereSent'
  <1> SUFFICES ASSUME NEW g \in Guests, NEW k \in Keys, digest'[g][k] # None
               PROVE  \E c \in Calls :
                        Sent(c) /\ call[c].key = k /\ call[c].body = digest'[g][k]
    BY SentStays DEF DigestsWereSent, Sent
  <1>1. CASE digest'[g][k] = digest[g][k]
    BY <1>1 DEF DigestsWereSent
  <1>2. ASSUME NEW new \in Guests, ResetGuest(new)
        PROVE  digest'[g][k] \in {None, digest[g][k]}
    BY <1>2 DEF ResetGuest, TypeOK
  <1>3. ASSUME NEW c \in Calls, AcceptsCall(c)
        PROVE  \/ digest'[g][k] = digest[g][k]
               \/ Sent(c) /\ call[c].key = k /\ call[c].body = digest'[g][k]
    <2>1. Sent(c)
      BY <1>3, CallFields DEF AcceptsCall, Travelling, Waiting
    <2>2. QED
      BY <1>3, <2>1 DEF AcceptsCall, TypeOK
  <1>4. QED
    BY <1>1, <1>2, <1>3, OrdersMove

\* A call the service may process belongs to a known guest.
LEMMA TravellingFields ==
  ASSUME TypeOK, NEW c \in Calls, Travelling(c) \/ Waiting(c)
  PROVE  Sent(c) /\ call[c].guest \in Guests /\ call[c].key \in Keys /\ call[c].body \in Bodies
  BY CallFields DEF Travelling, Waiting, WaitingCalls, GivenUpCalls

LEMMA DigestsStayMatched ==
  ASSUME TypeOK, DigestsMatchOrders, Step
  PROVE  DigestsMatchOrders'
  <1>0. /\ digest \in [Guests -> [Keys -> Bodies \union {None}]]
        /\ accepted \in [Guests -> SUBSET [key : Keys, rev : Nat, items : Items]]
    BY DEF TypeOK
  <1>1. CASE UNCHANGED <<accepted, digest>>
    BY <1>1 DEF DigestsMatchOrders
  <1>2. ASSUME NEW new \in Guests, ResetGuest(new) PROVE DigestsMatchOrders'
    <2>1. \A g \in Guests : /\ g # guest => digest'[g] = digest[g] /\ accepted'[g] = accepted[g]
                            /\ g = guest => digest'[g] = [k \in Keys |-> None]
                            /\ g = guest => accepted'[g] = {}
      BY <1>0, <1>2 DEF ResetGuest, Service!Forget
    <2>2. QED
      BY <2>1 DEF DigestsMatchOrders
  <1>3. ASSUME NEW c \in Calls, AcceptsCall(c) PROVE DigestsMatchOrders'
    <2> DEFINE cg == call[c].guest
               ck == call[c].key
    <2>1. cg \in Guests /\ ck \in Keys /\ call[c].body \in Bodies
      BY <1>3, TravellingFields DEF AcceptsCall
    <2>2. \A g \in Guests, k \in Keys :
            digest'[g][k] = IF g = cg /\ k = ck THEN call[c].body ELSE digest[g][k]
      BY <1>0, <1>3, <2>1 DEF AcceptsCall
    <2>3. \A g \in Guests :
            accepted'[g] = IF g = cg
              THEN accepted[g] \union
                     {[key |-> ck, rev |-> cart[cg].revision, items |-> cart[cg].items]}
              ELSE accepted[g]
      BY <1>0, <1>3, <2>1 DEF AcceptsCall, Service!Accept
    <2>4. \A g \in Guests, k \in Keys :
            (\E o \in accepted'[g] : o.key = k)
              <=> (\E o \in accepted[g] : o.key = k) \/ (g = cg /\ k = ck)
      <3> TAKE g \in Guests, k \in Keys
      <3> DEFINE order == [key |-> ck, rev |-> cart[cg].revision, items |-> cart[cg].items]
      <3>1. order.key = ck
        OBVIOUS
      <3> HIDE DEF order
      <3>2. accepted'[g] = IF g = cg THEN accepted[g] \union {order} ELSE accepted[g]
        BY <2>3 DEF order
      <3>3. QED
        BY <3>1, <3>2
    <2>5. call[c].body # None
      BY <2>1, SentinelsAreNoValues
    <2> HIDE DEF cg, ck
    <2>6. QED
      BY <2>2, <2>4, <2>5 DEF DigestsMatchOrders
  <1>4. QED
    BY <1>1, <1>2, <1>3, OrdersMove

\* A digest goes only when its guest does.
LEMMA DigestStays ==
  ASSUME TypeOK, Step, NEW g \in Guests, NEW k \in Keys, digest[g][k] # None
  PROVE  session'[g] = "gone" \/ digest'[g][k] # None
  <1>1. ASSUME NEW new \in Guests, ResetGuest(new)
        PROVE  session'[g] = "gone" \/ digest'[g][k] = digest[g][k]
    BY <1>1 DEF ResetGuest, TypeOK
  <1>2. ASSUME NEW c \in Calls, AcceptsCall(c) PROVE digest'[g][k] # None
    <2>1. call[c].body # None
      BY <1>2, TravellingFields, SentinelsAreNoValues DEF AcceptsCall
    <2>2. QED
      BY <1>2, <2>1 DEF AcceptsCall, TypeOK
  <1>3. QED
    BY <1>1, <1>2, OrdersMove

LEMMA ReceiptsStayTrue ==
  ASSUME TypeOK, ReceiptsAreTrue, Step
  PROVE  ReceiptsAreTrue'
  <1> SUFFICES ASSUME NEW c \in Calls, call'[c].stage = "waiting", call'[c].answer # None,
                      call'[c].answer.status = "receipt"
               PROVE  \/ session'[call'[c].guest] = "gone"
                      \/ digest'[call'[c].guest][call'[c].key] # None
    BY DEF ReceiptsAreTrue, Waiting
  <1>1. /\ Waiting(c) /\ call'[c].guest = call[c].guest
        /\ \/ call'[c].answer = call[c].answer
           \/ HandleUnauthorized(c) \/ HandleLimited(c) \/ Handle(c)
    BY CallsMove DEF CarriedOn
  <1>2. call[c].guest \in Guests /\ call[c].key \in Keys /\ call'[c].key = call[c].key
    BY <1>1, TravellingFields, SentStays
  <1>3. CASE call'[c].answer = call[c].answer
    <2>1. session[call[c].guest] = "gone" \/ digest[call[c].guest][call[c].key] # None
      BY <1>1, <1>3 DEF ReceiptsAreTrue
    <2>2. QED
      BY <1>1, <1>2, <2>1, SessionMoves, DigestStays
  <1>4. ASSUME NEW a \in Answers, Answered(c, a) PROVE call'[c].answer = a
    BY <1>1, <1>4, CallFields DEF Answered, TypeOK, WaitingCalls
  <1>5. ~HandleUnauthorized(c) /\ ~HandleLimited(c)
    BY <1>4, StatusIsAnswer DEF HandleUnauthorized, HandleLimited, Status
  <1>6. CASE Handle(c)
    <2> DEFINE outcome == Outcome(call[c].guest, call[c].key, call[c].body)
    <2>1. CASE outcome.status = "accept"
      <3>1. digest' = [digest EXCEPT ![call[c].guest][call[c].key] = call[c].body]
        BY <1>6, <2>1 DEF Handle
      <3>2. call[c].body # None
        BY <1>1, TravellingFields, SentinelsAreNoValues
      <3>3. QED
        BY <1>1, <1>2, <3>1, <3>2 DEF TypeOK
    <2>2. CASE outcome.status # "accept"
      <3>1. outcome.status = "receipt" /\ UNCHANGED digest
        BY <1>2, <1>4, <1>6, <2>2, OutcomeIsAnswer DEF Handle
      <3>2. digest[call[c].guest][call[c].key] # None
        BY <3>1 DEF Outcome, Status
      <3>3. QED
        BY <1>1, <1>2, <3>1, <3>2
    <2>3. QED
      BY <2>1, <2>2
  <1>7. QED
    BY <1>1, <1>3, <1>5, <1>6

LEMMA DamageStaysInert ==
  ASSUME TypeOK, PageHoldsItsCall, DamageIsInert, Step
  PROVE  DamageIsInert'
  <1> SUFFICES ASSUME record' = Damaged
               PROVE  /\ \A c \in Calls : call'[c] = Unused
                      /\ page' # None => ~page'.writable /\ page'.phase \in {"idle", "rejected"}
    BY DEF DamageIsInert, Sent
  <1>1. record = Damaged
    BY RecordStays, PlaceSubmits, SentinelsAreNoValues DEF Place
  <1>2. /\ \A c \in Calls : ~Sent(c) /\ ~Waiting(c)
        /\ page # None => ~page.writable /\ page.phase \in {"idle", "rejected"}
    BY <1>1, UnusedStays DEF DamageIsInert
  <1>3. /\ \A c \in Calls, k \in Keys : ~Place(c, k)
        /\ \A c \in Calls : ~Retry(c)
        /\ ~PlaceRefusedByStorage
    BY <1>2 DEF Place, MayPlace, Editable, Retry, PlaceRefusedByStorage
  <1>4. \A c \in Calls : call'[c] = Unused
    BY <1>2, <1>3, StepKeeps DEF Kept
  <1>5. ASSUME page' # None
        PROVE  ~page'.writable /\ page'.phase \in {"idle", "rejected"}
    <2>1. CASE page' = page
      BY <1>2, <1>5, <2>1
    <2>2. CASE Mount
      BY <1>1, <2>2, SentinelsAreNoValues DEF Mount, NewPage
    <2>3. ASSUME page # None, page'.writable = page.writable
          PROVE  ~page'.writable
      BY <1>2, <2>3
    <2>4. ASSUME page' # page, ~Mount PROVE page'.phase \in {"idle", "rejected"}
      <3>1. \A p, b : p \in PageStates => Edited(p, b).phase = "idle"
        BY DEF Edited, PageStates
      <3>2. page # None => page \in PageStates
        BY PageFields
      <3>3. ASSUME NEW d \in Details, EditDetails(d) PROVE page'.phase = "idle"
        <4>1. [page EXCEPT !.details = d] \in PageStates
          BY <3>2, <3>3 DEF EditDetails, Editable, PageStates
        <4>2. QED
          BY <3>1, <3>3, <4>1 DEF EditDetails
      <3>4. ASSUME NEW items \in Items, EditBasket(items) PROVE page'.phase = "idle"
        BY <3>1, <3>2, <3>4 DEF EditBasket, Editable
      <3>5. ASSUME ReadBasket \/ TakeQuote PROVE page'.phase = page.phase /\ page # None
        BY <3>2, <3>5 DEF ReadBasket, TakeQuote, Editable, PageStates
      <3>6. ASSUME NEW c \in Calls,
                   ResolveAccepted(c) \/ ResolveRejected(c) \/ ResolveUncertain(c) \/ Resend(c)
            PROVE  FALSE
        BY <1>2, <3>6 DEF ResolveAccepted, ResolveRejected, Definitive, Arrived,
          ResolveUncertain, Resend
      <3>7. ASSUME Leave \/ Reload PROVE page' = None
        BY <3>7 DEF Leave, Reload
      <3>8. QED
        BY <1>2, <1>3, <1>5, <2>4, <3>3, <3>4, <3>5, <3>6, <3>7
           DEF Step, WriteElsewhere, HandleUnauthorized, HandleLimited, Handle,
               RewriteCatalog, Expire, BootstrapElsewhere, ResetElsewhere, StartFreshGuest
    <2>5. QED
      BY <1>2, <1>3, <1>5, <2>1, <2>2, <2>3, <2>4, PageTurns
  <1>6. QED
    BY <1>4, <1>5

LEMMA StepEvidence ==
  ASSUME TypeOK, PageHoldsItsCall, Evidence, Step
  PROVE  Evidence'
  BY KeysStayDrawn, BodiesStayOne, DigestsStaySent, DigestsStayMatched, ReceiptsStayTrue,
     DamageStaysInert DEF Evidence

(***************************************************************************)
(* The open attempt is the stored one, unless a waiting page is left.      *)
(***************************************************************************)
\* A call goes on waiting for the mounted page unless that page goes.
LEMMA MineMoves ==
  ASSUME TypeOK, Step, NEW c \in Calls, call'[c].stage = "waiting"
  PROVE  \/ call'[c].mine
         \/ Waiting(c) /\ ~call[c].mine
         \/ Leave
         \/ \E d \in Calls \ {c} : ResolveAccepted(d)
  <1> DEFINE Same == call'[c] \in {call[c], GivenUp(c), Spent(c)} \/ call'[c].mine
  <1>0. call \in [Calls -> CallStates] /\ (Waiting(c) => call[c] \in WaitingCalls)
    BY CallFields DEF TypeOK
  <1>1. ASSUME NEW d \in Calls, NEW s, Post(d, s) PROVE Same
    BY <1>0, <1>1 DEF Post
  <1>2. ASSUME NEW d \in Calls, NEW a, Answered(d, a)
        PROVE  Same \/ (Waiting(c) /\ ~call[c].mine)
    <2>1. CASE c = d /\ Waiting(c)
      BY <1>0, <1>2, <2>1 DEF Answered, WaitingCalls
    <2>2. CASE ~(c = d /\ Waiting(c))
      BY <1>0, <1>2, <2>2 DEF Answered
    <2>3. QED
      BY <2>1, <2>2
  <1>3. ASSUME NEW d \in Calls, Resend(d) PROVE Same \/ (Waiting(c) /\ ~call[c].mine)
    <2>1. call[d] \in WaitingCalls
      BY <1>3, CallFields DEF Resend, Arrived
    <2>2. QED
      BY <1>0, <1>3, <2>1 DEF Resend, WaitingCalls, Waiting
  <1>4. ASSUME NEW d \in Calls, ResolveRejected(d) \/ ResolveUncertain(d)
        PROVE  Same
    BY <1>0, <1>4 DEF ResolveRejected, ResolveUncertain
  <1>5. ASSUME NEW d \in Calls, ResolveAccepted(d)
        PROVE  Same \/ d # c
    BY <1>5 DEF ResolveAccepted
  <1>6. ASSUME Reload \/ StartFreshGuest PROVE Same
    BY <1>6 DEF Reload, StartFreshGuest
  <1>7. ASSUME Same PROVE call'[c].mine \/ (Waiting(c) /\ ~call[c].mine)
    <2>1. Waiting(c) => call[c].mine \in BOOLEAN
      BY <1>0 DEF WaitingCalls
    <2>2. call'[c] = call[c] \/ call'[c].mine
      BY <1>0, <1>7 DEF GivenUp, Spent, Waiting
    <2>3. QED
      BY <2>1, <2>2 DEF Waiting
  <1>8. ASSUME NEW d \in Calls, NEW k \in Keys, Place(d, k) PROVE Same
    BY <1>1, <1>8 DEF Place
  <1>9. ASSUME NEW d \in Calls, Retry(d) PROVE Same
    BY <1>1, <1>9 DEF Retry
  <1>10. ASSUME NEW d \in Calls, HandleUnauthorized(d) \/ HandleLimited(d) \/ Handle(d)
         PROVE  Same \/ (Waiting(c) /\ ~call[c].mine)
    BY <1>2, <1>10 DEF HandleUnauthorized, HandleLimited, Handle
  <1>11. UNCHANGED call => Same
    OBVIOUS
  <1> HIDE DEF Same
  <1>12. QED
    BY <1>3, <1>4, <1>5, <1>6, <1>7, <1>8, <1>9, <1>10, <1>11
       DEF Step, Mount, ReadBasket, TakeQuote, EditDetails, EditBasket, WriteElsewhere,
           PlaceRefusedByStorage, RewriteCatalog, Expire, BootstrapElsewhere, ResetElsewhere

\* While a call waits, its submission is the stored one and no other attempt is open.
LEMMA OneIsOpen ==
  ASSUME TypeOK, PageHoldsItsCall, OpenIsStored, NEW c \in Calls, Waiting(c)
  PROVE  /\ call[c].mine /\ page # None /\ page \in PageStates /\ ~Editable
         /\ record = page.recovery
         /\ \A k \in Keys : verdict[k] = "open" => k = call[c].key
  <1>1. call[c].mine /\ page # None /\ page \in PageStates /\ page.phase = "submitting"
    BY WaitingPage, SentinelsAreNoValues DEF OpenIsStored
  <1>2. ~Editable
    BY <1>1 DEF Editable
  <1>3. record = page.recovery
    BY <1>1, <1>2 DEF OpenIsStored
  <1>4. record.key = call[c].key
    <2>1. page.recovery = [key |-> call[c].key, body |-> call[c].body]
      BY <1>1, WaitingPage
    <2>2. QED
      BY <1>3, <2>1
  <1>5. QED
    BY <1>1, <1>2, <1>3, <1>4 DEF OpenIsStored

LEMMA WaitingStaysMine ==
  ASSUME TypeOK, PageHoldsItsCall, OpenIsStored, "leave" \notin weather, Step,
         NEW c \in Calls, call'[c].stage = "waiting"
  PROVE  call'[c].mine
  <1>1. \A d \in Calls : Waiting(d) => call[d].mine
    BY DEF OpenIsStored
  <1>2. ~Leave
    <2> SUFFICES ASSUME Leave PROVE FALSE
      OBVIOUS
    <2>1. call'[c] = Left(c) /\ ~Waiting(c)
      BY DEF Leave
    <2>2. QED
      BY <2>1 DEF Left, Waiting
  <1>3. ASSUME NEW d \in Calls \ {c}, ResolveAccepted(d) PROVE FALSE
    <2>1. Waiting(d) /\ call'[c] = Left(c)
      BY <1>3 DEF ResolveAccepted, Arrived
    <2>2. Waiting(c)
      BY <2>1 DEF Left, Waiting
    <2>3. QED
      BY <1>1, <2>1, <2>2 DEF PageHoldsItsCall
  <1>4. QED
    BY <1>1, <1>2, <1>3, MineMoves

\* When a resolved attempt ends, no attempt is open.
LEMMA ResolvedLeavesNone ==
  ASSUME TypeOK, PageHoldsItsCall, OpenIsStored,
         NEW c \in Calls, ResolveAccepted(c) \/ ResolveRejected(c)
  PROVE  \A k \in Keys : verdict'[k] # "open"
  <1>1. Waiting(c)
    BY DEF ResolveAccepted, ResolveRejected, Definitive, Arrived
  <1>2. call[c].key \in Keys /\ \A k \in Keys : verdict[k] = "open" => k = call[c].key
    BY <1>1, OneIsOpen, TravellingFields
  <1>3. QED
    BY <1>2 DEF ResolveAccepted, ResolveRejected, TypeOK

\* A step that ends no attempt and begins none leaves the verdicts and the record.
LEMMA AttemptsStay ==
  ASSUME Step
  PROVE  \/ UNCHANGED <<verdict, record>>
         \/ \E c \in Calls, k \in Keys : Place(c, k)
         \/ \E c \in Calls : ResolveAccepted(c) \/ ResolveRejected(c)
         \/ StartFreshGuest
  <1>1. ASSUME NEW c \in Calls,
               \/ Retry(c) \/ HandleUnauthorized(c) \/ HandleLimited(c) \/ Handle(c)
               \/ ResolveUncertain(c) \/ Resend(c)
        PROVE  UNCHANGED <<verdict, record>>
    BY <1>1 DEF Retry, HandleUnauthorized, HandleLimited, Handle, ResolveUncertain, Resend
  <1>2. QED
    BY <1>1
       DEF Step, Mount, ReadBasket, TakeQuote, EditDetails, EditBasket, WriteElsewhere,
           PlaceRefusedByStorage, Leave, Reload, RewriteCatalog, Expire, BootstrapElsewhere,
           ResetElsewhere

\* What becomes of the page's lock.
LEMMA LockMoves ==
  ASSUME TypeOK, PageHoldsItsCall, Step, page' # None
  PROVE  \/ page' = page
         \/ Mount
         \/ /\ Editable /\ page'.phase \in {"idle", "rejected"} /\ UNCHANGED <<verdict, record>>
         \/ /\ page # None /\ page'.phase = page.phase /\ page'.recovery = page.recovery
            /\ UNCHANGED <<verdict, record>>
         \/ /\ page # None /\ ~Editable /\ page'.phase \in {"submitting", "uncertain"}
            /\ page'.recovery = page.recovery /\ UNCHANGED <<verdict, record>>
         \/ \E c \in Calls : ResolveRejected(c) /\ page'.phase = "rejected"
         \/ \E c \in Calls, k \in Keys :
              Place(c, k) /\ page'.phase = "submitting" /\ page'.recovery = record'
  <1>1. \A p, b : p \in PageStates => Edited(p, b).phase = "idle"
    BY DEF Edited, PageStates
  <1>2. page # None => page \in PageStates
    BY PageFields
  <1>3. ASSUME NEW d \in Details, EditDetails(d)
        PROVE  Editable /\ page'.phase = "idle" /\ UNCHANGED <<verdict, record>>
    <2>1. [page EXCEPT !.details = d] \in PageStates
      BY <1>2, <1>3 DEF EditDetails, Editable, PageStates
    <2>2. QED
      BY <1>1, <1>3, <2>1 DEF EditDetails
  <1>4. ASSUME NEW items \in Items, EditBasket(items)
        PROVE  Editable /\ page'.phase = "idle" /\ UNCHANGED <<verdict, record>>
    BY <1>1, <1>2, <1>4 DEF EditBasket, Editable
  <1>5. ASSUME TakeQuote \/ PlaceRefusedByStorage
        PROVE  /\ Editable /\ page'.phase \in {"idle", "rejected"}
               /\ UNCHANGED <<verdict, record>>
    BY <1>2, <1>5 DEF TakeQuote, PlaceRefusedByStorage, MayPlace, Editable, PageStates
  <1>6. ASSUME ReadBasket
        PROVE  /\ page # None /\ page'.phase = page.phase /\ page'.recovery = page.recovery
               /\ UNCHANGED <<verdict, record>>
    BY <1>2, <1>6 DEF ReadBasket, PageStates
  <1>7. ASSUME NEW c \in Calls, Retry(c)
        PROVE  /\ page # None /\ ~Editable /\ page'.phase = "submitting"
               /\ page'.recovery = page.recovery /\ UNCHANGED <<verdict, record>>
    BY <1>2, <1>7 DEF Retry, Submitting, PageStates, Editable
  <1>8. ASSUME NEW c \in Calls, ResolveUncertain(c)
        PROVE  \/ page' = page
               \/ /\ page # None /\ ~Editable /\ page'.phase = "uncertain"
                  /\ page'.recovery = page.recovery /\ UNCHANGED <<verdict, record>>
    <2>1. CASE call[c].mine
      <3>1. page \in PageStates /\ page.phase = "submitting" /\ page # None
        BY <1>8, <2>1, WaitingPage, SentinelsAreNoValues DEF ResolveUncertain
      <3>2. QED
        BY <1>8, <2>1, <3>1 DEF ResolveUncertain, PageStates, Editable
    <2>2. CASE ~call[c].mine
      BY <1>8, <2>2 DEF ResolveUncertain
    <2>3. QED
      BY <2>1, <2>2
  <1>9. ASSUME NEW c \in Calls, ResolveRejected(c)
        PROVE  page' = page \/ page'.phase = "rejected"
    <2>1. CASE call[c].mine
      <3>1. page \in PageStates
        BY <1>9, <2>1, WaitingPage DEF ResolveRejected, Definitive, Arrived
      <3>2. QED
        BY <1>9, <2>1, <3>1 DEF ResolveRejected, PageStates
    <2>2. CASE ~call[c].mine
      BY <1>9, <2>2 DEF ResolveRejected
    <2>3. QED
      BY <2>1, <2>2
  <1>10. ASSUME NEW c \in Calls, NEW k \in Keys, Place(c, k)
         PROVE  page'.phase = "submitting" /\ page'.recovery = record'
    BY <1>2, <1>10 DEF Place, MayPlace, Editable, Submitting, PageStates
  <1>11. ASSUME NEW c \in Calls,
                HandleUnauthorized(c) \/ HandleLimited(c) \/ Handle(c) \/ Resend(c)
         PROVE  page' = page
    BY <1>11 DEF HandleUnauthorized, HandleLimited, Handle, Resend
  <1>12. ASSUME NEW c \in Calls, ResolveAccepted(c) PROVE page' = None
    BY <1>12 DEF ResolveAccepted
  <1>13. QED
    BY <1>3, <1>4, <1>5, <1>6, <1>7, <1>8, <1>9, <1>10, <1>11, <1>12
       DEF Step, WriteElsewhere, Leave, Reload, RewriteCatalog, Expire, BootstrapElsewhere,
           ResetElsewhere, StartFreshGuest

LEMMA OpenStaysStored ==
  ASSUME TypeOK, PageHoldsItsCall, OpenIsStored, "leave" \notin weather, Step
  PROVE  OpenIsStored'
  <1>1. \A c \in Calls : call'[c].stage = "waiting" => call'[c].mine
    BY WaitingStaysMine
  <1>2. ASSUME NEW c \in Calls, ResolveRejected(c) PROVE call[c].mine
    BY <1>2 DEF ResolveRejected, Definitive, Arrived, OpenIsStored
  <1>3. ASSUME page' # None
        PROVE  IF page'.phase \in {"idle", "rejected"}
                 THEN \A k \in Keys : verdict'[k] # "open"
                 ELSE record' = page'.recovery
    <2>1. CASE page' = page
      <3>1. ~ \E c \in Calls, k \in Keys : Place(c, k)
        BY <2>1, PageFields DEF Place, MayPlace, Editable, Submitting, PageStates
      <3>2. ~ \E c \in Calls : ResolveAccepted(c)
        BY <1>3 DEF ResolveAccepted
      <3>3. ~ \E c \in Calls : ResolveRejected(c)
        <4> SUFFICES ASSUME NEW c \in Calls, ResolveRejected(c) PROVE FALSE
          OBVIOUS
        <4>1. page \in PageStates /\ page.phase = "submitting"
          BY <1>2, WaitingPage DEF ResolveRejected, Definitive, Arrived
        <4>2. page'.phase = "rejected"
          BY <1>2, <4>1 DEF ResolveRejected, PageStates
        <4>3. QED
          BY <2>1, <4>1, <4>2
      <3>4. UNCHANGED <<verdict, record>>
        BY <1>3, <2>1, <3>1, <3>2, <3>3, AttemptsStay DEF StartFreshGuest
      <3>5. QED
        BY <1>3, <2>1, <3>4 DEF OpenIsStored, Editable
    <2>2. CASE Mount
      <3>1. CASE record \in {None, Damaged}
        BY <2>2, <3>1, SentinelsAreNoValues DEF Mount, NewPage, OpenIsStored
      <3>2. CASE record \notin {None, Damaged}
        BY <2>2, <3>2 DEF Mount, NewPage
      <3>3. QED
        BY <3>1, <3>2
    <2>3. CASE /\ Editable /\ page'.phase \in {"idle", "rejected"}
               /\ UNCHANGED <<verdict, record>>
      BY <2>3 DEF OpenIsStored, Editable
    <2>4. CASE /\ page # None /\ page'.phase = page.phase /\ page'.recovery = page.recovery
               /\ UNCHANGED <<verdict, record>>
      BY <2>4 DEF OpenIsStored, Editable
    <2>5. CASE /\ page # None /\ ~Editable /\ page'.phase \in {"submitting", "uncertain"}
               /\ page'.recovery = page.recovery /\ UNCHANGED <<verdict, record>>
      BY <2>5 DEF OpenIsStored
    <2>6. ASSUME NEW c \in Calls, ResolveRejected(c), page'.phase = "rejected"
          PROVE  \A k \in Keys : verdict'[k] # "open"
      BY <2>6, ResolvedLeavesNone
    <2>7. QED
      BY <1>3, <2>1, <2>2, <2>3, <2>4, <2>5, <2>6, LockMoves
  <1>4. ASSUME NEW k \in Keys, verdict'[k] = "open"
        PROVE  record' \in Records /\ record'.key = k
    <2>1. CASE UNCHANGED <<verdict, record>>
      BY <1>4, <2>1 DEF OpenIsStored
    <2>2. ASSUME NEW c \in Calls, NEW j \in Keys, Place(c, j)
          PROVE  record' \in Records /\ record'.key = k
      <3>1. \A i \in Keys : verdict[i] # "open"
        BY <2>2 DEF Place, MayPlace, Editable, OpenIsStored
      <3>2. j = k
        BY <1>4, <2>2, <3>1 DEF Place, TypeOK
      <3>3. QED
        BY <2>2, <3>2, PlaceSubmits DEF Place
    <2>3. CASE StartFreshGuest
      BY <1>4, <2>3 DEF StartFreshGuest, OpenIsStored
    <2>4. QED
      BY <1>4, <2>1, <2>2, <2>3, ResolvedLeavesNone, AttemptsStay
  <1>5. QED
    BY <1>1, <1>3, <1>4 DEF OpenIsStored, Waiting, Editable

(***************************************************************************)
(* A refused body stays dead, while guests stay and no limit interferes.   *)
(***************************************************************************)
\* No basket goes back to an earlier revision, unless its guest is deleted.
LEMMA RowsGrow ==
  ASSUME TypeOK, "reset" \notin weather, Step, NEW g \in Guests
  PROVE  Row(g)' = Row(g) \/ Row(g)'.revision > Row(g).revision
  <1>0. cart \in [Guests -> Service!Rows \union {NoCart}]
    BY DEF TypeOK
  <1>1. UNCHANGED cart => Row(g)' = Row(g)
    BY DEF Row
  <1>2. ASSUME NEW h \in Guests, Service!Open(h) PROVE Row(g)' = Row(g)
    BY <1>0, <1>2, BasketsAreRows DEF Service!Open, Service!Rows, Row
  <1>3. ASSUME NEW h \in Guests, NEW items \in Items, Service!Write(h, items)
        PROVE  Row(g)' = Row(g) \/ Row(g)'.revision > Row(g).revision
    <2>1. CASE g = h
      BY <1>0, <1>3, <2>1, BasketsAreRows DEF Service!Write, Service!Rows, Row
    <2>2. CASE g # h
      BY <1>0, <1>3, <2>2 DEF Service!Write, Row
    <2>3. QED
      BY <2>1, <2>2
  <1>4. ASSUME NEW h \in Guests, NEW k, Service!Accept(h, k)
        PROVE  Row(g)' = Row(g) \/ Row(g)'.revision > Row(g).revision
    <2>1. CASE g = h
      BY <1>0, <1>4, <2>1, BasketsAreRows DEF Service!Accept, Service!Rows, Row
    <2>2. CASE g # h
      BY <1>0, <1>4, <2>2 DEF Service!Accept, Row
    <2>3. QED
      BY <2>1, <2>2
  <1>5. guest \in Guests
    BY DEF TypeOK
  <1>6. ASSUME ReadBasket PROVE Row(g)' = Row(g)
    BY <1>1, <1>2, <1>5, <1>6 DEF ReadBasket
  <1>7. ASSUME NEW items \in Items, EditBasket(items) \/ WriteElsewhere(items)
        PROVE  UNCHANGED cart \/ Service!Write(guest, items)
    BY <1>7 DEF EditBasket, WriteElsewhere
  <1>8. ASSUME NEW c \in Calls, Handle(c)
        PROVE  \/ UNCHANGED cart
               \/ call[c].guest \in Guests /\ Service!Accept(call[c].guest, call[c].key)
    BY <1>8, TravellingFields DEF Handle
  <1>9. ASSUME NEW c \in Calls,
               \/ Retry(c) \/ HandleUnauthorized(c) \/ HandleLimited(c)
               \/ ResolveAccepted(c) \/ ResolveRejected(c) \/ ResolveUncertain(c) \/ Resend(c)
        PROVE  UNCHANGED cart
    BY <1>9 DEF Retry, HandleUnauthorized, HandleLimited, ResolveAccepted,
      ResolveRejected, ResolveUncertain, Resend, server
  <1>10. ASSUME NEW c \in Calls, NEW k \in Keys, Place(c, k) PROVE UNCHANGED cart
    BY <1>10 DEF Place, server
  <1>11. QED
    BY <1>1, <1>3, <1>4, <1>5, <1>6, <1>7, <1>8, <1>9, <1>10
       DEF Step, Mount, TakeQuote, EditDetails, PlaceRefusedByStorage, Leave, Reload,
           RewriteCatalog, Expire, BootstrapElsewhere, ResetElsewhere, StartFreshGuest, server

\* No content of the catalogue comes back, unless the weather says so.
LEMMA CatalogGrows ==
  ASSUME TypeOK, weather \subseteq {"leave"}, Step
  PROVE  catalog' = catalog \/ catalog' > catalog
  <1>1. ASSUME NEW c \in Calls,
               \/ Retry(c) \/ HandleUnauthorized(c) \/ HandleLimited(c) \/ Handle(c)
               \/ ResolveAccepted(c) \/ ResolveRejected(c) \/ ResolveUncertain(c) \/ Resend(c)
        PROVE  UNCHANGED catalog
    BY <1>1 DEF Retry, HandleUnauthorized, HandleLimited, Handle, ResolveAccepted,
      ResolveRejected, ResolveUncertain, Resend, server
  <1>2. ASSUME NEW c \in Calls, NEW k \in Keys, Place(c, k) PROVE UNCHANGED catalog
    BY <1>2 DEF Place, server
  <1>3. QED
    BY <1>1, <1>2
       DEF Step, Mount, ReadBasket, TakeQuote, EditDetails, EditBasket, WriteElsewhere,
           PlaceRefusedByStorage, Leave, Reload, RewriteCatalog, Expire, BootstrapElsewhere,
           ResetElsewhere, StartFreshGuest, ResetGuest, server

\* The guest stays.
LEMMA GuestStays ==
  ASSUME TypeOK, weather \subseteq {"leave"}, session[guest] = "live", Step
  PROVE  UNCHANGED <<session, guest>>
  <1>1. ASSUME NEW c \in Calls,
               \/ Retry(c) \/ HandleUnauthorized(c) \/ HandleLimited(c) \/ Handle(c)
               \/ ResolveAccepted(c) \/ ResolveRejected(c) \/ ResolveUncertain(c) \/ Resend(c)
        PROVE  UNCHANGED <<session, guest>>
    BY <1>1 DEF Retry, HandleUnauthorized, HandleLimited, Handle, ResolveAccepted,
      ResolveRejected, ResolveUncertain, Resend, Bootstrap, server
  <1>2. ASSUME NEW c \in Calls, NEW k \in Keys, Place(c, k) PROVE UNCHANGED <<session, guest>>
    BY <1>2 DEF Place, server
  <1>3. QED
    BY <1>1, <1>2
       DEF Step, Mount, ReadBasket, TakeQuote, EditDetails, EditBasket, WriteElsewhere,
           PlaceRefusedByStorage, Leave, Reload, RewriteCatalog, Expire, BootstrapElsewhere,
           ResetElsewhere, StartFreshGuest, server

\* So what is dead stays dead, and what is not ahead stays behind.
LEMMA DeadStays ==
  ASSUME TypeOK, TypeOK', weather \subseteq {"leave"}, session[guest] = "live", Step
  PROVE  /\ \A body \in Bodies : Dead(body) => Dead(body)'
         /\ \A rev \in Nat, f \in Catalogs : NotAhead(rev, f) => NotAhead(rev, f)'
  <1>1. guest' = guest /\ guest \in Guests
    BY GuestStays DEF TypeOK
  <1>2. Row(guest)' = Row(guest) \/ Row(guest)'.revision > Row(guest).revision
    <2>1. \A g \in Guests : Row(g)' = Row(g) \/ Row(g)'.revision > Row(g).revision
      BY RowsGrow
    <2>2. Row(guest)' = IF cart'[guest'] = NoCart THEN [revision |-> 0, items |-> EmptyItems]
                        ELSE cart'[guest']
      BY DEF Row
    <2>3. QED
      BY <1>1, <2>1, <2>2 DEF Row
  <1>3. Row(guest).revision \in Nat /\ Row(guest)'.revision \in Nat
    <2>1. Row(guest) \in Service!Rows
      BY <1>1, RowIsRow
    <2>2. Row(guest)' \in Service!Rows
      BY BasketsAreRows DEF TypeOK, Row, Service!Rows
    <2>3. QED
      BY <2>1, <2>2 DEF Service!Rows
  <1>4. /\ catalog' = catalog \/ catalog' > catalog
        /\ catalog \in Nat /\ catalog' \in Nat
    BY CatalogGrows, CatalogsAreNumbered DEF TypeOK
  <1>5. ASSUME NEW body \in Bodies, Dead(body) PROVE Dead(body)'
    <2>1. body.rev \in Nat /\ body.fingerprint \in Nat
      BY CatalogsAreNumbered DEF Bodies
    <2>2. QED
      BY <1>2, <1>3, <1>4, <1>5, <2>1 DEF Dead
  <1>6. ASSUME NEW rev \in Nat, NEW f \in Catalogs, NotAhead(rev, f) PROVE NotAhead(rev, f)'
    <2>1. f \in Nat
      BY CatalogsAreNumbered
    <2>2. QED
      BY <1>2, <1>3, <1>4, <1>6, <2>1 DEF NotAhead
  <1>7. QED
    BY <1>5, <1>6

\* A dead body is refused, a refused one is dead.
LEMMA DeadIsRefused ==
  ASSUME TypeOK, NEW k \in Keys, NEW body \in Bodies, Dead(body), digest[guest][k] = None
  PROVE  Outcome(guest, k, body).status # "accept"
  <1>1. /\ Row(guest).revision \in Nat /\ body.rev \in Nat
        /\ catalog \in Nat /\ body.fingerprint \in Nat
    BY RowIsRow, CatalogsAreNumbered DEF TypeOK, Service!Rows, Bodies
  <1>2. QED
    BY <1>1 DEF Outcome, Status, Dead

LEMMA RefusedIsDead ==
  ASSUME TypeOK, NEW k \in Keys, NEW body \in Bodies, NotAhead(body.rev, body.fingerprint),
         digest[guest][k] \in {None, body},
         Outcome(guest, k, body).status \notin {"accept", "receipt"}
  PROVE  digest[guest][k] = None /\ Dead(body)
  <1>1. /\ Row(guest).revision \in Nat /\ body.rev \in Nat
        /\ catalog \in Nat /\ body.fingerprint \in Nat
    BY RowIsRow, CatalogsAreNumbered DEF TypeOK, Service!Rows, Bodies
  <1>2. body # None
    BY SentinelsAreNoValues
  <1>3. QED
    BY <1>1, <1>2 DEF Outcome, Status, Dead, NotAhead

\* A quote is what the service had when it was taken.
LEMMA QuotesMove ==
  ASSUME TypeOK, PageHoldsItsCall, Step, page' # None
  PROVE  \/ page'.quote = None
         \/ page # None /\ page'.quote = page.quote
         \/ page'.quote = [rev |-> Row(guest).revision, fingerprint |-> catalog]
  <1>1. \A p, b : p \in PageStates => Edited(p, b).quote \in {None, p.quote}
    BY DEF Edited, PageStates
  <1>2. page # None => page \in PageStates
    BY PageFields
  <1>3. ASSUME NEW d \in Details, EditDetails(d)
        PROVE  page # None /\ page'.quote \in {None, page.quote}
    <2>1. /\ [page EXCEPT !.details = d] \in PageStates
          /\ [page EXCEPT !.details = d].quote = page.quote
      BY <1>2, <1>3 DEF EditDetails, Editable, PageStates
    <2>2. QED
      BY <1>1, <1>3, <2>1 DEF EditDetails, Editable
  <1>4. ASSUME NEW items \in Items, EditBasket(items)
        PROVE  page # None /\ page'.quote \in {None, page.quote}
    BY <1>1, <1>2, <1>4 DEF EditBasket, Editable
  <1>5. ASSUME TakeQuote
        PROVE  page'.quote = [rev |-> Row(guest).revision, fingerprint |-> catalog]
    BY <1>2, <1>5 DEF TakeQuote, PageStates, Editable
  <1>6. ASSUME ReadBasket \/ PlaceRefusedByStorage
        PROVE  page # None /\ page'.quote \in {None, page.quote}
    BY <1>2, <1>6 DEF ReadBasket, PlaceRefusedByStorage, MayPlace, Editable, PageStates
  <1>7. ASSUME NEW c \in Calls, Retry(c) \/ \E k \in Keys : Place(c, k)
        PROVE  page'.quote = None
    BY <1>2, <1>7 DEF Retry, Place, MayPlace, Editable, Submitting, PageStates
  <1>8. ASSUME NEW c \in Calls, ResolveRejected(c) \/ ResolveUncertain(c)
        PROVE  page' = page \/ (page # None /\ page'.quote \in {None, page.quote})
    <2>1. CASE call[c].mine
      <3>1. page \in PageStates /\ page # None
        BY <1>8, <2>1, WaitingPage, SentinelsAreNoValues
           DEF ResolveRejected, Definitive, Arrived, ResolveUncertain
      <3>2. QED
        BY <1>8, <2>1, <3>1 DEF ResolveRejected, ResolveUncertain, PageStates
    <2>2. CASE ~call[c].mine
      BY <1>8, <2>2 DEF ResolveRejected, ResolveUncertain
    <2>3. QED
      BY <2>1, <2>2
  <1>9. Mount => page'.quote = None
    BY DEF Mount, NewPage
  <1>10. ASSUME NEW c \in Calls,
                HandleUnauthorized(c) \/ HandleLimited(c) \/ Handle(c) \/ Resend(c)
         PROVE  page' = page
    BY <1>10 DEF HandleUnauthorized, HandleLimited, Handle, Resend
  <1>11. ASSUME NEW c \in Calls, ResolveAccepted(c) PROVE page' = None
    BY <1>11 DEF ResolveAccepted
  <1>12. QED
    BY <1>3, <1>4, <1>5, <1>6, <1>7, <1>8, <1>9, <1>10, <1>11
       DEF Step, WriteElsewhere, Leave, Reload, RewriteCatalog, Expire, BootstrapElsewhere,
           ResetElsewhere, StartFreshGuest

\* The digest of a dead body's key stays empty: no order is accepted under it any more.
LEMMA DeadStaysUnaccepted ==
  ASSUME TypeOK, OneBodyPerKey, weather \subseteq {"leave"}, RefusedStaysDead, Step,
         NEW c \in Calls, Sent(c), Dead(call[c].body), digest[guest][call[c].key] = None
  PROVE  digest'[guest][call[c].key] = None
  <1>0. call[c].key \in Keys /\ call[c].body \in Bodies /\ guest \in Guests
    BY CallFields DEF TypeOK
  <1>1. ASSUME NEW d \in Calls, AcceptsCall(d)
        PROVE  call[d].guest = guest /\ call[d].key # call[c].key
    <2>1. Sent(d) /\ call[d].guest = guest
      BY <1>1, TravellingFields
         DEF AcceptsCall, Travelling, Waiting, RefusedStaysDead
    <2>2. ASSUME call[d].key = call[c].key PROVE FALSE
      <3>1. call[d].body = call[c].body
        <4> DEFINE s == [key |-> call[d].key, body |-> call[d].body]
                   t == [key |-> call[c].key, body |-> call[c].body]
        <4>1. s \in Submissions /\ t \in Submissions /\ s.key = t.key
          BY <2>1, <2>2, SentIsSubmitted
        <4>2. s.body = t.body
          BY <4>1 DEF OneBodyPerKey
        <4>3. QED
          BY <4>2
      <3>2. Outcome(guest, call[c].key, call[c].body).status # "accept"
        BY <1>0, DeadIsRefused
      <3>3. QED
        BY <1>1, <2>1, <2>2, <3>1, <3>2 DEF AcceptsCall
    <2>3. QED
      BY <2>1, <2>2
  <1>2. ASSUME NEW d \in Calls, AcceptsCall(d)
        PROVE  digest'[guest][call[c].key] = digest[guest][call[c].key]
    <2>1. digest' = [digest EXCEPT ![call[d].guest][call[d].key] = call[d].body]
      BY <1>2 DEF AcceptsCall
    <2>2. QED
      BY <1>0, <1>1, <1>2, <2>1 DEF TypeOK
  <1>3. QED
    BY <1>2, OrdersMove

\* What the service has kept for a key is the body that every submission of it carries.
LEMMA DigestIsBody ==
  ASSUME TypeOK, OneBodyPerKey, DigestsWereSent, NEW g \in Guests, NEW c \in Calls, Sent(c)
  PROVE  digest[g][call[c].key] \in {None, call[c].body}
  <1> SUFFICES ASSUME digest[g][call[c].key] # None
               PROVE  digest[g][call[c].key] = call[c].body
    OBVIOUS
  <1>1. PICK d \in Calls : /\ Sent(d) /\ call[d].key = call[c].key
                           /\ call[d].body = digest[g][call[c].key]
    BY CallFields DEF DigestsWereSent
  <1> DEFINE s == [key |-> call[d].key, body |-> call[d].body]
             t == [key |-> call[c].key, body |-> call[c].body]
  <1>2. s \in Submissions /\ t \in Submissions /\ s.key = t.key
    BY <1>1, SentIsSubmitted
  <1>3. s.body = t.body
    BY <1>2 DEF OneBodyPerKey
  <1>4. QED
    BY <1>1, <1>3

\* An answer that is no receipt, while the guest stays and no limit interferes.
LEMMA HandledIsDead ==
  ASSUME TypeOK, OneBodyPerKey, DigestsWereSent, weather \subseteq {"leave"}, RefusedStaysDead,
         NEW c \in Calls, Waiting(c), call'[c].answer.status # "receipt",
         HandleUnauthorized(c) \/ HandleLimited(c) \/ Handle(c)
  PROVE  digest[guest][call[c].key] = None /\ Dead(call[c].body)
  <1>1. /\ Sent(c) /\ call[c].guest = guest /\ session[guest] = "live"
        /\ call[c].key \in Keys /\ call[c].body \in Bodies
    BY TravellingFields DEF RefusedStaysDead, Waiting
  <1>2. Handle(c)
    BY <1>1 DEF HandleUnauthorized, HandleLimited
  <1> DEFINE outcome == Outcome(guest, call[c].key, call[c].body)
  <1>3. ASSUME NEW a \in Answers, Answered(c, a) PROVE call'[c].answer = a
    BY <1>3, CallFields DEF Answered, TypeOK, WaitingCalls
  <1>4. guest \in Guests
    BY DEF TypeOK
  <1>5. outcome.status # "accept"
    <2> SUFFICES ASSUME outcome.status = "accept" PROVE FALSE
      OBVIOUS
    <2>1. Answered(c, Status("receipt"))
      BY <1>1, <1>2 DEF Handle
    <2>2. QED
      BY <1>3, <2>1, StatusIsAnswer DEF Status
  <1>6. Answered(c, outcome)
    BY <1>1, <1>2, <1>5 DEF Handle
  <1>7. outcome.status # "receipt"
    BY <1>3, <1>4, <1>5, <1>6, OutcomeIsAnswer
  <1>8. NotAhead(call[c].body.rev, call[c].body.fingerprint)
    <2> DEFINE s == [key |-> call[c].key, body |-> call[c].body]
    <2>1. s \in Submissions
      BY <1>1, SentIsSubmitted
    <2>2. NotAhead(s.body.rev, s.body.fingerprint)
      BY <2>1 DEF RefusedStaysDead
    <2>3. QED
      BY <2>2
  <1>9. digest[guest][call[c].key] \in {None, call[c].body}
    BY <1>1, <1>4, DigestIsBody
  <1> HIDE DEF outcome
  <1>10. QED
    BY <1>1, <1>5, <1>7, <1>8, <1>9, RefusedIsDead DEF outcome

LEMMA RefusedStays ==
  ASSUME TypeOK, TypeOK', PageHoldsItsCall, Evidence, weather \subseteq {"leave"},
         RefusedStaysDead, Step
  PROVE  RefusedStaysDead'
  <1>1. session[guest] = "live" /\ guest \in Guests /\ catalog \in Catalogs
    BY DEF RefusedStaysDead, TypeOK
  <1>2. session' = session /\ guest' = guest
    BY <1>1, GuestStays
  <1>3. /\ \A body \in Bodies : Dead(body) => Dead(body)'
        /\ \A rev \in Nat, f \in Catalogs : NotAhead(rev, f) => NotAhead(rev, f)'
    BY <1>1, DeadStays
  <1>4. /\ OneBodyPerKey /\ DigestsWereSent
        /\ \A c \in Calls : call[c].stage \in {"waiting", "given_up"} => call[c].guest = guest
    BY DEF Evidence, RefusedStaysDead
  <1>a. \A c \in Calls : call'[c].stage \in {"waiting", "given_up"} => call'[c].guest = guest'
    BY <1>2, <1>4, CallsMove DEF CarriedOn, Waiting
  <1>b. ASSUME page' # None, NEW q, q = page'.quote, q # None
        PROVE  q \in Quotes /\ NotAhead(q.rev, q.fingerprint)'
    <2>0. q \in Quotes
      BY <1>b DEF TypeOK, PageStates
    <2>1. CASE page # None /\ q = page.quote
      <3>1. NotAhead(q.rev, q.fingerprint)
        BY <1>b, <2>1 DEF RefusedStaysDead
      <3>2. QED
        BY <1>3, <2>0, <3>1 DEF Quotes
    <2>2. CASE q = [rev |-> Row(guest).revision, fingerprint |-> catalog]
      <3>1. Row(guest).revision \in Nat /\ catalog \in Nat
        BY <1>1, RowIsRow, CatalogsAreNumbered DEF Service!Rows
      <3>2. NotAhead(q.rev, q.fingerprint)
        BY <2>2, <3>1 DEF NotAhead
      <3>3. QED
        BY <1>3, <2>0, <3>2 DEF Quotes
    <2>3. QED
      BY <1>b, <2>1, <2>2, QuotesMove
  <1>c. ASSUME NEW s \in Submissions' PROVE NotAhead(s.body.rev, s.body.fingerprint)'
    <2>1. CASE s \in Submissions
      <3>1. s.body.rev \in Nat /\ s.body.fingerprint \in Catalogs
        BY <2>1, SubmissionsAreRecords DEF Records, Bodies
      <3>2. NotAhead(s.body.rev, s.body.fingerprint)
        BY <2>1 DEF RefusedStaysDead
      <3>3. QED
        BY <1>3, <3>1, <3>2
    <2>2. ASSUME NEW c \in Calls, NEW k \in Keys, Place(c, k), s = Submission(k)
          PROVE  NotAhead(s.body.rev, s.body.fingerprint)'
      <3>1. /\ page # None /\ page.quote # None /\ page.quote \in Quotes
            /\ s.body.rev = page.quote.rev /\ s.body.fingerprint = page.quote.fingerprint
        BY <2>2, PageFields DEF Place, MayPlace, Editable, Submission, PageStates
      <3>2. NotAhead(s.body.rev, s.body.fingerprint)
        BY <3>1 DEF RefusedStaysDead
      <3>3. QED
        BY <1>3, <3>1, <3>2 DEF Quotes
    <2>3. QED
      BY <2>1, <2>2, NoNewSubmission, PlaceSubmits
  <1>d. ASSUME NEW c \in Calls, Sent(c), Dead(call[c].body), digest[guest][call[c].key] = None
        PROVE  /\ digest'[guest'][call'[c].key] = None
               /\ Dead(call[c].body)'
               /\ call'[c] # Unused
    <2>1. /\ call'[c] # Unused /\ call'[c].key = call[c].key /\ call'[c].body = call[c].body
          /\ call[c].body \in Bodies
      BY <1>d, SentStays, CallFields
    <2>2. digest'[guest][call[c].key] = None
      BY <1>4, <1>d, DeadStaysUnaccepted
    <2>3. ASSUME NEW body, body = call[c].body PROVE Dead(call[c].body)'
      <3>1. Dead(body)'
        BY <1>3, <1>d, <2>1, <2>3
      <3>2. body = call'[c].body
        BY <2>1, <2>3
      <3>3. QED
        BY <3>1, <3>2 DEF Dead, Row
    <2>4. QED
      BY <1>2, <2>1, <2>2, <2>3
  <1>e. ASSUME NEW c \in Calls, call'[c].stage = "waiting", call'[c].answer # None,
               call'[c].answer.status # "receipt"
        PROVE  digest'[guest'][call'[c].key] = None /\ Dead(call[c].body)'
    <2>1. Waiting(c) /\ digest[guest][call[c].key] = None /\ Dead(call[c].body)
      <3>1. CASE CarriedOn(c)
        BY <1>e, <3>1 DEF CarriedOn, RefusedStaysDead
      <3>2. CASE Waiting(c) /\ (HandleUnauthorized(c) \/ HandleLimited(c) \/ Handle(c))
        BY <1>4, <1>e, <3>2, HandledIsDead
      <3>3. QED
        BY <1>e, <3>1, <3>2, CallsMove
    <2>2. Sent(c)
      BY <2>1, TravellingFields
    <2>3. QED
      BY <1>d, <2>1, <2>2
  <1>f. ASSUME NEW k \in Keys, verdict'[k] = "rejected"
        PROVE  /\ digest'[guest'][k] = None
               /\ \E c \in Calls : /\ call'[c] # Unused /\ call'[c].key = k
                                   /\ Dead(call[c].body)'
    <2>1. PICK c \in Calls : /\ Sent(c) /\ call[c].key = k /\ Dead(call[c].body)
                             /\ digest[guest][call[c].key] = None
      <3>1. CASE verdict[k] = "rejected"
        BY <3>1 DEF RefusedStaysDead
      <3>2. ASSUME NEW c \in Calls, call[c].key = k, ResolveRejected(c)
            PROVE  Sent(c) /\ Dead(call[c].body) /\ digest[guest][call[c].key] = None
        BY <3>2, TravellingFields DEF ResolveRejected, Definitive, Arrived, RefusedStaysDead
      <3>3. QED
        BY <1>f, <3>1, <3>2, VerdictMoves
    <2>2. call'[c].key = call[c].key
      BY <2>1, SentStays
    <2>3. QED
      BY <1>d, <2>1, <2>2
  <1>g. session'[guest'] = "live"
    BY <1>1, <1>2
  <1>5. QED
    BY <1>a, <1>b, <1>c, <1>e, <1>f, <1>g DEF RefusedStaysDead, Waiting, Sent, Unused

(***************************************************************************)
(* The invariant.                                                          *)
(***************************************************************************)
LEMMA AbandonedByReset ==
  ASSUME TypeOK, "reset" \notin weather, NothingAbandoned, Step
  PROVE  NothingAbandoned'
  <1> SUFFICES ASSUME NEW k \in Keys PROVE verdict'[k] # "abandoned"
    BY DEF NothingAbandoned
  <1>1. QED
    BY VerdictMoves DEF NothingAbandoned, StartFreshGuest

LEMMA InitInvariant ==
  ASSUME Init
  PROVE  CInv
  <1>1. /\ \A c \in Calls : ~Sent(c) /\ ~Waiting(c) /\ call[c].stage = "unused"
        /\ page = None /\ record \in {None, Damaged}
        /\ \A k \in Keys : verdict[k] = "unused"
    BY UnusedStays DEF Init, Sent
  <1>2. Submissions = {}
    <2> SUFFICES ASSUME NEW s \in Submissions PROVE FALSE
      OBVIOUS
    <2>1. QED
      BY <1>1, Submitted
  <1>3. TypeOK
    BY FirstGuestIsKnown, CatalogsAreNumbered, BasketsAreRows
       DEF Init, Service!Init, TypeOK, CallStates
  <1>4. PageHoldsItsCall
    BY <1>1 DEF PageHoldsItsCall
  <1>5. /\ \A g \in Guests, k \in Keys : digest[g][k] = None
        /\ \A g \in Guests : accepted[g] = {}
    BY DEF Init, Service!Init
  <1>6. Evidence
    BY <1>1, <1>2, <1>5 DEF Evidence, KeysAreDrawn, OneBodyPerKey, DigestsWereSent,
      DigestsMatchOrders, ReceiptsAreTrue, DamageIsInert
  <1>7. OpenIsStored
    BY <1>1 DEF OpenIsStored
  <1>8. RefusedStaysDead
    <2>1. session[guest] = "live"
      BY FirstGuestIsKnown DEF Init
    <2>2. QED
      BY <1>1, <1>2, <2>1 DEF RefusedStaysDead
  <1>9. NothingAbandoned
    BY <1>1 DEF NothingAbandoned
  <1>10. QED
    BY <1>3, <1>4, <1>6, <1>7, <1>8, <1>9 DEF CInv

LEMMA NextInvariant ==
  ASSUME CInv, [Next]_vars
  PROVE  CInv'
  <1>1. CASE Next
    <2>1. /\ TypeOK /\ PageHoldsItsCall /\ Evidence /\ Step /\ weather' = weather
          /\ "leave" \notin weather => OpenIsStored
          /\ weather \subseteq {"leave"} => RefusedStaysDead
          /\ "reset" \notin weather => NothingAbandoned
      BY <1>1 DEF CInv, Next
    <2>2. TypeOK'
      BY <2>1, StepType
    <2>3. PageHoldsItsCall'
      BY <2>1, <2>2, StepHolds
    <2>4. Evidence'
      BY <2>1, StepEvidence
    <2>5. "leave" \notin weather' => OpenIsStored'
      BY <2>1, OpenStaysStored
    <2>6. weather' \subseteq {"leave"} => RefusedStaysDead'
      BY <2>1, <2>2, RefusedStays
    <2>7. "reset" \notin weather' => NothingAbandoned'
      BY <2>1, AbandonedByReset
    <2>8. QED
      BY <2>2, <2>3, <2>4, <2>5, <2>6, <2>7 DEF CInv
  <1>2. CASE UNCHANGED vars
    <2>1. /\ weather' = weather /\ cart' = cart /\ accepted' = accepted /\ digest' = digest
          /\ catalog' = catalog /\ session' = session /\ guest' = guest /\ record' = record
          /\ page' = page /\ call' = call /\ verdict' = verdict
      BY <1>2 DEF vars, server
    <2>2. TypeOK' /\ PageHoldsItsCall'
      BY <2>1 DEF CInv, TypeOK, PageHoldsItsCall, Waiting, Editable
    <2>3. Submissions' = Submissions
      BY <2>1 DEF Submissions
    <2>4. Evidence'
      BY <2>1, <2>3 DEF CInv, Evidence, KeysAreDrawn, OneBodyPerKey, DigestsWereSent,
        DigestsMatchOrders, ReceiptsAreTrue, DamageIsInert, Sent, Waiting
    <2>5. "leave" \notin weather' => OpenIsStored'
      BY <2>1 DEF CInv, OpenIsStored, Waiting, Editable
    <2>6. weather' \subseteq {"leave"} => RefusedStaysDead'
      BY <2>1, <2>3 DEF CInv, RefusedStaysDead, NotAhead, Dead, Row, Sent, Waiting
    <2>7. "reset" \notin weather' => NothingAbandoned'
      BY <2>1 DEF CInv, NothingAbandoned
    <2>8. QED
      BY <2>2, <2>4, <2>5, <2>6, <2>7 DEF CInv
  <1>3. QED
    BY <1>1, <1>2

\* The page is locked to the submission on its way, evidence is what was sent, a refused
\* body is dead: these hold together in every state, for all the code of the checkout page.
THEOREM InvariantHolds == Spec => []CInv
  <1>1. Init => CInv
    BY InitInvariant
  <1>2. CInv /\ [Next]_vars => CInv'
    BY NextInvariant
  <1>3. QED
    BY <1>1, <1>2, PTL DEF Spec

(***************************************************************************)
(* What it means for the customer.                                         *)
(***************************************************************************)
\* Every variable holds a value that the page, the wire and the tables can hold; in
\* particular a page always waits with the submission it sent.
THEOREM TypesAreOK == Spec => []TypeOK
  <1>1. CInv => TypeOK
    BY DEF CInv
  <1>2. QED
    BY <1>1, InvariantHolds, PTL

\* placeOrder and retryOriginalOrder never send two bodies under one key, however many
\* submissions, reloads, resets and other pages there are.
THEOREM RetriesAreOriginal == Spec => []OneBodyPerKey
  <1>1. CInv => OneBodyPerKey
    BY DEF CInv, Evidence
  <1>2. QED
    BY <1>1, InvariantHolds, PTL

\* placeOrder draws a key only when no attempt is open, unless a waiting page was left.
THEOREM AttemptsDoNotOverlap == Spec => []OneOpenAttempt
  <1>1. CInv => OneOpenAttempt
    BY DEF CInv, OneOpenAttempt, OpenIsStored
  <1>2. QED
    BY <1>1, InvariantHolds, PTL

\* The key of an order was sent by this browser, and is no longer unused.
LEMMA OrdersWereSent ==
  ASSUME CInv, NEW o \in accepted[guest]
  PROVE  /\ o.key \in Keys /\ digest[guest][o.key] # None
         /\ verdict[o.key] \in {"open", "accepted", "rejected", "abandoned"}
  <1>1. o.key \in Keys /\ guest \in Guests
    BY DEF CInv, TypeOK
  <1>2. digest[guest][o.key] # None
    BY <1>1 DEF CInv, Evidence, DigestsMatchOrders
  <1>3. PICK c \in Calls : Sent(c) /\ call[c].key = o.key
    BY <1>1, <1>2 DEF CInv, Evidence, DigestsWereSent
  <1> DEFINE s == [key |-> call[c].key, body |-> call[c].body]
  <1>4. s \in Submissions /\ s.key = o.key
    BY <1>3, SentIsSubmitted
  <1>5. verdict[o.key] # "unused"
    BY <1>4 DEF CInv, Evidence, KeysAreDrawn
  <1>6. QED
    BY <1>1, <1>2, <1>5 DEF CInv, TypeOK

\* In fair weather an order that submit_order accepted was shown, or is recovered from
\* the record that placeOrder stored before it sent anything.
THEOREM OrdersAreNotForgotten == Spec => []NoOrderForgottenInCalm
  <1>1. ASSUME CInv, weather = {}, NEW o \in accepted[guest]
        PROVE  verdict[o.key] = "accepted" \/ (record \in Records /\ record.key = o.key)
    <2>1. OpenIsStored /\ RefusedStaysDead /\ NothingAbandoned
      BY <1>1 DEF CInv
    <2>2. QED
      BY <1>1, <2>1, OrdersWereSent DEF OpenIsStored, RefusedStaysDead, NothingAbandoned
  <1>2. CInv => NoOrderForgottenInCalm
    BY <1>1 DEF NoOrderForgottenInCalm, NoOrderForgotten
  <1>3. QED
    BY <1>2, InvariantHolds, PTL

\* A submission that submit_order refused is never accepted later, although its POST may
\* still travel, even when waiting pages are left.
THEOREM RejectionsAreFinal == Spec => []RejectedMeansNoOrderInCalm
  <1>1. ASSUME CInv, weather \subseteq {"leave"}, NEW o \in accepted[guest]
        PROVE  verdict[o.key] # "rejected"
    BY <1>1, OrdersWereSent DEF CInv, RefusedStaysDead
  <1>2. CInv => RejectedMeansNoOrderInCalm
    BY <1>1 DEF RejectedMeansNoOrderInCalm, RejectedMeansNoOrder
  <1>3. QED
    BY <1>2, InvariantHolds, PTL

\* In any weather, a confirmation is for an order that exists or whose guest is gone, and
\* the record that does not validate outlives everything but a fresh guest.
THEOREM EvidenceIsKept == Spec => EvidenceIsTrueAndKept
  <1>1. ASSUME CInv, Step, NEW k \in Keys, verdict'[k] = "accepted"
        PROVE  \/ verdict[k] = "accepted"
               \/ \E g \in Guests : session[g] = "gone"
               \/ \E g \in Guests : \E o \in accepted[g] : o.key = k
    <2>1. TypeOK /\ ReceiptsAreTrue /\ DigestsMatchOrders
      BY <1>1 DEF CInv, Evidence
    <2>2. ASSUME NEW c \in Calls, call[c].key = k, ResolveAccepted(c)
          PROVE  \/ \E g \in Guests : session[g] = "gone"
                 \/ \E g \in Guests : \E o \in accepted[g] : o.key = k
      <3>1. /\ Waiting(c) /\ call[c].guest \in Guests
            /\ session[call[c].guest] = "gone" \/ digest[call[c].guest][k] # None
        BY <2>1, <2>2, TravellingFields DEF ResolveAccepted, Arrived, ReceiptsAreTrue
      <3>2. QED
        BY <2>1, <3>1 DEF DigestsMatchOrders
    <2>3. QED
      BY <1>1, <2>1, <2>2, VerdictMoves
  <1>2. ASSUME CInv, Step, record = Damaged
        PROVE  record' = Damaged \/ guest' # guest
    <2>1. /\ TypeOK /\ \A c \in Calls : ~Waiting(c)
          /\ page # None => ~page.writable
      BY <1>2, UnusedStays DEF CInv, Evidence, DamageIsInert
    <2>2. ~ \E c \in Calls : ResolveAccepted(c) \/ ResolveRejected(c)
      BY <2>1 DEF ResolveAccepted, ResolveRejected, Definitive, Arrived
    <2>3. ~ \E c \in Calls, k \in Keys : Place(c, k)
      BY <2>1 DEF Place, MayPlace, Editable
    <2>4. ASSUME NEW new \in Guests, ResetGuest(new) PROVE new # guest
      BY <2>4 DEF ResetGuest
    <2>5. QED
      BY <1>2, <2>2, <2>3, <2>4, AttemptsStay DEF StartFreshGuest
  <1>3. CInv /\ [Next]_vars =>
          [\A k \in Keys : verdict'[k] = "accepted" =>
             \/ verdict[k] = "accepted"
             \/ \E g \in Guests : session[g] = "gone"
             \/ \E g \in Guests : \E o \in accepted[g] : o.key = k]_vars
    BY <1>1 DEF Next
  <1>4. CInv /\ [Next]_vars => [record = Damaged => record' = Damaged \/ guest' # guest]_vars
    BY <1>2 DEF Next
  <1>5. QED
    BY <1>3, <1>4, InvariantHolds, PTL DEF Spec, EvidenceIsTrueAndKept, NoInventedOrder,
      DamagedIsKept
=============================================================================
