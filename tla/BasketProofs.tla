----------------------------- MODULE BasketProofs -----------------------------
(***************************************************************************)
(* Proofs of what the pages of the basket promise, for any tabs, dishes,   *)
(* guests and bounds.                                                      *)
(***************************************************************************)
EXTENDS Browser, TLAPS

(***************************************************************************)
(* The pages of the basket.  now is the version the service holds for the  *)
(* guest of the cookie.  Every version a page, a write or an answer was    *)
(* made from is this one or an older one; without a reset elsewhere        *)
(* revisions of one guest are all there is to compare.  Every basket that  *)
(* is kept anywhere is from one restaurant.                                *)
(***************************************************************************)
Seen(v, now) ==
  /\ OneRestaurant(v.items)
  /\ "reset" \notin Weather =>
       /\ v.revision <= now.revision
       /\ v.revision = now.revision => v.items = now.items

CartOK(p, now) ==
  /\ p \in CartPages /\ Seen(p.shown, now) /\ OneRestaurant(p.offered)
  /\ p.conflict # None =>
       Seen(p.conflict.current, now) /\ OneRestaurant(p.conflict.attempted)

ItemOK(p, now) == p \in ItemPages /\ (p.intent # None => Seen(p.intent.current, now))

PageOK(p, now) == p = None \/ CartOK(p, now) \/ ItemOK(p, now)

MadeFrom(w) == [revision |-> w.expected, items |-> w.base]

WriteOK(w, now) ==
  /\ w \in Writes
  /\ Seen(MadeFrom(w), now) /\ OneRestaurant(w.items)
  /\ w.answer # None => Seen(w.answer.current, now)

QueueOK(q, now) ==
  /\ q \in Seq(Writes) /\ Len(q) <= MaxQueue
  /\ \A i \in 1..Len(q) : WriteOK(q[i], now)

LateWrites == [sent : Guests, expected : Nat, base : Baskets, items : Baskets]

LateOK(w, now) == w \in LateWrites /\ Seen(MadeFrom(w), now) /\ OneRestaurant(w.items)

Reads == {None} \union [line : Lines, live : BOOLEAN]

Pages == {None} \union CartPages \union ItemPages

PagesOf(kind) == IF kind = "cart" THEN CartPages ELSE ItemPages

\* The page that a live read or write belongs to is still there.
LiveOK(r, q, p) ==
  /\ r # None /\ r.live => p \in ItemPages
  /\ \A i \in 1..Len(q) : q[i].live => p \in PagesOf(q[i].by)

Now == basket[guest]

ServiceInv ==
  /\ basket \in [Guests -> Versions]
  /\ \A g \in Guests : OneRestaurant(basket[g].items)
  /\ \A g \in Guests : basket[g].revision = 0 => basket[g].items = Empty
  /\ guest \in issued /\ issued \subseteq Guests

DraftInv == minted \subseteq Lines /\ draft \in Baskets /\ OneRestaurant(draft)
PageInv  == page \in [Tabs -> Pages] /\ \A t \in Tabs : PageOK(page[t], Now)
ReadInv  == reading \in [Tabs -> Reads]
QueueInv == queue \in [Tabs -> Seq(Writes)] /\ \A t \in Tabs : QueueOK(queue[t], Now)
LiveInv  == \A t \in Tabs : LiveOK(reading[t], queue[t], page[t])
LateInv  == \A w \in late : LateOK(w, Now)

BasketInv == ServiceInv /\ DraftInv /\ PageInv /\ ReadInv /\ QueueInv /\ LiveInv /\ LateInv

(***************************************************************************)
(* Baskets.                                                                *)
(***************************************************************************)
LEMMA BasketShape ==
  ASSUME NEW b
  PROVE  b \in Baskets <=>
           b \in [DOMAIN b -> 1..MaxQuantity] /\ DOMAIN b \subseteq Lines
  <1>1. ASSUME b \in Baskets PROVE b \in [DOMAIN b -> 1..MaxQuantity] /\ DOMAIN b \subseteq Lines
    <2>1. PICK S \in SUBSET Lines : b \in [S -> 1..MaxQuantity]
      BY <1>1 DEF Baskets
    <2>2. DOMAIN b = S
      BY <2>1
    <2>3. QED
      BY <2>1, <2>2
  <1>2. ASSUME b \in [DOMAIN b -> 1..MaxQuantity], DOMAIN b \subseteq Lines PROVE b \in Baskets
    BY <1>2 DEF Baskets
  <1>3. QED
    BY <1>1, <1>2

LEMMA EmptyBasket == Empty \in Baskets /\ OneRestaurant(Empty)
  <1>1. Empty \in [{} -> 1..MaxQuantity] /\ DOMAIN Empty = {}
    BY DEF Empty
  <1>2. QED
    BY <1>1 DEF Baskets, OneRestaurant

LEMMA ClampedQuantity ==
  ASSUME NEW q \in Int
  PROVE  ClampQuantity(q) \in 1..MaxQuantity
  BY BrowserAssumption DEF BasketConstants, ClampQuantity

LEMMA EditedBasket ==
  ASSUME NEW b \in Baskets, OneRestaurant(b), NEW e \in Edits(b)
  PROVE  e \in Baskets /\ OneRestaurant(e)
  <1>1. b \in [DOMAIN b -> 1..MaxQuantity] /\ DOMAIN b \subseteq Lines
    BY BasketShape
  <1>2. ASSUME NEW l \in DOMAIN b, NEW d \in {-1, 1}, e = [b EXCEPT ![l] = ClampQuantity(@ + d)]
        PROVE  e \in Baskets /\ OneRestaurant(e)
    <2>1. b[l] + d \in Int
      BY <1>1, <1>2
    <2>2. ClampQuantity(b[l] + d) \in 1..MaxQuantity
      BY <2>1, ClampedQuantity
    <2>3. e \in [DOMAIN b -> 1..MaxQuantity] /\ DOMAIN e = DOMAIN b
      BY <1>1, <1>2, <2>2
    <2>4. QED
      BY <1>1, <2>3, BasketShape DEF OneRestaurant
  <1>3. ASSUME NEW l \in DOMAIN b, e = [m \in DOMAIN b \ {l} |-> b[m]]
        PROVE  e \in Baskets /\ OneRestaurant(e)
    <2>1. e \in [DOMAIN e -> 1..MaxQuantity] /\ DOMAIN e = DOMAIN b \ {l}
      BY <1>1, <1>3
    <2>2. e \in Baskets
      BY <1>1, <2>1, BasketShape
    <2>3. OneRestaurant(e)
      BY <2>1 DEF OneRestaurant
    <2>4. QED
      BY <2>2, <2>3
  <1> DEFINE A == {[b EXCEPT ![l] = ClampQuantity(@ + d)] : l \in DOMAIN b, d \in {-1, 1}}
             B == {[m \in DOMAIN b \ {l} |-> b[m]] : l \in DOMAIN b}
  <1>4. e \in A \/ e \in B \/ e = Empty
    <2>1. Edits(b) = A \union B \union {Empty}
      BY DEF Edits
    <2> HIDE DEF A, B
    <2>2. QED
      BY <2>1
  <1>5. ASSUME e \in A
        PROVE  \E l \in DOMAIN b, d \in {-1, 1} : e = [b EXCEPT ![l] = ClampQuantity(@ + d)]
    BY <1>5
  <1>6. ASSUME e \in B PROVE \E l \in DOMAIN b : e = [m \in DOMAIN b \ {l} |-> b[m]]
    BY <1>6
  <1> HIDE DEF A, B
  <1>7. QED
    BY <1>2, <1>3, <1>4, <1>5, <1>6, EmptyBasket

LEMMA BasketWithLine ==
  ASSUME NEW b \in Baskets, OneRestaurant(b), NEW l \in Lines, CanAddItem(b, l)
  PROVE  WithLine(b, l) \in Baskets /\ OneRestaurant(WithLine(b, l))
  <1> DEFINE e == WithLine(b, l)
  <1>1. b \in [DOMAIN b -> 1..MaxQuantity] /\ DOMAIN b \subseteq Lines
    BY BasketShape
  <1>2. 1 \in 1..MaxQuantity
    BY BrowserAssumption DEF BasketConstants
  <1>3. e \in [DOMAIN e -> 1..MaxQuantity] /\ DOMAIN e = DOMAIN b \union {l}
    BY <1>1, <1>2 DEF WithLine
  <1>4. OneRestaurant(e)
    BY <1>3 DEF CanAddItem, OneRestaurant
  <1>5. QED
    BY <1>1, <1>3, <1>4, BasketShape

LEMMA AnyLineInEmpty ==
  ASSUME NEW l
  PROVE  CanAddItem(Empty, l)
  BY DEF CanAddItem, Empty

(***************************************************************************)
(* What was seen stays seen when the service goes on to a later version,   *)
(* or when anything may have happened elsewhere.                           *)
(***************************************************************************)
LEMMA KindsOfPages ==
  /\ None \notin CartPages /\ None \notin ItemPages
  /\ \A p \in CartPages : p.kind = "cart"
  /\ \A p \in ItemPages : p.kind = "item"
  BY BrowserAssumption DEF BasketConstants, CartPages, ItemPages

LEMMA ShownTypes ==
  ASSUME NEW p \in CartPages
  PROVE  /\ p.kind = "cart" /\ p.shown \in Versions /\ p.offered \in Baskets
         /\ p.conflict # None => p.conflict \in [current : Versions, attempted : Baskets]
  BY DEF CartPages

LEMMA IntentTypes ==
  ASSUME NEW p \in ItemPages, p.intent # None
  PROVE  p.kind = "item" /\ p.intent \in [line : Lines, current : Versions]
  BY DEF ItemPages

Succeeds(new, now) ==
  /\ {now, new} \subseteq Versions /\ OneRestaurant(new.items)
  /\ "reset" \in Weather \/ new = now \/ new.revision > now.revision

LEMMA SeenIsRecent ==
  ASSUME NEW now \in Versions, OneRestaurant(now.items)
  PROVE  Seen(now, now)
  BY DEF Seen, Versions

LEMMA SeenStays ==
  ASSUME NEW now, NEW new, Succeeds(new, now), NEW v, v.revision \in Nat, Seen(v, now)
  PROVE  Seen(v, new)
  <1>1. now.revision \in Nat /\ new.revision \in Nat
    BY DEF Succeeds, Versions
  <1>2. QED
    BY <1>1 DEF Seen, Succeeds

LEMMA PageStays ==
  ASSUME NEW now, NEW new, Succeeds(new, now), NEW p, PageOK(p, now)
  PROVE  PageOK(p, new)
  <1>1. CASE CartOK(p, now)
    <2>1. p \in CartPages
      BY <1>1 DEF CartOK
    <2>2. /\ p.shown.revision \in Nat
          /\ p.conflict # None => p.conflict.current.revision \in Nat
      BY <2>1, ShownTypes DEF Versions
    <2>3. Seen(p.shown, new) /\ (p.conflict # None => Seen(p.conflict.current, new))
      BY <1>1, <2>2, SeenStays DEF CartOK
    <2>4. QED
      BY <1>1, <2>3 DEF PageOK, CartOK
  <1>2. CASE ItemOK(p, now)
    <2>1. p \in ItemPages
      BY <1>2 DEF ItemOK
    <2>2. p.intent # None => p.intent.current.revision \in Nat
      BY <2>1, IntentTypes DEF Versions
    <2>3. p.intent # None => Seen(p.intent.current, new)
      BY <1>2, <2>2, SeenStays DEF ItemOK
    <2>4. QED
      BY <1>2, <2>3 DEF PageOK, ItemOK
  <1>3. QED
    BY <1>1, <1>2 DEF PageOK

LEMMA WriteTypes ==
  ASSUME NEW w \in Writes
  PROVE  /\ MadeFrom(w) \in Versions /\ MadeFrom(w).revision = w.expected
         /\ w.items \in Baskets /\ w.base \in Baskets /\ w.expected \in Nat
         /\ w.sent # None => w.sent \in Guests
         /\ w.answer # None => w.answer \in [ok : BOOLEAN, current : Versions]
  BY DEF Writes, MadeFrom, Versions

LEMMA WriteStays ==
  ASSUME NEW now, NEW new, Succeeds(new, now), NEW w, WriteOK(w, now)
  PROVE  WriteOK(w, new)
  <1>1. w \in Writes /\ Seen(MadeFrom(w), now) /\ (w.answer # None => Seen(w.answer.current, now))
    BY DEF WriteOK
  <1>2. /\ MadeFrom(w).revision \in Nat
        /\ w.answer # None => w.answer.current.revision \in Nat
    BY <1>1, WriteTypes DEF Versions
  <1>3. Seen(MadeFrom(w), new) /\ (w.answer # None => Seen(w.answer.current, new))
    BY <1>1, <1>2, SeenStays
  <1>4. QED
    BY <1>3 DEF WriteOK

LEMMA LateStays ==
  ASSUME NEW now, NEW new, Succeeds(new, now), NEW w, LateOK(w, now)
  PROVE  LateOK(w, new)
  <1>1. MadeFrom(w).revision \in Nat /\ Seen(MadeFrom(w), now)
    BY DEF LateOK, LateWrites, MadeFrom
  <1>2. Seen(MadeFrom(w), new)
    BY <1>1, SeenStays
  <1>3. QED
    BY <1>2 DEF LateOK

LEMMA QueueStays ==
  ASSUME NEW now, NEW new, Succeeds(new, now), NEW q, QueueOK(q, now)
  PROVE  QueueOK(q, new)
  BY WriteStays DEF QueueOK

(***************************************************************************)
(* Queues.                                                                 *)
(***************************************************************************)
LEMMA OrphanIsOK ==
  ASSUME NEW w, NEW now, WriteOK(w, now)
  PROVE  WriteOK(Orphan(w), now)
  <1> DEFINE o == Orphan(w)
  <1>1. w \in Writes
    BY DEF WriteOK
  <1>2. /\ o \in Writes /\ o.expected = w.expected /\ o.base = w.base
        /\ o.items = w.items /\ o.answer = w.answer
    BY <1>1 DEF Orphan, Writes
  <1>3. WriteOK(o, now)
    <2> HIDE DEF o
    <2>1. QED
      BY <1>2 DEF WriteOK, MadeFrom
  <1>4. QED
    BY <1>3

LEMMA QueueHead ==
  ASSUME NEW q, NEW now, QueueOK(q, now), q # <<>>
  PROVE  /\ WriteOK(Head(q), now) /\ Head(q) = q[1] /\ Len(q) \in Nat /\ Len(q) > 0
         /\ DOMAIN q = 1..Len(q) /\ Tail(q) \in Seq(Writes)
  BY DEF QueueOK

LEMMA QueueTail ==
  ASSUME NEW q, NEW now, QueueOK(q, now), q # <<>>
  PROVE  QueueOK(Tail(q), now)
  <1>1. /\ q \in Seq(Writes) /\ Len(q) \in Nat /\ Len(q) > 0
        /\ Len(q) <= MaxQueue /\ MaxQueue \in Nat
    BY BrowserAssumption DEF QueueOK, BasketConstants
  <1>2. Tail(q) \in Seq(Writes) /\ Len(Tail(q)) = Len(q) - 1
    BY <1>1
  <1>3. \A i \in 1..Len(Tail(q)) : Tail(q)[i] = q[i + 1] /\ i + 1 \in 1..Len(q)
    BY <1>1, <1>2
  <1>4. QED
    BY <1>1, <1>2, <1>3 DEF QueueOK

LEMMA QueueAppend ==
  ASSUME NEW q, NEW now, QueueOK(q, now), Len(q) < MaxQueue, NEW w, WriteOK(w, now)
  PROVE  QueueOK(Append(q, w), now)
  <1>1. q \in Seq(Writes) /\ w \in Writes /\ MaxQueue \in Nat /\ Len(q) \in Nat
    BY BrowserAssumption DEF QueueOK, WriteOK, BasketConstants
  <1>2. Append(q, w) \in Seq(Writes) /\ Len(Append(q, w)) = Len(q) + 1
    BY <1>1
  <1>3. \A i \in 1..Len(q) + 1 : Append(q, w)[i] = IF i = Len(q) + 1 THEN w ELSE q[i]
    BY <1>1
  <1>4. QED
    BY <1>1, <1>2, <1>3 DEF QueueOK

LEMMA QueueSetHead ==
  ASSUME NEW q, NEW now, QueueOK(q, now), q # <<>>, NEW w, WriteOK(w, now)
  PROVE  QueueOK([q EXCEPT ![1] = w], now)
  <1>1. q \in Seq(Writes) /\ w \in Writes /\ Len(q) \in Nat /\ Len(q) > 0
    BY DEF QueueOK, WriteOK
  <1>2. [q EXCEPT ![1] = w] \in Seq(Writes) /\ Len([q EXCEPT ![1] = w]) = Len(q)
    BY <1>1
  <1>3. \A i \in 1..Len(q) : [q EXCEPT ![1] = w][i] = IF i = 1 THEN w ELSE q[i]
    BY <1>1
  <1>4. QED
    BY <1>2, <1>3 DEF QueueOK

LEMMA QueueOrphans ==
  ASSUME NEW q, NEW now, QueueOK(q, now), NEW o, o = [i \in DOMAIN q |-> Orphan(q[i])]
  PROVE  QueueOK(o, now) /\ (q # <<>> => o # <<>>)
  <1>1. q \in Seq(Writes) /\ Len(q) \in Nat /\ Len(q) <= MaxQueue /\ DOMAIN q = 1..Len(q)
    BY DEF QueueOK
  <1>2. \A i \in 1..Len(q) : WriteOK(o[i], now)
    BY <1>1, OrphanIsOK DEF QueueOK
  <1>3. \A i \in 1..Len(q) : o[i] \in Writes
    BY <1>2 DEF WriteOK
  <1>4. o \in [1..Len(q) -> Writes]
    BY <1>1, <1>3
  <1>5. o \in Seq(Writes) /\ Len(o) = Len(q)
    BY <1>1, <1>4
  <1>6. QED
    BY <1>1, <1>2, <1>5 DEF QueueOK

(***************************************************************************)
(* The steps.  What a step leaves alone stays as it was.                   *)
(***************************************************************************)
LEMMA NowIsAVersion ==
  ASSUME ServiceInv
  PROVE  /\ guest \in Guests /\ Now \in Versions /\ OneRestaurant(Now.items)
         /\ Now.revision \in Nat /\ Now.items \in Baskets /\ Seen(Now, Now)
         /\ Now.revision = 0 => Now.items = Empty
  <1>1. guest \in Guests
    BY DEF ServiceInv
  <1>2. Now \in Versions /\ OneRestaurant(Now.items) /\ (Now.revision = 0 => Now.items = Empty)
    BY <1>1 DEF ServiceInv, Now
  <1>3. QED
    BY <1>1, <1>2, SeenIsRecent DEF Versions

LEMMA LeftAlone ==
  ASSUME BasketInv, UNCHANGED service
  PROVE  /\ Now' = Now /\ ServiceInv'
         /\ UNCHANGED page => PageInv'
         /\ UNCHANGED reading => ReadInv'
         /\ UNCHANGED queue => QueueInv'
         /\ UNCHANGED late => LateInv'
         /\ UNCHANGED <<minted, draft>> => DraftInv'
  <1>1. Now' = Now
    BY DEF service, Now
  <1>2. ServiceInv'
    BY DEF BasketInv, ServiceInv, service
  <1>3. QED
    BY <1>1, <1>2 DEF BasketInv, PageInv, ReadInv, QueueInv, LateInv, DraftInv

LEMMA OnePage ==
  ASSUME BasketInv, UNCHANGED service,
         NEW t \in Tabs, NEW p, PageOK(p, Now), page' = [page EXCEPT ![t] = p]
  PROVE  PageInv'
  <1>1. p \in Pages
    BY DEF PageOK, CartOK, ItemOK, Pages
  <1>2. page' \in [Tabs -> Pages] /\ \A u \in Tabs : PageOK(page'[u], Now)
    BY <1>1 DEF BasketInv, PageInv
  <1>3. QED
    BY <1>2, LeftAlone DEF PageInv

LEMMA OneQueue ==
  ASSUME BasketInv, UNCHANGED service,
         NEW t \in Tabs, NEW q, QueueOK(q, Now), queue' = [queue EXCEPT ![t] = q]
  PROVE  QueueInv'
  <1>1. q \in Seq(Writes)
    BY DEF QueueOK
  <1>2. queue' \in [Tabs -> Seq(Writes)] /\ \A u \in Tabs : QueueOK(queue'[u], Now)
    BY <1>1 DEF BasketInv, QueueInv
  <1>3. QED
    BY <1>2, LeftAlone DEF QueueInv

LEMMA OneRead ==
  ASSUME BasketInv, NEW t \in Tabs, NEW r \in Reads, reading' = [reading EXCEPT ![t] = r]
  PROVE  ReadInv'
  BY DEF BasketInv, ReadInv

LEMMA DraftKept ==
  ASSUME BasketInv, NEW items \in Baskets, OneRestaurant(items), KeepDraft(items),
         minted' \subseteq Lines
  PROVE  DraftInv'
  <1>1. draft' = items \/ draft' = draft
    BY DEF KeepDraft
  <1>2. QED
    BY <1>1 DEF BasketInv, DraftInv

LEMMA CartPageFields ==
  ASSUME ServiceInv, DraftInv
  PROVE  /\ CartPage \in CartPages /\ Seen(CartPage.shown, Now)
         /\ CartPage.conflict = None /\ CartPage.offered = draft
  <1> DEFINE none == [revision |-> 0, items |-> Empty]
             p    == CartPage
  <1>1. none \in Versions /\ Seen(none, Now)
    BY NowIsAVersion, EmptyBasket DEF Versions, Seen
  <1>2. p = [kind |-> "cart", stage |-> "loading", shown |-> none, conflict |-> None,
             offered |-> draft, error |-> FALSE, busy |-> FALSE]
    BY DEF CartPage
  <1> HIDE DEF none, p
  <1>3. p \in CartPages /\ p.shown = none /\ p.conflict = None /\ p.offered = draft
    BY <1>1, <1>2 DEF CartPages, DraftInv
  <1>4. QED
    BY <1>1, <1>3 DEF p

LEMMA CartPageOK ==
  ASSUME ServiceInv, DraftInv
  PROVE  PageOK(CartPage, Now)
  BY CartPageFields DEF PageOK, CartOK, DraftInv

LEMMA NewCartPage ==
  ASSUME ServiceInv, DraftInv, NEW items \in Baskets, OneRestaurant(items)
  PROVE  PageOK([CartPage EXCEPT !.offered = items], Now)
  <1> DEFINE p == [CartPage EXCEPT !.offered = items]
  <1>1. /\ p \in CartPages /\ p.shown = CartPage.shown
        /\ p.conflict = CartPage.conflict /\ p.offered = items
    BY CartPageFields DEF CartPages
  <1> HIDE DEF p
  <1>2. PageOK(p, Now)
    BY <1>1, CartPageFields DEF PageOK, CartOK
  <1>3. QED
    BY <1>2 DEF p

LEMMA ItemPageOK == PageOK(ItemPage, Now)
  <1>1. ItemPage \in ItemPages /\ ItemPage.intent = None
    BY DEF ItemPage, ItemPages
  <1>2. QED
    BY <1>1 DEF PageOK, ItemOK

LEMMA NewWrite ==
  ASSUME NEW by \in {"cart", "item"}, NEW l \in BOOLEAN, NEW base \in Versions, NEW now,
         Seen(base, now), NEW items \in Baskets, OneRestaurant(items)
  PROVE  WriteOK(Write(by, l, base, items), now)
  <1> DEFINE w == Write(by, l, base, items)
  <1>1. w \in Writes
    BY DEF Write, Writes, Versions
  <1>2. w.expected = base.revision /\ w.base = base.items /\ w.items = items /\ w.answer = None
    BY DEF Write
  <1>3. MadeFrom(w) = base
    BY <1>2 DEF MadeFrom, Versions
  <1>4. WriteOK(w, now)
    <2> HIDE DEF w
    <2>1. QED
      BY <1>1, <1>2, <1>3 DEF WriteOK
  <1>5. QED
    BY <1>4

LEMMA PageOf ==
  ASSUME BasketInv, NEW t \in Tabs
  PROVE  /\ PageOK(page[t], Now) /\ page[t] \in Pages
         /\ page[t] \in CartPages => CartOK(page[t], Now)
         /\ page[t] \in ItemPages => ItemOK(page[t], Now)
         /\ Shows(t, "cart") => CartOK(page[t], Now)
         /\ Shows(t, "item") => ItemOK(page[t], Now)
  <1>1. PageOK(page[t], Now) /\ page[t] \in Pages
    BY DEF BasketInv, PageInv
  <1>2. QED
    BY <1>1, KindsOfPages DEF Shows, PageOK, CartOK, ItemOK

LEMMA CartPageStep ==
  ASSUME NEW now, NEW p, CartOK(p, now), NEW q \in CartPages,
         q.shown = p.shown \/ Seen(q.shown, now),
         q.offered = p.offered \/ OneRestaurant(q.offered),
         \/ q.conflict = p.conflict \/ q.conflict = None
         \/ Seen(q.conflict.current, now) /\ OneRestaurant(q.conflict.attempted)
  PROVE  CartOK(q, now) /\ PageOK(q, now)
  BY DEF CartOK, PageOK

LEMMA ItemPageStep ==
  ASSUME NEW now, NEW p, ItemOK(p, now), NEW q \in ItemPages,
         q.intent = p.intent \/ q.intent = None \/ Seen(q.intent.current, now)
  PROVE  ItemOK(q, now) /\ PageOK(q, now)
  BY DEF ItemOK, PageOK

LEMMA OneTab ==
  ASSUME BasketInv, NEW t \in Tabs,
         \A u \in Tabs \ {t} : UNCHANGED <<page[u], reading[u], queue[u]>>,
         LiveOK(reading'[t], queue'[t], page'[t])
  PROVE  LiveInv'
  BY DEF BasketInv, LiveInv

LEMMA LiveOf ==
  ASSUME BasketInv, NEW t \in Tabs
  PROVE  LiveOK(reading[t], queue[t], page[t])
  BY DEF BasketInv, LiveInv

LEMMA LiveSamePage ==
  ASSUME NEW r, NEW q, NEW p, LiveOK(r, q, p), NEW p2,
         p \in CartPages => p2 \in CartPages, p \in ItemPages => p2 \in ItemPages
  PROVE  LiveOK(r, q, p2)
  BY DEF LiveOK, PagesOf

LEMMA LiveTail ==
  ASSUME NEW r, NEW q, NEW p, NEW now, LiveOK(r, q, p), QueueOK(q, now), q # <<>>
  PROVE  LiveOK(r, Tail(q), p)
  <1>1. q \in Seq(Writes) /\ Len(q) \in Nat /\ Len(q) > 0
    BY DEF QueueOK
  <1>2. Len(Tail(q)) = Len(q) - 1 /\ \A i \in 1..Len(q) - 1 : Tail(q)[i] = q[i + 1]
    BY <1>1
  <1>3. \A i \in 1..Len(q) - 1 : i + 1 \in 1..Len(q)
    BY <1>1
  <1>4. QED
    BY <1>2, <1>3 DEF LiveOK

LEMMA LiveAppend ==
  ASSUME NEW r, NEW q, NEW p, NEW now, LiveOK(r, q, p), QueueOK(q, now),
         NEW w \in Writes, w.live => p \in PagesOf(w.by)
  PROVE  LiveOK(r, Append(q, w), p)
  <1>1. q \in Seq(Writes) /\ Len(q) \in Nat
    BY DEF QueueOK
  <1>2. /\ Len(Append(q, w)) = Len(q) + 1
        /\ \A i \in 1..Len(q) + 1 : Append(q, w)[i] = IF i = Len(q) + 1 THEN w ELSE q[i]
    BY <1>1
  <1>3. QED
    BY <1>1, <1>2 DEF LiveOK

LEMMA LiveHead ==
  ASSUME NEW r, NEW q, NEW p, NEW now, LiveOK(r, q, p), QueueOK(q, now), q # <<>>,
         NEW w \in Writes, w.live = q[1].live, w.by = q[1].by
  PROVE  LiveOK(r, [q EXCEPT ![1] = w], p)
  <1>1. q \in Seq(Writes) /\ Len(q) \in Nat /\ Len(q) > 0
    BY DEF QueueOK
  <1>2. /\ Len([q EXCEPT ![1] = w]) = Len(q)
        /\ \A i \in 1..Len(q) : [q EXCEPT ![1] = w][i] = IF i = 1 THEN w ELSE q[i]
    BY <1>1
  <1>3. 1 \in 1..Len(q)
    BY <1>1
  <1>4. QED
    BY <1>1, <1>2, <1>3 DEF LiveOK

LEMMA LiveOrphans ==
  ASSUME NEW r, NEW q, NEW p, NEW now, QueueOK(q, now), r = None \/ r.live = FALSE,
         NEW o, o = [i \in DOMAIN q |-> Orphan(q[i])]
  PROVE  LiveOK(r, o, p)
  <1>1. q \in Seq(Writes) /\ DOMAIN q = 1..Len(q) /\ Len(q) \in Nat
    BY DEF QueueOK
  <1>2. \A i \in 1..Len(q) : o[i].live = FALSE
    <2> TAKE i \in 1..Len(q)
    <2>1. q[i] \in Writes
      BY <1>1
    <2>2. o[i] = [q[i] EXCEPT !.live = FALSE]
      BY <1>1 DEF Orphan
    <2>3. QED
      BY <2>1, <2>2 DEF Writes
  <1>3. Len(o) = Len(q)
    BY <1>1
  <1>4. QED
    BY <1>2, <1>3 DEF LiveOK

Becomes(new, f, t, v) == new = [f EXCEPT ![t] = v] \/ (new = f /\ v = f[t])

\* A step of one tab that leaves the service alone.
LEMMA TabStep ==
  ASSUME BasketInv, UNCHANGED service, NEW t \in Tabs, NEW p, NEW q, NEW r \in Reads,
         Becomes(page', page, t, p), Becomes(queue', queue, t, q),
         Becomes(reading', reading, t, r),
         PageOK(p, Now), QueueOK(q, Now), LiveOK(r, q, p), DraftInv', LateInv'
  PROVE  BasketInv'
  <1>1. page \in [Tabs -> Pages] /\ queue \in [Tabs -> Seq(Writes)] /\ reading \in [Tabs -> Reads]
    BY DEF BasketInv, PageInv, QueueInv, ReadInv
  <1>2. PageInv'
    BY <1>1, OnePage, LeftAlone DEF Becomes
  <1>3. QueueInv'
    BY <1>1, OneQueue, LeftAlone DEF Becomes
  <1>4. ReadInv'
    BY <1>1, OneRead, LeftAlone DEF Becomes
  <1>5. page'[t] = p /\ queue'[t] = q /\ reading'[t] = r
    BY <1>1 DEF Becomes
  <1>6. \A u \in Tabs \ {t} : UNCHANGED <<page[u], reading[u], queue[u]>>
    BY <1>1 DEF Becomes
  <1>7. LiveInv'
    BY <1>5, <1>6, OneTab
  <1>8. QED
    BY <1>2, <1>3, <1>4, <1>7, LeftAlone DEF BasketInv

\* What a tab holds before a step of its own.
LEMMA TabOf ==
  ASSUME BasketInv, NEW t \in Tabs
  PROVE  /\ PageOK(page[t], Now) /\ QueueOK(queue[t], Now) /\ reading[t] \in Reads
         /\ LiveOK(reading[t], queue[t], page[t])
         /\ Becomes(page, page, t, page[t]) /\ Becomes(queue, queue, t, queue[t])
         /\ Becomes(reading, reading, t, reading[t])
  BY DEF BasketInv, PageInv, QueueInv, ReadInv, LiveInv, Becomes

\* A step that changes what one page shows, and nothing else.
LEMMA PageStep ==
  ASSUME BasketInv, UNCHANGED <<service, minted, draft, reading, queue, late>>,
         NEW t \in Tabs, NEW p, page' = [page EXCEPT ![t] = p], PageOK(p, Now),
         page[t] \in CartPages => p \in CartPages, page[t] \in ItemPages => p \in ItemPages
  PROVE  BasketInv'
  <1>1. LiveOK(reading[t], queue[t], p)
    BY TabOf, LiveSamePage
  <1>2. Becomes(page', page, t, p)
    BY DEF Becomes
  <1>3. DraftInv' /\ LateInv'
    BY LeftAlone
  <1>4. QED
    BY <1>1, <1>2, <1>3, TabOf, TabStep

-----------------------------------------------------------------------------
LEMMA OrphanTab ==
  ASSUME BasketInv, NEW t \in Tabs, NEW p
  PROVE  LET r == IF reading[t] = None THEN None ELSE Orphan(reading[t]) IN
         r \in Reads /\ QueueOK(Orphans(t), Now) /\ LiveOK(r, Orphans(t), p)
         /\ (Working(t) => Orphans(t) # <<>>)
  <1> DEFINE r == IF reading[t] = None THEN None ELSE Orphan(reading[t])
  <1>1. QueueOK(Orphans(t), Now) /\ (Working(t) => Orphans(t) # <<>>)
    BY TabOf, QueueOrphans DEF Orphans, Working
  <1>2. r \in Reads /\ (r = None \/ r.live = FALSE)
    <2>1. reading[t] \in Reads
      BY TabOf
    <2>2. QED
      BY <2>1 DEF Reads, Orphan
  <1> HIDE DEF r
  <1>3. LiveOK(r, Orphans(t), p)
    BY <1>2, TabOf, LiveOrphans DEF Orphans
  <1>4. QED
    BY <1>1, <1>2, <1>3 DEF r

LEMMA OpenStep ==
  ASSUME BasketInv, NEW t \in Tabs, Open(t)
  PROVE  BasketInv'
  <1> DEFINE r == IF reading[t] = None THEN None ELSE Orphan(reading[t])
             q == Orphans(t)
  <1>1. PICK p \in {CartPage, ItemPage} : page' = [page EXCEPT ![t] = p]
    BY DEF Open
  <1>2. PageOK(p, Now)
    BY CartPageOK, ItemPageOK DEF BasketInv
  <1>3. UNCHANGED service /\ DraftInv' /\ LateInv'
    BY LeftAlone DEF Open
  <1>4. /\ Becomes(page', page, t, p) /\ Becomes(queue', queue, t, q)
        /\ Becomes(reading', reading, t, r)
    BY <1>1 DEF Open, Becomes
  <1>5. r \in Reads /\ QueueOK(q, Now) /\ LiveOK(r, q, p)
    BY OrphanTab
  <1> HIDE DEF q, r
  <1>6. QED
    BY <1>2, <1>3, <1>4, <1>5, TabStep

LEMMA LoadStep ==
  ASSUME BasketInv, NEW t \in Tabs, Load(t)
  PROVE  BasketInv'
  <1> DEFINE p == page[t]
             r == [[p EXCEPT !.stage = "ready"] EXCEPT !.shown = Now]
             f == [p EXCEPT !.stage = "failed"]
  <1>1. p \in CartPages /\ CartOK(p, Now) /\ p \notin ItemPages
    BY PageOf, KindsOfPages DEF Load, CartOK
  <1>2. page \in [Tabs -> Pages]
    BY DEF BasketInv, PageInv
  <1>3. Now \in Versions /\ Seen(Now, Now)
    BY NowIsAVersion DEF BasketInv
  <1>4. /\ r \in CartPages /\ r.shown = Now /\ r.offered = p.offered /\ r.conflict = p.conflict
        /\ f \in CartPages /\ f.shown = p.shown /\ f.offered = p.offered /\ f.conflict = p.conflict
    BY <1>1, <1>3 DEF CartPages
  <1>5. page' = [page EXCEPT ![t] = r] \/ page' = [page EXCEPT ![t] = f]
    BY <1>2 DEF Load, Now
  <1>6. UNCHANGED <<service, minted, draft, reading, queue, late>>
    BY DEF Load
  <1>7. CartOK(r, Now) /\ PageOK(r, Now) /\ CartOK(f, Now) /\ PageOK(f, Now)
    <2> HIDE DEF p, r, f
    <2>1. QED
      BY <1>1, <1>3, <1>4, CartPageStep
  <1>8. QED
    <2> HIDE DEF r, f
    <2>1. QED
      BY <1>1, <1>4, <1>5, <1>6, <1>7, PageStep

LEMMA ReloadStep ==
  ASSUME BasketInv, NEW t \in Tabs, Reload(t)
  PROVE  BasketInv'
  <1>1. page[t] \notin ItemPages
    BY PageOf, KindsOfPages DEF Reload, CartOK
  <1>2. PageOK(CartPage, Now) /\ CartPage \in CartPages
    BY CartPageOK, CartPageFields DEF BasketInv
  <1>3. QED
    BY <1>1, <1>2, PageStep DEF Reload

LEMMA PersistStep ==
  ASSUME BasketInv, NEW t \in Tabs, page[t] \in CartPages,
         NEW p \in CartPages, CartOK(p, Now), NEW base \in Versions, Seen(base, Now),
         NEW items \in Baskets, OneRestaurant(items), Persist(t, p, base, items)
  PROVE  BasketInv'
  <1> DEFINE n == [p EXCEPT !.busy = TRUE, !.error = FALSE, !.offered = items]
             w == Write("cart", TRUE, base, items)
             q == Append(queue[t], w)
  <1>1. n \in CartPages /\ n.shown = p.shown /\ n.offered = items /\ n.conflict = p.conflict
    BY DEF CartPages
  <1>2. WriteOK(w, Now) /\ w \in Writes /\ w.by = "cart"
    BY NewWrite DEF WriteOK, Write
  <1>3. QueueOK(queue[t], Now) /\ Len(queue[t]) < MaxQueue
    BY TabOf DEF Persist, Room
  <1>4. /\ Becomes(page', page, t, n) /\ Becomes(queue', queue, t, q)
        /\ Becomes(reading', reading, t, reading[t])
    BY TabOf DEF Becomes, Persist, Enqueue
  <1>5. DraftInv'
    BY DraftKept DEF Persist, BasketInv, DraftInv
  <1>6. UNCHANGED service /\ LateInv'
    BY LeftAlone DEF Persist
  <1> HIDE DEF n, w
  <1>7. PageOK(n, Now) /\ QueueOK(q, Now)
    BY <1>1, <1>2, <1>3, CartPageStep, QueueAppend
  <1>8. LiveOK(reading[t], queue[t], n)
    BY <1>1, TabOf, LiveSamePage, KindsOfPages
  <1>9. LiveOK(reading[t], q, n)
    <2>1. w.live => n \in PagesOf(w.by)
      BY <1>1, <1>2 DEF PagesOf
    <2>2. QED
      BY <1>2, <1>3, <1>8, <2>1, LiveAppend
  <1> HIDE DEF q
  <1>10. QED
    BY <1>4, <1>5, <1>6, <1>7, <1>9, TabOf, TabStep

LEMMA ChangeStep ==
  ASSUME BasketInv, NEW t \in Tabs, Change(t)
  PROVE  BasketInv'
  <1>1. page[t] \in CartPages /\ CartOK(page[t], Now)
    BY PageOf DEF Change, Ready, Idle, CartOK
  <1>2. page[t].shown \in Versions /\ Seen(page[t].shown, Now)
    BY <1>1, ShownTypes DEF CartOK
  <1>3. page[t].shown.items \in Baskets /\ OneRestaurant(page[t].shown.items)
    BY <1>2 DEF Versions, Seen
  <1>4. PICK items \in Edits(page[t].shown.items) :
          Persist(t, page[t], page[t].shown, items)
    BY DEF Change
  <1>5. items \in Baskets /\ OneRestaurant(items)
    BY <1>3, EditedBasket
  <1>6. QED
    BY <1>1, <1>2, <1>4, <1>5, PersistStep

LEMMA ReapplyConflictStep ==
  ASSUME BasketInv, NEW t \in Tabs, ReapplyConflict(t)
  PROVE  BasketInv'
  <1> DEFINE p == page[t]
             q == [p EXCEPT !.conflict = None]
  <1>1. p \in CartPages /\ CartOK(p, Now) /\ p.conflict # None
    BY PageOf DEF ReapplyConflict, Ready, Idle, CartOK
  <1>2. p.conflict \in [current : Versions, attempted : Baskets]
    BY <1>1, ShownTypes
  <1>3. /\ p.conflict.current \in Versions /\ Seen(p.conflict.current, Now)
        /\ p.conflict.attempted \in Baskets /\ OneRestaurant(p.conflict.attempted)
    BY <1>1, <1>2, ShownTypes DEF CartOK
  <1>4. q \in CartPages /\ q.shown = p.shown /\ q.offered = p.offered /\ q.conflict = None
    BY <1>1 DEF CartPages
  <1>5. Persist(t, q, p.conflict.current, p.conflict.attempted)
    BY DEF ReapplyConflict
  <1> HIDE DEF q
  <1>6. CartOK(q, Now)
    BY <1>1, <1>4, CartPageStep
  <1>7. QED
    BY <1>1, <1>3, <1>4, <1>5, <1>6, PersistStep

LEMMA ReapplyDraftStep ==
  ASSUME BasketInv, NEW t \in Tabs, ReapplyDraft(t)
  PROVE  BasketInv'
  <1>1. page[t] \in CartPages /\ CartOK(page[t], Now)
    BY PageOf DEF ReapplyDraft, Offers, Ready, Idle, CartOK
  <1>2. /\ page[t].shown \in Versions /\ Seen(page[t].shown, Now)
        /\ page[t].offered \in Baskets /\ OneRestaurant(page[t].offered)
    BY <1>1, ShownTypes DEF CartOK
  <1>3. Persist(t, page[t], page[t].shown, page[t].offered)
    BY DEF ReapplyDraft
  <1>4. QED
    BY <1>1, <1>2, <1>3, PersistStep

LEMMA ReviewCurrentStep ==
  ASSUME BasketInv, NEW t \in Tabs, ReviewCurrent(t)
  PROVE  BasketInv'
  <1> DEFINE p == page[t]
             q == [p EXCEPT !.conflict = None]
  <1>1. p \in CartPages /\ CartOK(p, Now) /\ p \notin ItemPages
    BY PageOf, KindsOfPages DEF ReviewCurrent, Ready, Idle, CartOK
  <1>2. q \in CartPages /\ q.shown = p.shown /\ q.offered = p.offered /\ q.conflict = None
    BY <1>1 DEF CartPages
  <1>3. page' = [page EXCEPT ![t] = q]
    BY DEF ReviewCurrent
  <1> HIDE DEF q
  <1>4. PageOK(q, Now)
    BY <1>1, <1>2, CartPageStep
  <1>5. QED
    BY <1>1, <1>2, <1>3, <1>4, PageStep DEF ReviewCurrent

-----------------------------------------------------------------------------
LEMMA AddStep ==
  ASSUME BasketInv, NEW t \in Tabs, Add(t)
  PROVE  BasketInv'
  <1> DEFINE p == [page[t] EXCEPT !.busy = TRUE]
  <1>1. page[t] \in ItemPages /\ ItemOK(page[t], Now) /\ page[t] \notin CartPages
    BY PageOf, KindsOfPages DEF Add, Idle, ItemOK
  <1>2. PICK l \in Lines \ minted :
          /\ minted' = minted \union {l}
          /\ reading' = [reading EXCEPT ![t] = [line |-> l, live |-> TRUE]]
    BY DEF Add
  <1> DEFINE r == [line |-> l, live |-> TRUE]
  <1>3. p \in ItemPages /\ p.intent = page[t].intent
    BY <1>1 DEF ItemPages
  <1>4. r \in Reads
    BY DEF Reads
  <1>5. /\ Becomes(page', page, t, p) /\ Becomes(queue', queue, t, queue[t])
        /\ Becomes(reading', reading, t, r)
    BY <1>2, TabOf DEF Add, Becomes
  <1>6. UNCHANGED service /\ LateInv' /\ DraftInv'
    BY <1>2, LeftAlone DEF Add, BasketInv, DraftInv
  <1> HIDE DEF p, r
  <1>7. PageOK(p, Now)
    BY <1>1, <1>3, ItemPageStep
  <1>8. LiveOK(r, queue[t], p)
    <2>1. LiveOK(reading[t], queue[t], p)
      BY <1>1, <1>3, TabOf, LiveSamePage
    <2>2. QED
      BY <1>3, <2>1 DEF LiveOK
  <1>9. QED
    BY <1>4, <1>5, <1>6, <1>7, <1>8, TabOf, TabStep

LEMMA ReadStep ==
  ASSUME BasketInv, NEW t \in Tabs, Read(t)
  PROVE  BasketInv'
  <1> DEFINE line == reading[t].line
             l    == reading[t].live
  <1>1. reading[t] \in [line : Lines, live : BOOLEAN] /\ line \in Lines /\ l \in BOOLEAN
    BY TabOf DEF Read, Reads
  <1>2. Now \in Versions /\ Seen(Now, Now) /\ Now.items \in Baskets /\ OneRestaurant(Now.items)
    BY NowIsAVersion DEF BasketInv
  <1>3. l => page[t] \in ItemPages /\ ItemOK(page[t], Now)
    BY TabOf, PageOf DEF LiveOK, Read
  <1>4. UNCHANGED service /\ LateInv' /\ DraftInv'
    BY LeftAlone DEF Read
  <1>5. Becomes(reading', reading, t, None) /\ None \in Reads
    BY DEF Read, Becomes, Reads
  <1>6. \A p : LiveOK(reading[t], queue[t], p) => LiveOK(None, queue[t], p)
    BY DEF LiveOK
  <1>7. CASE CanAddItem(Now.items, line)
    <2> DEFINE w == Write("item", l, Now, WithLine(Now.items, line))
               q == Append(queue[t], w)
    <2>1. WriteOK(w, Now) /\ w \in Writes /\ w.live = l /\ w.by = "item"
      <3>1. WithLine(Now.items, line) \in Baskets /\ OneRestaurant(WithLine(Now.items, line))
        BY <1>1, <1>2, <1>7, BasketWithLine
      <3>2. QED
        BY <1>1, <1>2, <3>1, NewWrite DEF WriteOK, Write
    <2>2. QueueOK(queue[t], Now) /\ Len(queue[t]) < MaxQueue
      BY TabOf DEF Read, Room
    <2>3. Becomes(queue', queue, t, q) /\ Becomes(page', page, t, page[t])
      BY <1>7 DEF Read, Enqueue, Becomes, Now
    <2> HIDE DEF w, l
    <2>4. QueueOK(q, Now)
      BY <2>1, <2>2, QueueAppend
    <2>5. LiveOK(None, q, page[t])
      <3>1. w.live => page[t] \in PagesOf(w.by)
        BY <1>3, <2>1 DEF PagesOf
      <3>2. QED
        BY <1>6, <2>1, <2>2, <3>1, TabOf, LiveAppend
    <2> HIDE DEF q
    <2>6. QED
      BY <1>4, <1>5, <2>3, <2>4, <2>5, TabOf, TabStep
  <1>8. CASE ~CanAddItem(Now.items, line) /\ l
    <2> DEFINE p == [[page[t] EXCEPT !.busy = FALSE]
                       EXCEPT !.intent = [line |-> line, current |-> Now]]
    <2>1. p \in ItemPages /\ p.intent = [line |-> line, current |-> Now]
      BY <1>1, <1>2, <1>3, <1>8 DEF ItemPages
    <2>2. page \in [Tabs -> Pages]
      BY DEF BasketInv, PageInv
    <2>3. Becomes(queue', queue, t, queue[t]) /\ Becomes(page', page, t, p)
      BY <1>8, <2>2 DEF Read, Becomes, Now
    <2> HIDE DEF p
    <2>4. PageOK(p, Now)
      BY <1>2, <1>3, <1>8, <2>1, ItemPageStep
    <2>5. LiveOK(None, queue[t], p)
      BY <1>3, <1>6, <1>8, <2>1, TabOf, LiveSamePage, KindsOfPages
    <2>6. QED
      BY <1>4, <1>5, <2>3, <2>4, <2>5, TabOf, TabStep
  <1>9. CASE ~CanAddItem(Now.items, line) /\ ~l
    <2>1. Becomes(queue', queue, t, queue[t]) /\ Becomes(page', page, t, page[t])
      BY <1>9 DEF Read, Becomes, Now
    <2>2. QED
      BY <1>4, <1>5, <1>6, <2>1, TabOf, TabStep
  <1>10. QED
    BY <1>7, <1>8, <1>9

LEMMA ReadFailsStep ==
  ASSUME BasketInv, NEW t \in Tabs, ReadFails(t)
  PROVE  BasketInv'
  <1> DEFINE p == IF reading[t].live THEN [page[t] EXCEPT !.busy = FALSE] ELSE page[t]
  <1>1. reading[t] # None /\ (reading[t].live => page[t] \in ItemPages)
    BY TabOf DEF ReadFails, LiveOK
  <1>2. Becomes(page', page, t, p) /\ Becomes(queue', queue, t, queue[t])
        /\ Becomes(reading', reading, t, None)
    BY DEF ReadFails, Becomes
  <1>3. UNCHANGED service /\ LateInv' /\ DraftInv' /\ None \in Reads
    BY LeftAlone DEF ReadFails, Reads
  <1>4. p = page[t] \/ (page[t] \in ItemPages /\ p \in ItemPages /\ p.intent = page[t].intent)
    BY <1>1 DEF ItemPages
  <1> HIDE DEF p
  <1>5. PageOK(p, Now) /\ LiveOK(reading[t], queue[t], p)
    BY <1>4, TabOf, PageOf, ItemPageStep, LiveSamePage, KindsOfPages
  <1>6. LiveOK(None, queue[t], p)
    BY <1>5 DEF LiveOK
  <1>7. QED
    BY <1>2, <1>3, <1>5, <1>6, TabOf, TabStep

LEMMA KeepBasketStep ==
  ASSUME BasketInv, NEW t \in Tabs, KeepBasket(t)
  PROVE  BasketInv'
  <1> DEFINE p == [page[t] EXCEPT !.intent = None]
  <1>1. page[t] \in ItemPages /\ ItemOK(page[t], Now) /\ page[t] \notin CartPages
    BY PageOf, KindsOfPages DEF KeepBasket, Idle, ItemOK
  <1>2. p \in ItemPages /\ p.intent = None
    BY <1>1 DEF ItemPages
  <1>3. page' = [page EXCEPT ![t] = p]
    BY DEF KeepBasket
  <1> HIDE DEF p
  <1>4. PageOK(p, Now)
    BY <1>1, <1>2, ItemPageStep
  <1>5. QED
    BY <1>1, <1>2, <1>3, <1>4, PageStep DEF KeepBasket

LEMMA ReplaceBasketStep ==
  ASSUME BasketInv, NEW t \in Tabs, ReplaceBasket(t)
  PROVE  BasketInv'
  <1> DEFINE i == page[t].intent
             p == [[page[t] EXCEPT !.intent = None] EXCEPT !.busy = TRUE]
             w == Write("item", TRUE, i.current, WithLine(Empty, i.line))
             q == Append(queue[t], w)
  <1>1. page[t] \in ItemPages /\ ItemOK(page[t], Now) /\ page[t] \notin CartPages
    BY PageOf, KindsOfPages DEF ReplaceBasket, Idle, ItemOK
  <1>2. i \in [line : Lines, current : Versions] /\ Seen(i.current, Now)
    BY <1>1, IntentTypes DEF ReplaceBasket, ItemOK
  <1>3. WithLine(Empty, i.line) \in Baskets /\ OneRestaurant(WithLine(Empty, i.line))
    BY <1>2, EmptyBasket, AnyLineInEmpty, BasketWithLine
  <1>4. WriteOK(w, Now) /\ w \in Writes /\ w.by = "item"
    BY <1>2, <1>3, NewWrite DEF WriteOK, Write
  <1>5. p \in ItemPages /\ p.intent = None
    BY <1>1 DEF ItemPages
  <1>6. page \in [Tabs -> Pages]
    BY DEF BasketInv, PageInv
  <1>7. /\ Becomes(page', page, t, p) /\ Becomes(queue', queue, t, q)
        /\ Becomes(reading', reading, t, reading[t])
    BY <1>6 DEF ReplaceBasket, Enqueue, Becomes
  <1>8. QueueOK(queue[t], Now) /\ Len(queue[t]) < MaxQueue
    BY TabOf DEF ReplaceBasket, Room
  <1>9. UNCHANGED service /\ LateInv' /\ DraftInv'
    BY LeftAlone DEF ReplaceBasket
  <1> HIDE DEF i, p, w
  <1>10. PageOK(p, Now) /\ QueueOK(q, Now)
    BY <1>1, <1>4, <1>5, <1>8, ItemPageStep, QueueAppend
  <1>11. LiveOK(reading[t], q, p)
    <2>1. LiveOK(reading[t], queue[t], p)
      BY <1>1, <1>5, TabOf, LiveSamePage
    <2>2. w.live => p \in PagesOf(w.by)
      BY <1>4, <1>5 DEF PagesOf
    <2>3. QED
      BY <1>4, <1>8, <2>1, <2>2, LiveAppend
  <1> HIDE DEF q
  <1>12. QED
    BY <1>7, <1>9, <1>10, <1>11, TabOf, TabStep

-----------------------------------------------------------------------------
LEMMA HeadOf ==
  ASSUME BasketInv, NEW t \in Tabs, Working(t)
  PROVE  /\ WriteOK(Head(queue[t]), Now) /\ Head(queue[t]) \in Writes
         /\ Head(queue[t]) = queue[t][1] /\ queue[t] # <<>>
         /\ Head(queue[t]).live => page[t] \in PagesOf(Head(queue[t]).by)
  <1>1. queue[t] # <<>> /\ QueueOK(queue[t], Now)
    BY TabOf DEF Working
  <1>2. WriteOK(Head(queue[t]), Now) /\ Head(queue[t]) = queue[t][1] /\ 1 \in 1..Len(queue[t])
    BY <1>1, QueueHead
  <1>3. QED
    BY <1>1, <1>2, TabOf DEF WriteOK, LiveOK

LEMMA NewHead ==
  ASSUME BasketInv, NEW t \in Tabs, Working(t), NEW now, QueueOK(queue[t], now),
         NEW w, WriteOK(w, now), w.live = Head(queue[t]).live, w.by = Head(queue[t]).by,
         NEW q, q = [queue[t] EXCEPT ![1] = w]
  PROVE  QueueOK(q, now) /\ LiveOK(reading[t], q, page[t])
  <1>1. queue[t] # <<>> /\ w \in Writes
    BY DEF Working, WriteOK
  <1>2. QueueOK(q, now)
    BY <1>1, QueueSetHead
  <1>3. LiveOK(reading[t], q, page[t])
    BY <1>1, HeadOf, TabOf, LiveHead
  <1>4. QED
    BY <1>2, <1>3

\* A step that only notes something about the write at the head.
LEMMA HeadStep ==
  ASSUME BasketInv, UNCHANGED <<service, minted, draft, page, reading, late>>,
         NEW t \in Tabs, Working(t), NEW w, SetHead(t, w), WriteOK(w, Now),
         w.live = Head(queue[t]).live, w.by = Head(queue[t]).by
  PROVE  BasketInv'
  <1> DEFINE q == [queue[t] EXCEPT ![1] = w]
  <1>1. queue \in [Tabs -> Seq(Writes)]
    BY DEF BasketInv, QueueInv
  <1>2. Becomes(queue', queue, t, q) /\ Becomes(page', page, t, page[t])
        /\ Becomes(reading', reading, t, reading[t])
    BY <1>1 DEF SetHead, Becomes
  <1>3. QueueOK(q, Now) /\ LiveOK(reading[t], q, page[t])
    BY TabOf, NewHead
  <1>4. DraftInv' /\ LateInv'
    BY LeftAlone
  <1> HIDE DEF q
  <1>5. QED
    BY <1>2, <1>3, <1>4, TabOf, TabStep

LEMMA WriteNoted ==
  ASSUME NEW now, NEW w, WriteOK(w, now), NEW g \in Guests
  PROVE  LET s == [w EXCEPT !.sent = g] IN
         WriteOK(s, now) /\ s.live = w.live /\ s.by = w.by
  <1> DEFINE s == [w EXCEPT !.sent = g]
  <1>1. w \in Writes
    BY DEF WriteOK
  <1>2. /\ s \in Writes /\ s.live = w.live /\ s.by = w.by /\ s.expected = w.expected
        /\ s.base = w.base /\ s.items = w.items /\ s.answer = w.answer
    BY <1>1 DEF Writes
  <1> HIDE DEF s
  <1>3. WriteOK(s, now)
    BY <1>2 DEF WriteOK, MadeFrom
  <1>4. QED
    BY <1>2, <1>3 DEF s

LEMMA WriteAnswered ==
  ASSUME NEW now, NEW w, WriteOK(w, now), NEW b \in BOOLEAN,
         NEW current \in Versions, Seen(current, now)
  PROVE  LET s == [w EXCEPT !.answer = [ok |-> b, current |-> current]] IN
         WriteOK(s, now) /\ s.live = w.live /\ s.by = w.by
  <1> DEFINE a == [ok |-> b, current |-> current]
             s == [w EXCEPT !.answer = a]
  <1>1. w \in Writes
    BY DEF WriteOK
  <1>2. a \in [ok : BOOLEAN, current : Versions] /\ a.current = current
    OBVIOUS
  <1> HIDE DEF a
  <1>3. /\ s \in Writes /\ s.live = w.live /\ s.by = w.by /\ s.expected = w.expected
        /\ s.base = w.base /\ s.items = w.items /\ s.answer = a
    BY <1>1, <1>2 DEF Writes
  <1> HIDE DEF s
  <1>4. WriteOK(s, now)
    BY <1>2, <1>3 DEF WriteOK, MadeFrom
  <1>5. QED
    BY <1>3, <1>4 DEF s, a

LEMMA SendStep ==
  ASSUME BasketInv, NEW t \in Tabs, Send(t) \/ Resend(t)
  PROVE  BasketInv'
  <1>1. Working(t) /\ SetHead(t, [Head(queue[t]) EXCEPT !.sent = guest])
        /\ UNCHANGED <<service, minted, draft, page, reading, late>>
    BY DEF Send, Resend, Waits
  <1>2. guest \in Guests
    BY NowIsAVersion DEF BasketInv
  <1>3. QED
    BY <1>1, <1>2, HeadOf, WriteNoted, HeadStep

LEMMA StoreStep ==
  ASSUME BasketInv, NEW w, w.items \in Baskets, OneRestaurant(w.items), Fits(guest, w),
         Store(guest, w), UNCHANGED <<guest, issued>>
  PROVE  ServiceInv' /\ Succeeds(Now', Now) /\ Now' = basket'[guest]
         /\ Now' \in Versions /\ Seen(Now', Now')
  <1> DEFINE v == [revision |-> w.expected + 1, items |-> w.items]
  <1>1. guest \in Guests /\ Now \in Versions /\ Now.revision = w.expected /\ w.expected \in Nat
    BY NowIsAVersion DEF BasketInv, Fits, Now
  <1>2. v \in Versions /\ v.revision > Now.revision /\ v.revision # 0 /\ v.items = w.items
    BY <1>1 DEF Versions
  <1>3. basket' = [basket EXCEPT ![guest] = v]
    BY DEF Store
  <1> HIDE DEF v
  <1>4. basket \in [Guests -> Versions]
    BY DEF BasketInv, ServiceInv
  <1>5. Now' = v /\ basket'[guest] = v
    BY <1>1, <1>3, <1>4 DEF Now
  <1>6. \A g \in Guests : basket'[g] = IF g = guest THEN v ELSE basket[g]
    BY <1>1, <1>3, <1>4
  <1>7. ServiceInv'
    BY <1>2, <1>3, <1>4, <1>6 DEF BasketInv, ServiceInv
  <1>8. Succeeds(v, Now) /\ Seen(v, v)
    BY <1>1, <1>2, SeenIsRecent DEF Succeeds
  <1>9. QED
    BY <1>2, <1>5, <1>7, <1>8

LEMMA ServiceGoesOn ==
  ASSUME BasketInv, Succeeds(Now', Now)
  PROVE  /\ UNCHANGED page => PageInv'
         /\ UNCHANGED <<minted, draft>> => DraftInv'
         /\ UNCHANGED reading => ReadInv'
         /\ UNCHANGED queue => QueueInv'
         /\ late' \subseteq late => LateInv'
         /\ \A t \in Tabs : QueueOK(queue[t], Now')
  <1>1. PICK new : new = Now'
    OBVIOUS
  <1>2. Succeeds(new, Now)
    BY <1>1
  <1>3. /\ \A t \in Tabs : PageOK(page[t], new) /\ QueueOK(queue[t], new)
        /\ \A w \in late : LateOK(w, new)
    BY <1>2, PageStays, QueueStays, LateStays DEF BasketInv, PageInv, QueueInv, LateInv
  <1>4. QED
    BY <1>1, <1>3 DEF BasketInv, PageInv, QueueInv, LateInv, DraftInv, ReadInv

LEMMA HandleStep ==
  ASSUME BasketInv, NEW t \in Tabs, Handle(t)
  PROVE  BasketInv'
  <1> DEFINE w == Head(queue[t])
  <1>1. Working(t) /\ WriteOK(w, Now) /\ w \in Writes
    BY HeadOf DEF Handle, Waits
  <1>2. CASE ~Fits(guest, w)
    <2>1. SetHead(t, [w EXCEPT !.answer = [ok |-> FALSE, current |-> Now]])
          /\ UNCHANGED <<service, minted, draft, page, reading, late>>
      BY <1>2 DEF Handle, service, Now
    <2>2. Now \in Versions /\ Seen(Now, Now)
      BY NowIsAVersion DEF BasketInv
    <2>3. QED
      BY <1>1, <2>1, <2>2, WriteAnswered, HeadStep
  <1>3. CASE Fits(guest, w)
    <2>1. /\ Store(guest, w) /\ UNCHANGED <<guest, issued, minted, draft, page, reading, late>>
          /\ SetHead(t, [w EXCEPT !.answer = [ok |-> TRUE, current |-> basket'[guest]]])
      BY <1>3 DEF Handle
    <2>2. /\ ServiceInv' /\ Succeeds(Now', Now) /\ Now' = basket'[guest]
          /\ Now' \in Versions /\ Seen(Now', Now')
      BY <1>1, <1>3, <2>1, StoreStep, WriteTypes DEF WriteOK
    <2>3. PICK new : new = Now'
      OBVIOUS
    <2> DEFINE a == [w EXCEPT !.answer = [ok |-> TRUE, current |-> new]]
               q == [queue[t] EXCEPT ![1] = a]
    <2>4. WriteOK(w, new)
      BY <1>1, <2>2, <2>3, WriteStays
    <2>5. WriteOK(a, new) /\ a.live = w.live /\ a.by = w.by
      <3> HIDE DEF w
      <3>1. new \in Versions /\ Seen(new, new) /\ TRUE \in BOOLEAN
        BY <2>2, <2>3
      <3>2. QED
        BY <2>4, <3>1, WriteAnswered
    <2>6. queue \in [Tabs -> Seq(Writes)] /\ \A u \in Tabs : QueueOK(queue[u], new)
      BY <2>2, <2>3, ServiceGoesOn DEF BasketInv, QueueInv
    <2>7. queue' = [queue EXCEPT ![t] = q]
      BY <2>1, <2>2, <2>3, <2>6 DEF SetHead
    <2> HIDE DEF a, w
    <2>8. QueueOK(q, new) /\ LiveOK(reading[t], q, page[t])
      <3> USE DEF w
      <3>1. QED
        BY <1>1, <2>5, <2>6, NewHead
    <2> HIDE DEF q
    <2>9. QueueInv'
      BY <2>3, <2>6, <2>7, <2>8 DEF QueueInv, QueueOK
    <2>10. LiveInv'
      BY <2>1, <2>6, <2>7, <2>8, OneTab
    <2>11. QED
      BY <2>1, <2>2, <2>9, <2>10, ServiceGoesOn DEF BasketInv
  <1>4. QED
    BY <1>2, <1>3

LEMMA HandleLateStep ==
  ASSUME BasketInv, NEW w \in late, HandleLate(w)
  PROVE  BasketInv'
  <1>1. LateOK(w, Now) /\ w.items \in Baskets /\ OneRestaurant(w.items)
    BY DEF BasketInv, LateInv, LateOK, LateWrites
  <1>2. late' \subseteq late /\ UNCHANGED <<guest, issued, minted, draft, page, reading, queue>>
    BY DEF HandleLate
  <1>3. LiveInv'
    BY <1>2 DEF BasketInv, LiveInv
  <1>4. ServiceInv' /\ Succeeds(Now', Now)
    <2>1. CASE UNCHANGED basket
      BY <1>2, <2>1, NowIsAVersion DEF BasketInv, ServiceInv, Succeeds, Now
    <2>2. CASE Fits(guest, w) /\ Store(guest, w)
      BY <1>1, <1>2, <2>2, StoreStep
    <2>3. QED
      BY <2>1, <2>2 DEF HandleLate
  <1>5. QED
    BY <1>2, <1>3, <1>4, ServiceGoesOn DEF BasketInv

LEMMA ResetElsewhereStep ==
  ASSUME BasketInv, ResetElsewhere
  PROVE  BasketInv'
  <1>1. "reset" \in Weather /\ UNCHANGED <<basket, minted, draft, page, reading, queue, late>>
        /\ guest' \in Guests /\ issued' = issued \union {guest'}
    BY DEF ResetElsewhere
  <1>2. ServiceInv'
    BY <1>1 DEF BasketInv, ServiceInv
  <1>3. Succeeds(Now', Now)
    <2>1. Now \in Versions
      BY NowIsAVersion DEF BasketInv
    <2>2. Now' = basket[guest']
      BY <1>1 DEF Now
    <2>3. Now' \in Versions /\ OneRestaurant(Now'.items)
      BY <1>1, <2>2 DEF BasketInv, ServiceInv
    <2>4. QED
      BY <1>1, <2>1, <2>3 DEF Succeeds
  <1>4. LiveInv'
    BY <1>1 DEF BasketInv, LiveInv
  <1>5. QED
    BY <1>1, <1>2, <1>3, <1>4, ServiceGoesOn DEF BasketInv

-----------------------------------------------------------------------------
LEMMA TailOf ==
  ASSUME BasketInv, NEW t \in Tabs, Working(t), NEW p,
         page[t] \in CartPages => p \in CartPages, page[t] \in ItemPages => p \in ItemPages
  PROVE  QueueOK(Tail(queue[t]), Now) /\ LiveOK(reading[t], Tail(queue[t]), p)
  <1>1. queue[t] # <<>> /\ QueueOK(queue[t], Now)
    BY TabOf DEF Working
  <1>2. LiveOK(reading[t], queue[t], p)
    BY TabOf, LiveSamePage
  <1>3. QED
    BY <1>1, <1>2, QueueTail, LiveTail

LEMMA AcceptedStep ==
  ASSUME BasketInv, NEW t \in Tabs, Working(t), Head(queue[t]).answer # None, Accepted(t)
  PROVE  BasketInv'
  <1> DEFINE w == Head(queue[t])
  <1>1. w \in Writes /\ WriteOK(w, Now) /\ (w.live => page[t] \in PagesOf(w.by))
    BY HeadOf
  <1>2. DraftInv' /\ draft' \in Baskets /\ OneRestaurant(draft')
    BY DraftKept, EmptyBasket DEF Accepted, BasketInv, DraftInv
  <1>3. UNCHANGED service /\ LateInv'
    BY LeftAlone DEF Accepted
  <1>4. CASE w.by = "item" /\ Shows(t, "cart")
    <2>1. /\ Becomes(page', page, t, page[t]) /\ Becomes(queue', queue, t, Tail(queue[t]))
          /\ Becomes(reading', reading, t, reading[t])
      <3>1. page' = page /\ queue' = [queue EXCEPT ![t] = Tail(queue[t])]
            /\ reading' = [reading EXCEPT ![t] = reading[t]]
        BY <1>4 DEF Accepted, TakeToCart
      <3>2. QED
        BY <3>1 DEF Becomes
    <2>2. QED
      BY <1>2, <1>3, <2>1, TailOf, TabOf, TabStep
  <1>5. CASE w.by = "item" /\ ~Shows(t, "cart")
    <2> DEFINE r == IF reading[t] = None THEN None ELSE Orphan(reading[t])
               q == Orphans(t)
    <2>1. PICK p : p = [CartPage EXCEPT !.offered = draft']
      OBVIOUS
    <2>2. PICK d : d = draft'
      OBVIOUS
    <2>3. PageOK(p, Now)
      BY <1>2, <2>1, <2>2, NewCartPage DEF BasketInv
    <2>4. r \in Reads /\ QueueOK(q, Now) /\ LiveOK(r, q, p) /\ q # <<>>
      BY OrphanTab
    <2>5. /\ Becomes(page', page, t, p) /\ Becomes(queue', queue, t, Tail(q))
          /\ Becomes(reading', reading, t, r)
      <3>1. page' = [page EXCEPT ![t] = p] /\ queue' = [queue EXCEPT ![t] = Tail(q)]
            /\ reading' = [reading EXCEPT ![t] = r]
        BY <1>5, <2>1 DEF Accepted, TakeToCart
      <3>2. QED
        BY <3>1 DEF Becomes
    <2> HIDE DEF r, q
    <2>6. QueueOK(Tail(q), Now) /\ LiveOK(r, Tail(q), p)
      BY <2>4, QueueTail, LiveTail
    <2>7. QED
      BY <1>2, <1>3, <2>3, <2>4, <2>5, <2>6, TabStep
  <1>6. CASE w.by = "cart"
    <2> DEFINE a == w.answer.current
               p == [page[t] EXCEPT !.shown = a, !.conflict = None, !.offered = Empty,
                                    !.error = FALSE, !.busy = FALSE]
               n == IF w.live THEN p ELSE page[t]
    <2>1. a \in Versions /\ Seen(a, Now)
      BY <1>1, WriteTypes DEF WriteOK
    <2>2. w.live => page[t] \in CartPages /\ CartOK(page[t], Now) /\ page[t] \notin ItemPages
      BY <1>1, <1>6, PageOf, KindsOfPages DEF PagesOf
    <2>3. w.live => p \in CartPages /\ p.shown = a /\ p.conflict = None /\ p.offered = Empty
      BY <2>1, <2>2, EmptyBasket DEF CartPages
    <2>4. /\ Becomes(page', page, t, n) /\ Becomes(queue', queue, t, Tail(queue[t]))
          /\ Becomes(reading', reading, t, reading[t])
      BY <1>6 DEF Accepted, Dequeue, Becomes
    <2>5. PageOK(n, Now) /\ (page[t] \in CartPages => n \in CartPages)
          /\ (page[t] \in ItemPages => n \in ItemPages)
      <3> HIDE DEF p, a
      <3>1. QED
        BY <2>1, <2>2, <2>3, CartPageStep, TabOf, EmptyBasket
    <2> HIDE DEF n
    <2>6. QED
      BY <1>2, <1>3, <2>4, <2>5, TailOf, TabOf, TabStep
  <1>7. QED
    BY <1>1, <1>4, <1>5, <1>6 DEF Writes

LEMMA FailedPage ==
  ASSUME BasketInv, NEW t \in Tabs, Working(t), NEW conflict \in BOOLEAN, Failed(t, conflict),
         conflict => Head(queue[t]).answer # None
  PROVE  \E p : /\ Becomes(page', page, t, p) /\ PageOK(p, Now)
                /\ page[t] \in CartPages => p \in CartPages
                /\ page[t] \in ItemPages => p \in ItemPages
  <1> DEFINE w == Head(queue[t])
             o == page[t]
  <1>1. w \in Writes /\ WriteOK(w, Now) /\ (w.live => o \in PagesOf(w.by))
    BY HeadOf
  <1>2. CASE ~w.live
    <2>1. Becomes(page', page, t, o)
      BY <1>2 DEF Failed, Becomes
    <2>2. QED
      BY <2>1, TabOf
  <1>3. CASE w.live /\ w.by = "item"
    <2> DEFINE p == [o EXCEPT !.busy = FALSE]
    <2>1. o \in ItemPages /\ ItemOK(o, Now) /\ o \notin CartPages
      BY <1>1, <1>3, PageOf, KindsOfPages DEF PagesOf
    <2>2. p \in ItemPages /\ p.intent = o.intent
      BY <2>1 DEF ItemPages
    <2>3. Becomes(page', page, t, p)
      BY <1>3 DEF Failed, Becomes
    <2> HIDE DEF p
    <2>4. PageOK(p, Now)
      BY <2>1, <2>2, ItemPageStep
    <2>5. QED
      BY <2>1, <2>2, <2>3, <2>4
  <1>4. CASE w.live /\ w.by = "cart" /\ conflict
    <2> DEFINE a == w.answer.current
               c == [current |-> a, attempted |-> w.items]
               p == [o EXCEPT !.busy = FALSE, !.error = TRUE, !.shown = a, !.conflict = c]
    <2>1. o \in CartPages /\ CartOK(o, Now) /\ o \notin ItemPages
      BY <1>1, <1>4, PageOf, KindsOfPages DEF PagesOf
    <2>2. /\ a \in Versions /\ Seen(a, Now) /\ w.items \in Baskets /\ OneRestaurant(w.items)
          /\ c \in [current : Versions, attempted : Baskets]
      BY <1>1, <1>4, WriteTypes DEF WriteOK
    <2>3. Becomes(page', page, t, p)
      BY <1>4 DEF Failed, Becomes
    <2>4. c.current = a /\ c.attempted = w.items
      OBVIOUS
    <2>5. p \in CartPages /\ p.shown = a /\ p.conflict = c /\ p.offered = o.offered
      <3> HIDE DEF a, c
      <3>1. QED
        BY <2>1, <2>2 DEF CartPages
    <2> HIDE DEF p, a, c
    <2>6. PageOK(p, Now)
      BY <2>1, <2>2, <2>4, <2>5, CartPageStep
    <2>7. QED
      BY <2>1, <2>3, <2>5, <2>6
  <1>5. CASE w.live /\ w.by = "cart" /\ ~conflict
    <2> DEFINE p == [[o EXCEPT !.busy = FALSE] EXCEPT !.error = TRUE]
    <2>1. o \in CartPages /\ CartOK(o, Now) /\ o \notin ItemPages
      BY <1>1, <1>5, PageOf, KindsOfPages DEF PagesOf
    <2>2. p \in CartPages /\ p.shown = o.shown /\ p.conflict = o.conflict /\ p.offered = o.offered
      BY <2>1 DEF CartPages
    <2>3. page \in [Tabs -> Pages]
      BY DEF BasketInv, PageInv
    <2>4. Becomes(page', page, t, p)
      BY <1>5, <2>3 DEF Failed, Becomes
    <2> HIDE DEF p
    <2>5. PageOK(p, Now)
      BY <2>1, <2>2, CartPageStep
    <2>6. QED
      BY <2>1, <2>2, <2>4, <2>5
  <1>6. QED
    BY <1>1, <1>2, <1>3, <1>4, <1>5 DEF Writes

LEMMA FailedStep ==
  ASSUME BasketInv, NEW t \in Tabs, Working(t), NEW conflict \in BOOLEAN, Failed(t, conflict),
         conflict => Head(queue[t]).answer # None, Dequeue(t), LateInv'
  PROVE  BasketInv'
  <1>1. PICK p : /\ Becomes(page', page, t, p) /\ PageOK(p, Now)
                 /\ page[t] \in CartPages => p \in CartPages
                 /\ page[t] \in ItemPages => p \in ItemPages
    BY FailedPage
  <1>2. DraftInv'
    <2>1. Head(queue[t]).items \in Baskets /\ OneRestaurant(Head(queue[t]).items)
      BY HeadOf, WriteTypes DEF WriteOK
    <2>2. UNCHANGED draft \/ KeepDraft(Head(queue[t]).items)
      BY DEF Failed
    <2>3. QED
      BY <2>1, <2>2, DraftKept DEF Failed, BasketInv, DraftInv
  <1>3. Becomes(queue', queue, t, Tail(queue[t])) /\ Becomes(reading', reading, t, reading[t])
    BY DEF Dequeue, Failed, Becomes
  <1>4. UNCHANGED service
    BY DEF Failed
  <1>5. QED
    BY <1>1, <1>2, <1>3, <1>4, TailOf, TabOf, TabStep

LEMMA FinishStep ==
  ASSUME BasketInv, NEW t \in Tabs, Finish(t)
  PROVE  BasketInv'
  <1>1. CASE Head(queue[t]).answer.ok
    BY <1>1, AcceptedStep DEF Finish
  <1>2. CASE ~Head(queue[t]).answer.ok
    <2>1. Failed(t, TRUE) /\ Dequeue(t) /\ UNCHANGED late /\ Working(t)
          /\ Head(queue[t]).answer # None
      BY <1>2 DEF Finish
    <2>2. LateInv'
      BY <2>1, LeftAlone DEF Failed
    <2>3. QED
      BY <2>1, <2>2, FailedStep
  <1>3. QED
    BY <1>1, <1>2

LEMMA GiveUpStep ==
  ASSUME BasketInv, NEW t \in Tabs, GiveUp(t)
  PROVE  BasketInv'
  <1> DEFINE w == Head(queue[t])
             s == [sent |-> w.sent, expected |-> w.expected, base |-> w.base, items |-> w.items]
  <1>1. Working(t) /\ Failed(t, FALSE) /\ Dequeue(t) /\ late' = late \union Travelling(t)
    BY DEF GiveUp
  <1>2. w \in Writes /\ WriteOK(w, Now)
    BY <1>1, HeadOf
  <1>3. w.sent # None => LateOK(s, Now)
    <2>1. MadeFrom(s) = MadeFrom(w) /\ s.items = w.items
      BY DEF MadeFrom
    <2>2. w.sent # None => s \in LateWrites
      BY <1>2, WriteTypes DEF LateWrites
    <2> HIDE DEF s
    <2>3. QED
      BY <1>2, <2>1, <2>2 DEF LateOK, WriteOK
  <1>4. \A l \in Travelling(t) : LateOK(l, Now)
    BY <1>3 DEF Travelling, Waits
  <1>5. Now' = Now
    BY <1>1, LeftAlone DEF Failed
  <1>6. LateInv'
    BY <1>1, <1>4, <1>5 DEF BasketInv, LateInv
  <1>7. QED
    BY <1>1, <1>6, FailedStep

LEMMA BasketInit == Init => BasketInv
  <1> SUFFICES ASSUME Init PROVE BasketInv
    OBVIOUS
  <1>1. FirstGuest \in Guests /\ FirstItems \in Baskets /\ OneRestaurant(FirstItems)
        /\ MaxQueue \in Nat
    BY BrowserAssumption DEF BasketConstants
  <1>2. ServiceInv
    BY <1>1, EmptyBasket DEF Init, ServiceInv, Versions
  <1>3. DraftInv
    <2>1. DOMAIN FirstItems \subseteq Lines
      BY <1>1, BasketShape
    <2>2. QED
      BY <2>1, EmptyBasket DEF Init, DraftInv
  <1>4. PageInv /\ ReadInv
    BY DEF Init, PageInv, ReadInv, PageOK, Pages, Reads
  <1>5. QueueInv /\ LiveInv /\ LateInv
    <2>1. QueueOK(<<>>, Now)
      BY <1>1 DEF QueueOK
    <2>2. LiveOK(None, <<>>, None)
      BY DEF LiveOK
    <2>3. QED
      BY <2>1, <2>2 DEF Init, QueueInv, LiveInv, LateInv
  <1>6. QED
    BY <1>2, <1>3, <1>4, <1>5 DEF BasketInv

LEMMA BasketStep == BasketInv /\ [Next]_vars => BasketInv'
  <1> SUFFICES ASSUME BasketInv, [Next]_vars PROVE BasketInv'
    OBVIOUS
  <1>1. CASE UNCHANGED vars
    BY <1>1, LeftAlone DEF vars, BasketInv, LiveInv, service
  <1>2. ASSUME NEW t \in Tabs, Customer(t) PROVE BasketInv'
    BY <1>2, OpenStep, ReloadStep, ChangeStep, ReapplyConflictStep, ReapplyDraftStep,
       ReviewCurrentStep, AddStep, KeepBasketStep, ReplaceBasketStep DEF Customer
  <1>3. ASSUME NEW t \in Tabs, Browser(t) PROVE BasketInv'
    BY <1>3, LoadStep, ReadStep, ReadFailsStep, SendStep, HandleStep, FinishStep, GiveUpStep
       DEF Browser
  <1>4. ASSUME NEW w \in late, HandleLate(w) PROVE BasketInv'
    BY <1>4, HandleLateStep
  <1>5. CASE ResetElsewhere
    BY <1>5, ResetElsewhereStep
  <1>6. QED
    BY <1>1, <1>2, <1>3, <1>4, <1>5 DEF Next

LEMMA BasketInvariant == Spec => []BasketInv
  BY BasketInit, BasketStep, PTL DEF Spec

LEMMA PendingAreOK ==
  ASSUME BasketInv, NEW w \in Pending
  PROVE  Seen(MadeFrom(w), Now) /\ OneRestaurant(w.items)
  <1>1. CASE w \in late
    BY <1>1 DEF BasketInv, LateInv, LateOK
  <1>2. ASSUME NEW t \in Tabs, NEW i \in DOMAIN queue[t], w = queue[t][i]
        PROVE  Seen(MadeFrom(w), Now) /\ OneRestaurant(w.items)
    <2>1. QueueOK(queue[t], Now) /\ i \in 1..Len(queue[t])
      BY <1>2, TabOf DEF QueueOK
    <2>2. QED
      BY <1>2, <2>1 DEF QueueOK, WriteOK
  <1>3. QED
    BY <1>1, <1>2 DEF Pending

\* The types of the basket's variables, whatever the constants are.
THEOREM BasketTypes == Spec => []TypeOK
  <1>1. BasketInv => TypeOK
    <2> SUFFICES ASSUME BasketInv PROVE TypeOK
      OBVIOUS
    <2>1. /\ basket \in [Guests -> Versions] /\ guest \in issued /\ issued \subseteq Guests
          /\ minted \subseteq Lines /\ draft \in Baskets /\ late \subseteq LateWrites
      BY DEF BasketInv, ServiceInv, DraftInv, LateInv, LateOK
    <2>2. ASSUME NEW t \in Tabs
          PROVE  /\ page[t] \in Pages /\ reading[t] \in Reads
                 /\ queue[t] \in Seq(Writes) /\ Len(queue[t]) <= MaxQueue
      BY PageOf, TabOf DEF QueueOK
    <2>3. QED
      BY <2>1, <2>2 DEF TypeOK, Pages, Reads, LateWrites
  <1>2. QED
    BY <1>1, BasketInvariant, PTL

\* While no other tab starts a fresh guest, a write that the service would accept replaces
\* exactly the basket its customer was looking at: through the tabs' queues, failed loads,
\* conflicts that are applied again, drafts, replacements and requests that arrive late.
THEOREM AcceptedWritesWereReviewed ==
  ASSUME "reset" \notin Weather
  PROVE  Spec => []NoStaleWriteFits
  <1>1. BasketInv => NoStaleWriteFits
    <2> SUFFICES ASSUME BasketInv, NEW w \in Pending, Fits(guest, w)
                 PROVE  basket[guest].items = w.base
      BY DEF NoStaleWriteFits
    <2>1. MadeFrom(w).revision = Now.revision /\ MadeFrom(w).items = w.base
      BY DEF MadeFrom, Fits, Now
    <2>2. QED
      BY <2>1, PendingAreOK DEF Seen, Now
  <1>2. QED
    BY <1>1, BasketInvariant, PTL

\* Whatever happens elsewhere, no page writes, keeps or may reapply a basket of two
\* restaurants.
THEOREM RestaurantsStayApart == Spec => []PagesNeverMix
  <1>1. BasketInv => PagesNeverMix
    BY PendingAreOK DEF PagesNeverMix, BasketInv, DraftInv
  <1>2. QED
    BY <1>1, BasketInvariant, PTL
=============================================================================
