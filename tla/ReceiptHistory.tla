---------------------------- MODULE ReceiptHistory ----------------------------
(***************************************************************************)
(* Saved receipts and who reads them: the list a guest can page through    *)
(* with a cursor while orders arrive, and the confirmation and history     *)
(* pages of one tab, whose answers may come late and out of order.         *)
(* Meanwhile another tab may start a fresh guest, or the cookie expire.    *)
(***************************************************************************)
EXTENDS Integers, Sequences, SequencesExt, FiniteSets

CONSTANTS
  Ids,          \* receipt ids, numbers in the order of uuid
  Guests,       \* guests the browser may come to have, one after the other
  Times,        \* what the clocks of the service may read, repeatedly and out of order
  PageSize,     \* the limit a reader asks for
  MaxAsked,     \* requests a page sends
  None

\* What the constants must satisfy.
HistoryConstants ==
  /\ Ids \subseteq Nat /\ Times \subseteq Nat /\ Guests \subseteq Nat /\ Guests # {}
  /\ PageSize \in Nat \ {0} /\ MaxAsked \in Nat

VARIABLES
  receipts,     \* rows of guest_orders
  drawn,        \* ids given out so far: uuid4 draws none twice
  guest,        \* whom the browser's cookie names
  walk,         \* a reader of the whole list, or None
  page,         \* the confirmation or history page of the tab, with the receipts there
                \* were when it asked, or None
  asked,        \* requests the page has sent
  inFlight      \* those without an answer yet, and the answers under way

vars == <<receipts, drawn, guest, walk, page, asked, inFlight>>

Rows == [id : Ids, owner : Guests, at : Times]

Init ==
  /\ receipts = {}
  /\ drawn = {}
  /\ guest = Min(Guests)
  /\ walk = None
  /\ page = None
  /\ asked = 0
  /\ inFlight = {}

-----------------------------------------------------------------------------
(***************************************************************************)
(* The service.                                                            *)
(***************************************************************************)
Own(g) == {r \in receipts : r.owner = g}

\* insert_order_snapshot: created_at is read from the clock of whichever process
\* serves the order, the id is random.
Order(r) ==
  /\ r.owner = guest
  /\ r.id \notin drawn /\ drawn' = drawn \union {r.id}
  /\ receipts' = receipts \union {r}
  /\ UNCHANGED <<guest, walk, page, asked, inFlight>>

\* reset_guest deletes the guest with all it owns; an expired guest's rows stay until
\* the retention job.  Either way the browser goes on as one nobody was before.
Rotate(kept) ==
  /\ guest + 1 \in Guests
  /\ guest' = guest + 1
  /\ receipts' = kept
  /\ UNCHANGED <<drawn, walk, page, asked, inFlight>>

Reset  == Rotate(receipts \ Own(guest))
Expire == Rotate(receipts)

\* Mutant: receipts of one instant are not told apart.
OlderByTime(r, s) == r.at < s.at

\* The row comparison (created_at, id) < (cursor's).
Older(r, s) == r.at < s.at \/ (r.at = s.at /\ r.id < s.id)

\* ORDER BY created_at DESC, id DESC LIMIT n: the i-th row has i - 1 before it.
NewestFirst(S, n) ==
  [i \in 1 .. Min({n, Cardinality(S)}) |->
    CHOOSE r \in S :
      Cardinality({s \in S : r.at < s.at \/ (r.at = s.at /\ r.id < s.id)}) = i - 1]

\* list_order_snapshots_for_owner, below a cursor of one row, or of none.
Below(g, cursor) ==
  NewestFirst({r \in Own(g) : \A c \in cursor : Older(r, c)}, PageSize)

\* A receipt to show, or to read on below, must be one of the guest's own.
RowOf(g, id) == {r \in Own(g) : r.id = id}

-----------------------------------------------------------------------------
(***************************************************************************)
(* A reader of the whole list: fetchOrderReceipts with a limit and the id  *)
(* of the last receipt read as the cursor, until a page comes up short.    *)
(***************************************************************************)
StartWalk ==
  /\ walk = None
  /\ LET first == Below(guest, {}) IN
     walk' = [read |-> first, base |-> Own(guest),
              state |-> IF Len(first) < PageSize THEN "done" ELSE "reading"]
  /\ UNCHANGED <<receipts, drawn, guest, page, asked, inFlight>>

ContinueWalk ==
  /\ walk # None /\ walk.state = "reading"
  /\ LET cursor == RowOf(guest, Last(walk.read).id) IN
     IF cursor = {} THEN walk' = [walk EXCEPT !.state = "refused"]
     ELSE LET next == Below(guest, cursor) IN
          walk' = [walk EXCEPT !.read = @ \o next,
                               !.state = IF Len(next) < PageSize THEN "done" ELSE "reading"]
  /\ UNCHANGED <<receipts, drawn, guest, page, asked, inFlight>>

EndWalk ==
  /\ walk # None /\ walk.state # "reading"
  /\ walk' = None
  /\ UNCHANGED <<receipts, drawn, guest, page, asked, inFlight>>

-----------------------------------------------------------------------------
(***************************************************************************)
(* The pages.  A page asks for one receipt, or with None for the history;  *)
(* its effect sends the request when it opens, when the address changes    *)
(* and on retry, and from then on takes no notice of earlier answers.      *)
(***************************************************************************)
Load(id) ==
  /\ asked < MaxAsked
  /\ asked' = asked + 1
  /\ page' = [id |-> id, view |-> "loading", shown |-> <<>>, request |-> asked',
              of |-> None, known |-> receipts]
  /\ inFlight' = inFlight \union {[number |-> asked', id |-> id, answer |-> None]}
  /\ UNCHANGED <<receipts, drawn, guest, walk>>

OpenHistory     == (page # None => page.id # None) /\ Load(None)
OpenReceipt(id) == (page # None => page.id # id) /\ Load(id)

\* Only an error offers to try again.
Retry ==
  /\ page # None /\ page.view = "error"
  /\ Load(page.id)

Leave ==
  /\ page # None
  /\ page' = None
  /\ UNCHANGED <<receipts, drawn, guest, walk, asked, inFlight>>

Answer(status, rows) == [status |-> status, rows |-> rows, of |-> guest]

\* get_order_snapshot_for_owner, as the page takes it.
Found(id) ==
  LET own == RowOf(guest, id) IN
  Answer(IF own = {} THEN "not_found" ELSE "success", SetToSeq(own))

Serve(q) ==
  /\ q.answer = None
  /\ inFlight' = (inFlight \ {q}) \union {[q EXCEPT !.answer =
     IF q.id = None THEN Answer("success", Below(guest, {})) ELSE Found(q.id)]}
  /\ UNCHANGED <<receipts, drawn, guest, walk, page, asked>>

\* The timer, the network, or an answer that is no receipt.
Fail(q) ==
  /\ q.answer # None => q.answer.status # "error"
  /\ inFlight' = (inFlight \ {q})
                   \union {[q EXCEPT !.answer = Answer("error", <<>>)]}
  /\ UNCHANGED <<receipts, drawn, guest, walk, page, asked>>

\* Mutant: every answer is shown, also one to an earlier request.
HeedsAll(q) == page # None

\* The active flag of the effect that sent the request.
Heeds(q) == page # None /\ page.request = q.number

Arrive(q) ==
  /\ q.answer # None
  /\ page' = IF Heeds(q)
             THEN [page EXCEPT !.view = q.answer.status, !.shown = q.answer.rows, !.of = q.answer.of]
             ELSE page
  /\ inFlight' = inFlight \ {q}
  /\ UNCHANGED <<receipts, drawn, guest, walk, asked>>

Next ==
  \/ \E r \in Rows : Order(r)
  \/ Reset
  \/ Expire
  \/ StartWalk
  \/ ContinueWalk
  \/ EndWalk
  \/ OpenHistory
  \/ \E id \in Ids : OpenReceipt(id)
  \/ Retry
  \/ Leave
  \/ \E q \in inFlight : Serve(q) \/ Fail(q) \/ Arrive(q)

\* fetchApi's timer turns silence into an error, and an answer is handled.
Fairness ==
  /\ WF_vars(\E q \in inFlight : q.answer = None /\ Fail(q))
  /\ WF_vars(\E q \in inFlight : Arrive(q))

Spec == Init /\ [][Next]_vars /\ Fairness

-----------------------------------------------------------------------------
(***************************************************************************)
(* Properties.                                                             *)
(***************************************************************************)
\* The types of the variables.
TypeOK ==
  /\ receipts \subseteq Rows /\ drawn \subseteq Ids /\ guest \in Guests
  /\ asked \in 0 .. MaxAsked
  /\ walk # None => /\ walk.read \in Seq(Rows) /\ walk.base \subseteq Rows
                    /\ walk.state \in {"reading", "done", "refused"}
  /\ page # None => /\ page.id \in Ids \union {None} /\ page.shown \in Seq(Rows)
                    /\ page.view \in {"loading", "success", "not_found", "error"}
  /\ \A q \in inFlight : q.number \in 1 .. asked /\ q.id \in Ids \union {None}

\* Pages of the list meet without a gap and without an overlap, for receipts of one
\* instant too and while orders arrive with any time of creation: what was read is
\* strictly newest first, and at the end nothing is missing of what was there when the
\* reading began.
PagesMeet ==
  walk # None =>
    /\ \A i, j \in DOMAIN walk.read : i < j => Older(walk.read[j], walk.read[i])
    /\ walk.state = "done" => walk.base \subseteq ToSet(walk.read)

\* "history contains only current guest records" (development.md): a walk that has seen
\* a receipt of one guest never goes on into the list of another.
OneGuestPerWalk ==
  walk # None => \A r, s \in ToSet(walk.read) : r.owner = s.owner

\* "Unknown requested ID never shows another order" (development.md): whatever answers
\* are still under way from an earlier address, a page shows only the receipt its own
\* address names.
ExactReceipt ==
  page # None /\ page.id # None =>
    /\ page.view = "success" => Len(page.shown) = 1 /\ Head(page.shown).id = page.id
    /\ page.view # "success" => page.shown = <<>>

\* "stale response cannot replace newer" (development.md): a history page lists every
\* receipt its guest had when the page was opened or retried, or as many newer ones as
\* fit; coming back after an order never shows the list of before it.
HistoryIsFresh ==
  page # None /\ page.id = None /\ page.view = "success" =>
    \A r \in page.known :
      r.owner = page.of =>
        (r \in ToSet(page.shown)
           \/ (Len(page.shown) = PageSize /\ Older(r, Last(page.shown))))

\* A page does not stay at "Loading": an answer, an error or leaving ends it.
LoadingEnds ==
  (page # None /\ page.view = "loading") ~> (page # None => page.view # "loading")
=============================================================================
