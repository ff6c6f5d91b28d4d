--------------------------- MODULE ClientInvariant ---------------------------
(***************************************************************************)
(* The inductive invariant behind the safety properties of CheckoutClient: *)
(* where the submissions of a tab may be, what its stored evidence is      *)
(* worth, and why a refused submission stays refused.  ClientProofs proves *)
(* it.                                                                     *)
(***************************************************************************)
EXTENDS CheckoutClient

Sent(c) == call[c] # Unused

\* A key that was sent, stored or shown has been drawn.
KeysAreDrawn == \A s \in Submissions : verdict[s.key] # "unused"

\* The service keeps the bodies of submissions that were sent to it.
DigestsWereSent ==
  \A g \in Guests, k \in Keys :
    digest[g][k] # None =>
      \E c \in Calls : Sent(c) /\ call[c].key = k /\ call[c].body = digest[g][k]

\* It has one for each order, so that a key with an order is always replayed.
DigestsMatchOrders ==
  \A g \in Guests, k \in Keys :
    digest[g][k] # None <=> \E o \in accepted[g] : o.key = k

\* An answer that is a receipt is for an order, until a guest is deleted.
ReceiptsAreTrue ==
  \A c \in Calls :
    Waiting(c) /\ call[c].answer # None /\ call[c].answer.status = "receipt" =>
      \/ session[call[c].guest] = "gone"
      \/ digest[call[c].guest][call[c].key] # None

\* Over damaged evidence nothing is ever sent.
DamageIsInert ==
  record = Damaged =>
    /\ \A c \in Calls : ~Sent(c)
    /\ page # None => ~page.writable /\ page.phase \in {"idle", "rejected"}

Evidence ==
  /\ KeysAreDrawn /\ OneBodyPerKey /\ DigestsWereSent /\ DigestsMatchOrders
  /\ ReceiptsAreTrue /\ DamageIsInert

\* A call that waits for the mounted page is the only one, and it carries the submission
\* that the page is locked to.
PageHoldsItsCall ==
  /\ \A c \in Calls : Waiting(c) /\ call[c].mine =>
       /\ page # None
       /\ page.phase = "submitting"
       /\ page.recovery = [key |-> call[c].key, body |-> call[c].body]
  /\ \A c, d \in Calls : Waiting(c) /\ call[c].mine /\ Waiting(d) /\ call[d].mine => c = d
  /\ page # None /\ ~Editable => page.recovery \in Records

\* Unless a waiting page is left, the attempt that is open is the stored one, and a page
\* either knows it or is mounted when there is none.
OpenIsStored ==
  /\ \A c \in Calls : Waiting(c) => call[c].mine
  /\ page # None => IF Editable THEN \A k \in Keys : verdict[k] # "open"
                    ELSE record = page.recovery
  /\ \A k \in Keys : verdict[k] = "open" => record \in Records /\ record.key = k

\* A basket, or a catalogue, that makes the service refuse the body from now on.
Dead(body) ==
  \/ Row(guest).revision > body.rev
  \/ Row(guest).revision = body.rev /\ Row(guest).items = EmptyItems
  \/ catalog > body.fingerprint

\* Nothing is ahead of what the service has.
NotAhead(rev, fingerprint) == rev <= Row(guest).revision /\ fingerprint <= catalog

\* While guests stay and no limit, nor an old catalogue, interferes: a refusal, on its
\* way or shown, is for a body that is dead and has no order.
RefusedStaysDead ==
  /\ session[guest] = "live"
  /\ \A c \in Calls : call[c].stage \in {"waiting", "given_up"} => call[c].guest = guest
  /\ \A s \in Submissions : NotAhead(s.body.rev, s.body.fingerprint)
  /\ page # None /\ page.quote # None => NotAhead(page.quote.rev, page.quote.fingerprint)
  /\ \A c \in Calls :
       Waiting(c) /\ call[c].answer # None /\ call[c].answer.status # "receipt" =>
         digest[guest][call[c].key] = None /\ Dead(call[c].body)
  /\ \A k \in Keys :
       verdict[k] = "rejected" =>
         /\ digest[guest][k] = None
         /\ \E c \in Calls : Sent(c) /\ call[c].key = k /\ Dead(call[c].body)

\* Only a fresh guest abandons an attempt.
NothingAbandoned == \A k \in Keys : verdict[k] # "abandoned"

CInv ==
  /\ TypeOK
  /\ PageHoldsItsCall
  /\ Evidence
  /\ "leave" \notin weather => OpenIsStored
  /\ weather \subseteq {"leave"} => RefusedStaysDead
  /\ "reset" \notin weather => NothingAbandoned
=============================================================================
