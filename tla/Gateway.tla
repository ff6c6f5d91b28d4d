------------------------------- MODULE Gateway -------------------------------
(***************************************************************************)
(* A protected request on its way: fetchApi with its timer in the page,    *)
(* the same-origin gateway with a timer of its own, and the service behind *)
(* it, which goes on with a request its askers have given up.              *)
(***************************************************************************)
EXTENDS Integers, FiniteSets

CONSTANTS Requests, None

\* None is no status and no kind of failure.
GatewayConstants ==
  None \notin Nat \union {"ok", "network", "server", "session", "validation", "conflict"}

VARIABLES
  configured,   \* ORDERLY_API_ORIGIN is an origin
  exchange      \* each request with the state of its three parties

vars == <<configured, exchange>>

Asked == [listed : BOOLEAN, origin : {"same", "foreign", "unknown"},
          unsafe : BOOLEAN, large : BOOLEAN]

Unsent == [asked |-> None, attempt |-> 0, page |-> "idle", gate |-> "idle",
           service |-> "idle", status |-> None, headers |-> {}, applied |-> 0, kind |-> None]

Init ==
  /\ configured \in BOOLEAN
  /\ exchange = [r \in Requests |-> Unsent]

Step(r, new) ==
  /\ exchange' = [exchange EXCEPT ![r] = new]
  /\ UNCHANGED configured

-----------------------------------------------------------------------------
(***************************************************************************)
(* Verdicts.                                                               *)
(***************************************************************************)
\* What proxy answers by itself before it contacts the service, in its order.
Refusal(q) ==
  CASE ~q.listed                           -> 404
    [] q.listed /\ q.origin = "unknown"    -> 400
    [] q.listed /\ q.unsafe /\ q.origin = "foreign" -> 403
    [] q.listed /\ q.unsafe /\ q.origin = "same" /\ q.large -> 413
    [] OTHER -> IF configured THEN None ELSE 503

\* SAFE_RESPONSE_HEADERS; the cookie goes through on a path of its own.
SAFE_RESPONSE_HEADERS == {"content-type", "x-request-id"}

ServiceHeaders(status) ==
  {"content-type", "x-request-id"} \union (IF status = 429 THEN {"retry-after"} ELSE {})

errorKind(status) ==
  CASE status = 409               -> "conflict"
    [] status = 401               -> "session"
    [] status \in {400, 404, 422} -> "validation"
    [] OTHER                      -> "server"

-----------------------------------------------------------------------------
(***************************************************************************)
(* The page.                                                               *)
(***************************************************************************)
Fetch(q, e) ==
  [Unsent EXCEPT !.asked = q, !.attempt = e.attempt + 1, !.page = "waiting",
                 !.gate = "reached", !.applied = e.applied]

Send(r, q) ==
  /\ exchange[r].page = "idle"
  /\ Step(r, Fetch(q, exchange[r]))

Settled(e, kind) == [e EXCEPT !.page = "settled", !.kind = kind]

\* The timer of fetchApi, until the head of an answer is there; also a broken connection.
PageTimer(r) ==
  /\ exchange[r].page = "waiting"
  /\ Step(r, Settled(exchange[r], "network"))

\* Mutant: a failing service is asked again.
AsksAgainOnFailure(e) == e.status \in {401, 500, 502, 504} /\ e.attempt = 1

\* fetchProtectedResponse: once, and only without a session.
AsksAgain(e) == e.status = 401 /\ e.attempt = 1

\* The head arrives and stops the timer.
PageHead(r) ==
  LET e == exchange[r] IN
  /\ e.page = "waiting" /\ e.status # None
  /\ Step(r, [e EXCEPT !.page = IF AsksAgain(e) THEN "again" ELSE "reading"])

\* bootstrapGuestSession(true), which GuestSession takes apart.
Bootstrap(r) ==
  /\ exchange[r].page = "again"
  /\ \/ Step(r, Fetch(exchange[r].asked, exchange[r]))
     \/ \E kind \in {"network", "server"} : Step(r, Settled(exchange[r], kind))

\* parseErrorResponse and readJson: an unreadable body of an error leaves its status.
PageBody(r) ==
  LET e == exchange[r] IN
  /\ e.page = "reading"
  /\ e.gate \in {"relayed", "over"}
  /\ IF e.status = 200 THEN \E kind \in {"ok", "server"} : Step(r, Settled(e, kind))
     ELSE Step(r, Settled(e, errorKind(e.status)))

-----------------------------------------------------------------------------
(***************************************************************************)
(* The gateway.                                                            *)
(***************************************************************************)
Answered(e, status) ==
  [e EXCEPT !.gate = "over", !.status = status, !.headers = {"content-type"}]

Proxy(r) ==
  LET e == exchange[r] IN
  /\ e.gate = "reached"
  /\ Step(r, IF Refusal(e.asked) # None THEN Answered(e, Refusal(e.asked))
             ELSE [e EXCEPT !.gate = "awaiting", !.service = "asked"])

\* 504 when the timer fires, 502 when the connection fails.
GateTimer(r) ==
  /\ exchange[r].gate = "awaiting"
  /\ \E status \in {502, 504} : Step(r, Answered(exchange[r], status))

\* The head of the service's answer: the timer is cleared in the finally block, and the
\* body is handed on as it comes.
Relay(r, status) ==
  LET e == exchange[r] IN
  Step(r, IF status \in 300 .. 399 THEN [Answered(e, 502) EXCEPT !.service = "done"]
          ELSE [e EXCEPT !.gate = "relaying", !.service = "done", !.status = status,
                         !.headers = ServiceHeaders(status) \intersect SAFE_RESPONSE_HEADERS])

RelayBody(r) ==
  /\ exchange[r].gate = "relaying"
  /\ Step(r, [exchange[r] EXCEPT !.gate = "relayed"])

-----------------------------------------------------------------------------
(***************************************************************************)
(* The service: carries a request out or refuses it, and answers whether   *)
(* or not anyone still waits.                                              *)
(***************************************************************************)
CarryOut(r) ==
  /\ exchange[r].service = "asked"
  /\ Step(r, [exchange[r] EXCEPT !.service = "carriedOut", !.applied = @ + 1])

Reply(r) ==
  LET e == exchange[r] IN
  /\ e.gate = "awaiting"
  /\ \/ e.service = "carriedOut" /\ \E status \in {200, 500} : Relay(r, status)
     \/ e.service = "asked" /\ \E status \in {302, 401, 409, 422, 429, 500} : Relay(r, status)

Next == \E r \in Requests :
  \/ \E q \in Asked : Send(r, q)
  \/ PageTimer(r) \/ PageHead(r) \/ Bootstrap(r) \/ PageBody(r)
  \/ Proxy(r) \/ GateTimer(r) \/ RelayBody(r)
  \/ CarryOut(r) \/ Reply(r)

\* Timers fire, a page handles what it has, and a body that has begun ends; nothing else
\* is assumed of the network or of the service.
Fairness ==
  \A r \in Requests :
    /\ WF_vars(PageTimer(r)) /\ WF_vars(Bootstrap(r)) /\ WF_vars(PageBody(r))
    /\ WF_vars(GateTimer(r)) /\ WF_vars(RelayBody(r))

Spec == Init /\ [][Next]_vars /\ Fairness

-----------------------------------------------------------------------------
(***************************************************************************)
(* Properties.                                                             *)
(***************************************************************************)
Exchanges ==
  [asked : Asked \union {None}, attempt : 0 .. 2,
   page : {"idle", "waiting", "again", "reading", "settled"},
   gate : {"idle", "reached", "awaiting", "relaying", "relayed", "over"},
   service : {"idle", "asked", "carriedOut", "done"},
   status : Nat \union {None}, headers : SUBSET SAFE_RESPONSE_HEADERS, applied : Nat,
   kind : {None, "ok", "network", "server", "session", "validation", "conflict"}]

\* The types of the variables; a request is settled by what the page makes of it.
TypeOK ==
  /\ configured \in BOOLEAN
  /\ exchange \in [Requests -> Exchanges]
  /\ \A r \in Requests : exchange[r].page = "settled" <=> exchange[r].kind # None

\* What a page is told was refused never was, nor ever will be, carried out: a timer, a
\* redirect or a broken connection on either leg is not passed off as a refusal.
RefusedMeansNotDone ==
  \A r \in Requests :
    exchange[r].kind \in {"validation", "session", "conflict"} =>
      exchange[r].applied = 0 /\ exchange[r].service \in {"idle", "done"}

\* "Mutations not automatically retried" (development.md): the request that is sent
\* again without a session was not carried out the first time.
DoneAtMostOnce == \A r \in Requests : exchange[r].applied <= 1

\* Once sent, a request settles.
RequestsSettle ==
  \A r \in Requests : (exchange[r].page = "waiting") ~> (exchange[r].page = "settled")
=============================================================================
