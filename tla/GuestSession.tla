----------------------------- MODULE GuestSession -----------------------------
(***************************************************************************)
(* The guest session as lib/api.ts keeps it: tabs that share one guest     *)
(* cookie, the bootstrap every protected request waits for, the second     *)
(* bootstrap after a 401, the queue of basket writes, and the reset that   *)
(* ends a scope of requests and asks the service for another guest.        *)
(*                                                                         *)
(* A fetch that is aborted or given up may still reach the service; a      *)
(* bootstrap is never aborted.  What a request does to a basket is left to *)
(* BasketPages; here it matters which guest it is sent for.                *)
(***************************************************************************)
EXTENDS Integers, Sequences, FiniteSets

CONSTANTS
  Tabs,          \* browser tabs
  Requests,      \* protected requests the pages may start
  MaxGuests,     \* bounds the guests the service issues, in order
  FirstCookie,   \* the guest of the cookie at the start, or None
  MaxBoots,      \* bounds the bootstraps of a tab
  MaxScopes,     \* bounds the resets of a tab
  Weather,       \* what happens: "lost" requests and answers, "expiry" of guests
  None

GuestIds == 1..MaxGuests

\* A protected request.  made: the scope of the click.  scope: the one requestJson has
\* captured.
RequestRecords ==
  [tab : Tabs, made : Nat, scope : Nat, phase : {"queued", "boot", "sent", "body", "done"},
   boot : Nat, tries : Nat, guest : GuestIds \union {None},
   status : {"ok", "conflict", "unauthorized", None},
   result : {"success", "conflict", "failed", "aborted", None}]

\* What the constants must satisfy.
SessionConstants ==
  /\ MaxScopes \in Nat /\ MaxGuests \in Nat \ {0}
  /\ FirstCookie \in {1, None} /\ None \notin Nat \union {"ok"} \union RequestRecords

VARIABLES
  cookie,              \* the guest of the browser's cookie, or None
  live, issued,        \* guests the service would accept; guests it has issued
  boots,               \* tab -> its bootstraps, in the order they were started
  session,             \* tab -> sessionBootstrap: a bootstrap, Unset or Resolved
  scope, aborted,      \* tab -> the scope guestScope is; whether it was aborted
  reset,               \* tab -> the reset under way, or None
  queue,               \* tab -> enqueueCartMutation's chain, head first
  req,                 \* request -> where it is, or None
  origin, ended        \* history: guest -> the reset that issued, that ended it

server  == <<live, issued, origin, ended>>
Unset    == 0
Resolved == -1

tabVars == <<boots, session, scope, aborted, reset, queue, req>>
vars    == <<cookie, server, tabVars>>

Init ==
  /\ cookie = FirstCookie
  /\ live = {FirstCookie} \ {None} /\ issued = live
  /\ boots = [t \in Tabs |-> <<>>] /\ session = [t \in Tabs |-> Unset]
  /\ scope = [t \in Tabs |-> 0] /\ aborted = [t \in Tabs |-> FALSE]
  /\ reset = [t \in Tabs |-> None]
  /\ queue = [t \in Tabs |-> <<>>]
  /\ req = [r \in Requests |-> None]
  /\ origin = [g \in GuestIds |-> None] /\ ended = [g \in GuestIds |-> None]

-----------------------------------------------------------------------------
(***************************************************************************)
(* Bootstraps.                                                             *)
(***************************************************************************)
Awaited(t, force) == IF force \/ session[t] = Unset THEN Len(boots[t]) + 1 ELSE session[t]

Bootstrap(t, force) ==
  IF ~force /\ session[t] # Unset THEN UNCHANGED <<boots, session>>
  ELSE /\ Len(boots[t]) < MaxBoots
       /\ boots' = [boots EXCEPT ![t] = Append(@, [state |-> "sent", guest |-> cookie])]
       /\ session' = [session EXCEPT ![t] = Awaited(t, force)]

\* _insert_guest: a guest the service has not issued before.
New(g) == g = Cardinality(issued) + 1

\* bootstrap_guest: a guest the service accepts is kept, another is replaced.
HandleBootstrap(t, b) ==
  /\ boots[t][b].state = "sent"
  /\ \E g \in GuestIds :
       /\ IF boots[t][b].guest \in live THEN g = boots[t][b].guest ELSE New(g)
       /\ live' = live \union {g} /\ issued' = issued \union {g}
       /\ boots' = [boots EXCEPT ![t][b] = [state |-> "answered", guest |-> g]]
  /\ UNCHANGED <<cookie, origin, ended, session, scope, aborted, reset, queue, req>>

Done(q, result) == [q EXCEPT !.phase = "done", !.result = result]

\* fetchApi throws at once when the request's scope has been aborted.
Sent(q, g) ==
  IF q.scope # scope[q.tab] \/ aborted[q.tab] THEN Done(q, "aborted")
  ELSE [q EXCEPT !.phase = "sent", !.guest = g, !.tries = @ + 1, !.status = None]

Waits(r, t, b) == req[r] # None /\ req[r].tab = t /\ req[r].phase = "boot" /\ req[r].boot = b

\* Every caller that waits for a bootstrap goes on when it ends.
EndBootstrap(t, b) ==
  /\ boots[t][b].state = "answered"
  /\ cookie' = boots[t][b].guest
  /\ boots' = [boots EXCEPT ![t][b].state = "ended"]
  /\ session' = IF session[t] = b THEN [session EXCEPT ![t] = Resolved] ELSE session
  /\ req' = [r \in Requests |-> IF Waits(r, t, b) THEN Sent(req[r], cookie') ELSE req[r]]
  /\ reset' = IF reset[t] # None /\ reset[t].phase = "boot" /\ reset[t].boot = b
              THEN [reset EXCEPT ![t].phase = "sent", ![t].guest = cookie']
              ELSE reset
  /\ UNCHANGED <<server, scope, aborted, queue>>

\* resetGuestSession's finally block.
Settled(t) ==
  /\ reset' = [reset EXCEPT ![t] = None]
  /\ scope' = [scope EXCEPT ![t] = @ + 1]
  /\ aborted' = [aborted EXCEPT ![t] = FALSE]

\* Mutant: the promise of a failed bootstrap is kept for the next request.
Kept(t) == session

\* A failed bootstrap is forgotten, together with one started after it.
Forgotten(t) == [session EXCEPT ![t] = Unset]

FailBootstrap(t, b) ==
  /\ "lost" \in Weather /\ boots[t][b].state \in {"sent", "answered"}
  /\ boots' = [boots EXCEPT ![t][b].state = "ended"]
  /\ session' = Forgotten(t)
  /\ req' = [r \in Requests |-> IF Waits(r, t, b) THEN Done(req[r], "failed") ELSE req[r]]
  /\ IF reset[t] # None /\ reset[t].phase = "boot" /\ reset[t].boot = b
       THEN Settled(t)
       ELSE UNCHANGED <<reset, scope, aborted>>
  /\ UNCHANGED <<cookie, server, queue>>

-----------------------------------------------------------------------------
(***************************************************************************)
(* Protected requests.                                                     *)
(***************************************************************************)
NewRequest(t) ==
  [tab |-> t, made |-> scope[t], scope |-> scope[t], phase |-> "queued", boot |-> 0,
   tries |-> 0, guest |-> None, status |-> None, result |-> None]

\* requestJson and fetchProtectedResponse up to the first await that waits.
Started(q, t) ==
  LET now == [q EXCEPT !.scope = scope[t]] IN
  IF reset[t] # None THEN Done(now, "failed")
  ELSE IF session[t] = Resolved THEN Sent(now, cookie)
  ELSE [now EXCEPT !.phase = "boot", !.boot = Awaited(t, FALSE)]

Begin(r, t, q) ==
  /\ req' = [req EXCEPT ![r] = Started(q, t)]
  /\ IF reset[t] # None THEN UNCHANGED <<boots, session>> ELSE Bootstrap(t, FALSE)

ReadRequest(r, t) ==
  /\ req[r] = None
  /\ Begin(r, t, NewRequest(t))
  /\ UNCHANGED <<cookie, server, scope, aborted, reset, queue>>

WriteRequest(r, t) ==
  /\ req[r] = None
  /\ req' = [req EXCEPT ![r] = NewRequest(t)]
  /\ queue' = [queue EXCEPT ![t] = Append(@, r)]
  /\ UNCHANGED <<cookie, server, boots, session, scope, aborted, reset>>

\* Mutant: a queued write runs whatever happened to the guest meanwhile.
DequeueAnyway(t) ==
  /\ queue[t] # <<>> /\ req[Head(queue[t])].phase = "queued"
  /\ Begin(Head(queue[t]), t, req[Head(queue[t])])
  /\ UNCHANGED <<cookie, server, scope, aborted, reset, queue>>

\* The write at the head of the queue, or its refusal when its scope has ended.
Dequeue(t) ==
  /\ queue[t] # <<>>
  /\ LET r == Head(queue[t]) IN
       /\ req[r].phase = "queued"
       /\ IF req[r].made # scope[t] \/ aborted[t]
            THEN /\ req' = [req EXCEPT ![r] = Done(@, "aborted")]
                 /\ UNCHANGED <<boots, session>>
            ELSE Begin(r, t, req[r])
  /\ UNCHANGED <<cookie, server, scope, aborted, reset, queue>>

\* Mutant: the queue waits for a write that succeeds.
AdvanceOnSuccess(t) ==
  /\ queue[t] # <<>> /\ req[Head(queue[t])].result = "success"
  /\ queue' = [queue EXCEPT ![t] = Tail(@)]
  /\ UNCHANGED <<cookie, server, boots, session, scope, aborted, reset, req>>

\* A settled write, whatever its result, makes room for the next.
Advance(t) ==
  /\ queue[t] # <<>> /\ req[Head(queue[t])].phase = "done"
  /\ queue' = [queue EXCEPT ![t] = Tail(@)]
  /\ UNCHANGED <<cookie, server, boots, session, scope, aborted, reset, req>>

In(r, phase) == req[r] # None /\ req[r].phase = phase

HandleRequest(r) ==
  /\ In(r, "sent") /\ req[r].status = None
  /\ \E s \in IF req[r].guest \in live THEN {"ok", "conflict"} ELSE {"unauthorized"} :
       req' = [req EXCEPT ![r].status = s]
  /\ UNCHANGED <<cookie, server, boots, session, scope, aborted, reset, queue>>

\* The head of the answer arrives; after the first 401 a bootstrap is forced.
Receive(r) ==
  LET t == req[r].tab IN
  /\ In(r, "sent") /\ req[r].status # None
  /\ IF req[r].status = "unauthorized" /\ req[r].tries = 1
       THEN /\ req' = [req EXCEPT ![r].phase = "boot", ![r].boot = Awaited(t, TRUE)]
            /\ Bootstrap(t, TRUE)
       ELSE /\ req' = [req EXCEPT ![r].phase = "body"]
            /\ UNCHANGED <<boots, session>>
  /\ UNCHANGED <<cookie, server, scope, aborted, reset, queue>>

GiveUp(r) ==
  /\ "lost" \in Weather /\ In(r, "sent")
  /\ req' = [req EXCEPT ![r] = Done(@, "failed")]
  /\ UNCHANGED <<cookie, server, boots, session, scope, aborted, reset, queue>>

\* Mutant: the scope is not looked at again after the body was awaited.
ResultUnchecked(q) == IF q.status = "ok" THEN "success" ELSE "failed"

\* Only an accepted answer is checked against the scope it was asked under.
Result(q) ==
  IF q.status = "conflict" THEN "conflict"
  ELSE IF q.status = "unauthorized" THEN "failed"
  ELSE IF q.scope # scope[q.tab] \/ aborted[q.tab] THEN "aborted"
  ELSE "success"

Deliver(r) ==
  /\ In(r, "body")
  /\ req' = [req EXCEPT ![r] = Done(@, Result(@))]
  /\ UNCHANGED <<cookie, server, boots, session, scope, aborted, reset, queue>>

-----------------------------------------------------------------------------
(***************************************************************************)
(* Starting a fresh guest.                                                 *)
(***************************************************************************)
\* Aborting the scope rejects its fetches; a body that is being read goes on.
ResetGuest(t) ==
  /\ reset[t] = None /\ scope[t] < MaxScopes
  /\ aborted' = [aborted EXCEPT ![t] = TRUE]
  /\ req' = [r \in Requests |->
       IF In(r, "sent") /\ req[r].tab = t THEN Done(req[r], "aborted") ELSE req[r]]
  /\ reset' = [reset EXCEPT ![t] =
       IF session[t] = Resolved
         THEN [phase |-> "sent", boot |-> 0, guest |-> cookie]
         ELSE [phase |-> "boot", boot |-> Awaited(t, FALSE), guest |-> None]]
  /\ Bootstrap(t, FALSE)
  /\ UNCHANGED <<cookie, server, scope, queue>>

Resetting(t, phase) == reset[t] # None /\ reset[t].phase = phase

\* reset_guest: the guest is deleted and another issued, or neither.
HandleReset(t) ==
  LET old == reset[t].guest IN
  /\ Resetting(t, "sent")
  /\ IF old \in live
       THEN \E g \in GuestIds :
              /\ New(g)
              /\ live' = (live \ {old}) \union {g} /\ issued' = issued \union {g}
              /\ origin' = [origin EXCEPT ![g] = [tab |-> t, scope |-> scope[t]]]
              /\ ended' = [ended EXCEPT ![old] = [tab |-> t, scope |-> scope[t]]]
              /\ reset' = [reset EXCEPT ![t].phase = "answered", ![t].guest = g]
       ELSE /\ reset' = [reset EXCEPT ![t].phase = "refused"]
            /\ UNCHANGED server
  /\ UNCHANGED <<cookie, boots, session, scope, aborted, queue, req>>

EndReset(t) ==
  /\ Resetting(t, "answered")
  /\ cookie' = reset[t].guest
  /\ session' = [session EXCEPT ![t] = Resolved]
  /\ Settled(t)
  /\ UNCHANGED <<server, boots, queue, req>>

\* A refusal, or no answer in time, whatever the service has done.
FailReset(t) ==
  /\ \/ Resetting(t, "refused")
     \/ "lost" \in Weather /\ (Resetting(t, "sent") \/ Resetting(t, "answered"))
  /\ session' = [session EXCEPT ![t] = Unset]
  /\ Settled(t)
  /\ UNCHANGED <<cookie, server, boots, queue, req>>

Expire(g) ==
  /\ "expiry" \in Weather /\ g \in live
  /\ live' = live \ {g}
  /\ UNCHANGED <<cookie, issued, origin, ended, tabVars>>

-----------------------------------------------------------------------------
Next ==
  \/ \E t \in Tabs, r \in Requests : ReadRequest(r, t) \/ WriteRequest(r, t)
  \/ \E t \in Tabs : \/ \E b \in DOMAIN boots[t] :
                         HandleBootstrap(t, b) \/ EndBootstrap(t, b) \/ FailBootstrap(t, b)
                    \/ Dequeue(t) \/ Advance(t)
                    \/ ResetGuest(t) \/ HandleReset(t) \/ EndReset(t) \/ FailReset(t)
  \/ \E r \in Requests : HandleRequest(r) \/ Receive(r) \/ GiveUp(r) \/ Deliver(r)
  \/ \E g \in GuestIds : Expire(g)

\* The browser's queue runs, and fetchApi's timer ends a fetch whose answer does not
\* arrive.  That a body arrives once its head has is assumed: no timer covers it.
Fairness ==
  /\ \A t \in Tabs :
       /\ WF_vars(Dequeue(t)) /\ WF_vars(Advance(t))
       /\ WF_vars(EndReset(t) \/ FailReset(t))
       /\ \A b \in 1..MaxBoots :
            WF_vars(b \in DOMAIN boots[t] /\ (EndBootstrap(t, b) \/ FailBootstrap(t, b)))
  /\ \A r \in Requests : WF_vars(Receive(r) \/ GiveUp(r)) /\ WF_vars(Deliver(r))

Spec == Init /\ [][Next]_vars /\ Fairness

-----------------------------------------------------------------------------
(***************************************************************************)
(* Properties.                                                             *)
(***************************************************************************)
Resets == [tab : Tabs, scope : Nat]

\* Bootstraps whose fetch has neither been answered to the page nor failed.
UnderWay(t) == {b \in DOMAIN boots[t] : boots[t][b].state # "ended"}

\* Nobody waits for a bootstrap that is over, for its end would not come again: neither
\* the page's promise sessionBootstrap, nor a reset, nor a request that was made before
\* another request's 401 has forced a second bootstrap.
AwaitedIsUnderWay ==
  /\ \A t \in Tabs : /\ session[t] \in {Unset, Resolved} \union UnderWay(t)
                     /\ Resetting(t, "boot") => reset[t].boot \in UnderWay(t)
  /\ \A r \in Requests : In(r, "boot") => req[r].boot \in UnderWay(req[r].tab)

\* The types of the variables.
TypeOK ==
  /\ cookie \in issued \union {None} /\ live \subseteq issued /\ issued \subseteq GuestIds
  /\ origin \in [GuestIds -> Resets \union {None}] /\ ended \in [GuestIds -> Resets \union {None}]
  /\ scope \in [Tabs -> Nat] /\ aborted \in [Tabs -> BOOLEAN]
  /\ \A t \in Tabs :
       /\ boots[t] \in Seq([state : {"sent", "answered", "ended"}, guest : GuestIds \union {None}])
       /\ queue[t] \in Seq(Requests)
  /\ req \in [Requests -> RequestRecords \union {None}]
  /\ AwaitedIsUnderWay

\* "The browser adapter [...] rejects queued basket writes captured under the old
\* guest scope when reset begins": whatever waits, retries and bootstraps lie between,
\* a request is never sent for a guest that its own tab's reset issued after the click.
NoWriteCrossesReset ==
  \A r \in Requests : In(r, "sent") =>
    LET o == origin[req[r].guest] IN
    o # None /\ o.tab = req[r].tab => o.scope < req[r].made

Delivers(r, results) == In(r, "body") /\ In(r, "done")' /\ req'[r].result \in results

EndedByOwnTab(r) == ended[req[r].guest] # None /\ ended[req[r].guest].tab = req[r].tab

\* No accepted answer with data of a guest reaches a page of the tab that has reset
\* that guest, although its body may have been on the way (requestJson).
NoRowsOfEndedGuest ==
  [][\A r \in Requests : Delivers(r, {"success"}) => ~EndedByOwnTab(r)]_vars

\* Every protected request a page makes is answered, through bootstraps, a 401, the
\* queue and resets (requestJson, enqueueCartMutation).
RequestsSettle == \A r \in Requests : (req[r] # None) ~> In(r, "done")

\* A reset ends and the tab accepts requests again (resetGuestSession).
ResetsSettle == \A t \in Tabs : (reset[t] # None) ~> (reset[t] = None)
=============================================================================
