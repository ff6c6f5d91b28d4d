---------------------------- MODULE BrowserProofs ----------------------------
(***************************************************************************)
(* Proofs of what the guest session and the demo profile promise, each for *)
(* any tabs, requests, storage faults and bounds.                          *)
(***************************************************************************)
EXTENDS BasketProofs, FiniteSetTheorems, WellFoundedInduction

(***************************************************************************)
(* The guest session.  A request is sent only in the scope it was clicked  *)
(* in, and a guest that a tab's reset has issued belongs to the scope that *)
(* this reset ends; an answer that was accepted for a guest a reset has    *)
(* ended since was asked for in a scope that is over or being ended.       *)
(* i, o, e, s and a stand for the guests issued, for origin, ended, scope  *)
(* and aborted.                                                            *)
(***************************************************************************)
Ids      == GS!GuestIds
Resets   == [tab : Windows, scope : Nat]
CallRecords == GS!RequestRecords

CallOK(q, i, o, e, s, a) ==
  /\ q \in CallRecords /\ q.scope <= s[q.tab] /\ q.made <= s[q.tab]
  /\ q.phase \in {"boot", "sent", "body"} => q.made = q.scope
  /\ q.phase \in {"sent", "body"} =>
       /\ q.guest \in i
       /\ o[q.guest] # None /\ o[q.guest].tab = q.tab => o[q.guest].scope < q.made
       /\ q.status = "ok" /\ e[q.guest] # None /\ e[q.guest].tab = q.tab =>
            q.scope < s[q.tab] \/ a[q.tab]
  /\ q.phase = "body" => q.status # None

\* What the requests that are under way survive.
Later(i, o, e, s, a, i2, o2, e2, s2, a2) ==
  /\ i \subseteq i2
  /\ \A g \in i : o2[g] = o[g] /\ (e2[g] = e[g] \/ a2[e2[g].tab])
  /\ \A t \in Windows : /\ s[t] \in Nat /\ s2[t] \in Nat /\ s[t] <= s2[t]
                        /\ a[t] => a2[t] \/ s[t] < s2[t]

BootRecords == [state : {"sent", "answered", "ended"}, guest : Ids \union {None}]

ResetRecords ==
  [phase : {"boot", "sent", "answered", "refused"}, boot : Nat, guest : Ids \union {None}]

GuestsInv ==
  /\ born \subseteq Ids /\ live \subseteq born /\ \E n \in Nat : born = 1..n
  /\ origin \in [Ids -> Resets \union {None}] /\ ended \in [Ids -> Resets \union {None}]
  /\ \A g \in Ids : (origin[g] # None \/ ended[g] # None) => g \in born
  /\ \A g \in Ids : ended[g] # None => g \notin live
  /\ cookie \in born \union {None}

ScopesInv ==
  /\ scope \in [Windows -> Nat] /\ aborted \in [Windows -> BOOLEAN]
  /\ \A g \in Ids : origin[g] # None =>
       \/ origin[g].scope < scope[origin[g].tab]
       \/ origin[g].scope = scope[origin[g].tab] /\ aborted[origin[g].tab]

BootsInv ==
  /\ boots \in [Windows -> Seq(BootRecords)]
  /\ \A t \in Windows : \A b \in 1..Len(boots[t]) :
       /\ boots[t][b].guest \in born \union {None}
       /\ boots[t][b].state = "answered" => boots[t][b].guest \in born
  /\ session \in [Windows -> Nat \union {-1}]
  /\ \A t \in Windows : session[t] = GS!Resolved => cookie \in born

ResetsInv ==
  /\ reset \in [Windows -> ResetRecords \union {None}]
  /\ \A t \in Windows : reset[t] # None =>
       /\ aborted[t] /\ reset[t].guest \in born \union {None}
       /\ reset[t].phase = "answered" => reset[t].guest \in born

CallsInv ==
  /\ req \in [Calls -> CallRecords \union {None}]
  /\ \A r \in Calls : req[r] # None => CallOK(req[r], born, origin, ended, scope, aborted)

WritesInv ==
  /\ writes \in [Windows -> Seq(Calls)]
  /\ \A t \in Windows : \A i \in 1..Len(writes[t]) :
       req[writes[t][i]] # None /\ req[writes[t][i]].tab = t

SessionInv == GuestsInv /\ ScopesInv /\ BootsInv /\ ResetsInv /\ CallsInv /\ WritesInv

LEMMA SessionFacts ==
  /\ MaxGuests \in Nat \ {0} /\ Ids = 1..MaxGuests /\ None \notin Nat /\ None # "ok"
  /\ None \notin Ids /\ None \notin CallRecords /\ GS!Unset = 0 /\ GS!Resolved = -1
  BY BrowserAssumption DEF GS!SessionConstants, Ids, CallRecords, GS!GuestIds, GS!Unset, GS!Resolved

LEMMA CallTypes ==
  CallRecords =
    [tab : Windows, made : Nat, scope : Nat, phase : {"queued", "boot", "sent", "body", "done"},
     boot : Nat, tries : Nat, guest : Ids \union {None},
     status : {"ok", "conflict", "unauthorized", None},
     result : {"success", "conflict", "failed", "aborted", None}]
  BY DEF CallRecords, GS!RequestRecords, Ids

LEMMA CallStays ==
  ASSUME NEW i, NEW o, NEW e, NEW s, NEW a, NEW i2, NEW o2, NEW e2, NEW s2, NEW a2,
         Later(i, o, e, s, a, i2, o2, e2, s2, a2), NEW q, CallOK(q, i, o, e, s, a)
  PROVE  CallOK(q, i2, o2, e2, s2, a2)
  <1>1. /\ q \in CallRecords /\ q.tab \in Windows /\ q.scope \in Nat /\ q.made \in Nat
        /\ s[q.tab] \in Nat /\ s2[q.tab] \in Nat /\ s[q.tab] <= s2[q.tab]
        /\ a[q.tab] => a2[q.tab] \/ s[q.tab] < s2[q.tab]
        /\ q.scope <= s[q.tab] /\ q.made <= s[q.tab]
    BY CallTypes DEF CallOK, Later
  <1>2. ASSUME q.phase \in {"sent", "body"}
        PROVE  /\ q.guest \in i2
               /\ o2[q.guest] # None /\ o2[q.guest].tab = q.tab => o2[q.guest].scope < q.made
               /\ q.status = "ok" /\ e2[q.guest] # None /\ e2[q.guest].tab = q.tab =>
                    q.scope < s2[q.tab] \/ a2[q.tab]
    <2>1. q.guest \in i /\ q.guest \in i2 /\ o2[q.guest] = o[q.guest]
          /\ (e2[q.guest] = e[q.guest] \/ a2[e2[q.guest].tab])
      BY <1>2 DEF CallOK, Later
    <2>2. ASSUME q.status = "ok", e2[q.guest] # None, e2[q.guest].tab = q.tab
          PROVE  q.scope < s2[q.tab] \/ a2[q.tab]
      <3>1. CASE e2[q.guest] = e[q.guest]
        <4>1. q.scope < s[q.tab] \/ a[q.tab]
          BY <1>2, <2>2, <3>1 DEF CallOK
        <4>2. QED
          BY <1>1, <4>1
      <3>2. QED
        BY <2>1, <2>2, <3>1
    <2>3. QED
      BY <1>2, <2>1, <2>2 DEF CallOK
  <1>3. QED
    BY <1>1, <1>2 DEF CallOK

LEMMA NewGuest ==
  ASSUME GuestsInv, NEW g, GS!New(g)
  PROVE  g \notin born /\ \E n \in Nat : born \union {g} = 1..n
  <1>1. PICK n \in Nat : born = 1..n
    BY DEF GuestsInv
  <1>2. IsFiniteSet(1..n) /\ Cardinality(1..n) = n
    BY FS_Interval
  <1>3. GS!Cardinality(1..n) = Cardinality(1..n)
    BY DEF GS!Cardinality, Cardinality
  <1>4. g = n + 1
    BY <1>1, <1>2, <1>3 DEF GS!New
  <1>5. born \union {g} = 1..(n + 1) /\ n + 1 \in Nat
    BY <1>1, <1>4
  <1>6. QED
    BY <1>1, <1>4, <1>5

LEMMA SameWorld ==
  ASSUME ScopesInv
  PROVE  Later(born, origin, ended, scope, aborted, born, origin, ended, scope, aborted)
  BY DEF ScopesInv, Later

LEMMA CallsStep ==
  ASSUME SessionInv,
         Later(born, origin, ended, scope, aborted, born', origin', ended', scope', aborted'),
         req' \in [Calls -> CallRecords \union {None}],
         \A r \in Calls : \/ req'[r] = req[r]
                          \/ /\ CallOK(req'[r], born', origin', ended', scope', aborted')
                             /\ req[r] = None \/ req'[r].tab = req[r].tab
  PROVE  CallsInv' /\ (UNCHANGED writes => WritesInv')
  <1>1. ASSUME NEW r \in Calls, req'[r] # None
        PROVE  CallOK(req'[r], born', origin', ended', scope', aborted')
    <2>1. CASE req'[r] = req[r]
      BY <1>1, <2>1, CallStays DEF SessionInv, CallsInv
    <2>2. QED
      BY <2>1
  <1>2. ASSUME NEW r \in Calls, req[r] # None
        PROVE  req'[r] # None /\ req'[r].tab = req[r].tab
    BY <1>2, SessionFacts DEF CallOK
  <1>3. ASSUME NEW t \in Windows, NEW i \in 1..Len(writes[t])
        PROVE  writes[t][i] \in Calls /\ req[writes[t][i]] # None /\ req[writes[t][i]].tab = t
    <2>1. writes[t] \in Seq(Calls)
      BY DEF SessionInv, WritesInv
    <2>2. QED
      BY <2>1 DEF SessionInv, WritesInv
  <1>4. QED
    BY <1>1, <1>2, <1>3 DEF CallsInv, WritesInv, SessionInv

LEMMA CallOf ==
  ASSUME SessionInv, NEW r \in Calls, req[r] # None
  PROVE  /\ CallOK(req[r], born, origin, ended, scope, aborted)
         /\ req[r] \in CallRecords /\ req[r].tab \in Windows
  <1>1. CallOK(req[r], born, origin, ended, scope, aborted)
    BY DEF SessionInv, CallsInv
  <1>2. QED
    BY <1>1, CallTypes DEF CallOK

LEMMA WriteOf ==
  ASSUME SessionInv, NEW t \in Windows, writes[t] # <<>>
  PROVE  /\ Head(writes[t]) \in Calls /\ req[Head(writes[t])] # None
         /\ req[Head(writes[t])].tab = t
  <1>1. writes[t] \in Seq(Calls) /\ 1 \in 1..Len(writes[t]) /\ Head(writes[t]) = writes[t][1]
    BY DEF SessionInv, WritesInv
  <1>2. QED
    BY <1>1 DEF SessionInv, WritesInv

LEMMA DoneOK ==
  ASSUME NEW q, CallOK(q, born, origin, ended, scope, aborted),
         NEW result \in {"success", "conflict", "failed", "aborted"}
  PROVE  /\ CallOK(GS!Done(q, result), born, origin, ended, scope, aborted)
         /\ GS!Done(q, result).tab = q.tab /\ GS!Done(q, result) \in CallRecords
  <1> DEFINE d == GS!Done(q, result)
  <1>1. q \in CallRecords
    BY DEF CallOK
  <1>2. d = [[q EXCEPT !.phase = "done"] EXCEPT !.result = result]
    BY DEF GS!Done
  <1>3. /\ d \in CallRecords /\ d.tab = q.tab /\ d.scope = q.scope /\ d.made = q.made
        /\ d.phase = "done"
    BY <1>1, <1>2, CallTypes
  <1> HIDE DEF d
  <1>4. CallOK(d, born, origin, ended, scope, aborted)
    BY <1>3 DEF CallOK
  <1>5. QED
    BY <1>3, <1>4 DEF d

\* What is sent now is sent in the scope of its click, which no reset has ended.
LEMMA SentOK ==
  ASSUME SessionInv, NEW q \in CallRecords, q.made = q.scope, q.scope <= scope[q.tab],
         NEW g \in born
  PROVE  /\ CallOK(GS!Sent(q, g), born, origin, ended, scope, aborted)
         /\ GS!Sent(q, g).tab = q.tab /\ GS!Sent(q, g) \in CallRecords
  <1> DEFINE n == GS!Sent(q, g)
  <1>1. /\ q.tab \in Windows /\ q.scope \in Nat /\ q.made \in Nat /\ q.tries \in Nat
        /\ scope[q.tab] \in Nat /\ g \in Ids
    BY CallTypes DEF SessionInv, ScopesInv, GuestsInv
  <1>2. CASE q.scope # scope[q.tab] \/ aborted[q.tab]
    <2>1. n = [[q EXCEPT !.phase = "done"] EXCEPT !.result = "aborted"]
      BY <1>2 DEF GS!Sent, GS!Done
    <2>2. /\ n \in CallRecords /\ n.tab = q.tab /\ n.scope = q.scope /\ n.made = q.made
          /\ n.phase = "done"
      BY <2>1, CallTypes
    <2> HIDE DEF n
    <2>3. CallOK(n, born, origin, ended, scope, aborted)
      BY <2>2 DEF CallOK
    <2>4. QED
      BY <2>2, <2>3 DEF n
  <1>3. CASE q.scope = scope[q.tab] /\ ~aborted[q.tab]
    <2>1. n = [[[[q EXCEPT !.phase = "sent"] EXCEPT !.guest = g]
                  EXCEPT !.tries = q.tries + 1] EXCEPT !.status = None]
      BY <1>3 DEF GS!Sent
    <2>2. /\ n \in CallRecords /\ n.tab = q.tab /\ n.scope = q.scope /\ n.made = q.made
          /\ n.phase = "sent" /\ n.guest = g /\ n.status = None
      <3> DEFINE o == [q EXCEPT !.phase = "sent"]
                 m == [o EXCEPT !.guest = g]
      <3>0. /\ o \in CallRecords /\ o.tab = q.tab /\ o.scope = q.scope /\ o.made = q.made
            /\ o.phase = "sent" /\ q.tries + 1 \in Nat
        BY <1>1, CallTypes
      <3>1. /\ m \in CallRecords /\ m.tab = q.tab /\ m.scope = q.scope /\ m.made = q.made
            /\ m.phase = "sent" /\ m.guest = g /\ q.tries + 1 \in Nat
        <4> HIDE DEF o
        <4>1. QED
          BY <1>1, <3>0, CallTypes
      <3>2. n = [[m EXCEPT !.tries = q.tries + 1] EXCEPT !.status = None]
        BY <2>1
      <3> HIDE DEF m, n
      <3>3. QED
        BY <3>1, <3>2, CallTypes
    <2>3. origin[g] # None /\ origin[g].tab = q.tab => origin[g].scope < q.made
      BY <1>1, <1>3 DEF SessionInv, ScopesInv
    <2> HIDE DEF n
    <2>4. CallOK(n, born, origin, ended, scope, aborted)
      BY <2>2, <2>3, SessionFacts DEF CallOK
    <2>5. QED
      BY <2>2, <2>4 DEF n
  <1>4. QED
    BY <1>2, <1>3

LEMMA AwaitedIsNat ==
  ASSUME BootsInv, NEW t \in Windows, NEW force \in BOOLEAN,
         force \/ session[t] # GS!Resolved
  PROVE  GS!Awaited(t, force) \in Nat
  BY SessionFacts DEF BootsInv, GS!Awaited

LEMMA BootstrapStep ==
  ASSUME SessionInv, NEW t \in Windows, NEW force \in BOOLEAN, GS!Bootstrap(t, force),
         UNCHANGED <<born, cookie>>
  PROVE  BootsInv'
  <1>1. CASE ~force /\ session[t] # GS!Unset
    BY <1>1 DEF GS!Bootstrap, SessionInv, BootsInv
  <1>2. CASE force \/ session[t] = GS!Unset
    <2> DEFINE b == [state |-> "sent", guest |-> cookie]
    <2>1. b \in BootRecords /\ cookie \in born \union {None}
      BY DEF SessionInv, GuestsInv, BootRecords
    <2>2. /\ boots \in [Windows -> Seq(BootRecords)] /\ session \in [Windows -> Nat \union {-1}]
          /\ boots' = [boots EXCEPT ![t] = Append(boots[t], b)]
          /\ session' = [session EXCEPT ![t] = Len(boots[t]) + 1]
      BY <1>2 DEF GS!Bootstrap, GS!Awaited, SessionInv, BootsInv
    <2>3. b.guest = cookie /\ b.state = "sent"
      OBVIOUS
    <2> HIDE DEF b
    <2>4. Len(boots[t]) \in Nat /\ Append(boots[t], b) \in Seq(BootRecords)
          /\ Len(Append(boots[t], b)) = Len(boots[t]) + 1
          /\ \A k \in 1..Len(boots[t]) + 1 :
               Append(boots[t], b)[k] = IF k = Len(boots[t]) + 1 THEN b ELSE boots[t][k]
      BY <2>1, <2>2
    <2>5. boots' \in [Windows -> Seq(BootRecords)] /\ session' \in [Windows -> Nat \union {-1}]
      BY <2>2, <2>4
    <2>6. \A u \in Windows : session'[u] = GS!Resolved => cookie' \in born'
      BY <2>2, <2>4, SessionFacts DEF SessionInv, BootsInv
    <2>7. ASSUME NEW u \in Windows, NEW k \in 1..Len(boots'[u])
          PROVE  /\ boots'[u][k].guest \in born' \union {None}
                 /\ boots'[u][k].state = "answered" => boots'[u][k].guest \in born'
      <3>1. CASE u = t
        BY <2>1, <2>2, <2>3, <2>4, <2>7, <3>1 DEF SessionInv, BootsInv
      <3>2. CASE u # t
        BY <2>2, <2>7, <3>2 DEF SessionInv, BootsInv
      <3>3. QED
        BY <3>1, <3>2
    <2>8. QED
      BY <2>5, <2>6, <2>7 DEF BootsInv
  <1>3. QED
    BY <1>1, <1>2

LEMMA StartedOK ==
  ASSUME SessionInv, NEW t \in Windows, NEW q \in CallRecords, q.tab = t, q.made = scope[t]
  PROVE  /\ CallOK(GS!Started(q, t), born, origin, ended, scope, aborted)
         /\ GS!Started(q, t).tab = t /\ GS!Started(q, t) \in CallRecords
  <1> DEFINE n == [q EXCEPT !.scope = scope[t]]
  <1>1. scope[t] \in Nat
    BY DEF SessionInv, ScopesInv
  <1>2. n \in CallRecords /\ n.tab = t /\ n.scope = scope[t] /\ n.made = scope[t]
        /\ n.phase = q.phase
    BY <1>1, CallTypes
  <1>3. CASE reset[t] # None
    <2> DEFINE d == GS!Done(n, "failed")
    <2>1. GS!Started(q, t) = d
      BY <1>3 DEF GS!Started
    <2>2. d = [[n EXCEPT !.phase = "done"] EXCEPT !.result = "failed"]
      BY DEF GS!Done
    <2> HIDE DEF n
    <2>3. /\ d \in CallRecords /\ d.tab = t /\ d.scope = scope[t] /\ d.made = scope[t]
          /\ d.phase = "done"
      BY <1>2, <2>2, CallTypes
    <2> HIDE DEF d
    <2>4. CallOK(d, born, origin, ended, scope, aborted)
      BY <1>1, <2>3 DEF CallOK
    <2>5. QED
      BY <2>1, <2>3, <2>4
  <1>4. CASE reset[t] = None /\ session[t] = GS!Resolved
    <2>1. GS!Started(q, t) = GS!Sent(n, cookie) /\ cookie \in born
      BY <1>4 DEF GS!Started, SessionInv, BootsInv
    <2> HIDE DEF n
    <2>2. n.scope <= scope[n.tab] /\ n.made = n.scope
      BY <1>1, <1>2
    <2>3. QED
      BY <1>2, <2>1, <2>2, SentOK
  <1>5. CASE reset[t] = None /\ session[t] # GS!Resolved
    <2> DEFINE k == GS!Awaited(t, FALSE)
               d == [[n EXCEPT !.phase = "boot"] EXCEPT !.boot = k]
    <2>1. k \in Nat
      BY <1>5, AwaitedIsNat DEF SessionInv
    <2>2. GS!Started(q, t) = d
      BY <1>5 DEF GS!Started
    <2> HIDE DEF n, k
    <2>3. /\ d \in CallRecords /\ d.tab = t /\ d.scope = scope[t] /\ d.made = scope[t]
          /\ d.phase = "boot"
      BY <1>2, <2>1, CallTypes
    <2> HIDE DEF d
    <2>4. CallOK(d, born, origin, ended, scope, aborted)
      BY <1>1, <2>3 DEF CallOK
    <2>5. QED
      BY <2>2, <2>3, <2>4
  <1>6. QED
    BY <1>3, <1>4, <1>5

-----------------------------------------------------------------------------
\* A step of the pages, which leaves guests, scopes and resets alone.
LEMMA PageSideStep ==
  ASSUME SessionInv, UNCHANGED <<cookie, GS!server, scope, aborted, reset>>, BootsInv',
         req' \in [Calls -> CallRecords \union {None}],
         \A r \in Calls : \/ req'[r] = req[r]
                          \/ /\ CallOK(req'[r], born, origin, ended, scope, aborted)
                             /\ req[r] = None \/ req'[r].tab = req[r].tab,
         UNCHANGED writes \/ WritesInv'
  PROVE  SessionInv'
  <1>1. UNCHANGED <<live, born, origin, ended>>
    BY DEF GS!server
  <1>2. GuestsInv' /\ ScopesInv' /\ ResetsInv'
    BY <1>1 DEF SessionInv, GuestsInv, ScopesInv, ResetsInv
  <1>3. Later(born, origin, ended, scope, aborted, born', origin', ended', scope', aborted')
    BY <1>1, SameWorld DEF SessionInv
  <1>4. CallsInv' /\ (UNCHANGED writes => WritesInv')
    BY <1>1, <1>3, CallsStep
  <1>5. QED
    BY <1>2, <1>4 DEF SessionInv

LEMMA OneCall ==
  ASSUME SessionInv, NEW r \in Calls, NEW q \in CallRecords, req' = [req EXCEPT ![r] = q],
         CallOK(q, born, origin, ended, scope, aborted), req[r] = None \/ q.tab = req[r].tab
  PROVE  /\ req' \in [Calls -> CallRecords \union {None}]
         /\ \A x \in Calls : \/ req'[x] = req[x]
                             \/ /\ CallOK(req'[x], born, origin, ended, scope, aborted)
                                /\ req[x] = None \/ req'[x].tab = req[x].tab
  BY DEF SessionInv, CallsInv

LEMMA BootsLeftAlone ==
  ASSUME SessionInv, UNCHANGED <<boots, session, born, cookie>>
  PROVE  BootsInv'
  BY DEF SessionInv, BootsInv

LEMMA BeginStep ==
  ASSUME SessionInv, UNCHANGED <<cookie, GS!server, scope, aborted, reset, writes>>,
         NEW r \in Calls, NEW t \in Windows, NEW q \in CallRecords, q.tab = t, q.made = scope[t],
         req[r] = None \/ req[r].tab = t, GS!Begin(r, t, q)
  PROVE  SessionInv'
  <1> DEFINE n == GS!Started(q, t)
  <1>1. /\ CallOK(n, born, origin, ended, scope, aborted)
        /\ n.tab = t /\ n \in CallRecords
    BY StartedOK
  <1>2. req' = [req EXCEPT ![r] = n]
    BY DEF GS!Begin
  <1> HIDE DEF n
  <1>3. UNCHANGED <<born, cookie>>
    BY DEF GS!server
  <1>4. BootsInv'
    BY <1>3, BootstrapStep, BootsLeftAlone DEF GS!Begin
  <1>5. QED
    BY <1>1, <1>2, <1>4, OneCall, PageSideStep

LEMMA NewRequestOK ==
  ASSUME SessionInv, NEW t \in Windows
  PROVE  /\ GS!NewRequest(t) \in CallRecords /\ GS!NewRequest(t).tab = t
         /\ GS!NewRequest(t).made = scope[t]
         /\ CallOK(GS!NewRequest(t), born, origin, ended, scope, aborted)
  <1> DEFINE n == GS!NewRequest(t)
  <1>1. scope[t] \in Nat
    BY DEF SessionInv, ScopesInv
  <1>2. n = [tab |-> t, made |-> scope[t], scope |-> scope[t], phase |-> "queued", boot |-> 0,
             tries |-> 0, guest |-> None, status |-> None, result |-> None]
    BY DEF GS!NewRequest
  <1>3. n \in CallRecords /\ n.tab = t /\ n.made = scope[t] /\ n.scope = scope[t]
        /\ n.phase = "queued"
    BY <1>1, <1>2, CallTypes
  <1> HIDE DEF n
  <1>4. CallOK(n, born, origin, ended, scope, aborted)
    BY <1>1, <1>3 DEF CallOK
  <1>5. QED
    BY <1>3, <1>4 DEF n

LEMMA ReadRequestStep ==
  ASSUME SessionInv, NEW r \in Calls, NEW t \in Windows, GS!ReadRequest(r, t)
  PROVE  SessionInv'
  BY NewRequestOK, BeginStep DEF GS!ReadRequest

LEMMA WriteRequestStep ==
  ASSUME SessionInv, NEW r \in Calls, NEW t \in Windows, GS!WriteRequest(r, t)
  PROVE  SessionInv'
  <1> DEFINE n == GS!NewRequest(t)
  <1>1. /\ req[r] = None /\ req' = [req EXCEPT ![r] = n]
        /\ writes' = [writes EXCEPT ![t] = Append(writes[t], r)]
        /\ UNCHANGED <<cookie, GS!server, boots, session, scope, aborted, reset>>
    BY DEF GS!WriteRequest
  <1>2. n \in CallRecords /\ n.tab = t /\ CallOK(n, born, origin, ended, scope, aborted)
    BY NewRequestOK
  <1> HIDE DEF n
  <1>3. /\ req' \in [Calls -> CallRecords \union {None}]
        /\ \A x \in Calls : \/ req'[x] = req[x]
                            \/ /\ CallOK(req'[x], born, origin, ended, scope, aborted)
                               /\ req[x] = None \/ req'[x].tab = req[x].tab
    BY <1>1, <1>2, OneCall
  <1>4. WritesInv'
    <2>1. writes \in [Windows -> Seq(Calls)] /\ writes[t] \in Seq(Calls) /\ Len(writes[t]) \in Nat
      BY DEF SessionInv, WritesInv
    <2>2. /\ Append(writes[t], r) \in Seq(Calls)
          /\ Len(Append(writes[t], r)) = Len(writes[t]) + 1
          /\ \A k \in 1..Len(writes[t]) + 1 :
               Append(writes[t], r)[k] = IF k = Len(writes[t]) + 1 THEN r ELSE writes[t][k]
      BY <2>1
    <2>3. writes' \in [Windows -> Seq(Calls)]
      BY <1>1, <2>1, <2>2
    <2>4. req'[r] # None /\ req'[r].tab = t
      BY <1>1, <1>2, SessionFacts DEF SessionInv, CallsInv
    <2>5. \A x \in Calls : req[x] # None => req'[x] = req[x]
      BY <1>1 DEF SessionInv, CallsInv
    <2>6. ASSUME NEW u \in Windows, NEW k \in 1..Len(writes'[u])
          PROVE  req'[writes'[u][k]] # None /\ req'[writes'[u][k]].tab = u
      <3>1. \A y \in 1..Len(writes[u]) :
              writes[u][y] \in Calls /\ req[writes[u][y]] # None /\ req[writes[u][y]].tab = u
        <4>1. writes[u] \in Seq(Calls)
          BY <2>1
        <4>2. QED
          BY <4>1 DEF SessionInv, WritesInv
      <3>2. CASE u = t
        <4>1. writes'[u] = Append(writes[t], r) /\ k \in 1..Len(writes[t]) + 1
          BY <1>1, <2>1, <2>2, <2>6, <3>2
        <4>2. CASE k = Len(writes[t]) + 1
          BY <2>2, <2>4, <3>2, <4>1, <4>2
        <4>3. CASE k # Len(writes[t]) + 1
          <5>1. k \in 1..Len(writes[u]) /\ writes'[u][k] = writes[u][k]
            BY <2>1, <2>2, <3>2, <4>1, <4>3
          <5>2. QED
            BY <2>5, <3>1, <5>1
        <4>4. QED
          BY <4>2, <4>3
      <3>3. CASE u # t
        <4>1. writes'[u] = writes[u]
          BY <1>1, <2>1, <3>3
        <4>2. QED
          BY <2>5, <2>6, <3>1, <4>1
      <3>4. QED
        BY <3>2, <3>3
    <2>7. QED
      BY <2>3, <2>6 DEF WritesInv
  <1>5. QED
    BY <1>1, <1>3, <1>4, BootsLeftAlone, PageSideStep DEF GS!server

LEMMA AbortCall ==
  ASSUME SessionInv, NEW r \in Calls, req[r] # None,
         NEW result \in {"success", "conflict", "failed", "aborted"},
         req' = [req EXCEPT ![r] = GS!Done(@, result)],
         UNCHANGED <<cookie, GS!server, boots, session, scope, aborted, reset, writes>>
  PROVE  SessionInv'
  <1> DEFINE d == GS!Done(req[r], result)
  <1>1. d \in CallRecords /\ d.tab = req[r].tab
        /\ CallOK(d, born, origin, ended, scope, aborted)
    BY CallOf, DoneOK
  <1>2. req' = [req EXCEPT ![r] = d]
    OBVIOUS
  <1> HIDE DEF d
  <1>3. QED
    BY <1>1, <1>2, OneCall, BootsLeftAlone, PageSideStep DEF GS!server

LEMMA DequeueStep ==
  ASSUME SessionInv, NEW t \in Windows, GS!Dequeue(t)
  PROVE  SessionInv'
  <1> DEFINE r == Head(writes[t])
  <1>1. /\ r \in Calls /\ req[r] # None /\ req[r].tab = t /\ req[r] \in CallRecords
    BY WriteOf, CallOf DEF GS!Dequeue
  <1>2. CASE req[r].made # scope[t] \/ aborted[t]
    BY <1>1, <1>2, AbortCall DEF GS!Dequeue
  <1>3. CASE req[r].made = scope[t] /\ ~aborted[t]
    BY <1>1, <1>3, BeginStep DEF GS!Dequeue
  <1>4. QED
    BY <1>2, <1>3

LEMMA AdvanceStep ==
  ASSUME SessionInv, NEW t \in Windows, GS!Advance(t)
  PROVE  SessionInv'
  <1>1. /\ writes[t] # <<>> /\ writes' = [writes EXCEPT ![t] = Tail(writes[t])]
        /\ UNCHANGED <<cookie, GS!server, boots, session, scope, aborted, reset, req>>
    BY DEF GS!Advance
  <1>2. WritesInv'
    <2>1. writes \in [Windows -> Seq(Calls)] /\ writes[t] \in Seq(Calls)
          /\ Len(writes[t]) \in Nat /\ Len(writes[t]) > 0
      BY <1>1 DEF SessionInv, WritesInv
    <2>2. /\ Tail(writes[t]) \in Seq(Calls) /\ Len(Tail(writes[t])) = Len(writes[t]) - 1
          /\ \A k \in 1..Len(writes[t]) - 1 : Tail(writes[t])[k] = writes[t][k + 1]
      BY <2>1
    <2>3. writes' \in [Windows -> Seq(Calls)]
      BY <1>1, <2>1, <2>2
    <2>4. ASSUME NEW u \in Windows, NEW k \in 1..Len(writes'[u])
          PROVE  req'[writes'[u][k]] # None /\ req'[writes'[u][k]].tab = u
      <3>1. CASE u = t
        <4>1. writes'[u][k] = writes[t][k + 1] /\ k + 1 \in 1..Len(writes[t])
          BY <1>1, <2>1, <2>2, <2>4, <3>1
        <4>2. QED
          BY <1>1, <3>1, <4>1 DEF SessionInv, WritesInv
      <3>2. CASE u # t
        <4>1. writes'[u] = writes[u]
          BY <1>1, <2>1, <3>2
        <4>2. QED
          BY <1>1, <2>4, <4>1 DEF SessionInv, WritesInv
      <3>3. QED
        BY <3>1, <3>2
    <2>5. QED
      BY <2>3, <2>4 DEF WritesInv
  <1>3. /\ req' \in [Calls -> CallRecords \union {None}] /\ \A x \in Calls : req'[x] = req[x]
    BY <1>1 DEF SessionInv, CallsInv
  <1>4. QED
    BY <1>1, <1>2, <1>3, BootsLeftAlone, PageSideStep DEF GS!server

LEMMA HandleRequestStep ==
  ASSUME SessionInv, NEW r \in Calls, GS!HandleRequest(r)
  PROVE  SessionInv'
  <1>1. /\ req[r] # None /\ req[r].phase = "sent"
        /\ UNCHANGED <<cookie, GS!server, boots, session, scope, aborted, reset, writes>>
    BY DEF GS!HandleRequest, GS!In
  <1>2. PICK s \in {"ok", "conflict", "unauthorized"} :
          /\ s \in IF req[r].guest \in live THEN {"ok", "conflict"} ELSE {"unauthorized"}
          /\ req' = [req EXCEPT ![r].status = s]
    BY DEF GS!HandleRequest
  <1> DEFINE q == [req[r] EXCEPT !.status = s]
  <1>3. CallOK(req[r], born, origin, ended, scope, aborted) /\ req[r] \in CallRecords
    BY <1>1, CallOf
  <1>4. /\ q \in CallRecords /\ q.tab = req[r].tab /\ q.made = req[r].made
        /\ q.scope = req[r].scope /\ q.phase = "sent" /\ q.guest = req[r].guest /\ q.status = s
    BY <1>1, <1>3, CallTypes
  <1>5. s = "ok" => ended[req[r].guest] = None
    <2>1. req[r].guest \in born /\ born \subseteq Ids
      BY <1>1, <1>3 DEF CallOK, SessionInv, GuestsInv
    <2>2. QED
      BY <1>2, <2>1 DEF SessionInv, GuestsInv
  <1>6. req' = [req EXCEPT ![r] = q]
    BY <1>2 DEF SessionInv, CallsInv
  <1> HIDE DEF q
  <1>7. CallOK(q, born, origin, ended, scope, aborted)
    BY <1>1, <1>3, <1>4, <1>5 DEF CallOK
  <1>8. QED
    BY <1>1, <1>4, <1>6, <1>7, OneCall, BootsLeftAlone, PageSideStep DEF GS!server

LEMMA ReceiveStep ==
  ASSUME SessionInv, NEW r \in Calls, GS!Receive(r)
  PROVE  SessionInv'
  <1> DEFINE t == req[r].tab
             o == req[r]
  <1>1. /\ o # None /\ o.phase = "sent" /\ o.status # None
        /\ UNCHANGED <<cookie, GS!server, scope, aborted, reset, writes>>
    BY DEF GS!Receive, GS!In
  <1>2. CallOK(o, born, origin, ended, scope, aborted) /\ o \in CallRecords /\ t \in Windows
    BY <1>1, CallOf
  <1>3. CASE o.status = "unauthorized" /\ o.tries = 1
    <2> DEFINE k == GS!Awaited(t, TRUE)
               q == [[o EXCEPT !.phase = "boot"] EXCEPT !.boot = k]
    <2>1. k \in Nat
      BY <1>2, AwaitedIsNat DEF SessionInv
    <2>2. GS!Bootstrap(t, TRUE) /\ req' = [req EXCEPT ![r] = q]
      <3>1. req' = [req EXCEPT ![r].phase = "boot", ![r].boot = k]
        BY <1>3 DEF GS!Receive
      <3>2. QED
        BY <1>3, <3>1 DEF GS!Receive, SessionInv, CallsInv
    <2> HIDE DEF k
    <2>3. /\ q \in CallRecords /\ q.tab = o.tab /\ q.made = o.made
          /\ q.scope = o.scope /\ q.phase = "boot"
      BY <1>2, <2>1, CallTypes
    <2> HIDE DEF q
    <2>4. CallOK(q, born, origin, ended, scope, aborted)
      BY <1>1, <1>2, <2>3 DEF CallOK
    <2>5. BootsInv'
      BY <1>1, <1>2, <2>2, BootstrapStep DEF GS!server
    <2>6. QED
      BY <1>1, <2>2, <2>3, <2>4, <2>5, OneCall, PageSideStep
  <1>4. CASE ~(o.status = "unauthorized" /\ o.tries = 1)
    <2> DEFINE q == [o EXCEPT !.phase = "body"]
    <2>1. req' = [req EXCEPT ![r] = q] /\ UNCHANGED <<boots, session>>
      BY <1>4 DEF GS!Receive
    <2>2. /\ q \in CallRecords /\ q.tab = o.tab /\ q.made = o.made /\ q.scope = o.scope
          /\ q.phase = "body" /\ q.guest = o.guest /\ q.status = o.status
      BY <1>2, CallTypes
    <2> HIDE DEF q
    <2>3. CallOK(q, born, origin, ended, scope, aborted)
      BY <1>1, <1>2, <2>2 DEF CallOK
    <2>4. QED
      BY <1>1, <2>1, <2>2, <2>3, OneCall, BootsLeftAlone, PageSideStep DEF GS!server
  <1>5. QED
    BY <1>3, <1>4

LEMMA GiveUpRequestStep ==
  ASSUME SessionInv, NEW r \in Calls, GS!GiveUp(r)
  PROVE  SessionInv'
  BY AbortCall DEF GS!GiveUp, GS!In

LEMMA DeliverStep ==
  ASSUME SessionInv, NEW r \in Calls, GS!Deliver(r)
  PROVE  SessionInv'
  <1>1. GS!Result(req[r]) \in {"success", "conflict", "failed", "aborted"}
    BY DEF GS!Result
  <1>2. QED
    BY <1>1, AbortCall DEF GS!Deliver, GS!In

-----------------------------------------------------------------------------
\* A bootstrap that changes one record of its tab's list.
LEMMA OneBoot ==
  ASSUME SessionInv, NEW t \in Windows, NEW b \in 1..Len(boots[t]), NEW q \in BootRecords,
         boots' = [boots EXCEPT ![t] = [boots[t] EXCEPT ![b] = q]],
         born \subseteq born', q.guest \in born' \union {None},
         q.state = "answered" => q.guest \in born'
  PROVE  /\ boots' \in [Windows -> Seq(BootRecords)]
         /\ \A u \in Windows : \A k \in 1..Len(boots'[u]) :
              /\ boots'[u][k].guest \in born' \union {None}
              /\ boots'[u][k].state = "answered" => boots'[u][k].guest \in born'
  <1>1. boots \in [Windows -> Seq(BootRecords)] /\ boots[t] \in Seq(BootRecords)
    BY DEF SessionInv, BootsInv
  <1> DEFINE s == [boots[t] EXCEPT ![b] = q]
  <1>2. /\ s \in Seq(BootRecords) /\ Len(s) = Len(boots[t]) /\ Len(s) \in Nat
        /\ \A k \in 1..Len(s) : s[k] = IF k = b THEN q ELSE boots[t][k]
    BY <1>1
  <1> HIDE DEF s
  <1>3. boots' = [boots EXCEPT ![t] = s]
    BY DEF s
  <1>4. boots' \in [Windows -> Seq(BootRecords)]
    BY <1>1, <1>2, <1>3
  <1>5. ASSUME NEW u \in Windows, NEW k \in 1..Len(boots'[u])
        PROVE  /\ boots'[u][k].guest \in born' \union {None}
               /\ boots'[u][k].state = "answered" => boots'[u][k].guest \in born'
    <2>1. CASE u = t
      <3>1. boots'[u] = s
        BY <1>1, <1>3, <2>1
      <3>2. k \in 1..Len(boots[t]) /\ boots'[u][k] = IF k = b THEN q ELSE boots[t][k]
        BY <1>2, <1>5, <3>1
      <3>3. CASE k = b
        BY <3>2, <3>3
      <3>4. CASE k # b
        BY <3>2, <3>4 DEF SessionInv, BootsInv
      <3>5. QED
        BY <3>3, <3>4
    <2>2. CASE u # t
      <3>1. boots'[u] = boots[u]
        BY <1>1, <1>3, <2>2
      <3>2. QED
        BY <1>5, <3>1 DEF SessionInv, BootsInv
    <2>3. QED
      BY <2>1, <2>2
  <1>6. QED
    BY <1>4, <1>5

LEMMA BootOf ==
  ASSUME SessionInv, NEW t \in Windows, NEW b \in DOMAIN boots[t]
  PROVE  /\ b \in 1..Len(boots[t]) /\ boots[t] \in Seq(BootRecords) /\ b \in Nat
         /\ boots[t][b] \in BootRecords /\ boots[t][b].guest \in born \union {None}
         /\ boots[t][b].state = "answered" => boots[t][b].guest \in born
  <1>1. boots[t] \in Seq(BootRecords)
    BY DEF SessionInv, BootsInv
  <1>2. b \in 1..Len(boots[t]) /\ b \in Nat /\ boots[t][b] \in BootRecords
    BY <1>1
  <1>3. QED
    BY <1>1, <1>2 DEF SessionInv, BootsInv

LEMMA HandleBootstrapStep ==
  ASSUME SessionInv, NEW t \in Windows, NEW b \in DOMAIN boots[t], GS!HandleBootstrap(t, b)
  PROVE  SessionInv'
  <1>1. PICK g \in Ids :
          /\ IF boots[t][b].guest \in live THEN g = boots[t][b].guest ELSE GS!New(g)
          /\ live' = live \union {g} /\ born' = born \union {g}
          /\ boots' = [boots EXCEPT ![t][b] = [state |-> "answered", guest |-> g]]
    BY DEF GS!HandleBootstrap, Ids
  <1>2. UNCHANGED <<cookie, origin, ended, session, scope, aborted, reset, writes, req>>
    BY DEF GS!HandleBootstrap
  <1>3. \E n \in Nat : born \union {g} = 1..n
    <2>1. CASE boots[t][b].guest \in live
      <3>1. born \union {g} = born
        BY <1>1, <2>1 DEF SessionInv, GuestsInv
      <3>2. QED
        BY <3>1 DEF SessionInv, GuestsInv
    <2>2. CASE boots[t][b].guest \notin live
      BY <1>1, <2>2, NewGuest DEF SessionInv
    <2>3. QED
      BY <2>1, <2>2
  <1>4. ASSUME NEW h \in Ids, ended[h] # None
        PROVE  h \notin live'
    <2>1. h \notin live /\ h \in born
      BY <1>4 DEF SessionInv, GuestsInv
    <2>2. CASE boots[t][b].guest \in live
      BY <1>1, <2>1, <2>2
    <2>3. CASE boots[t][b].guest \notin live
      <3>1. g \notin born
        BY <1>1, <2>3, NewGuest DEF SessionInv
      <3>2. QED
        BY <1>1, <2>1, <3>1
    <2>4. QED
      BY <2>2, <2>3
  <1>5. GuestsInv'
    <2>1. /\ born' \subseteq Ids /\ live' \subseteq born' /\ cookie' \in born' \union {None}
      BY <1>1, <1>2 DEF SessionInv, GuestsInv
    <2>2. \E n \in Nat : born' = 1..n
      BY <1>1, <1>3
    <2>3. \A h \in Ids : (origin'[h] # None \/ ended'[h] # None) => h \in born'
      BY <1>1, <1>2 DEF SessionInv, GuestsInv
    <2>4. \A h \in Ids : ended'[h] # None => h \notin live'
      BY <1>2, <1>4
    <2>5. /\ origin' \in [Ids -> Resets \union {None}]
          /\ ended' \in [Ids -> Resets \union {None}]
      BY <1>2 DEF SessionInv, GuestsInv
    <2>6. QED
      BY <2>1, <2>2, <2>3, <2>4, <2>5 DEF GuestsInv
  <1>6. ScopesInv'
    BY <1>2 DEF SessionInv, ScopesInv
  <1>7. ResetsInv'
    BY <1>1, <1>2 DEF SessionInv, ResetsInv
  <1>8. BootsInv'
    <2> DEFINE q == [state |-> "answered", guest |-> g]
    <2>1. q \in BootRecords /\ q.guest \in born' /\ born \subseteq born'
      BY <1>1 DEF BootRecords
    <2>2. boots' = [boots EXCEPT ![t] = [boots[t] EXCEPT ![b] = q]]
      BY <1>1 DEF SessionInv, BootsInv
    <2>3. b \in 1..Len(boots[t])
      BY BootOf
    <2> HIDE DEF q
    <2>4. /\ boots' \in [Windows -> Seq(BootRecords)]
          /\ \A u \in Windows : \A k \in 1..Len(boots'[u]) :
               /\ boots'[u][k].guest \in born' \union {None}
               /\ boots'[u][k].state = "answered" => boots'[u][k].guest \in born'
      BY <2>1, <2>2, <2>3, OneBoot
    <2>5. /\ session' \in [Windows -> Nat \union {-1}]
          /\ \A u \in Windows : session'[u] = GS!Resolved => cookie' \in born'
      BY <1>1, <1>2 DEF SessionInv, BootsInv
    <2>6. QED
      BY <2>4, <2>5 DEF BootsInv
  <1>9. Later(born, origin, ended, scope, aborted, born', origin', ended', scope', aborted')
    BY <1>1, <1>2 DEF Later, SessionInv, ScopesInv
  <1>10. req' \in [Calls -> CallRecords \union {None}] /\ \A r \in Calls : req'[r] = req[r]
    BY <1>2 DEF SessionInv, CallsInv
  <1>11. CallsInv' /\ WritesInv'
    BY <1>2, <1>9, <1>10, CallsStep
  <1>12. QED
    BY <1>5, <1>6, <1>7, <1>8, <1>11 DEF SessionInv

\* Every caller that waited for a bootstrap goes on: sends its request, or is refused.
LEMMA EndBootstrapStep ==
  ASSUME SessionInv, NEW t \in Windows, NEW b \in DOMAIN boots[t], GS!EndBootstrap(t, b)
  PROVE  SessionInv'
  <1>1. PICK c \in born : c = boots[t][b].guest /\ cookie' = c
    BY BootOf DEF GS!EndBootstrap
  <1>2. /\ boots[t][b].state = "answered"
        /\ boots' = [boots EXCEPT ![t][b].state = "ended"]
        /\ session' = IF session[t] = b THEN [session EXCEPT ![t] = GS!Resolved] ELSE session
        /\ req' = [r \in Calls |-> IF GS!Waits(r, t, b) THEN GS!Sent(req[r], c) ELSE req[r]]
        /\ reset' = IF reset[t] # None /\ reset[t].phase = "boot" /\ reset[t].boot = b
                    THEN [reset EXCEPT ![t].phase = "sent", ![t].guest = c]
                    ELSE reset
    BY <1>1 DEF GS!EndBootstrap
  <1>3. UNCHANGED <<live, born, origin, ended, scope, aborted, writes>>
    BY DEF GS!EndBootstrap, GS!server
  <1>4. GuestsInv' /\ ScopesInv'
    BY <1>1, <1>3 DEF SessionInv, GuestsInv, ScopesInv
  <1>5. ResetsInv'
    <2>1. CASE reset[t] # None /\ reset[t].phase = "boot" /\ reset[t].boot = b
      <3> DEFINE p == [[reset[t] EXCEPT !.phase = "sent"] EXCEPT !.guest = c]
      <3>1. reset[t] \in ResetRecords /\ aborted[t] /\ c \in Ids
        BY <2>1 DEF SessionInv, ResetsInv, GuestsInv
      <3>2. p \in ResetRecords /\ p.guest = c /\ p.phase = "sent"
        BY <3>1 DEF ResetRecords
      <3>3. reset' = [reset EXCEPT ![t] = p]
        BY <1>2, <2>1 DEF SessionInv, ResetsInv
      <3> HIDE DEF p
      <3>4. QED
        BY <1>3, <3>1, <3>2, <3>3 DEF SessionInv, ResetsInv
    <2>2. CASE ~(reset[t] # None /\ reset[t].phase = "boot" /\ reset[t].boot = b)
      BY <1>2, <1>3, <2>2 DEF SessionInv, ResetsInv
    <2>3. QED
      BY <2>1, <2>2
  <1>6. BootsInv'
    <2> DEFINE q == [boots[t][b] EXCEPT !.state = "ended"]
    <2>1. q \in BootRecords /\ q.guest \in born' /\ q.state = "ended"
      BY <1>1, <1>3, BootOf DEF BootRecords
    <2>2. boots' = [boots EXCEPT ![t] = [boots[t] EXCEPT ![b] = q]]
      BY <1>2 DEF SessionInv, BootsInv
    <2>3. b \in 1..Len(boots[t])
      BY BootOf
    <2> HIDE DEF q
    <2>4. /\ boots' \in [Windows -> Seq(BootRecords)]
          /\ \A u \in Windows : \A k \in 1..Len(boots'[u]) :
               /\ boots'[u][k].guest \in born' \union {None}
               /\ boots'[u][k].state = "answered" => boots'[u][k].guest \in born'
      BY <1>3, <2>1, <2>2, <2>3, OneBoot
    <2>5. session' \in [Windows -> Nat \union {-1}] /\ cookie' \in born'
      BY <1>1, <1>2, <1>3, SessionFacts DEF SessionInv, BootsInv
    <2>6. QED
      BY <2>4, <2>5 DEF BootsInv
  <1>7. Later(born, origin, ended, scope, aborted, born', origin', ended', scope', aborted')
    BY <1>3, SameWorld DEF SessionInv
  <1>8. ASSUME NEW r \in Calls, GS!Waits(r, t, b)
        PROVE  /\ CallOK(req'[r], born, origin, ended, scope, aborted)
               /\ req'[r].tab = req[r].tab /\ req'[r] \in CallRecords
    <2>1. req[r] # None /\ req[r].phase = "boot"
      BY <1>8 DEF GS!Waits
    <2>2. req[r] \in CallRecords /\ req[r].made = req[r].scope /\ req[r].scope <= scope[req[r].tab]
      BY <2>1, CallOf DEF CallOK
    <2>3. req'[r] = GS!Sent(req[r], c)
      BY <1>2, <1>8
    <2>4. QED
      BY <2>2, <2>3, SentOK
  <1>9. \A r \in Calls : ~GS!Waits(r, t, b) => req'[r] = req[r]
    BY <1>2
  <1>10. req' \in [Calls -> CallRecords \union {None}]
    <2>1. \A r \in Calls : req'[r] \in CallRecords \union {None}
      BY <1>8, <1>9 DEF SessionInv, CallsInv
    <2>2. QED
      BY <1>2, <2>1
  <1>11. \A r \in Calls :
           \/ req'[r] = req[r]
           \/ /\ CallOK(req'[r], born', origin', ended', scope', aborted')
              /\ req[r] = None \/ req'[r].tab = req[r].tab
    BY <1>3, <1>8, <1>9
  <1>12. CallsInv' /\ WritesInv'
    BY <1>3, <1>7, <1>10, <1>11, CallsStep
  <1>13. QED
    BY <1>4, <1>5, <1>6, <1>12 DEF SessionInv
-----------------------------------------------------------------------------
\* resetGuestSession's finally block ends the scope that the reset has aborted.
LEMMA SettledStep ==
  ASSUME SessionInv, NEW t \in Windows, GS!Settled(t), UNCHANGED <<born, origin, ended>>
  PROVE  /\ ScopesInv' /\ ResetsInv'
         /\ Later(born, origin, ended, scope, aborted, born', origin', ended', scope', aborted')
  <1>1. /\ reset' = [reset EXCEPT ![t] = None] /\ scope' = [scope EXCEPT ![t] = scope[t] + 1]
        /\ aborted' = [aborted EXCEPT ![t] = FALSE]
    BY DEF GS!Settled
  <1>2. scope \in [Windows -> Nat] /\ aborted \in [Windows -> BOOLEAN]
    BY DEF SessionInv, ScopesInv
  <1>3. scope' \in [Windows -> Nat] /\ aborted' \in [Windows -> BOOLEAN]
    BY <1>1, <1>2
  <1>4. ASSUME NEW g \in Ids, origin[g] # None
        PROVE  \/ origin[g].scope < scope'[origin[g].tab]
               \/ origin[g].scope = scope'[origin[g].tab] /\ aborted'[origin[g].tab]
    <2>1. origin[g].tab \in Windows /\ origin[g].scope \in Nat
      BY <1>4 DEF SessionInv, GuestsInv, Resets
    <2>2. \/ origin[g].scope < scope[origin[g].tab]
          \/ origin[g].scope = scope[origin[g].tab] /\ aborted[origin[g].tab]
      BY <1>4 DEF SessionInv, ScopesInv
    <2>3. CASE origin[g].tab = t
      BY <1>1, <1>2, <2>1, <2>2, <2>3
    <2>4. CASE origin[g].tab # t
      BY <1>1, <1>2, <2>1, <2>2, <2>4
    <2>5. QED
      BY <2>3, <2>4
  <1>5. ScopesInv'
    BY <1>3, <1>4 DEF ScopesInv
  <1>6. ResetsInv'
    <2>1. reset \in [Windows -> ResetRecords \union {None}]
      BY DEF SessionInv, ResetsInv
    <2>2. reset' \in [Windows -> ResetRecords \union {None}]
      BY <1>1, <2>1
    <2>3. ASSUME NEW u \in Windows, reset'[u] # None
          PROVE  u # t /\ reset'[u] = reset[u] /\ aborted'[u] = aborted[u]
      BY <1>1, <1>2, <2>1, <2>3
    <2>4. QED
      BY <2>2, <2>3 DEF SessionInv, ResetsInv
  <1>7. \A u \in Windows : /\ scope[u] \in Nat /\ scope'[u] \in Nat /\ scope[u] <= scope'[u]
                           /\ aborted[u] => aborted'[u] \/ scope[u] < scope'[u]
    BY <1>1, <1>2
  <1>8. QED
    BY <1>5, <1>6, <1>7 DEF Later

LEMMA FailBootstrapStep ==
  ASSUME SessionInv, NEW t \in Windows, NEW b \in DOMAIN boots[t], GS!FailBootstrap(t, b)
  PROVE  SessionInv'
  <1>1. /\ boots' = [boots EXCEPT ![t][b].state = "ended"]
        /\ session' = [session EXCEPT ![t] = GS!Unset]
        /\ req' = [r \in Calls |->
                     IF GS!Waits(r, t, b) THEN GS!Done(req[r], "failed") ELSE req[r]]
        /\ GS!Settled(t) \/ UNCHANGED <<reset, scope, aborted>>
    BY DEF GS!FailBootstrap, GS!Forgotten
  <1>2. UNCHANGED <<cookie, live, born, origin, ended, writes>>
    BY DEF GS!FailBootstrap, GS!server
  <1>3. GuestsInv'
    BY <1>2 DEF SessionInv, GuestsInv
  <1>4. /\ ScopesInv' /\ ResetsInv'
        /\ Later(born, origin, ended, scope, aborted, born', origin', ended', scope', aborted')
    <2>1. CASE GS!Settled(t)
      BY <1>2, <2>1, SettledStep
    <2>2. CASE UNCHANGED <<reset, scope, aborted>>
      BY <1>2, <2>2, SameWorld DEF SessionInv, ScopesInv, ResetsInv
    <2>3. QED
      BY <1>1, <2>1, <2>2
  <1>5. BootsInv'
    <2> DEFINE q == [boots[t][b] EXCEPT !.state = "ended"]
    <2>1. q \in BootRecords /\ q.guest \in born' \union {None} /\ q.state = "ended"
      BY <1>2, BootOf DEF BootRecords
    <2>2. boots' = [boots EXCEPT ![t] = [boots[t] EXCEPT ![b] = q]]
      BY <1>1 DEF SessionInv, BootsInv
    <2>3. b \in 1..Len(boots[t])
      BY BootOf
    <2> HIDE DEF q
    <2>4. /\ boots' \in [Windows -> Seq(BootRecords)]
          /\ \A u \in Windows : \A k \in 1..Len(boots'[u]) :
               /\ boots'[u][k].guest \in born' \union {None}
               /\ boots'[u][k].state = "answered" => boots'[u][k].guest \in born'
      BY <1>2, <2>1, <2>2, <2>3, OneBoot
    <2>5. /\ session' \in [Windows -> Nat \union {-1}]
          /\ \A u \in Windows : session'[u] = GS!Resolved => cookie' \in born'
      BY <1>1, <1>2, SessionFacts DEF SessionInv, BootsInv
    <2>6. QED
      BY <2>4, <2>5 DEF BootsInv
  <1>6. ASSUME NEW r \in Calls, GS!Waits(r, t, b)
        PROVE  /\ CallOK(req'[r], born', origin', ended', scope', aborted')
               /\ req'[r].tab = req[r].tab /\ req'[r] \in CallRecords
    <2>1. CallOK(req[r], born, origin, ended, scope, aborted)
      BY <1>6, CallOf DEF GS!Waits
    <2>2. PICK d : d = GS!Done(req[r], "failed")
      OBVIOUS
    <2>3. /\ CallOK(d, born, origin, ended, scope, aborted)
          /\ d.tab = req[r].tab /\ d \in CallRecords
      BY <2>1, <2>2, DoneOK
    <2>4. req'[r] = d
      BY <1>1, <1>6, <2>2
    <2>5. QED
      BY <1>4, <2>3, <2>4, CallStays
  <1>7. \A r \in Calls : ~GS!Waits(r, t, b) => req'[r] = req[r]
    BY <1>1
  <1>8. req' \in [Calls -> CallRecords \union {None}]
    <2>1. \A r \in Calls : req'[r] \in CallRecords \union {None}
      BY <1>6, <1>7 DEF SessionInv, CallsInv
    <2>2. QED
      BY <1>1, <2>1
  <1>9. CallsInv' /\ WritesInv'
    BY <1>2, <1>4, <1>6, <1>7, <1>8, CallsStep
  <1>10. QED
    BY <1>3, <1>4, <1>5, <1>9 DEF SessionInv

\* A reset aborts the scope, and with it the fetches that are under way.
LEMMA ResetGuestStep ==
  ASSUME SessionInv, NEW t \in Windows, GS!ResetGuest(t)
  PROVE  SessionInv'
  <1> DEFINE Fetching(r) == GS!In(r, "sent") /\ req[r].tab = t
             p == IF session[t] = GS!Resolved
                    THEN [phase |-> "sent", boot |-> 0, guest |-> cookie]
                    ELSE [phase |-> "boot", boot |-> GS!Awaited(t, FALSE), guest |-> None]
  <1>1. /\ aborted' = [aborted EXCEPT ![t] = TRUE]
        /\ req' = [r \in Calls |->
                     IF Fetching(r) THEN GS!Done(req[r], "aborted") ELSE req[r]]
        /\ reset' = [reset EXCEPT ![t] = p]
        /\ GS!Bootstrap(t, FALSE)
    BY DEF GS!ResetGuest
  <1>2. UNCHANGED <<cookie, live, born, origin, ended, scope, writes>>
    BY DEF GS!ResetGuest, GS!server
  <1>3. GuestsInv'
    BY <1>2 DEF SessionInv, GuestsInv
  <1>4. BootsInv'
    BY <1>1, <1>2, BootstrapStep
  <1>5. scope \in [Windows -> Nat] /\ aborted \in [Windows -> BOOLEAN]
    BY DEF SessionInv, ScopesInv
  <1>6. aborted' \in [Windows -> BOOLEAN] /\ aborted'[t]
        /\ \A u \in Windows : aborted[u] => aborted'[u]
    BY <1>1, <1>5
  <1>7. ScopesInv'
    <2>1. \A g \in Ids : origin[g] # None => origin[g].tab \in Windows
      BY DEF SessionInv, GuestsInv, Resets
    <2>2. QED
      BY <1>2, <1>6, <2>1 DEF SessionInv, ScopesInv
  <1>8. Later(born, origin, ended, scope, aborted, born', origin', ended', scope', aborted')
    BY <1>2, <1>5, <1>6 DEF Later
  <1>9. ResetsInv'
    <2>1. p \in ResetRecords /\ p.guest \in born \union {None} /\ p.phase # "answered"
      <3>1. CASE session[t] = GS!Resolved
        BY <3>1 DEF SessionInv, GuestsInv, ResetRecords
      <3>2. CASE session[t] # GS!Resolved
        <4>1. GS!Awaited(t, FALSE) \in Nat
          BY <3>2, AwaitedIsNat DEF SessionInv
        <4>2. QED
          BY <3>2, <4>1 DEF ResetRecords
      <3>3. QED
        BY <3>1, <3>2
    <2>2. reset \in [Windows -> ResetRecords \union {None}]
      BY DEF SessionInv, ResetsInv
    <2> HIDE DEF p
    <2>3. /\ reset' \in [Windows -> ResetRecords \union {None}] /\ reset'[t] = p
          /\ \A u \in Windows : u # t => reset'[u] = reset[u]
      BY <1>1, <2>1, <2>2
    <2>4. QED
      BY <1>2, <1>6, <2>1, <2>3 DEF SessionInv, ResetsInv
  <1>10. ASSUME NEW r \in Calls, Fetching(r)
         PROVE  /\ CallOK(req'[r], born', origin', ended', scope', aborted')
                /\ req'[r].tab = req[r].tab /\ req'[r] \in CallRecords
    <2>1. CallOK(req[r], born, origin, ended, scope, aborted)
      BY <1>10, CallOf DEF GS!In
    <2>2. PICK d : d = GS!Done(req[r], "aborted")
      OBVIOUS
    <2>3. /\ CallOK(d, born, origin, ended, scope, aborted)
          /\ d.tab = req[r].tab /\ d \in CallRecords
      BY <2>1, <2>2, DoneOK
    <2>4. req'[r] = d
      BY <1>1, <1>10, <2>2
    <2>5. QED
      BY <1>8, <2>3, <2>4, CallStays
  <1>11. \A r \in Calls : ~Fetching(r) => req'[r] = req[r]
    BY <1>1
  <1>12. req' \in [Calls -> CallRecords \union {None}]
    <2>1. \A r \in Calls : req'[r] \in CallRecords \union {None}
      BY <1>10, <1>11 DEF SessionInv, CallsInv
    <2>2. QED
      BY <1>1, <2>1
  <1>13. CallsInv' /\ WritesInv'
    BY <1>2, <1>8, <1>10, <1>11, <1>12, CallsStep
  <1>14. QED
    BY <1>3, <1>4, <1>7, <1>9, <1>13 DEF SessionInv

LEMMA RequestsLeftAlone ==
  ASSUME SessionInv, UNCHANGED <<req, writes>>,
         Later(born, origin, ended, scope, aborted, born', origin', ended', scope', aborted')
  PROVE  CallsInv' /\ WritesInv'
  <1>1. req' \in [Calls -> CallRecords \union {None}] /\ \A r \in Calls : req'[r] = req[r]
    BY DEF SessionInv, CallsInv
  <1>2. QED
    BY <1>1, CallsStep
\* The guest a reset issues belongs to the scope being ended; the one it deletes to a
\* scope that is aborted.
LEMMA HandleResetStep ==
  ASSUME SessionInv, NEW t \in Windows, GS!HandleReset(t)
  PROVE  SessionInv'
  <1> DEFINE old == reset[t].guest
             now == [tab |-> t, scope |-> scope[t]]
  <1>1. /\ reset[t] # None /\ reset[t] \in ResetRecords /\ aborted[t] /\ scope[t] \in Nat
        /\ old \in born \union {None}
    BY DEF GS!HandleReset, GS!Resetting, SessionInv, ResetsInv, ScopesInv
  <1>2. UNCHANGED <<cookie, boots, session, scope, aborted, writes, req>>
    BY DEF GS!HandleReset
  <1>3. CASE old \in live
    <2>1. PICK g \in Ids :
            /\ GS!New(g)
            /\ live' = (live \ {old}) \union {g} /\ born' = born \union {g}
            /\ origin' = [origin EXCEPT ![g] = now] /\ ended' = [ended EXCEPT ![old] = now]
            /\ reset' = [reset EXCEPT ![t].phase = "answered", ![t].guest = g]
      BY <1>3 DEF GS!HandleReset, Ids
    <2>2. g \notin born /\ \E n \in Nat : born \union {g} = 1..n
      BY <2>1, NewGuest DEF SessionInv
    <2>3. old \in Ids /\ old \in born /\ old # g /\ now \in Resets /\ now.tab = t
          /\ now.scope = scope[t]
      BY <1>1, <1>3, <2>2 DEF SessionInv, GuestsInv, Resets
    <2> HIDE DEF now
    <2>4. /\ origin \in [Ids -> Resets \union {None}] /\ ended \in [Ids -> Resets \union {None}]
          /\ born \subseteq Ids /\ live \subseteq born
      BY DEF SessionInv, GuestsInv
    <2>5. \A h \in Ids : /\ origin'[h] = IF h = g THEN now ELSE origin[h]
                         /\ ended'[h] = IF h = old THEN now ELSE ended[h]
      BY <2>1, <2>4
    <2> HIDE DEF old
    <2>6. GuestsInv'
      <3>1. /\ origin' \in [Ids -> Resets \union {None}]
            /\ ended' \in [Ids -> Resets \union {None}]
        BY <2>1, <2>3, <2>4
      <3>2. /\ born' \subseteq Ids /\ live' \subseteq born' /\ cookie' \in born' \union {None}
            /\ \E n \in Nat : born' = 1..n
        BY <1>2, <2>1, <2>2, <2>4 DEF SessionInv, GuestsInv
      <3>3. \A h \in Ids : (origin'[h] # None \/ ended'[h] # None) => h \in born'
        BY <2>1, <2>3, <2>5 DEF SessionInv, GuestsInv
      <3>4. \A h \in Ids : ended'[h] # None => h \notin live'
        BY <2>1, <2>2, <2>3, <2>5 DEF SessionInv, GuestsInv
      <3>5. QED
        BY <3>1, <3>2, <3>3, <3>4 DEF GuestsInv
    <2>7. ScopesInv'
      <3>1. \A h \in Ids : origin'[h] # None =>
              \/ origin'[h].scope < scope[origin'[h].tab]
              \/ origin'[h].scope = scope[origin'[h].tab] /\ aborted[origin'[h].tab]
        BY <1>1, <2>3, <2>5 DEF SessionInv, ScopesInv
      <3>2. QED
        BY <1>2, <3>1 DEF SessionInv, ScopesInv
    <2>8. BootsInv'
      BY <1>2, <2>1 DEF SessionInv, BootsInv
    <2>9. ResetsInv'
      <3> DEFINE p == [[reset[t] EXCEPT !.phase = "answered"] EXCEPT !.guest = g]
      <3>1. p \in ResetRecords /\ p.guest = g
        BY <1>1, <2>1 DEF ResetRecords
      <3>2. reset \in [Windows -> ResetRecords \union {None}] /\ reset' = [reset EXCEPT ![t] = p]
        BY <2>1 DEF SessionInv, ResetsInv
      <3> HIDE DEF p
      <3>3. QED
        BY <1>1, <1>2, <2>1, <3>1, <3>2 DEF SessionInv, ResetsInv
    <2>10. Later(born, origin, ended, scope, aborted, born', origin', ended', scope', aborted')
      <3>1. born \subseteq born' /\ \A u \in Windows : scope[u] \in Nat
        BY <2>1 DEF SessionInv, ScopesInv
      <3>2. \A h \in born : /\ origin'[h] = origin[h]
                            /\ ended'[h] = ended[h] \/ aborted[ended'[h].tab]
        BY <1>1, <2>2, <2>3, <2>4, <2>5
      <3>3. QED
        BY <1>2, <3>1, <3>2 DEF Later
    <2>11. QED
      BY <1>2, <2>6, <2>7, <2>8, <2>9, <2>10, RequestsLeftAlone DEF SessionInv
  <1>4. CASE old \notin live
    <2> DEFINE p == [reset[t] EXCEPT !.phase = "refused"]
    <2>1. p \in ResetRecords /\ p.guest = old /\ p.phase = "refused"
      BY <1>1 DEF ResetRecords
    <2>2. /\ reset \in [Windows -> ResetRecords \union {None}] /\ reset' = [reset EXCEPT ![t] = p]
          /\ UNCHANGED <<live, born, origin, ended>>
      BY <1>4 DEF GS!HandleReset, GS!server, SessionInv, ResetsInv
    <2> HIDE DEF p, old
    <2>3. ResetsInv'
      BY <1>1, <1>2, <2>1, <2>2 DEF SessionInv, ResetsInv
    <2>4. GuestsInv' /\ ScopesInv' /\ BootsInv'
      BY <1>2, <2>2 DEF SessionInv, GuestsInv, ScopesInv, BootsInv
    <2>5. Later(born, origin, ended, scope, aborted, born', origin', ended', scope', aborted')
      BY <1>2, <2>2, SameWorld DEF SessionInv
    <2>6. QED
      BY <1>2, <2>3, <2>4, <2>5, RequestsLeftAlone DEF SessionInv
  <1>5. QED
    BY <1>3, <1>4

LEMMA EndResetStep ==
  ASSUME SessionInv, NEW t \in Windows, GS!EndReset(t)
  PROVE  SessionInv'
  <1>1. /\ cookie' \in born /\ session' = [session EXCEPT ![t] = GS!Resolved] /\ GS!Settled(t)
    BY DEF GS!EndReset, GS!Resetting, SessionInv, ResetsInv
  <1>2. UNCHANGED <<live, born, origin, ended, boots, writes, req>>
    BY DEF GS!EndReset, GS!server
  <1>3. GuestsInv'
    BY <1>1, <1>2 DEF SessionInv, GuestsInv
  <1>4. BootsInv'
    BY <1>1, <1>2, SessionFacts DEF SessionInv, BootsInv
  <1>5. QED
    BY <1>1, <1>2, <1>3, <1>4, SettledStep, RequestsLeftAlone DEF SessionInv

LEMMA FailResetStep ==
  ASSUME SessionInv, NEW t \in Windows, GS!FailReset(t)
  PROVE  SessionInv'
  <1>1. session' = [session EXCEPT ![t] = GS!Unset] /\ GS!Settled(t)
    BY DEF GS!FailReset
  <1>2. UNCHANGED <<cookie, live, born, origin, ended, boots, writes, req>>
    BY DEF GS!FailReset, GS!server
  <1>3. GuestsInv'
    BY <1>2 DEF SessionInv, GuestsInv
  <1>4. BootsInv'
    BY <1>1, <1>2, SessionFacts DEF SessionInv, BootsInv
  <1>5. QED
    BY <1>1, <1>2, <1>3, <1>4, SettledStep, RequestsLeftAlone DEF SessionInv

LEMMA ExpireStep ==
  ASSUME SessionInv, NEW g \in Ids, GS!Expire(g)
  PROVE  SessionInv'
  <1>1. live' = live \ {g}
    BY DEF GS!Expire
  <1>2. UNCHANGED <<cookie, born, origin, ended, boots, session, scope, aborted, reset,
                    writes, req>>
    BY DEF GS!Expire, GS!tabVars
  <1>3. GuestsInv' /\ ScopesInv' /\ BootsInv' /\ ResetsInv'
    BY <1>1, <1>2 DEF SessionInv, GuestsInv, ScopesInv, BootsInv, ResetsInv
  <1>4. Later(born, origin, ended, scope, aborted, born', origin', ended', scope', aborted')
    BY <1>2, SameWorld DEF SessionInv
  <1>5. QED
    BY <1>2, <1>3, <1>4, RequestsLeftAlone DEF SessionInv

-----------------------------------------------------------------------------
LEMMA SessionInit == GS!Init => SessionInv
  <1> SUFFICES ASSUME GS!Init PROVE SessionInv
    OBVIOUS
  <1>1. /\ cookie = FirstCookie /\ live = {FirstCookie} \ {None} /\ born = live
        /\ boots = [t \in Windows |-> <<>>] /\ session = [t \in Windows |-> 0]
        /\ scope = [t \in Windows |-> 0] /\ aborted = [t \in Windows |-> FALSE]
        /\ reset = [t \in Windows |-> None] /\ writes = [t \in Windows |-> <<>>]
        /\ req = [r \in Calls |-> None]
        /\ origin = [g \in Ids |-> None] /\ ended = [g \in Ids |-> None]
    BY DEF GS!Init, GS!Unset, Ids
  <1>2. FirstCookie \in {1, None} /\ None \notin Nat /\ Ids = 1..MaxGuests /\ 1 \in Ids
    BY SessionFacts, BrowserAssumption DEF GS!SessionConstants
  <1>3. \E n \in Nat : born = 1..n
    <2>1. CASE FirstCookie = 1
      <3>1. born = 1..1
        BY <1>1, <1>2, <2>1
      <3>2. QED
        BY <3>1
    <2>2. CASE FirstCookie = None
      <3>1. born = 1..0
        BY <1>1, <2>2
      <3>2. QED
        BY <3>1
    <2>3. QED
      BY <1>2, <2>1, <2>2
  <1>4. GuestsInv
    BY <1>1, <1>2, <1>3 DEF GuestsInv
  <1>5. ScopesInv /\ ResetsInv
    BY <1>1 DEF ScopesInv, ResetsInv
  <1>6. BootsInv
    BY <1>1, SessionFacts DEF BootsInv
  <1>7. CallsInv /\ WritesInv
    BY <1>1 DEF CallsInv, WritesInv
  <1>8. QED
    BY <1>4, <1>5, <1>6, <1>7 DEF SessionInv

LEMMA SessionUnchanged == SessionInv /\ UNCHANGED GS!vars => SessionInv'
  <1> SUFFICES ASSUME SessionInv, UNCHANGED GS!vars PROVE SessionInv'
    OBVIOUS
  <1>1. UNCHANGED <<cookie, live, born, origin, ended, boots, session, scope, aborted, reset,
                    writes, req>>
    BY DEF GS!vars, GS!server, GS!tabVars
  <1>2. GuestsInv' /\ ScopesInv'
    BY <1>1 DEF SessionInv, GuestsInv, ScopesInv
  <1>3. BootsInv' /\ ResetsInv'
    BY <1>1 DEF SessionInv, BootsInv, ResetsInv
  <1>4. CallsInv' /\ WritesInv'
    BY <1>1 DEF SessionInv, CallsInv, WritesInv
  <1>5. QED
    BY <1>2, <1>3, <1>4 DEF SessionInv

LEMMA SessionStep ==
  ASSUME SessionInv, GS!Next
  PROVE  SessionInv'
  <1>1. ASSUME NEW t \in Windows, NEW r \in Calls, GS!ReadRequest(r, t) \/ GS!WriteRequest(r, t)
        PROVE  SessionInv'
    BY <1>1, ReadRequestStep, WriteRequestStep
  <1>2. ASSUME NEW t \in Windows, NEW b \in DOMAIN boots[t],
               GS!HandleBootstrap(t, b) \/ GS!EndBootstrap(t, b) \/ GS!FailBootstrap(t, b)
        PROVE  SessionInv'
    BY <1>2, HandleBootstrapStep, EndBootstrapStep, FailBootstrapStep
  <1>3. ASSUME NEW t \in Windows,
               \/ GS!Dequeue(t) \/ GS!Advance(t)
               \/ GS!ResetGuest(t) \/ GS!HandleReset(t) \/ GS!EndReset(t) \/ GS!FailReset(t)
        PROVE  SessionInv'
    BY <1>3, DequeueStep, AdvanceStep, ResetGuestStep, HandleResetStep, EndResetStep,
       FailResetStep
  <1>4. ASSUME NEW r \in Calls,
               GS!HandleRequest(r) \/ GS!Receive(r) \/ GS!GiveUp(r) \/ GS!Deliver(r)
        PROVE  SessionInv'
    BY <1>4, HandleRequestStep, ReceiveStep, GiveUpRequestStep, DeliverStep
  <1>5. ASSUME NEW g \in Ids, GS!Expire(g)
        PROVE  SessionInv'
    BY <1>5, ExpireStep
  <1>6. QED
    BY <1>1, <1>2, <1>3, <1>4, <1>5 DEF GS!Next, Ids

LEMMA SessionHolds == GS!Spec => []SessionInv
  <1>1. SessionInv /\ [GS!Next]_(GS!vars) => SessionInv'
    BY SessionStep, SessionUnchanged
  <1>2. QED
    BY <1>1, SessionInit, PTL DEF GS!Spec

(***************************************************************************)
(* Whoever waits for a bootstrap waits for one that is under way.          *)
(***************************************************************************)
Waiting == GS!AwaitedIsUnderWay

LEMMA BootsUnderWay ==
  ASSUME SessionInv, NEW t \in Windows
  PROVE  /\ boots \in [Windows -> Seq(BootRecords)] /\ boots[t] \in Seq(BootRecords)
         /\ DOMAIN boots[t] = 1..Len(boots[t]) /\ Len(boots[t]) \in Nat
         /\ GS!UnderWay(t) = {b \in 1..Len(boots[t]) : boots[t][b].state # "ended"}
         /\ GS!Unset \notin GS!UnderWay(t) /\ GS!Resolved \notin GS!UnderWay(t)
  <1>1. boots \in [Windows -> Seq(BootRecords)] /\ boots[t] \in Seq(BootRecords)
    BY DEF SessionInv, BootsInv
  <1>2. DOMAIN boots[t] = 1..Len(boots[t]) /\ Len(boots[t]) \in Nat
    BY <1>1
  <1>3. QED
    BY <1>1, <1>2, SessionFacts DEF GS!UnderWay

\* A step that ends no bootstrap and starts no waiting.
LEMMA WaitsAsBefore ==
  ASSUME Waiting, \A t \in Windows : GS!UnderWay(t) \subseteq GS!UnderWay(t)',
         \A t \in Windows :
           /\ session'[t] \in {session[t], GS!Unset, GS!Resolved} \union GS!UnderWay(t)'
           /\ \/ reset'[t] = reset[t] \/ ~GS!Resetting(t, "boot")'
              \/ reset'[t].boot \in GS!UnderWay(t)',
         \A r \in Calls :
           \/ req'[r] = req[r] \/ ~GS!In(r, "boot")'
           \/ (req[r].boot \in GS!UnderWay(req[r].tab))',
         \A r \in Calls : req[r] # None => req[r].tab \in Windows
  PROVE  Waiting'
  <1>1. ASSUME NEW t \in Windows
        PROVE  /\ session'[t] \in {GS!Unset, GS!Resolved} \union GS!UnderWay(t)'
               /\ GS!Resetting(t, "boot")' => reset'[t].boot \in GS!UnderWay(t)'
    BY DEF Waiting, GS!AwaitedIsUnderWay, GS!Resetting
  <1>2. ASSUME NEW r \in Calls, GS!In(r, "boot")'
        PROVE  (req[r].boot \in GS!UnderWay(req[r].tab))'
    <2>1. CASE req'[r] = req[r]
      <3>1. GS!In(r, "boot") /\ req[r].tab \in Windows
        BY <1>2, <2>1 DEF GS!In
      <3>2. req[r].boot \in GS!UnderWay(req[r].tab)
        BY <3>1 DEF Waiting, GS!AwaitedIsUnderWay
      <3>3. PICK t \in Windows : t = req[r].tab
        BY <3>1
      <3>4. req[r].boot \in GS!UnderWay(t)'
        BY <3>2, <3>3
      <3>5. QED
        BY <2>1, <3>3, <3>4 DEF GS!UnderWay
    <2>2. QED
      BY <1>2, <2>1
  <1>3. QED
    BY <1>1, <1>2 DEF Waiting, GS!AwaitedIsUnderWay

LEMMA NotWaiting ==
  ASSUME NEW q \in CallRecords, NEW g, NEW result
  PROVE  GS!Done(q, result).phase # "boot" /\ GS!Sent(q, g).phase # "boot"
  BY CallTypes DEF GS!Done, GS!Sent

LEMMA BootstrapWaits ==
  ASSUME SessionInv, Waiting, NEW t \in Windows, NEW force \in BOOLEAN, GS!Bootstrap(t, force)
  PROVE  /\ \A u \in Windows : /\ GS!UnderWay(u) \subseteq GS!UnderWay(u)'
                               /\ session'[u] \in {session[u]} \union GS!UnderWay(u)'
         /\ force \/ session[t] # GS!Resolved => GS!Awaited(t, force) \in GS!UnderWay(t)'
  <1>1. CASE ~force /\ session[t] # GS!Unset
    <2>1. UNCHANGED <<boots, session>> /\ GS!Awaited(t, force) = session[t]
      BY <1>1 DEF GS!Bootstrap, GS!Awaited
    <2>2. \A u \in Windows : GS!UnderWay(u)' = GS!UnderWay(u)
      BY <2>1 DEF GS!UnderWay
    <2>3. QED
      BY <1>1, <2>1, <2>2 DEF Waiting, GS!AwaitedIsUnderWay
  <1>2. CASE force \/ session[t] = GS!Unset
    <2> DEFINE b == [state |-> "sent", guest |-> cookie]
               n == Len(boots[t]) + 1
    <2>1. b \in BootRecords /\ b.state # "ended"
      BY DEF SessionInv, GuestsInv, BootRecords
    <2>2. /\ boots' = [boots EXCEPT ![t] = Append(boots[t], b)] /\ GS!Awaited(t, force) = n
          /\ session' = [session EXCEPT ![t] = n] /\ session \in [Windows -> Nat \union {-1}]
      BY <1>2 DEF GS!Bootstrap, GS!Awaited, SessionInv, BootsInv
    <2> HIDE DEF b
    <2>3. /\ boots[t] \in Seq(BootRecords) /\ Len(boots[t]) \in Nat
          /\ boots'[t] = Append(boots[t], b)
          /\ \A u \in Windows : u # t => boots'[u] = boots[u]
      BY <2>2, BootsUnderWay
    <2>4. /\ DOMAIN boots'[t] = 1..n
          /\ \A k \in 1..n : boots'[t][k] = IF k = n THEN b ELSE boots[t][k]
      BY <2>1, <2>3
    <2>5. GS!UnderWay(t) \subseteq GS!UnderWay(t)' /\ n \in GS!UnderWay(t)'
      BY <2>1, <2>3, <2>4 DEF GS!UnderWay
    <2>6. \A u \in Windows : u # t => GS!UnderWay(u)' = GS!UnderWay(u) /\ session'[u] = session[u]
      BY <2>2, <2>3 DEF GS!UnderWay
    <2>7. QED
      BY <2>2, <2>5, <2>6
  <1>3. QED
    BY <1>1, <1>2

\* One request is begun, and nothing ends.
LEMMA BeginWaits ==
  ASSUME SessionInv, Waiting, NEW t \in Windows, NEW r \in Calls, NEW q \in CallRecords,
         q.tab = t, GS!Begin(r, t, q), UNCHANGED reset
  PROVE  Waiting'
  <1> DEFINE n == GS!Started(q, t)
  <1>1. req' = [req EXCEPT ![r] = n]
    BY DEF GS!Begin
  <1>2. \A u \in Windows : /\ GS!UnderWay(u) \subseteq GS!UnderWay(u)'
                           /\ session'[u] \in {session[u]} \union GS!UnderWay(u)'
    <2>1. CASE reset[t] # None
      <3>1. UNCHANGED <<boots, session>>
        BY <2>1 DEF GS!Begin
      <3>2. QED
        BY <3>1 DEF GS!UnderWay
    <2>2. CASE reset[t] = None
      BY <2>2, BootstrapWaits DEF GS!Begin
    <2>3. QED
      BY <2>1, <2>2
  <1>3. n.phase # "boot" \/ (n.tab = t /\ n.boot \in GS!UnderWay(t)')
    <2> DEFINE now == [q EXCEPT !.scope = scope[t]]
    <2>0. now \in CallRecords /\ now.tab = t
      BY CallTypes DEF SessionInv, ScopesInv
    <2>1. CASE reset[t] # None
      <3>1. n = GS!Done(now, "failed")
        BY <2>1 DEF GS!Started
      <3> HIDE DEF now, n
      <3>2. QED
        BY <2>0, <3>1, NotWaiting
    <2>2. CASE reset[t] = None /\ session[t] = GS!Resolved
      <3>1. n = GS!Sent(now, cookie)
        BY <2>2 DEF GS!Started
      <3> HIDE DEF now, n
      <3>2. QED
        BY <2>0, <3>1, NotWaiting
    <2>3. CASE reset[t] = None /\ session[t] # GS!Resolved
      <3>1. n = [[now EXCEPT !.phase = "boot"] EXCEPT !.boot = GS!Awaited(t, FALSE)]
        BY <2>3 DEF GS!Started
      <3>2. GS!Awaited(t, FALSE) \in GS!UnderWay(t)'
        BY <2>3, BootstrapWaits DEF GS!Begin
      <3>3. GS!Awaited(t, FALSE) \in Nat
        BY <2>3, AwaitedIsNat DEF SessionInv
      <3>4. n.tab = t /\ n.boot = GS!Awaited(t, FALSE)
        <4> HIDE DEF now
        <4>1. QED
          BY <2>0, <3>1, <3>3, CallTypes
      <3>5. QED
        BY <3>2, <3>4
    <2>4. QED
      BY <2>1, <2>2, <2>3
  <1> HIDE DEF n
  <1>4. \A x \in Calls : req'[x] = IF x = r THEN n ELSE req[x]
    BY <1>1 DEF SessionInv, CallsInv
  <1>5. \A x \in Calls :
          req'[x] = req[x] \/ ~GS!In(x, "boot")' \/ (req[x].boot \in GS!UnderWay(req[x].tab))'
    <2>1. ASSUME n.tab = t, n.boot \in GS!UnderWay(t)', req'[r] = n
          PROVE  (req[r].boot \in GS!UnderWay(req[r].tab))'
      BY <2>1 DEF GS!UnderWay
    <2>2. QED
      BY <1>3, <1>4, <2>1 DEF GS!In
  <1>6. QED
    BY <1>2, <1>5, CallOf, WaitsAsBefore

\* Requests, answers and resets that go on without a new bootstrap.
LEMMA BootsStandStill ==
  ASSUME SessionInv, Waiting, UNCHANGED boots,
         \A t \in Windows :
           /\ session'[t] \in {session[t], GS!Unset, GS!Resolved}
           /\ reset'[t] = reset[t] \/ ~GS!Resetting(t, "boot")',
         \A r \in Calls : req'[r] = req[r] \/ ~GS!In(r, "boot")'
  PROVE  Waiting'
  <1>1. \A t \in Windows : GS!UnderWay(t)' = GS!UnderWay(t)
    BY DEF GS!UnderWay
  <1>2. QED
    BY <1>1, CallOf, WaitsAsBefore

\* One request is settled, answered or queued.
LEMMA OneGoesOn ==
  ASSUME SessionInv, Waiting, UNCHANGED <<boots, session, reset>>, NEW r \in Calls, NEW q,
         req' = [req EXCEPT ![r] = q], q.phase # "boot"
  PROVE  Waiting'
  <1>1. \A x \in Calls : req'[x] = IF x = r THEN q ELSE req[x]
    BY DEF SessionInv, CallsInv
  <1>2. QED
    BY <1>1, BootsStandStill DEF GS!In

LEMMA RequestWaits ==
  ASSUME SessionInv, Waiting, NEW t \in Windows, NEW r \in Calls,
         GS!ReadRequest(r, t) \/ GS!WriteRequest(r, t)
  PROVE  Waiting'
  <1>1. GS!NewRequest(t) \in CallRecords /\ GS!NewRequest(t).tab = t
        /\ GS!NewRequest(t).phase = "queued"
    BY NewRequestOK DEF GS!NewRequest
  <1>2. CASE GS!ReadRequest(r, t)
    BY <1>1, <1>2, BeginWaits DEF GS!ReadRequest
  <1>3. CASE GS!WriteRequest(r, t)
    BY <1>1, <1>3, OneGoesOn DEF GS!WriteRequest
  <1>4. QED
    BY <1>2, <1>3

LEMMA QueueWaits ==
  ASSUME SessionInv, Waiting, NEW t \in Windows, GS!Dequeue(t) \/ GS!Advance(t)
  PROVE  Waiting'
  <1>1. CASE GS!Dequeue(t)
    <2>1. PICK r \in Calls : r = Head(writes[t]) /\ req[r] # None /\ req[r].tab = t
      BY <1>1, WriteOf DEF GS!Dequeue
    <2>2. req[r] \in CallRecords
      BY <2>1, CallOf
    <2>3. CASE req[r].made # scope[t] \/ aborted[t]
      <3>1. /\ req' = [req EXCEPT ![r] = GS!Done(req[r], "aborted")]
            /\ UNCHANGED <<boots, session, reset>>
        BY <1>1, <2>1, <2>3 DEF GS!Dequeue, SessionInv, CallsInv
      <3>2. QED
        BY <2>2, <3>1, NotWaiting, OneGoesOn
    <2>4. CASE ~(req[r].made # scope[t] \/ aborted[t])
      BY <1>1, <2>1, <2>2, <2>4, BeginWaits DEF GS!Dequeue
    <2>5. QED
      BY <2>3, <2>4
  <1>2. CASE GS!Advance(t)
    BY <1>2, BootsStandStill DEF GS!Advance
  <1>3. QED
    BY <1>1, <1>2

LEMMA AnswerWaits ==
  ASSUME SessionInv, Waiting, NEW r \in Calls,
         GS!HandleRequest(r) \/ GS!Receive(r) \/ GS!GiveUp(r) \/ GS!Deliver(r)
  PROVE  Waiting'
  <1> DEFINE t == req[r].tab
  <1>1. /\ req \in [Calls -> CallRecords \union {None}] /\ req[r] # None
        /\ req[r] \in CallRecords /\ t \in Windows
    BY CallOf DEF GS!HandleRequest, GS!Receive, GS!GiveUp, GS!Deliver, GS!In, SessionInv, CallsInv
  <1>2. CASE GS!HandleRequest(r)
    <2>1. PICK s : req' = [req EXCEPT ![r].status = s]
      BY <1>2 DEF GS!HandleRequest
    <2>2. /\ req' = [req EXCEPT ![r] = [req[r] EXCEPT !.status = s]]
          /\ [req[r] EXCEPT !.status = s].phase = "sent"
      BY <1>1, <1>2, <2>1, CallTypes DEF GS!HandleRequest, GS!In
    <2>3. QED
      BY <1>2, <2>2, OneGoesOn DEF GS!HandleRequest
  <1>3. CASE GS!GiveUp(r) \/ GS!Deliver(r)
    <2>1. PICK result : /\ req' = [req EXCEPT ![r] = GS!Done(req[r], result)]
                        /\ UNCHANGED <<boots, session, reset>>
      BY <1>1, <1>3 DEF GS!GiveUp, GS!Deliver
    <2>2. QED
      BY <1>1, <2>1, NotWaiting, OneGoesOn
  <1>4. CASE GS!Receive(r) /\ req[r].status = "unauthorized" /\ req[r].tries = 1
    <2> DEFINE k == GS!Awaited(t, TRUE)
               q == [[req[r] EXCEPT !.phase = "boot"] EXCEPT !.boot = k]
    <2>1. GS!Bootstrap(t, TRUE) /\ UNCHANGED reset /\ k \in Nat
      BY <1>1, <1>4, AwaitedIsNat DEF GS!Receive, SessionInv
    <2>2. req' = [req EXCEPT ![r] = q]
      <3>1. req' = [req EXCEPT ![r].phase = "boot", ![r].boot = k]
        BY <1>4 DEF GS!Receive
      <3>2. QED
        BY <1>1, <3>1
    <2>3. q.tab = t /\ q.boot = k
      <3> HIDE DEF k
      <3>1. QED
        BY <1>1, <2>1, CallTypes
    <2>4. PICK u \in Windows : u = t
      BY <1>1
    <2> HIDE DEF t
    <2>5. k \in GS!UnderWay(u)'
      BY <2>1, <2>4, BootstrapWaits
    <2> HIDE DEF q, k
    <2>6. req'[r].tab = u /\ req'[r].boot = k /\ k \in GS!UnderWay(u)'
      BY <1>1, <2>2, <2>3, <2>4, <2>5
    <2>7. (req[r].boot \in GS!UnderWay(req[r].tab))'
      BY <2>6 DEF GS!UnderWay
    <2>8. \A x \in Calls : x # r => req'[x] = req[x]
      BY <1>1, <2>2
    <2>9. /\ \A x \in Windows : /\ GS!UnderWay(x) \subseteq GS!UnderWay(x)'
                                /\ session'[x] \in {session[x]} \union GS!UnderWay(x)'
          /\ UNCHANGED reset
      BY <2>1, <2>4, BootstrapWaits
    <2>10. QED
      BY <2>7, <2>8, <2>9, CallOf, WaitsAsBefore
  <1>5. CASE GS!Receive(r) /\ ~(req[r].status = "unauthorized" /\ req[r].tries = 1)
    <2>1. /\ req' = [req EXCEPT ![r] = [req[r] EXCEPT !.phase = "body"]]
          /\ UNCHANGED <<boots, session, reset>>
      BY <1>5 DEF GS!Receive
    <2>2. [req[r] EXCEPT !.phase = "body"].phase = "body"
      BY <1>1, CallTypes
    <2>3. QED
      BY <2>1, <2>2, OneGoesOn
  <1>6. QED
    BY <1>2, <1>3, <1>4, <1>5

LEMMA ResetWaits ==
  ASSUME SessionInv, Waiting, NEW t \in Windows,
         GS!ResetGuest(t) \/ GS!HandleReset(t) \/ GS!EndReset(t) \/ GS!FailReset(t)
  PROVE  Waiting'
  <1>1. reset \in [Windows -> ResetRecords \union {None}] /\ session \in [Windows -> Nat \union {-1}]
    BY DEF SessionInv, ResetsInv, BootsInv
  <1>2. CASE GS!ResetGuest(t)
    <2> DEFINE p == IF session[t] = GS!Resolved
                      THEN [phase |-> "sent", boot |-> 0, guest |-> cookie]
                      ELSE [phase |-> "boot", boot |-> GS!Awaited(t, FALSE), guest |-> None]
    <2>1. GS!Bootstrap(t, FALSE) /\ reset' = [reset EXCEPT ![t] = p]
      BY <1>2 DEF GS!ResetGuest
    <2>2. p.phase # "boot" \/ p.boot \in GS!UnderWay(t)'
      BY <2>1, BootstrapWaits
    <2> HIDE DEF p
    <2>3. \A u \in Windows : reset'[u] = IF u = t THEN p ELSE reset[u]
      BY <1>1, <2>1
    <2>4. \A u \in Windows : \/ reset'[u] = reset[u] \/ ~GS!Resetting(u, "boot")'
                             \/ reset'[u].boot \in GS!UnderWay(u)'
      BY <2>2, <2>3 DEF GS!Resetting
    <2>5. \A r \in Calls : req'[r] = req[r] \/ ~GS!In(r, "boot")'
      <3>1. ASSUME NEW r \in Calls, GS!In(r, "sent") /\ req[r].tab = t
            PROVE  ~GS!In(r, "boot")'
        <4>1. req'[r] = GS!Done(req[r], "aborted") /\ req[r] \in CallRecords
          BY <1>2, <3>1, CallOf DEF GS!ResetGuest, GS!In
        <4>2. QED
          BY <4>1, NotWaiting DEF GS!In
      <3>2. QED
        BY <1>2, <3>1 DEF GS!ResetGuest
    <2>6. QED
      BY <2>1, <2>4, <2>5, CallOf, BootstrapWaits, WaitsAsBefore
  <1>3. CASE GS!HandleReset(t)
    <2>1. reset[t] # None /\ UNCHANGED <<boots, session, req>>
      BY <1>3 DEF GS!HandleReset, GS!Resetting
    <2>2. \E p : reset' = [reset EXCEPT ![t] = p] /\ p.phase # "boot"
      <3>1. CASE reset[t].guest \in live
        <4>1. PICK g : reset' = [reset EXCEPT ![t].phase = "answered", ![t].guest = g]
          BY <1>3, <3>1 DEF GS!HandleReset
        <4> DEFINE p == [[reset[t] EXCEPT !.phase = "answered"] EXCEPT !.guest = g]
        <4>2. reset' = [reset EXCEPT ![t] = p] /\ p.phase = "answered"
          BY <1>1, <2>1, <4>1 DEF ResetRecords
        <4>3. QED
          BY <4>2
      <3>2. CASE reset[t].guest \notin live
        <4> DEFINE p == [reset[t] EXCEPT !.phase = "refused"]
        <4>1. reset' = [reset EXCEPT ![t] = p] /\ p.phase = "refused"
          BY <1>1, <1>3, <2>1, <3>2 DEF GS!HandleReset, ResetRecords
        <4>2. QED
          BY <4>1
      <3>3. QED
        BY <3>1, <3>2
    <2>3. \A u \in Windows : reset'[u] = reset[u] \/ ~GS!Resetting(u, "boot")'
      BY <1>1, <2>2 DEF GS!Resetting
    <2>4. QED
      BY <2>1, <2>3, BootsStandStill
  <1>4. CASE GS!EndReset(t) \/ GS!FailReset(t)
    <2>1. /\ reset' = [reset EXCEPT ![t] = None] /\ UNCHANGED <<boots, req>>
          /\ \/ session' = [session EXCEPT ![t] = GS!Resolved]
             \/ session' = [session EXCEPT ![t] = GS!Unset]
      BY <1>4 DEF GS!EndReset, GS!FailReset, GS!Settled
    <2>2. \A u \in Windows : /\ reset'[u] = reset[u] \/ ~GS!Resetting(u, "boot")'
                             /\ session'[u] \in {session[u], GS!Unset, GS!Resolved}
      BY <1>1, <2>1 DEF GS!Resetting
    <2>3. QED
      BY <2>1, <2>2, BootsStandStill
  <1>5. QED
    BY <1>2, <1>3, <1>4

LEMMA HandleBootstrapWaits ==
  ASSUME SessionInv, Waiting, NEW t \in Windows, NEW b \in DOMAIN boots[t],
         GS!HandleBootstrap(t, b)
  PROVE  Waiting'
  <1>1. PICK q \in BootRecords : q.state = "answered" /\ boots' = [boots EXCEPT ![t][b] = q]
    BY DEF GS!HandleBootstrap, BootRecords, Ids
  <1>2. \A u \in Windows : GS!UnderWay(u) \subseteq GS!UnderWay(u)'
    BY <1>1, BootsUnderWay DEF GS!UnderWay
  <1>3. QED
    BY <1>2, CallOf, WaitsAsBefore DEF GS!HandleBootstrap

\* The end of a bootstrap takes everyone along who waits for it.
LEMMA EndWaits ==
  ASSUME SessionInv, Waiting, NEW t \in Windows, NEW b \in DOMAIN boots[t],
         GS!EndBootstrap(t, b) \/ GS!FailBootstrap(t, b)
  PROVE  Waiting'
  <1>1. /\ reset \in [Windows -> ResetRecords \union {None}]
        /\ session \in [Windows -> Nat \union {-1}] /\ b \in Nat
    BY BootOf DEF SessionInv, ResetsInv, BootsInv
  <1>2. /\ boots' = [boots EXCEPT ![t][b].state = "ended"]
        /\ \A u \in Windows : \/ session'[u] \in {GS!Unset, GS!Resolved}
                              \/ session'[u] = session[u] /\ (u = t => session[u] # b)
    BY <1>1 DEF GS!EndBootstrap, GS!FailBootstrap, GS!Forgotten
  <1>3. \A r \in Calls : \/ ~GS!In(r, "boot")'
                         \/ req'[r] = req[r] /\ ~GS!Waits(r, t, b)
    <2>1. ASSUME NEW r \in Calls, GS!Waits(r, t, b)
          PROVE  ~GS!In(r, "boot")'
      <3>1. req[r] \in CallRecords
        BY <2>1, CallOf DEF GS!Waits
      <3>2. \/ req'[r] = GS!Sent(req[r], cookie')
            \/ req'[r] = GS!Done(req[r], "failed")
        BY <2>1 DEF GS!EndBootstrap, GS!FailBootstrap
      <3>3. req'[r].phase # "boot"
        BY <3>1, <3>2, NotWaiting
      <3>4. QED
        BY <3>3 DEF GS!In
    <2>2. ASSUME NEW r \in Calls, ~GS!Waits(r, t, b)
          PROVE  req'[r] = req[r]
      BY <2>2 DEF GS!EndBootstrap, GS!FailBootstrap
    <2>3. QED
      BY <2>1, <2>2
  <1>4. \A u \in Windows : \/ ~GS!Resetting(u, "boot")'
                           \/ reset'[u] = reset[u] /\ (u = t => reset[u].boot # b)
    <2>1. CASE reset[t] # None /\ reset[t].phase = "boot" /\ reset[t].boot = b
      <3>1. CASE GS!EndBootstrap(t, b)
        <4> DEFINE p == [[reset[t] EXCEPT !.phase = "sent"] EXCEPT !.guest = cookie']
        <4>1. reset' = [reset EXCEPT ![t] = p] /\ p.phase = "sent"
          BY <1>1, <2>1, <3>1 DEF GS!EndBootstrap, ResetRecords
        <4> HIDE DEF p
        <4>2. QED
          BY <1>1, <4>1 DEF GS!Resetting
      <3>2. CASE GS!FailBootstrap(t, b)
        BY <1>1, <2>1, <3>2 DEF GS!FailBootstrap, GS!Settled, GS!Resetting
      <3>3. QED
        BY <3>1, <3>2
    <2>2. CASE ~(reset[t] # None /\ reset[t].phase = "boot" /\ reset[t].boot = b)
      <3>1. UNCHANGED reset
        BY <2>2 DEF GS!EndBootstrap, GS!FailBootstrap
      <3>2. QED
        BY <2>2, <3>1 DEF GS!Resetting
    <2>3. QED
      BY <2>1, <2>2
  <1>5. \A u \in Windows : \A k \in GS!UnderWay(u) : u # t \/ k # b => k \in GS!UnderWay(u)'
    BY <1>2, BootsUnderWay DEF GS!UnderWay
  <1>6. ASSUME NEW u \in Windows
        PROVE  /\ session'[u] \in {GS!Unset, GS!Resolved} \union GS!UnderWay(u)'
               /\ GS!Resetting(u, "boot")' => reset'[u].boot \in GS!UnderWay(u)'
    BY <1>2, <1>4, <1>5 DEF Waiting, GS!AwaitedIsUnderWay, GS!Resetting
  <1>7. ASSUME NEW r \in Calls, GS!In(r, "boot")'
        PROVE  (req[r].boot \in GS!UnderWay(req[r].tab))'
    <2>1. req'[r] = req[r] /\ ~GS!Waits(r, t, b) /\ GS!In(r, "boot")
      BY <1>3, <1>7 DEF GS!In
    <2>2. PICK u \in Windows : u = req[r].tab
      BY <2>1, CallOf DEF GS!In
    <2>3. req[r].boot \in GS!UnderWay(u) /\ (u # t \/ req[r].boot # b)
      BY <2>1, <2>2 DEF Waiting, GS!AwaitedIsUnderWay, GS!Waits, GS!In
    <2>4. req[r].boot \in GS!UnderWay(u)'
      BY <1>5, <2>3
    <2>5. QED
      BY <2>1, <2>2, <2>4 DEF GS!UnderWay
  <1>8. QED
    BY <1>6, <1>7 DEF Waiting, GS!AwaitedIsUnderWay

LEMMA WaitingHolds == GS!Spec => []Waiting
  <1>1. GS!Init => Waiting
    BY DEF GS!Init, Waiting, GS!AwaitedIsUnderWay, GS!In, GS!Resetting
  <1>2. SessionInv /\ Waiting /\ [GS!Next]_(GS!vars) => Waiting'
    <2> SUFFICES ASSUME SessionInv, Waiting, [GS!Next]_(GS!vars) PROVE Waiting'
      OBVIOUS
    <2>1. CASE UNCHANGED GS!vars
      BY <2>1, BootsStandStill DEF GS!vars, GS!tabVars
    <2>2. ASSUME NEW t \in Windows, NEW b \in DOMAIN boots[t],
                 GS!HandleBootstrap(t, b) \/ GS!EndBootstrap(t, b) \/ GS!FailBootstrap(t, b)
          PROVE  Waiting'
      BY <2>2, HandleBootstrapWaits, EndWaits
    <2>3. ASSUME NEW g \in Ids, GS!Expire(g)
          PROVE  Waiting'
      BY <2>3, BootsStandStill DEF GS!Expire, GS!tabVars
    <2>4. QED
      BY <2>1, <2>2, <2>3, RequestWaits, QueueWaits, AnswerWaits, ResetWaits DEF GS!Next, Ids
  <1>3. QED
    BY <1>1, <1>2, SessionHolds, PTL DEF GS!Spec

LEMMA SessionTypes == GS!Spec => []GS!TypeOK
  <1>1. SessionInv /\ Waiting => GS!TypeOK
    <2> SUFFICES ASSUME SessionInv, Waiting PROVE GS!TypeOK
      OBVIOUS
    <2>1. /\ cookie \in born \union {None} /\ live \subseteq born /\ born \subseteq Ids
          /\ origin \in [Ids -> Resets \union {None}] /\ ended \in [Ids -> Resets \union {None}]
      BY DEF SessionInv, GuestsInv
    <2>2. scope \in [Windows -> Nat] /\ aborted \in [Windows -> BOOLEAN]
      BY DEF SessionInv, ScopesInv
    <2>3. \A t \in Windows : boots[t] \in Seq(BootRecords) /\ writes[t] \in Seq(Calls)
      BY DEF SessionInv, BootsInv, WritesInv
    <2>4. req \in [Calls -> CallRecords \union {None}]
      BY DEF SessionInv, CallsInv
    <2>5. QED
      BY <2>1, <2>2, <2>3, <2>4
      DEF GS!TypeOK, Waiting, GS!Resets, Resets, Ids, BootRecords, CallRecords
  <1>2. QED
    BY <1>1, SessionHolds, WaitingHolds, PTL

\* "The browser adapter [...] rejects queued basket writes captured under the old guest
\* scope when reset begins": no request is under way for a guest that a reset of its own
\* tab has issued after the click, whatever the number of tabs, guests and requests.
THEOREM WritesStayInTheirScope == GS!Spec => []NoWriteCrossesReset
  <1>1. SessionInv => NoWriteCrossesReset
    BY CallOf DEF NoWriteCrossesReset, GS!NoWriteCrossesReset, GS!In, CallOK
  <1>2. QED
    BY <1>1, SessionHolds, PTL

-----------------------------------------------------------------------------
\* A request that reads its answer's body does so until the body is delivered.
LEMMA ReadsOn ==
  ASSUME SessionInv, GS!Next, NEW r \in Calls, GS!In(r, "body")
  PROVE  req'[r] = req[r] \/ GS!Deliver(r)
  <1>1. req \in [Calls -> CallRecords \union {None}] /\ req[r] # None /\ req[r].phase = "body"
    BY DEF GS!In, SessionInv, CallsInv
  <1>2. ASSUME NEW t \in Windows, NEW x \in Calls, GS!ReadRequest(x, t) \/ GS!WriteRequest(x, t)
        PROVE  req'[r] = req[r]
    BY <1>1, <1>2 DEF GS!ReadRequest, GS!WriteRequest, GS!Begin
  <1>3. ASSUME NEW t \in Windows, NEW b \in DOMAIN boots[t],
               GS!HandleBootstrap(t, b) \/ GS!EndBootstrap(t, b) \/ GS!FailBootstrap(t, b)
        PROVE  req'[r] = req[r]
    <2>1. ~GS!Waits(r, t, b)
      BY <1>1 DEF GS!Waits
    <2>2. CASE GS!HandleBootstrap(t, b)
      BY <2>2 DEF GS!HandleBootstrap
    <2>3. CASE GS!EndBootstrap(t, b)
      BY <2>1, <2>3 DEF GS!EndBootstrap
    <2>4. CASE GS!FailBootstrap(t, b)
      BY <2>1, <2>4 DEF GS!FailBootstrap
    <2>5. QED
      BY <1>3, <2>2, <2>3, <2>4
  <1>4. ASSUME NEW t \in Windows, GS!Dequeue(t)
        PROVE  req'[r] = req[r]
    <2> DEFINE x == Head(writes[t])
    <2>1. x # r /\ \E q : req' = [req EXCEPT ![x] = q]
      BY <1>1, <1>4 DEF GS!Dequeue, GS!Begin
    <2> HIDE DEF x
    <2>2. QED
      BY <1>1, <2>1
  <1>5. ASSUME NEW t \in Windows,
               \/ GS!Advance(t)
               \/ GS!ResetGuest(t) \/ GS!HandleReset(t) \/ GS!EndReset(t) \/ GS!FailReset(t)
        PROVE  req'[r] = req[r]
    BY <1>1, <1>5 DEF GS!Advance, GS!ResetGuest, GS!HandleReset, GS!EndReset, GS!FailReset, GS!In
  <1>6. ASSUME NEW x \in Calls, GS!HandleRequest(x) \/ GS!Receive(x) \/ GS!GiveUp(x)
        PROVE  req'[r] = req[r]
    <2>1. x # r
      BY <1>1, <1>6 DEF GS!HandleRequest, GS!Receive, GS!GiveUp, GS!In
    <2>2. QED
      BY <1>1, <1>6, <2>1 DEF GS!HandleRequest, GS!Receive, GS!GiveUp
  <1>7. ASSUME NEW x \in Calls, GS!Deliver(x)
        PROVE  req'[r] = req[r] \/ GS!Deliver(r)
    BY <1>1, <1>7 DEF GS!Deliver
  <1>8. ASSUME NEW g \in Ids, GS!Expire(g)
        PROVE  req'[r] = req[r]
    BY <1>8 DEF GS!Expire, GS!tabVars
  <1>9. QED
    BY <1>2, <1>3, <1>4, <1>5, <1>6, <1>7, <1>8 DEF GS!Next, Ids

\* An accepted answer is looked at under the scope it was asked in, so rows of a guest
\* that the tab's own reset has ended are dropped (requestJson), in any behaviour.
THEOREM EndedGuestsShowNothing == GS!Spec => NoRowsOfEndedGuest
  <1>1. ASSUME SessionInv, GS!Next, NEW r \in Calls, GS!Delivers(r, {"success"})
        PROVE  ~GS!EndedByOwnTab(r)
    <2>1. GS!In(r, "body") /\ req'[r].phase = "done" /\ req'[r].result = "success"
      BY <1>1 DEF GS!Delivers, GS!In
    <2>2. req[r].phase = "body" /\ req[r] # None
      BY <2>1 DEF GS!In
    <2>3. GS!Deliver(r)
      BY <1>1, <2>1, <2>2, ReadsOn
    <2>4. CallOK(req[r], born, origin, ended, scope, aborted) /\ req[r] \in CallRecords
      BY <1>1, <2>2, CallOf
    <2>5. req'[r].result = GS!Result(req[r])
      BY <1>1, <2>3, <2>4, CallTypes DEF GS!Deliver, GS!Done, SessionInv, CallsInv
    <2>6. req[r].status = "ok" /\ req[r].scope = scope[req[r].tab] /\ ~aborted[req[r].tab]
      BY <2>1, <2>2, <2>4, <2>5, CallTypes DEF GS!Result, CallOK
    <2>7. scope[req[r].tab] \in Nat
      BY <1>1, <2>4, CallTypes DEF SessionInv, ScopesInv
    <2>8. QED
      BY <2>2, <2>4, <2>6, <2>7 DEF GS!EndedByOwnTab, CallOK
  <1>2. SessionInv /\ [GS!Next]_(GS!vars) =>
          [\A r \in Calls : GS!Delivers(r, {"success"}) => ~GS!EndedByOwnTab(r)]_(GS!vars)
    BY <1>1
  <1>3. QED
    BY <1>2, SessionHolds, PTL DEF GS!Spec, NoRowsOfEndedGuest, GS!NoRowsOfEndedGuest

-----------------------------------------------------------------------------
(***************************************************************************)
(* The demo profile: first what each operation on the store leaves behind. *)
(***************************************************************************)
Storages == DP!Stores
Codes    == {"ok", DP!Invalid, DP!Unavailable}
Chosen   == DP!Profiles
Texts    == {Absent, Malformed, Foreign, Old, Synthetic} \union Chosen

LEMMA StoreFacts ==
  /\ DefaultName \in Names /\ FirstAddress \in Addresses
  /\ Absent \notin {Malformed, Foreign, Old, Synthetic} /\ Foreign \notin {Malformed, Synthetic}
  /\ Malformed # Synthetic
  /\ \A v \in {Absent, Malformed, Foreign} : v \notin Chosen
  /\ LegacyOrder \in Seq(STRING) /\ FirstStores \subseteq Storages
  /\ "profile" \in DP!Keys /\ "addresses" \in DP!Keys
  /\ "profile" \notin DP!LegacyKeys /\ "addresses" \notin DP!LegacyKeys
  /\ DP!Keys = DP!LegacyKeys \union {"profile", "addresses"}
  BY BrowserAssumption
  DEF DP!ProfileConstants, DP!StoreConstants, DP!LegacyKeys, DP!Keys, Chosen, Storages

LEMMA StoreTypes ==
  ASSUME NEW s
  PROVE  s \in Storages <=>
           /\ s \in [DP!Keys -> Texts]
           /\ s["profile"] \in {Absent, Malformed, Foreign} \union Chosen
           /\ s["addresses"] \in {Absent, Malformed, Foreign, Synthetic}
           /\ \A k \in DP!LegacyKeys : s[k] \in {Absent, Old}
  BY DEF Storages, DP!Stores, Texts, Chosen

\* A store whose values are those of s or gone.
Emptied(s, s2) == s2 \in Storages /\ \A k \in DP!Keys : s2[k] \in {s[k], Absent}

LEMMA EmptiedClean ==
  ASSUME NEW s \in Storages, NEW s2, Emptied(s, s2)
  PROVE  DP!Clean(s) => DP!Clean(s2)
  BY StoreFacts, StoreTypes DEF Emptied, DP!Clean

LEMMA EmptiedTwice ==
  ASSUME NEW s, NEW s2, NEW s3, Emptied(s, s2), Emptied(s2, s3)
  PROVE  Emptied(s, s3)
  BY DEF Emptied

LEMMA GoodBad ==
  ASSUME NEW s, NEW v, NEW c
  PROVE  /\ DP!Good(s, v).store = s /\ DP!Good(s, v).code = "ok" /\ DP!Good(s, v).value = v
         /\ DP!Bad(s, c).store = s /\ DP!Bad(s, c).code = c /\ DP!Bad(s, c).value = Absent
         /\ DP!Invalid # "ok" /\ DP!Unavailable # "ok" /\ DP!Invalid # DP!Unavailable
  BY DEF DP!Good, DP!Bad, DP!Invalid, DP!Unavailable

LEMMA RemovedEmpties ==
  ASSUME NEW s \in Storages, NEW order, NEW faults
  PROVE  Emptied(s, DP!Removed(s, order, faults))
  <1> DEFINE r == DP!Removed(s, order, faults)
  <1>1. r = [k \in DP!Keys |-> r[k]] /\ \A k \in DP!Keys : r[k] \in {s[k], Absent}
    BY DEF DP!Removed
  <1> HIDE DEF r
  <1>2. r \in Storages
    <2>1. s \in [DP!Keys -> Texts] /\ Absent \in Texts
      BY StoreTypes DEF Texts
    <2>2. r \in [DP!Keys -> Texts]
      BY <1>1, <2>1
    <2>3. r["profile"] \in {s["profile"], Absent} /\ r["addresses"] \in {s["addresses"], Absent}
      BY <1>1, StoreFacts
    <2>4. \A k \in DP!LegacyKeys : r[k] \in {s[k], Absent}
      BY <1>1, StoreFacts
    <2>5. QED
      BY <2>2, <2>3, <2>4, StoreTypes
  <1>3. QED
    BY <1>1, <1>2 DEF Emptied, r

\* No key is left over by a removal that no storage fault stops.
LEMMA RemovedAll ==
  ASSUME NEW s \in Storages, NEW order \in Seq(DP!Keys), NEW faults,
         \A i \in DOMAIN order : <<"remove", order[i]>> \notin faults
  PROVE  \A i \in DOMAIN order : DP!Removed(s, order, faults)[order[i]] = Absent
  <1> SUFFICES ASSUME NEW i \in DOMAIN order
               PROVE  DP!Removed(s, order, faults)[order[i]] = Absent
    OBVIOUS
  <1>1. order[i] \in DP!Keys /\ 1..i \subseteq DOMAIN order
    OBVIOUS
  <1>2. \A j \in 1..i : <<"remove", order[j]>> \notin faults
    BY <1>1
  <1>3. QED
    BY <1>1, <1>2 DEF DP!Removed

LEMMA LegacyOnly ==
  ASSUME NEW s, NEW faults
  PROVE  \A k \in {"profile", "addresses"} : DP!Removed(s, LegacyOrder, faults)[k] = s[k]
  BY StoreFacts DEF DP!Removed, DP!LegacyKeys

LEMMA LegacyRemoved ==
  ASSUME NEW s \in Storages, NEW faults
  PROVE  LET r == DP!RemoveLegacy(s, faults) IN
         /\ Emptied(s, r.store) /\ r.code \in {"ok", DP!Unavailable} /\ r.value = Absent
         /\ r.store["profile"] = s["profile"] /\ r.store["addresses"] = s["addresses"]
         /\ r.code = "ok" => \A k \in DP!LegacyKeys : r.store[k] = Absent
         /\ faults = {} => r.code = "ok"
  <1> DEFINE m == DP!Removed(s, LegacyOrder, faults)
             free == \A i \in DOMAIN LegacyOrder : <<"remove", LegacyOrder[i]>> \notin faults
  <1>1. DP!RemoveLegacy(s, faults) = IF free THEN DP!Good(m, Absent) ELSE DP!Bad(m, DP!Unavailable)
    BY DEF DP!RemoveLegacy, DP!RemoveAll
  <1>2. Emptied(s, m) /\ m["profile"] = s["profile"] /\ m["addresses"] = s["addresses"]
    BY RemovedEmpties, LegacyOnly
  <1>3. free => \A k \in DP!LegacyKeys : m[k] = Absent
    <2>1. LegacyOrder \in Seq(DP!Keys)
      BY StoreFacts DEF DP!Keys, DP!LegacyKeys
    <2>2. QED
      BY <2>1, RemovedAll DEF DP!LegacyKeys
  <1>4. faults = {} => free
    OBVIOUS
  <1> HIDE DEF m, free
  <1>5. QED
    BY <1>1, <1>2, <1>3, <1>4, GoodBad

\* What a key holds, decoded: a record of ours, or nothing, or an error.
LEMMA DecodedKey ==
  ASSUME NEW s \in Storages, NEW key \in {"profile", "addresses"}, NEW faults
  PROVE  LET r == DP!Decoded(s, key, faults) IN
         /\ Emptied(s, r.store) /\ r.code \in Codes
         /\ \A k \in DP!Keys : k # key => r.store[k] = s[k]
         /\ r.code = "ok" => /\ r.store = s /\ r.value = s[key]
                             /\ s[key] \notin {Foreign, Malformed}
         /\ r.code # "ok" => r.value = Absent
         /\ faults = {} => r.code \in {"ok", DP!Invalid}
  <1>1. key \in DP!Keys /\ key \notin DP!LegacyKeys /\ Emptied(s, s)
    BY StoreFacts DEF Emptied
  <1> DEFINE e == [s EXCEPT ![key] = Absent]
  <1>2. /\ e \in Storages /\ \A k \in DP!Keys : e[k] = IF k = key THEN Absent ELSE s[k]
    <2>1. s \in [DP!Keys -> Texts]
      BY StoreTypes
    <2>2. /\ e \in [DP!Keys -> Texts]
          /\ \A k \in DP!Keys : e[k] = IF k = key THEN Absent ELSE s[k]
      BY <1>1, <2>1 DEF Texts
    <2> HIDE DEF e
    <2>3. QED
      BY <2>2, StoreTypes, StoreFacts
  <1> HIDE DEF e
  <1>3. Emptied(s, e)
    BY <1>2 DEF Emptied
  <1>4. CASE <<"get", key>> \in faults
    BY <1>1, <1>4, GoodBad DEF DP!Decoded, Codes
  <1>5. CASE <<"get", key>> \notin faults /\ s[key] = Foreign
    <2>1. DP!Decoded(s, key, faults) = DP!Discard(s, key, faults)
      BY <1>5 DEF DP!Decoded
    <2>2. CASE <<"remove", key>> \in faults
      BY <1>1, <2>1, <2>2, GoodBad DEF DP!Discard, Codes
    <2>3. CASE <<"remove", key>> \notin faults
      <3>1. DP!Decoded(s, key, faults) = DP!Bad(e, DP!Invalid)
        BY <2>1, <2>3 DEF DP!Discard, e
      <3>2. QED
        BY <1>2, <1>3, <3>1, GoodBad DEF Codes
    <2>4. QED
      BY <2>2, <2>3
  <1>6. CASE <<"get", key>> \notin faults /\ s[key] # Foreign
    BY <1>1, <1>6, GoodBad DEF DP!Decoded, Codes
  <1>7. QED
    BY <1>4, <1>5, <1>6

LEMMA ProfileRead ==
  ASSUME NEW s \in Storages, NEW faults
  PROVE  LET r == DP!GetProfile(s, faults) IN
         /\ Emptied(s, r.store) /\ r.code \in Codes
         /\ r.store["addresses"] = s["addresses"]
         /\ r.code = "ok" => /\ r.value = s["profile"] /\ r.store["profile"] = s["profile"]
                             /\ r.value \in Chosen \union {Absent}
                             /\ \A k \in DP!LegacyKeys : r.store[k] = Absent
                             /\ r.store["profile"] # Foreign
         /\ r.code # "ok" => r.value = Absent
         /\ faults = {} => r.code \in {"ok", DP!Invalid}
         /\ faults = {} /\ s["profile"] = Absent => r.code = "ok"
  <1>1. PICK m : m = DP!RemoveLegacy(s, faults)
    OBVIOUS
  <1>2. /\ Emptied(s, m.store) /\ m.code \in {"ok", DP!Unavailable} /\ m.value = Absent
        /\ m.store["profile"] = s["profile"] /\ m.store["addresses"] = s["addresses"]
        /\ m.code = "ok" => \A k \in DP!LegacyKeys : m.store[k] = Absent
        /\ faults = {} => m.code = "ok"
    BY <1>1, LegacyRemoved
  <1>3. CASE m.code # "ok"
    <2>1. DP!GetProfile(s, faults) = m
      BY <1>1, <1>3 DEF DP!GetProfile
    <2>2. QED
      BY <1>2, <1>3, <2>1 DEF Codes
  <1>4. CASE m.code = "ok"
    <2>1. PICK d : d = DP!Decoded(m.store, "profile", faults)
      OBVIOUS
    <2>2. m.store \in Storages
      BY <1>2 DEF Emptied
    <2>3. /\ Emptied(m.store, d.store) /\ d.code \in Codes
          /\ \A k \in DP!Keys : k # "profile" => d.store[k] = m.store[k]
          /\ d.code = "ok" => /\ d.store = m.store /\ d.value = m.store["profile"]
                              /\ m.store["profile"] \notin {Foreign, Malformed}
          /\ d.code # "ok" => d.value = Absent
          /\ faults = {} => d.code \in {"ok", DP!Invalid}
      BY <2>1, <2>2, DecodedKey
    <2>4. DP!GetProfile(s, faults) = d
      BY <1>1, <1>4, <2>1 DEF DP!GetProfile
    <2>5. d.code = "ok" => d.value \in Chosen \union {Absent}
      BY <2>2, <2>3, StoreTypes
    <2>6. Emptied(s, d.store)
      BY <1>2, <2>3, EmptiedTwice
    <2>7. faults = {} /\ s["profile"] = Absent => d.code = "ok"
      <3> SUFFICES ASSUME faults = {}, s["profile"] = Absent
                   PROVE  d.code = "ok"
        OBVIOUS
      <3>1. m.store["profile"] \notin {Foreign, Malformed}
        BY <1>2, StoreFacts
      <3>2. QED
        BY <2>1, <3>1, GoodBad DEF DP!Decoded
    <2>8. QED
      BY <1>2, <1>4, <2>3, <2>4, <2>5, <2>6, <2>7, StoreFacts
  <1>5. QED
    BY <1>3, <1>4

\* Only a load that finds no addresses writes any: the synthetic list.
LEMMA AddressesRead ==
  ASSUME NEW s \in Storages, NEW faults
  PROVE  LET r == DP!GetAddresses(s, faults) IN
         /\ r.store \in Storages /\ r.code \in Codes
         /\ DP!Clean(s) => DP!Clean(r.store)
         /\ r.store["profile"] = s["profile"]
         /\ \A k \in DP!LegacyKeys : r.store[k] \in {s[k], Absent}
         /\ r.code = "ok" => /\ \A k \in DP!LegacyKeys : r.store[k] = Absent
                             /\ r.store["addresses"] # Foreign
         /\ r.code # "ok" => r.value = Absent
         /\ s["addresses"] \in {Absent, Synthetic} /\ faults = {} => r.code = "ok"
         /\ faults = {} => r.code \in {"ok", DP!Invalid}
  <1>1. PICK m : m = DP!RemoveLegacy(s, faults)
    OBVIOUS
  <1>2. /\ Emptied(s, m.store) /\ m.code \in {"ok", DP!Unavailable} /\ m.value = Absent
        /\ m.store["profile"] = s["profile"] /\ m.store["addresses"] = s["addresses"]
        /\ m.code = "ok" => \A k \in DP!LegacyKeys : m.store[k] = Absent
        /\ faults = {} => m.code = "ok"
    BY <1>1, LegacyRemoved
  <1>3. m.store \in Storages /\ (DP!Clean(s) => DP!Clean(m.store))
        /\ \A k \in DP!LegacyKeys : m.store[k] \in {s[k], Absent}
    BY <1>2, EmptiedClean, StoreFacts DEF Emptied
  <1>4. CASE m.code # "ok"
    <2>1. DP!GetAddresses(s, faults) = m
      BY <1>1, <1>4 DEF DP!GetAddresses
    <2>2. QED
      BY <1>2, <1>3, <1>4, <2>1 DEF Codes
  <1>5. CASE m.code = "ok"
    <2>1. PICK d : d = DP!Decoded(m.store, "addresses", faults)
      OBVIOUS
    <2>2. /\ Emptied(m.store, d.store) /\ d.code \in Codes
          /\ \A k \in DP!Keys : k # "addresses" => d.store[k] = m.store[k]
          /\ d.code = "ok" => /\ d.store = m.store /\ d.value = m.store["addresses"]
                              /\ m.store["addresses"] \notin {Foreign, Malformed}
          /\ d.code # "ok" => d.value = Absent
          /\ faults = {} => d.code \in {"ok", DP!Invalid}
      BY <1>3, <2>1, DecodedKey
    <2>3. CASE ~(d.code = "ok" /\ d.value = Absent)
      <3>1. DP!GetAddresses(s, faults) = d
        BY <1>1, <1>5, <2>1, <2>3 DEF DP!GetAddresses
      <3>2. d.store \in Storages /\ (DP!Clean(s) => DP!Clean(d.store))
        BY <1>3, <2>2, EmptiedClean DEF Emptied
      <3>3. /\ d.store["profile"] = s["profile"]
            /\ \A k \in DP!LegacyKeys : d.store[k] = m.store[k]
        BY <1>2, <2>2, StoreFacts
      <3>4. s["addresses"] \in {Absent, Synthetic} /\ faults = {} => d.code = "ok"
        <4> SUFFICES ASSUME s["addresses"] \in {Absent, Synthetic}, faults = {}
                     PROVE  d.code = "ok"
          OBVIOUS
        <4>1. m.store["addresses"] \notin {Foreign, Malformed}
          BY <1>2, StoreFacts
        <4>2. QED
          BY <1>2, <2>1, <4>1, GoodBad DEF DP!Decoded
      <3>5. QED
        BY <1>2, <1>3, <1>5, <2>2, <3>1, <3>2, <3>3, <3>4
    <2>4. CASE d.code = "ok" /\ d.value = Absent
      <3> DEFINE e == [m.store EXCEPT !["addresses"] = Synthetic]
      <3>1. DP!GetAddresses(s, faults) = DP!Write(m.store, "addresses", Synthetic, faults)
        BY <1>1, <1>5, <2>1, <2>4 DEF DP!GetAddresses
      <3>2. CASE <<"set", "addresses">> \in faults
        <4>1. /\ DP!GetAddresses(s, faults).store = m.store
              /\ DP!GetAddresses(s, faults).code = DP!Unavailable
              /\ DP!GetAddresses(s, faults).value = Absent
          BY <3>1, <3>2, GoodBad DEF DP!Write
        <4>2. QED
          BY <1>2, <1>3, <3>2, <4>1, GoodBad DEF Codes
      <3>3. CASE <<"set", "addresses">> \notin faults
        <4>1. /\ DP!GetAddresses(s, faults).store = e /\ DP!GetAddresses(s, faults).code = "ok"
          BY <3>1, <3>3, GoodBad DEF DP!Write
        <4>2. /\ e \in [DP!Keys -> Texts]
              /\ \A k \in DP!Keys : e[k] = IF k = "addresses" THEN Synthetic ELSE m.store[k]
          <5>1. m.store \in [DP!Keys -> Texts]
            BY <1>3, StoreTypes
          <5>2. QED
            BY <5>1, StoreFacts DEF Texts
        <4> HIDE DEF e
        <4>3. e["profile"] = s["profile"] /\ e["addresses"] = Synthetic
              /\ \A k \in DP!LegacyKeys : e[k] = m.store[k]
          BY <1>2, <4>2, StoreFacts
        <4>4. e \in Storages
          BY <1>2, <1>3, <4>2, <4>3, StoreTypes
        <4>5. DP!Clean(s) => DP!Clean(e)
          BY <1>3, <4>3, StoreFacts DEF DP!Clean
        <4>6. QED
          BY <1>2, <1>3, <1>5, <4>1, <4>3, <4>4, <4>5, StoreFacts DEF Codes
      <3>4. QED
        BY <3>2, <3>3
    <2>5. QED
      BY <2>3, <2>4
  <1>6. QED
    BY <1>4, <1>5

LEMMA ProfileSaved ==
  ASSUME NEW s \in Storages, NEW name \in Names \union {BadName}, NEW address \in Addresses,
         NEW faults
  PROVE  LET p == [name |-> name, address |-> address]
             r == DP!SaveProfile(s, p, faults)
         IN /\ r.store \in Storages /\ r.code \in Codes
            /\ DP!Clean(s) => DP!Clean(r.store)
            /\ r.code = "ok" => r.store["profile"] = p
            /\ r.code # "ok" => r.store["profile"] = s["profile"]
  <1> DEFINE p == [name |-> name, address |-> address]
  <1>1. PICK a : a = DP!GetAddresses(s, faults)
    OBVIOUS
  <1>2. /\ a.store \in Storages /\ a.code \in Codes /\ (DP!Clean(s) => DP!Clean(a.store))
        /\ a.store["profile"] = s["profile"]
    BY <1>1, AddressesRead
  <1>3. p.name = name /\ p.address = address
    OBVIOUS
  <1>4. p.name # BadName => p \in Chosen
    BY DEF Chosen, DP!Profiles
  <1> HIDE DEF p
  <1>5. CASE a.code # "ok"
    <2>1. DP!SaveProfile(s, p, faults) = a
      BY <1>1, <1>5 DEF DP!SaveProfile
    <2>2. QED
      BY <1>2, <1>5, <2>1 DEF p
  <1>6. CASE a.code = "ok" /\ p.name = BadName
    <2>1. DP!SaveProfile(s, p, faults) = DP!Bad(a.store, DP!Invalid)
      BY <1>1, <1>6 DEF DP!SaveProfile
    <2>2. QED
      BY <1>2, <2>1, GoodBad DEF p, Codes
  <1>7. CASE a.code = "ok" /\ p.name # BadName
    <2> DEFINE e == [a.store EXCEPT !["profile"] = p]
    <2>1. DP!SaveProfile(s, p, faults) = DP!Write(a.store, "profile", p, faults)
      BY <1>1, <1>3, <1>7 DEF DP!SaveProfile
    <2>2. CASE <<"set", "profile">> \in faults
      <3>1. DP!SaveProfile(s, p, faults) = DP!Bad(a.store, DP!Unavailable)
        BY <2>1, <2>2 DEF DP!Write
      <3>2. QED
        BY <1>2, <3>1, GoodBad DEF p, Codes
    <2>3. CASE <<"set", "profile">> \notin faults
      <3>1. DP!SaveProfile(s, p, faults) = DP!Good(e, p)
        BY <2>1, <2>3 DEF DP!Write
      <3>2. /\ e \in [DP!Keys -> Texts]
            /\ \A k \in DP!Keys : e[k] = IF k = "profile" THEN p ELSE a.store[k]
        <4>1. a.store \in [DP!Keys -> Texts] /\ p \in Texts
          BY <1>2, <1>4, <1>7, StoreTypes DEF Texts
        <4>2. QED
          BY <4>1, StoreFacts
      <3> HIDE DEF e
      <3>3. /\ e["profile"] = p /\ e["addresses"] = a.store["addresses"]
            /\ \A k \in DP!LegacyKeys : e[k] = a.store[k]
        BY <3>2, StoreFacts
      <3>4. e \in Storages
        BY <1>2, <1>4, <1>7, <3>2, <3>3, StoreTypes
      <3>5. DP!Clean(a.store) => DP!Clean(e)
        BY <1>4, <1>7, <3>3, StoreFacts DEF DP!Clean
      <3>6. QED
        BY <1>2, <3>1, <3>3, <3>4, <3>5, GoodBad DEF p, Codes
    <2>4. QED
      BY <2>2, <2>3
  <1>8. QED
    BY <1>5, <1>6, <1>7

LEMMA ProfileForgotten ==
  ASSUME NEW s \in Storages, NEW faults
  PROVE  LET r == DP!ForgetProfile(s, faults) IN
         /\ Emptied(s, r.store) /\ r.code \in {"ok", DP!Unavailable}
         /\ r.code = "ok" => r.store["profile"] = Absent /\ r.store["addresses"] = Absent
         /\ faults = {} => r.code = "ok"
  <1> DEFINE both == <<"profile", "addresses">>
  <1>1. PICK m : m = DP!RemoveLegacy(s, faults)
    OBVIOUS
  <1>2. /\ Emptied(s, m.store) /\ m.code \in {"ok", DP!Unavailable}
        /\ faults = {} => m.code = "ok"
    BY <1>1, LegacyRemoved
  <1>3. CASE m.code # "ok"
    <2>1. DP!ForgetProfile(s, faults) = m
      BY <1>1, <1>3 DEF DP!ForgetProfile
    <2>2. QED
      BY <1>2, <1>3, <2>1
  <1>4. CASE m.code = "ok"
    <2> DEFINE e == DP!Removed(m.store, both, faults)
               free == \A i \in DOMAIN both : <<"remove", both[i]>> \notin faults
    <2>1. DP!ForgetProfile(s, faults) =
            IF free THEN DP!Good(e, Absent) ELSE DP!Bad(e, DP!Unavailable)
      BY <1>1, <1>4 DEF DP!ForgetProfile, DP!RemoveAll
    <2>2. m.store \in Storages
      BY <1>2 DEF Emptied
    <2>3. Emptied(s, e)
      BY <1>2, <2>2, RemovedEmpties, EmptiedTwice
    <2>4. free => e["profile"] = Absent /\ e["addresses"] = Absent
      <3>1. both \in Seq(DP!Keys) /\ 1 \in DOMAIN both /\ 2 \in DOMAIN both
            /\ both[1] = "profile" /\ both[2] = "addresses"
        BY StoreFacts
      <3> HIDE DEF both
      <3>2. free => \A i \in DOMAIN both : e[both[i]] = Absent
        BY <2>2, <3>1, RemovedAll
      <3> HIDE DEF e, free
      <3>3. QED
        BY <3>1, <3>2
    <2>5. faults = {} => free
      OBVIOUS
    <2> HIDE DEF e, free
    <2>6. QED
      BY <2>1, <2>3, <2>4, <2>5, GoodBad
  <1>5. QED
    BY <1>3, <1>4

LEMMA BothLoaded ==
  ASSUME NEW s \in Storages, NEW faults
  PROVE  LET r == DP!LoadBoth(s, faults) IN
         /\ r.store \in Storages /\ r.code \in Codes
         /\ DP!Clean(s) => DP!Clean(r.store)
         /\ r.store["profile"] \in {s["profile"], Absent}
         /\ r.code = "ok" => DP!Clean(r.store) /\ r.value = r.store["profile"]
         /\ r.value \in Chosen \union {Absent}
         /\ faults = {} => r.code \in {"ok", DP!Invalid}
         /\ faults = {} /\ s["profile"] = Absent /\ s["addresses"] = Absent => r.code = "ok"
  <1>1. PICK p : p = DP!GetProfile(s, faults)
    OBVIOUS
  <1>2. PICK a : a = DP!GetAddresses(p.store, faults)
    OBVIOUS
  <1>3. /\ Emptied(s, p.store) /\ p.code \in Codes /\ p.store["addresses"] = s["addresses"]
        /\ p.code = "ok" => /\ p.value = s["profile"] /\ p.store["profile"] = s["profile"]
                            /\ p.value \in Chosen \union {Absent}
                            /\ p.store["profile"] # Foreign
        /\ p.code # "ok" => p.value = Absent
        /\ faults = {} => p.code \in {"ok", DP!Invalid}
        /\ faults = {} /\ s["profile"] = Absent => p.code = "ok"
    BY <1>1, ProfileRead
  <1>4. /\ p.store \in Storages /\ p.store["profile"] \in {s["profile"], Absent}
        /\ DP!Clean(s) => DP!Clean(p.store)
    BY <1>3, EmptiedClean, StoreFacts DEF Emptied
  <1>5. /\ a.store \in Storages /\ a.code \in Codes
        /\ DP!Clean(p.store) => DP!Clean(a.store)
        /\ a.store["profile"] = p.store["profile"]
        /\ a.code = "ok" => /\ \A k \in DP!LegacyKeys : a.store[k] = Absent
                            /\ a.store["addresses"] # Foreign
        /\ a.code # "ok" => a.value = Absent
        /\ p.store["addresses"] \in {Absent, Synthetic} /\ faults = {} => a.code = "ok"
        /\ faults = {} => a.code \in {"ok", DP!Invalid}
    BY <1>2, <1>4, AddressesRead
  <1>6. CASE p.code # "ok"
    <2>1. DP!LoadBoth(s, faults) = p
      BY <1>1, <1>6 DEF DP!LoadBoth
    <2>2. QED
      BY <1>3, <1>4, <1>6, <2>1
  <1>7. CASE p.code = "ok" /\ a.code # "ok"
    <2>1. DP!LoadBoth(s, faults) = a
      BY <1>1, <1>2, <1>7 DEF DP!LoadBoth
    <2>2. QED
      BY <1>3, <1>4, <1>5, <1>7, <2>1
  <1>8. CASE p.code = "ok" /\ a.code = "ok"
    <2>1. DP!LoadBoth(s, faults) = DP!Good(a.store, p.value)
      BY <1>1, <1>2, <1>8 DEF DP!LoadBoth
    <2>2. DP!Clean(a.store)
      BY <1>3, <1>5, <1>8 DEF DP!Clean
    <2>3. QED
      BY <1>3, <1>4, <1>5, <1>8, <2>1, <2>2, GoodBad
  <1>9. QED
    BY <1>6, <1>7, <1>8

\* "Profile pages show a plain-language error and retry action": from any store, storage
\* that works again lets Retry, or the button it makes appear, succeed.
LEMMA AnyStoreRecovers ==
  ASSUME NEW s \in Storages
  PROVE  DP!Recovers(s)
  <1>1. PICK r : r = DP!LoadBoth(s, {})
    OBVIOUS
  <1>2. r.store \in Storages /\ r.code \in {"ok", DP!Invalid}
    BY <1>1, BothLoaded
  <1>3. PICK f : f = DP!ForgetProfile(r.store, {})
    OBVIOUS
  <1>4. f.store \in Storages /\ f.store["profile"] = Absent /\ f.store["addresses"] = Absent
    BY <1>2, <1>3, ProfileForgotten DEF Emptied
  <1>5. DP!LoadBoth(f.store, {}).code = "ok"
    BY <1>4, BothLoaded
  <1>6. QED
    BY <1>1, <1>2, <1>3, <1>5 DEF DP!Recovers

-----------------------------------------------------------------------------
(***************************************************************************)
(* The pages of the profile, each with the store it was loaded from.       *)
(***************************************************************************)
AccountOK(p, s) ==
  /\ p \in DP!AccountPages /\ (p.loaded => DP!Clean(s))
  /\ p.status = "error" => p.profile = Absent

SignInOK(p, s) == p \in DP!SignInPages /\ (p.status = "ready" => DP!Clean(s))

CheckoutOK(p, s) ==
  /\ p \in DP!CheckoutPages /\ (p.code = "ok" /\ ~p.ephemeral => DP!Clean(s))
  /\ p.entered # None => p.deliberate /\ p.details = p.entered
  /\ p.state \in {"idle", "rejected"} => p.inFlight \in 0..1

FormOK(p, s) == AccountOK(p, s) \/ SignInOK(p, s) \/ CheckoutOK(p, s)

\* An account page that shows a stored profile shows the one that is stored.
Mirrors(p, s) ==
  p.at = "account" /\ ~p.ephemeral /\ p.profile # Absent /\ s["profile"] \in Chosen =>
    p.profile = s["profile"]

Forms == DP!AccountPages \union DP!SignInPages \union DP!CheckoutPages

ProfileInv ==
  /\ store \in Storages /\ record \in [FormTabs -> DP!Details \union {None}]
  /\ form \in [FormTabs -> Forms \union {None}]
  /\ rotation \in [FormTabs -> [ephemeral : BOOLEAN] \union {None}]
  /\ \A t \in FormTabs : form[t] # None => FormOK(form[t], store)

SingleTab   == \A t, u \in FormTabs : t = u
Mirrored == \A t \in FormTabs : form[t] # None => Mirrors(form[t], store)

\* What every step of the pages keeps.
Kept == ProfileInv' /\ (SingleTab /\ Mirrored => Mirrored')

\* A step that changes the page of one tab, and the store, which does not get worse.
LEMMA FormStep ==
  ASSUME ProfileInv, NEW t \in FormTabs, NEW p, form' = [form EXCEPT ![t] = p],
         NEW s \in Storages, store' = s, DP!Clean(store) => DP!Clean(s),
         record' \in [FormTabs -> DP!Details \union {None}],
         rotation' \in [FormTabs -> [ephemeral : BOOLEAN] \union {None}],
         p # None => /\ FormOK(p, s)
                     /\ Mirrored => Mirrors(p, s)
  PROVE  Kept
  <1>1. p \in Forms \union {None}
    BY DEF FormOK, AccountOK, SignInOK, CheckoutOK, Forms
  <1>2. form \in [FormTabs -> Forms \union {None}]
    BY DEF ProfileInv
  <1>3. /\ form' \in [FormTabs -> Forms \union {None}] /\ form'[t] = p
        /\ \A u \in FormTabs : u # t => form'[u] = form[u]
    BY <1>1, <1>2
  <1>4. ASSUME NEW u \in FormTabs, form'[u] # None
        PROVE  FormOK(form'[u], s)
    <2>1. CASE u = t
      BY <1>3, <1>4, <2>1
    <2>2. CASE u # t
      <3>1. form'[u] = form[u] /\ FormOK(form[u], store)
        BY <1>3, <1>4, <2>2 DEF ProfileInv
      <3>2. QED
        BY <3>1 DEF FormOK, AccountOK, SignInOK, CheckoutOK
    <2>3. QED
      BY <2>1, <2>2
  <1>5. ProfileInv'
    BY <1>3, <1>4 DEF ProfileInv
  <1>6. ASSUME SingleTab, Mirrored
        PROVE  Mirrored'
    <2>1. \A u \in FormTabs : u = t
      BY <1>6 DEF SingleTab
    <2>2. QED
      BY <1>3, <1>6, <2>1 DEF Mirrored
  <1>7. QED
    BY <1>5, <1>6 DEF Kept

-----------------------------------------------------------------------------
(***************************************************************************)
(* The account page.                                                       *)
(***************************************************************************)
AccountProfiles == [name : Names \union {BadName}, address : Addresses] \union {Absent}
Sayings ==
  {"nothing", "temporary", "saved", "forgotten", "fresh", "not reset", "partly reset"}

\* An account page, also while it loads.
Accounts ==
  [at : {"account"}, status : {"ready", "error", "loading"}, code : Codes,
   profile : AccountProfiles, ephemeral : BOOLEAN, resetting : BOOLEAN, loaded : BOOLEAN,
   said : Sayings]

LEMMA AccountTypes ==
  /\ \A p : p \in DP!AccountPages <=> p \in Accounts /\ p.status # "loading"
  /\ DP!NewAccount \in Accounts /\ DP!NewAccount.profile = Absent /\ ~DP!NewAccount.loaded
  /\ Chosen \subseteq AccountProfiles /\ Absent \in AccountProfiles
  /\ \A p \in Accounts : p.at = "account"
  <1>1. \A p : p \in DP!AccountPages <=> p \in Accounts /\ p.status # "loading"
    BY DEF DP!AccountPages, Accounts, Codes, AccountProfiles, Sayings
  <1>2. /\ DP!NewAccount \in Accounts /\ DP!NewAccount.profile = Absent /\ ~DP!NewAccount.loaded
    BY DEF DP!NewAccount, Accounts, Codes, AccountProfiles, Sayings
  <1>3. Chosen \subseteq AccountProfiles /\ Absent \in AccountProfiles
    BY DEF Chosen, DP!Profiles, AccountProfiles
  <1>4. QED
    BY <1>1, <1>2, <1>3 DEF Accounts

LEMMA AccountLoaded ==
  ASSUME NEW s \in Storages, NEW faults, NEW p \in Accounts, p.profile = Absent,
         p.loaded => DP!Clean(s)
  PROVE  LET r == DP!LoadAccount(p, s, faults) IN
         /\ r.store \in Storages /\ (DP!Clean(s) => DP!Clean(r.store))
         /\ AccountOK(r.page, r.store) /\ Mirrors(r.page, r.store)
  <1>1. PICK b : b = DP!LoadBoth(s, faults)
    OBVIOUS
  <1>2. /\ b.store \in Storages /\ b.code \in Codes /\ (DP!Clean(s) => DP!Clean(b.store))
        /\ b.code = "ok" => DP!Clean(b.store) /\ b.value = b.store["profile"]
        /\ b.value \in Chosen \union {Absent}
    BY <1>1, BothLoaded
  <1> DEFINE e == [p EXCEPT !.status = "error", !.code = b.code, !.ephemeral = FALSE,
                            !.said = "nothing"]
             g == [p EXCEPT !.status = "ready", !.code = "ok", !.ephemeral = FALSE,
                            !.profile = b.value, !.said = "nothing", !.loaded = TRUE]
  <1>3. DP!LoadAccount(p, s, faults) = [store |-> b.store, page |-> IF b.code # "ok" THEN e ELSE g]
    BY <1>1 DEF DP!LoadAccount
  <1>4. /\ e \in Accounts /\ e.status = "error" /\ e.profile = p.profile /\ e.loaded = p.loaded
    BY <1>2 DEF Accounts, Sayings
  <1>5. /\ g \in Accounts /\ g.status = "ready" /\ g.profile = b.value /\ g.loaded
    BY <1>2, AccountTypes DEF Accounts, Sayings, Codes
  <1> HIDE DEF e, g
  <1>6. QED
    BY <1>2, <1>3, <1>4, <1>5, AccountTypes DEF AccountOK, Mirrors

LEMMA AccountAt ==
  ASSUME ProfileInv, NEW t \in FormTabs, DP!At(t, "account")
  PROVE  AccountOK(form[t], store) /\ form[t] \in Accounts /\ form[t] # None
  BY AccountTypes DEF ProfileInv, FormOK, SignInOK, CheckoutOK, DP!At, DP!SignInPages,
                      DP!CheckoutPages, AccountOK

\* A handler whose result is a store and a page.
LEMMA ResultStep ==
  ASSUME ProfileInv, NEW t \in FormTabs, UNCHANGED <<record, rotation>>, NEW r, DP!Result(t, r),
         r.store \in Storages, DP!Clean(store) => DP!Clean(r.store),
         r.page # None => /\ FormOK(r.page, r.store)
                          /\ Mirrored => Mirrors(r.page, r.store)
  PROVE  Kept
  <1>1. form' = [form EXCEPT ![t] = r.page] /\ store' = r.store
    BY DEF DP!Result, DP!Shows
  <1>2. /\ record' \in [FormTabs -> DP!Details \union {None}]
        /\ rotation' \in [FormTabs -> [ephemeral : BOOLEAN] \union {None}]
    BY DEF ProfileInv
  <1>3. QED
    BY <1>1, <1>2, FormStep

LEMMA StoreNow == ProfileInv => store \in Storages
  BY DEF ProfileInv

LEMMA RetryAccountStep ==
  ASSUME ProfileInv, NEW t \in FormTabs, NEW faults, DP!RetryAccount(t, faults)
  PROVE  Kept
  <1>1. DP!At(t, "account") /\ form[t].status = "error" /\ UNCHANGED <<record, rotation>>
    BY DEF DP!RetryAccount, DP!ErrorAt
  <1>2. PICK r : r = DP!LoadAccount(form[t], store, faults) /\ DP!Result(t, r)
    BY DEF DP!RetryAccount
  <1>3. /\ r.store \in Storages /\ (DP!Clean(store) => DP!Clean(r.store))
        /\ AccountOK(r.page, r.store) /\ Mirrors(r.page, r.store)
    BY <1>1, <1>2, AccountAt, StoreNow, AccountLoaded DEF AccountOK
  <1>4. QED
    BY <1>1, <1>2, <1>3, ResultStep DEF FormOK

LEMMA ClearAccountStep ==
  ASSUME ProfileInv, NEW t \in FormTabs, NEW faults, DP!ClearAccount(t, faults)
  PROVE  Kept
  <1>1. DP!At(t, "account") /\ form[t].status = "error" /\ UNCHANGED <<record, rotation>>
    BY DEF DP!ClearAccount, DP!ErrorAt
  <1>2. PICK f : f = DP!ForgetProfile(store, faults)
    OBVIOUS
  <1>3. /\ f.store \in Storages /\ (DP!Clean(store) => DP!Clean(f.store))
        /\ f.code \in {"ok", DP!Unavailable}
    BY <1>2, StoreNow, ProfileForgotten, EmptiedClean DEF Emptied
  <1>4. /\ AccountOK(form[t], store) /\ form[t] \in Accounts /\ form[t].profile = Absent
        /\ form[t].loaded => DP!Clean(f.store)
    BY <1>1, <1>3, AccountAt DEF AccountOK
  <1>5. CASE f.code # "ok"
    <2> DEFINE q == [form[t] EXCEPT !.code = f.code]
    <2>1. q \in Accounts /\ q.status = form[t].status /\ q.profile = Absent
          /\ q.loaded = form[t].loaded
      BY <1>3, <1>4 DEF Accounts, Codes
    <2> HIDE DEF q
    <2>2. AccountOK(q, f.store) /\ Mirrors(q, f.store)
      BY <1>1, <1>4, <2>1, AccountTypes DEF AccountOK, Mirrors
    <2>3. PICK r : r = [store |-> f.store, page |-> q] /\ DP!Result(t, r)
      BY <1>2, <1>5 DEF DP!ClearAccount, q
    <2>4. QED
      BY <1>1, <1>3, <2>2, <2>3, ResultStep DEF FormOK
  <1>6. CASE f.code = "ok"
    <2>1. PICK r : r = DP!LoadAccount(form[t], f.store, faults) /\ DP!Result(t, r)
      BY <1>2, <1>6 DEF DP!ClearAccount
    <2>2. /\ r.store \in Storages /\ (DP!Clean(f.store) => DP!Clean(r.store))
          /\ AccountOK(r.page, r.store) /\ Mirrors(r.page, r.store)
      BY <1>3, <1>4, <2>1, AccountLoaded
    <2>3. QED
      BY <1>1, <1>3, <2>1, <2>2, ResultStep DEF FormOK
  <1>7. QED
    BY <1>5, <1>6

\* A handler that leaves the store alone.
LEMMA ShowsStep ==
  ASSUME ProfileInv, NEW t \in FormTabs, UNCHANGED <<store, record>>, NEW p, DP!Shows(t, p),
         rotation' \in [FormTabs -> [ephemeral : BOOLEAN] \union {None}],
         p # None => FormOK(p, store) /\ (Mirrored => Mirrors(p, store))
  PROVE  Kept
  <1>1. form' = [form EXCEPT ![t] = p] /\ store \in Storages /\ store' = store
    BY DEF DP!Shows, ProfileInv
  <1>2. record' \in [FormTabs -> DP!Details \union {None}]
    BY DEF ProfileInv
  <1>3. QED
    BY <1>1, <1>2, FormStep

LEMMA TemporaryAccountStep ==
  ASSUME ProfileInv, NEW t \in FormTabs, DP!TemporaryAccount(t)
  PROVE  Kept
  <1> DEFINE q == [form[t] EXCEPT !.status = "ready", !.code = "ok", !.ephemeral = TRUE,
                                  !.profile = DP!DefaultProfile, !.said = "temporary"]
  <1>1. DP!At(t, "account") /\ DP!Shows(t, q) /\ UNCHANGED <<store, record, rotation>>
    BY DEF DP!TemporaryAccount, DP!ErrorAt
  <1>2. AccountOK(form[t], store) /\ form[t] \in Accounts
    BY <1>1, AccountAt
  <1>3. DP!DefaultProfile \in AccountProfiles
    BY StoreFacts DEF DP!DefaultProfile, AccountProfiles
  <1>4. q \in Accounts /\ q.status = "ready" /\ q.ephemeral /\ q.loaded = form[t].loaded
    BY <1>2, <1>3 DEF Accounts, Codes, Sayings
  <1> HIDE DEF q
  <1>5. AccountOK(q, store) /\ Mirrors(q, store)
    BY <1>2, <1>4, AccountTypes DEF AccountOK, Mirrors
  <1>6. QED
    BY <1>1, <1>5, ShowsStep DEF ProfileInv, FormOK

LEMMA WriteProfileStep ==
  ASSUME ProfileInv, NEW t \in FormTabs, NEW faults, DP!ReadyAt(t, "account"),
         NEW name \in Names \union {BadName}, NEW address \in Addresses,
         DP!Result(t, DP!Persist(form[t], [name |-> name, address |-> address], faults)),
         UNCHANGED <<record, rotation>>
  PROVE  Kept
  <1> DEFINE v == [name |-> name, address |-> address]
             o == form[t]
  <1>1. /\ AccountOK(o, store) /\ o \in Accounts /\ o # None /\ o.status = "ready"
        /\ v \in AccountProfiles
    BY AccountAt DEF DP!ReadyAt, AccountProfiles
  <1>2. PICK s : s = DP!SaveProfile(store, v, faults)
    OBVIOUS
  <1>3. /\ s.store \in Storages /\ s.code \in Codes
        /\ DP!Clean(store) => DP!Clean(s.store)
        /\ s.code = "ok" => s.store["profile"] = v
        /\ s.code # "ok" => s.store["profile"] = store["profile"]
    BY <1>2, StoreNow, ProfileSaved
  <1>4. PICK r : r = DP!Persist(o, v, faults) /\ DP!Result(t, r)
    OBVIOUS
  <1> HIDE DEF v
  <1>5. CASE o.ephemeral
    <2> DEFINE q == [o EXCEPT !.profile = v, !.code = "ok", !.said = "temporary"]
    <2>1. r = [store |-> store, page |-> q]
      BY <1>4, <1>5 DEF DP!Persist
    <2>2. q \in Accounts /\ q.status = "ready" /\ q.ephemeral /\ q.loaded = o.loaded
      BY <1>1, <1>5 DEF Accounts, Codes, Sayings
    <2> HIDE DEF q
    <2>3. AccountOK(q, store) /\ Mirrors(q, store)
      BY <1>1, <2>2, AccountTypes DEF AccountOK, Mirrors
    <2>4. QED
      BY <1>4, <2>1, <2>3, StoreNow, ResultStep DEF FormOK
  <1>6. CASE ~o.ephemeral /\ s.code = "ok"
    <2> DEFINE q == [o EXCEPT !.profile = v, !.code = "ok", !.said = "saved"]
    <2>1. r = [store |-> s.store, page |-> q]
      BY <1>2, <1>4, <1>6 DEF DP!Persist
    <2>2. q \in Accounts /\ q.status = "ready" /\ q.profile = v /\ q.loaded = o.loaded
      BY <1>1, <1>6 DEF Accounts, Codes, Sayings
    <2> HIDE DEF q
    <2>3. AccountOK(q, s.store) /\ Mirrors(q, s.store)
      BY <1>1, <1>3, <1>6, <2>2, AccountTypes DEF AccountOK, Mirrors
    <2>4. QED
      BY <1>3, <1>4, <2>1, <2>3, ResultStep DEF FormOK
  <1>7. CASE ~o.ephemeral /\ s.code # "ok"
    <2> DEFINE q == [o EXCEPT !.code = s.code, !.said = "nothing"]
    <2>1. r = [store |-> s.store, page |-> q]
      BY <1>2, <1>4, <1>7 DEF DP!Persist
    <2>2. /\ q \in Accounts /\ q.status = "ready" /\ q.profile = o.profile /\ q.loaded = o.loaded
          /\ q.ephemeral = o.ephemeral /\ q.at = o.at
      BY <1>1, <1>3 DEF Accounts, Codes, Sayings
    <2> HIDE DEF q
    <2>3. AccountOK(q, s.store) /\ (Mirrored => Mirrors(q, s.store))
      BY <1>1, <1>3, <1>7, <2>2, AccountTypes DEF AccountOK, Mirrors, Mirrored
    <2>4. QED
      BY <1>3, <1>4, <2>1, <2>3, ResultStep DEF FormOK
  <1>8. QED
    BY <1>5, <1>6, <1>7

LEMMA SaveDisplayNameStep ==
  ASSUME ProfileInv, NEW t \in FormTabs, NEW faults, NEW n \in Names \union {BadName},
         DP!SaveDisplayName(t, n, faults)
  PROVE  Kept
  <1> DEFINE o == form[t].profile
  <1>1. DP!ReadyAt(t, "account") /\ o # Absent /\ UNCHANGED <<record, rotation>>
        /\ DP!Result(t, DP!Persist(form[t], [o EXCEPT !.name = n], faults))
    BY DEF DP!SaveDisplayName
  <1>2. o \in [name : Names \union {BadName}, address : Addresses]
    BY <1>1, AccountAt DEF DP!ReadyAt, Accounts, AccountProfiles
  <1> HIDE DEF o
  <1>3. [o EXCEPT !.name = n] = [name |-> n, address |-> o.address] /\ o.address \in Addresses
    BY <1>2
  <1>4. QED
    BY <1>1, <1>3, WriteProfileStep

LEMMA MakeDefaultAddressStep ==
  ASSUME ProfileInv, NEW t \in FormTabs, NEW faults, NEW a \in Addresses,
         DP!MakeDefaultAddress(t, a, faults)
  PROVE  Kept
  <1> DEFINE o == form[t].profile
  <1>1. DP!ReadyAt(t, "account") /\ o # Absent /\ UNCHANGED <<record, rotation>>
        /\ DP!Result(t, DP!Persist(form[t], [o EXCEPT !.address = a], faults))
    BY DEF DP!MakeDefaultAddress
  <1>2. o \in [name : Names \union {BadName}, address : Addresses]
    BY <1>1, AccountAt DEF DP!ReadyAt, Accounts, AccountProfiles
  <1> HIDE DEF o
  <1>3. [o EXCEPT !.address = a] = [name |-> o.name, address |-> a]
        /\ o.name \in Names \union {BadName}
    BY <1>2
  <1>4. QED
    BY <1>1, <1>3, WriteProfileStep

\* What the store shows of the profile is what it was, or nothing.
LEMMA MirrorStays ==
  ASSUME NEW p, NEW s \in Storages, NEW s2 \in Storages, s2["profile"] \in {s["profile"], Absent},
         Mirrors(p, s), NEW q, q.at = p.at, q.ephemeral = p.ephemeral, q.profile = p.profile
  PROVE  Mirrors(q, s2)
  BY StoreFacts DEF Mirrors

LEMMA ForgetAccountStep ==
  ASSUME ProfileInv, NEW t \in FormTabs, NEW faults, DP!ForgetAccount(t, faults)
  PROVE  Kept
  <1> DEFINE o == form[t]
             gone == [o EXCEPT !.profile = Absent, !.ephemeral = FALSE, !.code = "ok",
                               !.said = "forgotten"]
  <1>1. DP!At(t, "account") /\ o.status = "ready" /\ UNCHANGED <<record, rotation>>
    BY DEF DP!ForgetAccount, DP!ReadyAt
  <1>2. AccountOK(o, store) /\ o \in Accounts /\ o # None /\ store \in Storages
    BY <1>1, AccountAt, StoreNow
  <1>3. PICK f : f = DP!ForgetProfile(store, faults)
    OBVIOUS
  <1>4. /\ f.store \in Storages /\ (DP!Clean(store) => DP!Clean(f.store))
        /\ f.code \in {"ok", DP!Unavailable}
        /\ f.store["profile"] \in {store["profile"], Absent}
    BY <1>2, <1>3, ProfileForgotten, EmptiedClean, StoreFacts DEF Emptied
  <1>5. gone \in Accounts /\ gone.status = "ready" /\ gone.profile = Absent
        /\ gone.loaded = o.loaded
    BY <1>1, <1>2, AccountTypes DEF Accounts, Codes, Sayings
  <1>6. CASE o.ephemeral
    <2>1. PICK r : r = [store |-> store, page |-> gone] /\ DP!Result(t, r)
      BY <1>6 DEF DP!ForgetAccount
    <2> HIDE DEF gone
    <2>2. AccountOK(gone, store) /\ Mirrors(gone, store)
      BY <1>2, <1>5, AccountTypes DEF AccountOK, Mirrors
    <2>3. QED
      BY <1>1, <1>2, <2>1, <2>2, ResultStep DEF FormOK
  <1>7. CASE ~o.ephemeral /\ f.code = "ok"
    <2>1. PICK r : r = [store |-> f.store, page |-> gone] /\ DP!Result(t, r)
      BY <1>3, <1>7 DEF DP!ForgetAccount
    <2> HIDE DEF gone
    <2>2. AccountOK(gone, f.store) /\ Mirrors(gone, f.store)
      BY <1>2, <1>4, <1>5, AccountTypes DEF AccountOK, Mirrors
    <2>3. QED
      BY <1>1, <1>4, <2>1, <2>2, ResultStep DEF FormOK
  <1>8. CASE ~o.ephemeral /\ f.code # "ok"
    <2> DEFINE q == [o EXCEPT !.code = f.code, !.said = "nothing"]
    <2>1. PICK r : r = [store |-> f.store, page |-> q] /\ DP!Result(t, r)
      BY <1>3, <1>8 DEF DP!ForgetAccount
    <2>2. /\ q \in Accounts /\ q.status = "ready" /\ q.profile = o.profile /\ q.loaded = o.loaded
          /\ q.ephemeral = o.ephemeral /\ q.at = o.at
      BY <1>1, <1>2, <1>4 DEF Accounts, Codes, Sayings
    <2> HIDE DEF q
    <2>3. AccountOK(q, f.store)
      BY <1>2, <1>4, <2>2, AccountTypes DEF AccountOK
    <2>4. Mirrored => Mirrors(q, f.store)
      BY <1>2, <1>4, <2>2, MirrorStays DEF Mirrored
    <2>5. QED
      BY <1>1, <1>4, <2>1, <2>3, <2>4, ResultStep DEF FormOK
  <1>9. QED
    BY <1>6, <1>7, <1>8

LEMMA StartFreshGuestStep ==
  ASSUME ProfileInv, NEW t \in FormTabs, DP!StartFreshGuest(t)
  PROVE  Kept
  <1> DEFINE o == form[t]
             q == [o EXCEPT !.resetting = TRUE, !.code = "ok", !.said = "nothing"]
             w == [ephemeral |-> o.ephemeral]
  <1>1. /\ DP!At(t, "account") /\ DP!Shows(t, q) /\ UNCHANGED <<store, record>>
        /\ rotation' = [rotation EXCEPT ![t] = w]
    BY DEF DP!StartFreshGuest, DP!ReadyAt
  <1>2. AccountOK(o, store) /\ o \in Accounts /\ o # None /\ store \in Storages
    BY <1>1, AccountAt, StoreNow
  <1>3. w \in [ephemeral : BOOLEAN]
    BY <1>2 DEF Accounts
  <1>4. /\ q \in Accounts /\ q.status = o.status /\ q.profile = o.profile /\ q.loaded = o.loaded
        /\ q.ephemeral = o.ephemeral /\ q.at = o.at
    BY <1>2 DEF Accounts, Codes, Sayings
  <1> HIDE DEF q, w
  <1>5. rotation' \in [FormTabs -> [ephemeral : BOOLEAN] \union {None}]
    BY <1>1, <1>3 DEF ProfileInv
  <1>6. AccountOK(q, store) /\ (Mirrored => Mirrors(q, store))
    BY <1>2, <1>4, AccountTypes DEF AccountOK, Mirrored, Mirrors
  <1>7. QED
    BY <1>1, <1>5, <1>6, ShowsStep DEF FormOK

\* The rest of startFreshGuest, whatever page is there when the service answers.
LEMMA FinishFreshGuestStep ==
  ASSUME ProfileInv, NEW t \in FormTabs, NEW faults, NEW ok \in BOOLEAN,
         DP!FinishFreshGuest(t, ok, faults)
  PROVE  Kept
  <1> DEFINE o == form[t]
  <1>1. PICK f : f = DP!ForgetProfile(store, faults)
    OBVIOUS
  <1>2. /\ f.store \in Storages /\ (DP!Clean(store) => DP!Clean(f.store))
        /\ f.store["profile"] \in {store["profile"], Absent}
    BY <1>1, StoreNow, ProfileForgotten, EmptiedClean, StoreFacts DEF Emptied
  <1>3. PICK s \in {store, f.store} : store' = s
    BY <1>1 DEF DP!FinishFreshGuest
  <1>4. /\ s \in Storages /\ (DP!Clean(store) => DP!Clean(s)) /\ store \in Storages
        /\ s["profile"] \in {store["profile"], Absent}
    BY <1>2, <1>3, StoreNow
  <1>5. /\ record' \in [FormTabs -> DP!Details \union {None}]
        /\ rotation' \in [FormTabs -> [ephemeral : BOOLEAN] \union {None}]
    <2>1. record' = record \/ record' = [record EXCEPT ![t] = None]
      BY DEF DP!FinishFreshGuest
    <2>2. rotation' = [rotation EXCEPT ![t] = None]
      BY DEF DP!FinishFreshGuest
    <2>3. QED
      BY <2>1, <2>2 DEF ProfileInv
  <1>6. CASE DP!At(t, "account") /\ o.resetting
    <2>1. AccountOK(o, store) /\ o \in Accounts /\ o # None
      BY <1>6, AccountAt
    <2>2. PICK outcome \in Sayings :
            form' = [form EXCEPT ![t] =
                       IF outcome = "fresh"
                       THEN [o EXCEPT !.resetting = FALSE, !.profile = Absent,
                                      !.ephemeral = FALSE, !.said = outcome]
                       ELSE [o EXCEPT !.resetting = FALSE, !.said = outcome]]
      <3> DEFINE cleared == <<"remove", "record">> \notin faults
                 forgets == ok /\ cleared /\ ~rotation[t].ephemeral
                 outcome == IF ~ok THEN "not reset"
                            ELSE IF ~cleared \/ (forgets /\ f.code # "ok") THEN "partly reset"
                            ELSE "fresh"
      <3>1. outcome \in Sayings
        BY DEF Sayings
      <3>2. DP!Shows(t, IF outcome = "fresh"
                 THEN [o EXCEPT !.resetting = FALSE, !.profile = Absent,
                                !.ephemeral = FALSE, !.said = outcome]
                 ELSE [o EXCEPT !.resetting = FALSE, !.said = outcome])
        BY <1>1, <1>6 DEF DP!FinishFreshGuest
      <3> HIDE DEF outcome
      <3>3. QED
        BY <3>1, <3>2 DEF DP!Shows
    <2>3. CASE outcome = "fresh"
      <3> DEFINE q == [o EXCEPT !.resetting = FALSE, !.profile = Absent,
                                !.ephemeral = FALSE, !.said = outcome]
      <3>1. q \in Accounts /\ q.status = o.status /\ q.profile = Absent /\ q.loaded = o.loaded
        BY <2>1, AccountTypes DEF Accounts
      <3>2. form' = [form EXCEPT ![t] = q]
        BY <2>2, <2>3
      <3> HIDE DEF q
      <3>3. AccountOK(q, s) /\ Mirrors(q, s)
        BY <1>4, <2>1, <3>1, AccountTypes DEF AccountOK, Mirrors
      <3>4. QED
        BY <1>3, <1>4, <1>5, <3>2, <3>3, FormStep DEF FormOK
    <2>4. CASE outcome # "fresh"
      <3> DEFINE q == [o EXCEPT !.resetting = FALSE, !.said = outcome]
      <3>1. /\ q \in Accounts /\ q.status = o.status /\ q.profile = o.profile
            /\ q.loaded = o.loaded /\ q.ephemeral = o.ephemeral /\ q.at = o.at
        BY <2>1 DEF Accounts
      <3>2. form' = [form EXCEPT ![t] = q]
        BY <2>2, <2>4
      <3> HIDE DEF q
      <3>3. AccountOK(q, s)
        BY <1>4, <2>1, <3>1, AccountTypes DEF AccountOK
      <3>4. Mirrored => Mirrors(q, s)
        BY <1>4, <2>1, <3>1, MirrorStays DEF Mirrored
      <3>5. QED
        BY <1>3, <1>4, <1>5, <3>2, <3>3, <3>4, FormStep DEF FormOK
    <2>5. QED
      BY <2>3, <2>4
  <1>7. CASE ~(DP!At(t, "account") /\ o.resetting)
    <2>1. form' = form
      BY <1>7 DEF DP!FinishFreshGuest
    <2>2. form' = [form EXCEPT ![t] = o]
      BY <2>1 DEF ProfileInv
    <2>3. o # None => FormOK(o, s) /\ (Mirrored => Mirrors(o, s))
      <3> SUFFICES ASSUME o # None PROVE FormOK(o, s) /\ (Mirrored => Mirrors(o, s))
        OBVIOUS
      <3>1. FormOK(o, s)
        BY <1>4 DEF ProfileInv, FormOK, AccountOK, SignInOK, CheckoutOK
      <3>2. Mirrored => Mirrors(o, s)
        BY <1>4, MirrorStays DEF Mirrored
      <3>3. QED
        BY <3>1, <3>2
    <2> HIDE DEF o
    <2>4. QED
      BY <1>3, <1>4, <1>5, <2>2, <2>3, FormStep
  <1>8. QED
    BY <1>6, <1>7

-----------------------------------------------------------------------------
(***************************************************************************)
(* The sign-in page.                                                       *)
(***************************************************************************)
LEMMA SignInTypes ==
  DP!SignInPages =
    [at : {"signin"}, status : {"ready", "error"}, code : Codes,
     profile : Chosen \union {Absent}]
  BY DEF DP!SignInPages, Codes, Chosen

LEMMA SignInAt ==
  ASSUME ProfileInv, NEW t \in FormTabs, DP!At(t, "signin")
  PROVE  SignInOK(form[t], store) /\ form[t] \in DP!SignInPages /\ form[t] # None
  BY AccountTypes DEF ProfileInv, FormOK, SignInOK, CheckoutOK, DP!At, DP!AccountPages,
                      DP!CheckoutPages, AccountOK

LEMMA SignInMirrors ==
  ASSUME NEW p \in DP!SignInPages, NEW s
  PROVE  Mirrors(p, s)
  BY DEF DP!SignInPages, Mirrors

LEMMA OpenPageStep ==
  ASSUME ProfileInv, NEW t \in FormTabs, NEW faults, DP!Open(t, faults)
  PROVE  Kept
  <1>1. UNCHANGED <<record, rotation>> /\ store \in Storages
    BY StoreNow DEF DP!Open
  <1>2. CASE DP!Result(t, DP!LoadAccount(DP!NewAccount, store, faults))
    <2>1. PICK r : r = DP!LoadAccount(DP!NewAccount, store, faults) /\ DP!Result(t, r)
      BY <1>2
    <2>2. /\ r.store \in Storages /\ (DP!Clean(store) => DP!Clean(r.store))
          /\ AccountOK(r.page, r.store) /\ Mirrors(r.page, r.store)
      BY <1>1, <2>1, AccountTypes, AccountLoaded
    <2>3. QED
      BY <1>1, <2>1, <2>2, ResultStep DEF FormOK
  <1>3. ASSUME NEW b, b = DP!LoadBoth(store, faults),
               DP!Result(t, [store |-> b.store,
                             page |-> [at |-> "signin", profile |-> b.value, code |-> b.code,
                                       status |-> IF b.code = "ok" THEN "ready" ELSE "error"]])
        PROVE  Kept
    <2> DEFINE q == [at |-> "signin", profile |-> b.value, code |-> b.code,
                     status |-> IF b.code = "ok" THEN "ready" ELSE "error"]
    <2>1. /\ b.store \in Storages /\ b.code \in Codes /\ (DP!Clean(store) => DP!Clean(b.store))
          /\ b.code = "ok" => DP!Clean(b.store)
          /\ b.value \in Chosen \union {Absent}
      BY <1>1, <1>3, BothLoaded
    <2>2. q \in DP!SignInPages /\ (q.status = "ready" => b.code = "ok")
      BY <2>1, SignInTypes
    <2>3. PICK r : r = [store |-> b.store, page |-> q] /\ DP!Result(t, r)
      BY <1>3
    <2> HIDE DEF q
    <2>4. SignInOK(q, b.store) /\ Mirrors(q, b.store)
      BY <2>1, <2>2, SignInMirrors DEF SignInOK
    <2>5. QED
      BY <1>1, <2>1, <2>3, <2>4, ResultStep DEF FormOK
  <1>4. QED
    BY <1>2, <1>3 DEF DP!Open

\* A sign-in page that shows what a store operation answered.
LEMMA SignInAnswers ==
  ASSUME ProfileInv, NEW t \in FormTabs, DP!At(t, "signin"), UNCHANGED <<record, rotation>>,
         NEW s \in Storages, DP!Clean(store) => DP!Clean(s), NEW code \in Codes,
         DP!Result(t, [store |-> s, page |-> [form[t] EXCEPT !.code = code]])
  PROVE  Kept
  <1> DEFINE q == [form[t] EXCEPT !.code = code]
  <1>1. SignInOK(form[t], store) /\ form[t] \in DP!SignInPages
    BY SignInAt
  <1>2. q \in DP!SignInPages /\ q.status = form[t].status
    BY <1>1, SignInTypes
  <1>3. PICK r : r = [store |-> s, page |-> q] /\ DP!Result(t, r)
    OBVIOUS
  <1> HIDE DEF q
  <1>4. SignInOK(q, s) /\ Mirrors(q, s)
    BY <1>1, <1>2, SignInMirrors DEF SignInOK
  <1>5. QED
    BY <1>3, <1>4, ResultStep DEF FormOK

LEMMA ReloadSignInStep ==
  ASSUME ProfileInv, NEW t \in FormTabs, NEW faults, NEW clear \in BOOLEAN,
         DP!ReloadSignIn(t, clear, faults)
  PROVE  Kept
  <1>1. DP!At(t, "signin") /\ UNCHANGED <<record, rotation>> /\ store \in Storages
    BY StoreNow DEF DP!ReloadSignIn, DP!ErrorAt
  <1>2. PICK f : f = DP!ForgetProfile(store, faults)
    OBVIOUS
  <1>3. /\ f.store \in Storages /\ (DP!Clean(store) => DP!Clean(f.store))
        /\ f.code \in {"ok", DP!Unavailable}
    BY <1>1, <1>2, ProfileForgotten, EmptiedClean DEF Emptied
  <1>4. PICK b : b = IF ~clear THEN DP!LoadBoth(store, faults)
                     ELSE IF f.code # "ok" THEN f ELSE DP!LoadBoth(f.store, faults)
    OBVIOUS
  <1>5. /\ b.store \in Storages /\ b.code \in Codes /\ (DP!Clean(store) => DP!Clean(b.store))
        /\ b.code = "ok" => DP!Clean(b.store) /\ b.value \in Chosen \union {Absent}
    <2>1. CASE ~clear
      BY <1>1, <1>4, <2>1, BothLoaded
    <2>2. CASE clear /\ f.code # "ok"
      BY <1>3, <1>4, <2>2 DEF Codes
    <2>3. CASE clear /\ f.code = "ok"
      BY <1>3, <1>4, <2>3, BothLoaded
    <2>4. QED
      BY <2>1, <2>2, <2>3
  <1>6. DP!Result(t, [store |-> b.store,
                      page |-> IF b.code = "ok"
                               THEN [form[t] EXCEPT !.status = "ready", !.code = "ok",
                                                    !.profile = b.value]
                               ELSE [form[t] EXCEPT !.code = b.code]])
    BY <1>2, <1>4 DEF DP!ReloadSignIn
  <1>7. CASE b.code = "ok"
    <2> DEFINE q == [form[t] EXCEPT !.status = "ready", !.code = "ok", !.profile = b.value]
    <2>1. form[t] \in DP!SignInPages
      BY <1>1, SignInAt
    <2>2. q \in DP!SignInPages
      BY <1>5, <1>7, <2>1, SignInTypes DEF Codes
    <2>3. PICK r : r = [store |-> b.store, page |-> q] /\ DP!Result(t, r)
      BY <1>6, <1>7
    <2> HIDE DEF q
    <2>4. SignInOK(q, b.store) /\ Mirrors(q, b.store)
      BY <1>5, <1>7, <2>2, SignInMirrors DEF SignInOK
    <2>5. QED
      BY <1>1, <1>5, <2>3, <2>4, ResultStep DEF FormOK
  <1>8. CASE b.code # "ok"
    <2>1. DP!Result(t, [store |-> b.store, page |-> [form[t] EXCEPT !.code = b.code]])
      BY <1>6, <1>8
    <2>2. QED
      BY <1>1, <1>5, <2>1, SignInAnswers
  <1>9. QED
    BY <1>7, <1>8

LEMMA SubmitProfileStep ==
  ASSUME ProfileInv, NEW t \in FormTabs, NEW faults, NEW n \in Names \union {BadName},
         NEW a \in Addresses, DP!SubmitProfile(t, n, a, faults)
  PROVE  Kept
  <1>1. DP!At(t, "signin") /\ UNCHANGED <<record, rotation>> /\ store \in Storages
    BY StoreNow DEF DP!SubmitProfile, DP!ReadyAt
  <1>2. PICK b : b = DP!SaveProfile(store, [name |-> n, address |-> a], faults)
    OBVIOUS
  <1>3. b.store \in Storages /\ b.code \in Codes /\ (DP!Clean(store) => DP!Clean(b.store))
    BY <1>1, <1>2, ProfileSaved
  <1>4. CASE b.code = "ok"
    <2>1. PICK r : r = [store |-> b.store, page |-> None] /\ DP!Result(t, r)
      BY <1>2, <1>4 DEF DP!SubmitProfile
    <2>2. QED
      BY <1>1, <1>3, <2>1, ResultStep
  <1>5. CASE b.code # "ok"
    <2>1. DP!Result(t, [store |-> b.store, page |-> [form[t] EXCEPT !.code = b.code]])
      BY <1>2, <1>5 DEF DP!SubmitProfile
    <2>2. QED
      BY <1>1, <1>3, <2>1, SignInAnswers
  <1>6. QED
    BY <1>4, <1>5

LEMMA ForgetSignInStep ==
  ASSUME ProfileInv, NEW t \in FormTabs, NEW faults, DP!ForgetSignIn(t, faults)
  PROVE  Kept
  <1>1. DP!At(t, "signin") /\ UNCHANGED <<record, rotation>> /\ store \in Storages
    BY StoreNow DEF DP!ForgetSignIn, DP!ReadyAt
  <1>2. PICK f : f = DP!ForgetProfile(store, faults)
    OBVIOUS
  <1>3. /\ f.store \in Storages /\ (DP!Clean(store) => DP!Clean(f.store)) /\ f.code \in Codes
    BY <1>1, <1>2, ProfileForgotten, EmptiedClean DEF Emptied, Codes
  <1>4. CASE f.code = "ok"
    <2> DEFINE q == [form[t] EXCEPT !.profile = Absent, !.code = "ok"]
    <2>1. SignInOK(form[t], store) /\ form[t] \in DP!SignInPages
      BY <1>1, SignInAt
    <2>2. q \in DP!SignInPages /\ q.status = form[t].status
      BY <2>1, SignInTypes DEF Codes
    <2>3. PICK r : r = [store |-> f.store, page |-> q] /\ DP!Result(t, r)
      BY <1>2, <1>4 DEF DP!ForgetSignIn
    <2> HIDE DEF q
    <2>4. SignInOK(q, f.store) /\ Mirrors(q, f.store)
      BY <1>3, <2>1, <2>2, SignInMirrors DEF SignInOK
    <2>5. QED
      BY <1>1, <1>3, <2>3, <2>4, ResultStep DEF FormOK
  <1>5. CASE f.code # "ok"
    <2>1. DP!Result(t, [store |-> f.store, page |-> [form[t] EXCEPT !.code = f.code]])
      BY <1>2, <1>5 DEF DP!ForgetSignIn
    <2>2. QED
      BY <1>1, <1>3, <2>1, SignInAnswers
  <1>6. QED
    BY <1>4, <1>5

LEMMA LeaveStep ==
  ASSUME ProfileInv, NEW t \in FormTabs, DP!Leave(t)
  PROVE  Kept
  <1>1. DP!Shows(t, None) /\ UNCHANGED <<store, record, rotation>>
    BY DEF DP!Leave
  <1>2. QED
    BY <1>1, ShowsStep DEF ProfileInv

-----------------------------------------------------------------------------
(***************************************************************************)
(* The checkout page's form.                                               *)
(***************************************************************************)
Details == DP!Details

LEMMA CheckoutTypes ==
  /\ DP!CheckoutPages =
       [at : {"checkout"}, state : {"idle", "submitting", "uncertain", "rejected"},
        code : Codes, available : BOOLEAN, listed : BOOLEAN, ephemeral : BOOLEAN,
        writable : BOOLEAN, recovery : Details \union {None}, inFlight : 0..2,
        details : Details, selected : Addresses \union {Custom}, deliberate : BOOLEAN,
        entered : Details \union {None}]
  /\ Details = [name : Names, address : Addresses \union {Custom}]
  /\ Chosen \subseteq Details /\ DP!DefaultProfile \in Chosen
  /\ \A d \in Details : d.address \in Addresses \union {Custom}
  <1>1. Details = [name : Names, address : Addresses \union {Custom}]
    BY DEF Details, DP!Details
  <1>2. DP!CheckoutPages =
         [at : {"checkout"}, state : {"idle", "submitting", "uncertain", "rejected"},
          code : Codes, available : BOOLEAN, listed : BOOLEAN, ephemeral : BOOLEAN,
          writable : BOOLEAN, recovery : Details \union {None}, inFlight : 0..2,
          details : Details, selected : Addresses \union {Custom}, deliberate : BOOLEAN,
          entered : Details \union {None}]
    BY DEF DP!CheckoutPages, Codes, Details
  <1>3. Chosen \subseteq Details /\ DP!DefaultProfile \in Chosen
    BY <1>1, StoreFacts DEF Chosen, DP!Profiles, DP!DefaultProfile
  <1>4. QED
    BY <1>1, <1>2, <1>3

LEMMA CheckoutAt ==
  ASSUME ProfileInv, NEW t \in FormTabs, DP!At(t, "checkout")
  PROVE  CheckoutOK(form[t], store) /\ form[t] \in DP!CheckoutPages /\ form[t] # None
  BY AccountTypes DEF ProfileInv, FormOK, SignInOK, CheckoutOK, DP!At, DP!AccountPages,
                      DP!SignInPages, AccountOK

LEMMA CheckoutMirrors ==
  ASSUME NEW p \in DP!CheckoutPages, NEW s
  PROVE  Mirrors(p, s)
  BY CheckoutTypes DEF Mirrors

\* The form a profile may fill, and the history that goes with it.
FormKept(p) ==
  /\ p \in DP!CheckoutPages
  /\ p.entered # None => p.deliberate /\ p.details = p.entered
  /\ p.state \in {"idle", "rejected"} => p.inFlight \in 0..1

LEMMA FilledForm ==
  ASSUME NEW p, FormKept(p), NEW profile \in Chosen \union {Absent}
  PROVE  /\ FormKept(DP!Fill(p, profile))
         /\ DP!Fill(p, profile).code = p.code /\ DP!Fill(p, profile).ephemeral = p.ephemeral
  <1>1. CASE profile = Absent \/ p.deliberate
    BY <1>1 DEF DP!Fill
  <1>2. CASE ~(profile = Absent \/ p.deliberate)
    <2> DEFINE q == [p EXCEPT !.details = profile, !.selected = profile.address]
    <2>1. DP!Fill(p, profile) = q
      BY <1>2 DEF DP!Fill, DP!Filled
    <2>2. profile \in Details /\ profile.address \in Addresses \union {Custom}
      BY <1>2, CheckoutTypes
    <2>3. /\ q \in DP!CheckoutPages /\ q.code = p.code /\ q.ephemeral = p.ephemeral
          /\ q.entered = p.entered /\ q.state = p.state /\ q.inFlight = p.inFlight
      BY <2>2, CheckoutTypes DEF FormKept
    <2> HIDE DEF q
    <2>4. QED
      BY <1>2, <2>1, <2>3 DEF FormKept
  <1>3. QED
    BY <1>1, <1>2

LEMMA CheckoutLoaded ==
  ASSUME NEW s \in Storages, NEW faults, NEW p, FormKept(p), NEW kept \in Details \union {None}
  PROVE  LET r == DP!LoadCheckout(p, kept, s, faults) IN
         /\ r.store \in Storages /\ (DP!Clean(s) => DP!Clean(r.store))
         /\ CheckoutOK(r.page, r.store)
  <1> DEFINE readable == <<"get", "record">> \notin faults
  <1>1. PICK stored : stored = IF readable THEN kept ELSE None
    OBVIOUS
  <1>2. PICK b : b = DP!GetProfile(s, faults)
    OBVIOUS
  <1>3. PICK a : a = DP!GetAddresses(b.store, faults)
    OBVIOUS
  <1>4. /\ Emptied(s, b.store) /\ b.code \in Codes
        /\ b.code = "ok" => /\ b.value \in Chosen \union {Absent}
                            /\ b.store["profile"] # Foreign
    BY <1>2, ProfileRead
  <1>5. /\ a.store \in Storages /\ a.code \in Codes /\ (DP!Clean(s) => DP!Clean(a.store))
        /\ b.code = "ok" /\ a.code = "ok" => DP!Clean(a.store)
    <2>1. b.store \in Storages /\ (DP!Clean(s) => DP!Clean(b.store))
      BY <1>4, EmptiedClean DEF Emptied
    <2>2. /\ a.store \in Storages /\ a.code \in Codes /\ (DP!Clean(b.store) => DP!Clean(a.store))
          /\ a.store["profile"] = b.store["profile"]
          /\ a.code = "ok" => /\ \A k \in DP!LegacyKeys : a.store[k] = Absent
                              /\ a.store["addresses"] # Foreign
      BY <1>3, <2>1, AddressesRead
    <2>3. QED
      BY <1>4, <2>1, <2>2 DEF DP!Clean
  <1>6. PICK code \in Codes : code = IF b.code # "ok" THEN b.code ELSE a.code
    BY <1>4, <1>5
  <1> DEFINE fresh == [p EXCEPT !.available = FALSE, !.ephemeral = FALSE, !.writable = readable,
                        !.listed = a.code = "ok", !.code = code]
  <1>7. /\ fresh \in DP!CheckoutPages /\ fresh.code = code /\ ~fresh.ephemeral
        /\ fresh.entered = p.entered /\ fresh.details = p.details
        /\ fresh.deliberate = p.deliberate /\ fresh.state = p.state
        /\ fresh.inFlight = p.inFlight
    <2> DEFINE m == [p EXCEPT !.available = FALSE, !.ephemeral = FALSE, !.code = code]
    <2>1. /\ m \in DP!CheckoutPages /\ m.code = code /\ ~m.ephemeral
          /\ m.entered = p.entered /\ m.details = p.details
          /\ m.deliberate = p.deliberate /\ m.state = p.state /\ m.inFlight = p.inFlight
      <3> DEFINE n == [p EXCEPT !.available = FALSE, !.ephemeral = FALSE]
      <3>1. p \in DP!CheckoutPages
        BY DEF FormKept
      <3>2. /\ n \in DP!CheckoutPages /\ n.ephemeral = FALSE
            /\ n.entered = p.entered /\ n.details = p.details
            /\ n.deliberate = p.deliberate /\ n.state = p.state /\ n.inFlight = p.inFlight
        BY <3>1, CheckoutTypes
      <3>3. m = [n EXCEPT !.code = code]
        BY <3>1, CheckoutTypes
      <3> HIDE DEF n, m
      <3>4. QED
        BY <3>2, <3>3, CheckoutTypes
    <2>2. \A w \in BOOLEAN, l \in BOOLEAN :
            /\ [p EXCEPT !.available = FALSE, !.ephemeral = FALSE, !.writable = w,
                         !.listed = l, !.code = code]
                 = [m EXCEPT !.writable = w, !.listed = l]
      BY CheckoutTypes DEF FormKept
    <2> HIDE DEF m
    <2>3. ASSUME NEW w \in BOOLEAN, NEW l \in BOOLEAN, NEW q,
                 q = [m EXCEPT !.writable = w, !.listed = l]
          PROVE  /\ q \in DP!CheckoutPages /\ q.code = code /\ ~q.ephemeral
                 /\ q.entered = p.entered /\ q.details = p.details
                 /\ q.deliberate = p.deliberate /\ q.state = p.state /\ q.inFlight = p.inFlight
      BY <2>1, <2>3, CheckoutTypes
    <2>4. readable \in BOOLEAN /\ (a.code = "ok") \in BOOLEAN
      OBVIOUS
    <2> HIDE DEF readable
    <2>5. fresh = [m EXCEPT !.writable = readable, !.listed = a.code = "ok"]
      BY <2>2, <2>4
    <2> HIDE DEF fresh
    <2>6. QED
      BY <2>3, <2>4, <2>5
  <1> DEFINE locked == IF stored = None THEN fresh
                       ELSE [fresh EXCEPT !.deliberate = TRUE, !.recovery = stored,
                               !.entered = stored, !.state = "uncertain", !.details = stored]
             shown == IF fresh.code # "ok" THEN locked
                      ELSE LET known == [locked EXCEPT !.available = b.value # Absent] IN
                           IF stored # None THEN [known EXCEPT !.selected = DP!Matching(stored)]
                           ELSE DP!Fill(known, b.value)
  <1>8. DP!LoadCheckout(p, kept, s, faults) = [store |-> a.store, page |-> shown]
    BY <1>1, <1>2, <1>3, <1>6 DEF DP!LoadCheckout
  <1> HIDE DEF fresh, readable
  <1>9. FormKept(fresh)
    BY <1>7 DEF FormKept
  <1>10. FormKept(locked) /\ locked.code = code /\ ~locked.ephemeral
    <2>1. CASE stored = None
      BY <1>7, <1>9, <2>1
    <2>2. CASE stored # None
      <3> DEFINE q == [fresh EXCEPT !.deliberate = TRUE, !.recovery = stored,
                               !.entered = stored, !.state = "uncertain", !.details = stored]
      <3>1. stored \in Details
        BY <1>1, <2>2
      <3>2. /\ q \in DP!CheckoutPages /\ q.code = code /\ ~q.ephemeral /\ q.entered = stored
            /\ q.details = stored /\ q.deliberate /\ q.state = "uncertain"
        BY <1>7, <3>1, CheckoutTypes
      <3> HIDE DEF q
      <3>3. FormKept(q)
        BY <3>2 DEF FormKept
      <3>4. locked = q
        BY <2>2 DEF q
      <3> HIDE DEF locked
      <3>5. QED
        BY <3>2, <3>3, <3>4
    <2>3. QED
      BY <2>1, <2>2
  <1> HIDE DEF locked
  <1>11. FormKept(shown) /\ shown.code = code /\ ~shown.ephemeral
    <2>1. CASE code # "ok"
      BY <1>7, <1>10, <2>1
    <2>2. CASE code = "ok"
      <3>0. PICK w \in BOOLEAN : w = (b.value # Absent)
        OBVIOUS
      <3> DEFINE known == [locked EXCEPT !.available = w]
      <3>1. /\ known \in DP!CheckoutPages /\ known.code = code /\ ~known.ephemeral
            /\ known.entered = locked.entered /\ known.details = locked.details
            /\ known.deliberate = locked.deliberate /\ known.state = locked.state
            /\ known.inFlight = locked.inFlight
        BY <1>10, CheckoutTypes DEF FormKept
      <3>2. shown = IF stored # None THEN [known EXCEPT !.selected = DP!Matching(stored)]
                   ELSE DP!Fill(known, b.value)
        BY <1>7, <2>2, <3>0
      <3> HIDE DEF known, shown
      <3>3. FormKept(known)
        BY <1>10, <3>1 DEF FormKept
      <3>4. CASE stored = None
        <4>1. b.value \in Chosen \union {Absent}
          BY <1>4, <1>6, <2>2
        <4>2. QED
          BY <3>1, <3>2, <3>3, <3>4, <4>1, FilledForm
      <3>5. CASE stored # None
        <4> DEFINE q == [known EXCEPT !.selected = DP!Matching(stored)]
        <4>1. stored \in Details /\ DP!Matching(stored) \in Addresses \union {Custom}
          BY <1>1, <3>5, CheckoutTypes DEF DP!Matching
        <4>2. /\ q \in DP!CheckoutPages /\ q.code = code /\ ~q.ephemeral
              /\ q.entered = known.entered /\ q.details = known.details
              /\ q.deliberate = known.deliberate /\ q.state = known.state
              /\ q.inFlight = known.inFlight
          BY <3>1, <4>1, CheckoutTypes
        <4>3. shown = q
          BY <3>2, <3>5
        <4> HIDE DEF q
        <4>4. QED
          BY <3>3, <4>2, <4>3 DEF FormKept
      <3>6. QED
        BY <3>4, <3>5
    <2>3. QED
      BY <2>1, <2>2
  <1> HIDE DEF shown
  <1>12. CheckoutOK(shown, a.store)
    BY <1>5, <1>6, <1>11 DEF CheckoutOK, FormKept
  <1>13. QED
    BY <1>5, <1>8, <1>12

LEMMA CheckoutKept ==
  ASSUME NEW p, NEW s, CheckoutOK(p, s)
  PROVE  FormKept(p) /\ FormOK(p, s) /\ Mirrors(p, s)
  BY CheckoutMirrors DEF CheckoutOK, FormKept, FormOK

LEMMA LoadCheckoutStep ==
  ASSUME ProfileInv, NEW t \in FormTabs, NEW faults, NEW p, FormKept(p), NEW s \in Storages,
         DP!Clean(store) => DP!Clean(s), UNCHANGED <<record, rotation>>,
         DP!Result(t, DP!LoadCheckout(p, record[t], s, faults))
  PROVE  Kept
  <1>1. record[t] \in Details \union {None}
    BY DEF ProfileInv, Details
  <1>2. PICK r : r = DP!LoadCheckout(p, record[t], s, faults) /\ DP!Result(t, r)
    OBVIOUS
  <1>3. r.store \in Storages /\ (DP!Clean(s) => DP!Clean(r.store)) /\ CheckoutOK(r.page, r.store)
    BY <1>1, <1>2, CheckoutLoaded
  <1>4. QED
    BY <1>2, <1>3, CheckoutKept, ResultStep

LEMMA OpenCheckoutStep ==
  ASSUME ProfileInv, NEW t \in FormTabs, NEW faults, DP!OpenCheckout(t, faults)
  PROVE  Kept
  <1> DEFINE p == DP!NewCheckout
  <1>1. /\ p \in DP!CheckoutPages /\ p.entered = None /\ p.inFlight = 0
    BY CheckoutTypes, StoreFacts DEF DP!NewCheckout, Codes
  <1>2. FormKept(p)
    BY <1>1 DEF FormKept
  <1> HIDE DEF p
  <1>3. DP!Result(t, DP!LoadCheckout(p, record[t], store, faults)) /\ UNCHANGED <<record, rotation>>
    BY DEF DP!OpenCheckout, p
  <1>4. QED
    BY <1>2, <1>3, StoreNow, LoadCheckoutStep

LEMMA RetryProfileStorageStep ==
  ASSUME ProfileInv, NEW t \in FormTabs, NEW faults, DP!RetryProfileStorage(t, faults)
  PROVE  Kept
  <1>1. /\ DP!At(t, "checkout") /\ UNCHANGED <<record, rotation>>
        /\ DP!Result(t, DP!LoadCheckout(form[t], record[t], store, faults))
    BY DEF DP!RetryProfileStorage, DP!PanelAt
  <1>2. QED
    BY <1>1, CheckoutAt, CheckoutKept, StoreNow, LoadCheckoutStep

LEMMA ClearInvalidProfileStorageStep ==
  ASSUME ProfileInv, NEW t \in FormTabs, NEW faults, DP!ClearInvalidProfileStorage(t, faults)
  PROVE  Kept
  <1>1. DP!At(t, "checkout") /\ form[t].code = DP!Invalid /\ UNCHANGED <<record, rotation>>
    BY DEF DP!ClearInvalidProfileStorage, DP!PanelAt
  <1>2. CheckoutOK(form[t], store) /\ form[t] \in DP!CheckoutPages /\ FormKept(form[t])
    BY <1>1, CheckoutAt, CheckoutKept
  <1>3. PICK f : f = DP!ForgetProfile(store, faults)
    OBVIOUS
  <1>4. /\ f.store \in Storages /\ (DP!Clean(store) => DP!Clean(f.store))
        /\ f.code \in {"ok", DP!Unavailable}
    BY <1>3, StoreNow, ProfileForgotten, EmptiedClean DEF Emptied
  <1>5. CASE f.code # "ok"
    <2> DEFINE q == [form[t] EXCEPT !.code = f.code]
    <2>1. /\ q \in DP!CheckoutPages /\ q.code = f.code /\ q.entered = form[t].entered
          /\ q.details = form[t].details /\ q.deliberate = form[t].deliberate
          /\ q.state = form[t].state /\ q.inFlight = form[t].inFlight
      BY <1>2, <1>4, CheckoutTypes DEF Codes
    <2>2. PICK r : r = [store |-> f.store, page |-> q] /\ DP!Result(t, r)
      BY <1>3, <1>5 DEF DP!ClearInvalidProfileStorage
    <2> HIDE DEF q
    <2>3. CheckoutOK(q, f.store)
      BY <1>2, <1>5, <2>1 DEF CheckoutOK
    <2>4. QED
      BY <1>1, <1>4, <2>2, <2>3, CheckoutKept, ResultStep
  <1>6. CASE f.code = "ok"
    <2>1. DP!Result(t, DP!LoadCheckout(form[t], record[t], f.store, faults))
      BY <1>3, <1>6 DEF DP!ClearInvalidProfileStorage
    <2>2. QED
      BY <1>1, <1>2, <1>4, <2>1, LoadCheckoutStep
  <1>7. QED
    BY <1>5, <1>6

\* A handler that changes the form only.
LEMMA FormOnly ==
  ASSUME ProfileInv, NEW t \in FormTabs, UNCHANGED <<store, record, rotation>>,
         NEW q, CheckoutOK(q, store), DP!Shows(t, q)
  PROVE  Kept
  <1>1. rotation' \in [FormTabs -> [ephemeral : BOOLEAN] \union {None}]
    BY DEF ProfileInv
  <1>2. QED
    BY <1>1, CheckoutKept, ShowsStep

\* A profile that is not stored fills the address of an untouched form, never a touched one.
LEMMA UseTemporaryProfileStep ==
  ASSUME ProfileInv, NEW t \in FormTabs, DP!UseTemporaryProfile(t)
  PROVE  Kept
  <1> DEFINE o == form[t]
             p == [o EXCEPT !.listed = TRUE, !.available = TRUE, !.code = "ok",
                            !.ephemeral = TRUE]
  <1>1. /\ DP!At(t, "checkout") /\ UNCHANGED <<store, record, rotation>>
        /\ DP!Shows(t, IF p.deliberate THEN [p EXCEPT !.selected = DP!Matching(p.details)]
                       ELSE DP!Filled(p, [p.details EXCEPT !.address = FirstAddress]))
    BY DEF DP!UseTemporaryProfile, DP!PanelAt
  <1>2. CheckoutOK(o, store) /\ o \in DP!CheckoutPages
    BY <1>1, CheckoutAt
  <1>3. /\ p \in DP!CheckoutPages /\ p.ephemeral /\ p.entered = o.entered
        /\ p.details = o.details /\ p.deliberate = o.deliberate
        /\ p.state = o.state /\ p.inFlight = o.inFlight
    BY <1>2, CheckoutTypes DEF Codes
  <1> HIDE DEF p
  <1>4. CASE p.deliberate
    <2> DEFINE q == [p EXCEPT !.selected = DP!Matching(p.details)]
    <2>1. DP!Matching(p.details) \in Addresses \union {Custom}
      BY <1>3, CheckoutTypes DEF DP!Matching
    <2>2. /\ q \in DP!CheckoutPages /\ q.ephemeral /\ q.entered = p.entered
          /\ q.details = p.details /\ q.deliberate = p.deliberate
          /\ q.state = p.state /\ q.inFlight = p.inFlight
      BY <1>3, <2>1, CheckoutTypes
    <2>3. DP!Shows(t, q)
      BY <1>1, <1>4
    <2> HIDE DEF q, o
    <2>4. CheckoutOK(q, store)
      BY <1>2, <1>3, <2>2 DEF CheckoutOK
    <2>5. QED
      BY <1>1, <2>3, <2>4, FormOnly
  <1>5. CASE ~p.deliberate
    <2> DEFINE d == [p.details EXCEPT !.address = FirstAddress]
               q == [p EXCEPT !.details = d, !.selected = d.address]
    <2>1. d \in Details /\ d.address \in Addresses
      BY <1>3, CheckoutTypes, StoreFacts
    <2>2. DP!Shows(t, q)
      BY <1>1, <1>5 DEF DP!Filled
    <2> HIDE DEF d
    <2>3. /\ q \in DP!CheckoutPages /\ q.ephemeral /\ q.entered = p.entered
          /\ q.deliberate = p.deliberate /\ q.state = p.state /\ q.inFlight = p.inFlight
      BY <1>3, <2>1, CheckoutTypes
    <2> HIDE DEF q, o
    <2>4. CheckoutOK(q, store)
      BY <1>2, <1>3, <1>5, <2>3 DEF CheckoutOK
    <2>5. QED
      BY <1>1, <2>2, <2>4, FormOnly
  <1>6. QED
    BY <1>4, <1>5

LEMMA EnteredForm ==
  ASSUME ProfileInv, NEW t \in FormTabs, DP!Editable(t), UNCHANGED <<store, record, rotation>>,
         NEW d \in Details, NEW a \in Addresses \union {Custom},
         DP!Shows(t, DP!Entered(form[t], d, a))
  PROVE  Kept
  <1> DEFINE o == form[t]
             q == DP!Entered(o, d, a)
             m == [o EXCEPT !.details = d, !.selected = a, !.deliberate = TRUE, !.entered = d]
             state == IF o.state = "rejected" THEN "idle" ELSE o.state
  <1>1. /\ CheckoutOK(o, store) /\ o \in DP!CheckoutPages
        /\ o.state \notin {"submitting", "uncertain"}
    BY CheckoutAt DEF DP!Editable
  <1>2. state \in {"idle", "rejected"} /\ o.state \in {"idle", "rejected"}
    BY <1>1, CheckoutTypes
  <1>3. /\ m \in DP!CheckoutPages /\ m.details = d /\ m.entered = d /\ m.deliberate
        /\ m.code = o.code /\ m.ephemeral = o.ephemeral /\ m.inFlight = o.inFlight
        /\ m.state = o.state
    BY <1>1, CheckoutTypes
  <1>4. q = [m EXCEPT !.state = state]
    BY <1>1, CheckoutTypes DEF DP!Entered
  <1> HIDE DEF m, state, q
  <1>5. /\ q \in DP!CheckoutPages /\ q.details = d /\ q.entered = d /\ q.deliberate
        /\ q.code = m.code /\ q.ephemeral = m.ephemeral /\ q.inFlight = m.inFlight
    BY <1>2, <1>3, <1>4, CheckoutTypes
  <1>6. CheckoutOK(q, store)
    BY <1>1, <1>2, <1>3, <1>5 DEF CheckoutOK
  <1>7. QED
    BY <1>6, FormOnly DEF q

LEMMA UpdateDetailsStep ==
  ASSUME ProfileInv, NEW t \in FormTabs, DP!UpdateDetails(t)
  PROVE  Kept
  <1>1. /\ DP!Editable(t) /\ UNCHANGED <<store, record, rotation>>
        /\ form[t].details \in Details /\ form[t].selected \in Addresses \union {Custom}
    BY CheckoutAt, CheckoutTypes DEF DP!UpdateDetails, DP!Editable
  <1>2. ASSUME NEW n \in Names,
               DP!Shows(t, DP!Entered(form[t], [form[t].details EXCEPT !.name = n],
                                      form[t].selected))
        PROVE  Kept
    <2>1. [form[t].details EXCEPT !.name = n] \in Details
      BY <1>1, CheckoutTypes
    <2>2. QED
      BY <1>1, <1>2, <2>1, EnteredForm
  <1>3. ASSUME NEW a \in Addresses \union {Custom},
               DP!Shows(t, DP!Entered(form[t], [form[t].details EXCEPT !.address = a], Custom))
        PROVE  Kept
    <2>1. [form[t].details EXCEPT !.address = a] \in Details
      BY <1>1, CheckoutTypes
    <2>2. QED
      BY <1>1, <1>3, <2>1, EnteredForm
  <1>4. QED
    BY <1>2, <1>3 DEF DP!UpdateDetails

LEMMA SelectAddressStep ==
  ASSUME ProfileInv, NEW t \in FormTabs, NEW a \in Addresses, DP!SelectAddress(t, a)
  PROVE  Kept
  <1>1. /\ DP!Editable(t) /\ UNCHANGED <<store, record, rotation>>
        /\ form[t].details \in Details
        /\ DP!Shows(t, DP!Entered(form[t], [form[t].details EXCEPT !.address = a], a))
    BY CheckoutAt, CheckoutTypes DEF DP!SelectAddress, DP!Editable
  <1>2. [form[t].details EXCEPT !.address = a] \in Details
    BY <1>1, CheckoutTypes
  <1>3. QED
    BY <1>1, <1>2, EnteredForm

\* A submission, or its end: only the state, the record and the count change.
LEMMA SubmissionStep ==
  ASSUME ProfileInv, NEW t \in FormTabs, DP!At(t, "checkout"), UNCHANGED <<store, rotation>>,
         record' \in [FormTabs -> Details \union {None}],
         NEW q \in DP!CheckoutPages, DP!Shows(t, q), q.code = form[t].code,
         q.ephemeral = form[t].ephemeral, q.entered = form[t].entered,
         q.details = form[t].details, q.deliberate = form[t].deliberate,
         q.state \in {"idle", "rejected"} => q.inFlight \in 0..1
  PROVE  Kept
  <1>1. CheckoutOK(form[t], store) /\ store \in Storages /\ form' = [form EXCEPT ![t] = q]
    BY CheckoutAt, StoreNow DEF DP!Shows
  <1>2. CheckoutOK(q, store)
    BY <1>1 DEF CheckoutOK
  <1>3. rotation' \in [FormTabs -> [ephemeral : BOOLEAN] \union {None}]
    BY DEF ProfileInv
  <1>4. QED
    BY <1>1, <1>2, <1>3, CheckoutKept, FormStep DEF Details

LEMMA SubmittedForm ==
  ASSUME NEW p \in DP!CheckoutPages, p.inFlight \in 0..1
  PROVE  LET q == DP!Submitted(p) IN
         /\ q \in DP!CheckoutPages /\ q.code = p.code /\ q.ephemeral = p.ephemeral
         /\ q.entered = p.entered /\ q.details = p.details /\ q.deliberate = p.deliberate
         /\ q.state = "submitting"
  <1>1. p.inFlight + 1 \in 0..2
    OBVIOUS
  <1>2. DP!Submitted(p) = [p EXCEPT !.state = "submitting", !.inFlight = p.inFlight + 1]
    BY DEF DP!Submitted
  <1>3. QED
    BY <1>1, <1>2, CheckoutTypes

LEMMA PlaceOrderStep ==
  ASSUME ProfileInv, NEW t \in FormTabs, NEW faults, DP!PlaceOrder(t, faults)
  PROVE  Kept
  <1> DEFINE o == form[t]
  <1>1. /\ DP!At(t, "checkout") /\ UNCHANGED <<store, rotation>>
        /\ o.state \notin {"submitting", "uncertain"}
    BY DEF DP!PlaceOrder, DP!Editable
  <1>2. CheckoutOK(o, store) /\ o \in DP!CheckoutPages
    BY <1>1, CheckoutAt
  <1>3. o.state \in {"idle", "rejected"} /\ o.inFlight \in 0..1 /\ o.details \in Details
    BY <1>1, <1>2, CheckoutTypes DEF CheckoutOK
  <1>4. CASE <<"set", "record">> \in faults
    <2> DEFINE q == [o EXCEPT !.state = "rejected"]
    <2>1. DP!Shows(t, q) /\ record' = record
      BY <1>4 DEF DP!PlaceOrder
    <2>2. /\ q \in DP!CheckoutPages /\ q.code = o.code /\ q.ephemeral = o.ephemeral
          /\ q.entered = o.entered /\ q.details = o.details /\ q.deliberate = o.deliberate
          /\ q.inFlight = o.inFlight
      BY <1>2, CheckoutTypes
    <2>3. record' \in [FormTabs -> Details \union {None}]
      BY <2>1 DEF ProfileInv, Details
    <2> HIDE DEF q
    <2>4. QED
      BY <1>1, <1>3, <2>1, <2>2, <2>3, SubmissionStep
  <1>5. CASE <<"set", "record">> \notin faults
    <2> DEFINE p == [o EXCEPT !.recovery = o.details]
               q == DP!Submitted(p)
    <2>1. DP!Shows(t, q) /\ record' = [record EXCEPT ![t] = o.details]
      BY <1>5 DEF DP!PlaceOrder
    <2>2. /\ p \in DP!CheckoutPages /\ p.code = o.code /\ p.ephemeral = o.ephemeral
          /\ p.entered = o.entered /\ p.details = o.details /\ p.deliberate = o.deliberate
          /\ p.inFlight = o.inFlight
      BY <1>2, <1>3, CheckoutTypes
    <2> HIDE DEF p
    <2>3. /\ q \in DP!CheckoutPages /\ q.code = o.code /\ q.ephemeral = o.ephemeral
          /\ q.entered = o.entered /\ q.details = o.details /\ q.deliberate = o.deliberate
          /\ q.state = "submitting"
      BY <1>3, <2>2, SubmittedForm
    <2>4. record' \in [FormTabs -> Details \union {None}]
      BY <1>3, <2>1 DEF ProfileInv, Details
    <2> HIDE DEF q
    <2>5. QED
      BY <1>1, <2>1, <2>3, <2>4, SubmissionStep
  <1>6. QED
    BY <1>4, <1>5

LEMMA RetryUncertainOrderStep ==
  ASSUME ProfileInv, NEW t \in FormTabs, DP!RetryUncertainOrder(t)
  PROVE  Kept
  <1> DEFINE q == DP!Submitted(form[t])
  <1>1. /\ DP!At(t, "checkout") /\ form[t].inFlight < 2 /\ DP!Shows(t, q)
        /\ UNCHANGED <<store, record, rotation>>
    BY DEF DP!RetryUncertainOrder
  <1>2. form[t] \in DP!CheckoutPages
    BY <1>1, CheckoutAt
  <1>3. form[t].inFlight \in 0..1
    BY <1>1, <1>2, CheckoutTypes
  <1>4. /\ q \in DP!CheckoutPages /\ q.code = form[t].code /\ q.ephemeral = form[t].ephemeral
        /\ q.entered = form[t].entered /\ q.details = form[t].details
        /\ q.deliberate = form[t].deliberate /\ q.state = "submitting"
    BY <1>2, <1>3, SubmittedForm
  <1>5. record' \in [FormTabs -> Details \union {None}]
    BY <1>1 DEF ProfileInv, Details
  <1> HIDE DEF q
  <1>6. QED
    BY <1>1, <1>4, <1>5, SubmissionStep

LEMMA ResolveSubmissionStep ==
  ASSUME ProfileInv, NEW t \in FormTabs, NEW faults, DP!ResolveSubmission(t, faults)
  PROVE  Kept
  <1> DEFINE o == form[t]
             p == [o EXCEPT !.inFlight = o.inFlight - 1]
  <1>1. /\ DP!At(t, "checkout") /\ o.inFlight > 0 /\ UNCHANGED <<store, rotation>>
        /\ \/ DP!Shows(t, None)
           \/ DP!Shows(t, [p EXCEPT !.state = "uncertain"])
           \/ DP!Shows(t, [p EXCEPT !.state = "rejected", !.recovery = None])
    BY DEF DP!ResolveSubmission
  <1>2. record' \in [FormTabs -> Details \union {None}]
    <2>1. record' = record \/ record' = [record EXCEPT ![t] = None]
      BY DEF DP!ResolveSubmission
    <2>2. QED
      BY <2>1 DEF ProfileInv, Details
  <1>3. o \in DP!CheckoutPages /\ store \in Storages
    BY <1>1, CheckoutAt, StoreNow
  <1>4. o.inFlight - 1 \in 0..1
    BY <1>1, <1>3, CheckoutTypes
  <1>5. /\ p \in DP!CheckoutPages /\ p.code = o.code /\ p.ephemeral = o.ephemeral
        /\ p.entered = o.entered /\ p.details = o.details /\ p.deliberate = o.deliberate
        /\ p.inFlight \in 0..1
    BY <1>3, <1>4, CheckoutTypes
  <1> HIDE DEF p
  <1>6. CASE DP!Shows(t, None)
    <2>1. form' = [form EXCEPT ![t] = None]
      BY <1>6 DEF DP!Shows
    <2>2. rotation' \in [FormTabs -> [ephemeral : BOOLEAN] \union {None}]
      BY <1>1 DEF ProfileInv
    <2>3. QED
      BY <1>1, <1>2, <1>3, <2>1, <2>2, FormStep DEF Details
  <1>7. CASE DP!Shows(t, [p EXCEPT !.state = "uncertain"])
    <2> DEFINE q == [p EXCEPT !.state = "uncertain"]
    <2>1. /\ q \in DP!CheckoutPages /\ q.code = p.code /\ q.ephemeral = p.ephemeral
          /\ q.entered = p.entered /\ q.details = p.details /\ q.deliberate = p.deliberate
          /\ q.inFlight = p.inFlight
      BY <1>5, CheckoutTypes
    <2>2. DP!Shows(t, q)
      BY <1>7
    <2> HIDE DEF q
    <2>3. QED
      BY <1>1, <1>2, <1>5, <2>1, <2>2, SubmissionStep
  <1>8. CASE DP!Shows(t, [p EXCEPT !.state = "rejected", !.recovery = None])
    <2> DEFINE q == [p EXCEPT !.state = "rejected", !.recovery = None]
    <2>1. /\ q \in DP!CheckoutPages /\ q.code = p.code /\ q.ephemeral = p.ephemeral
          /\ q.entered = p.entered /\ q.details = p.details /\ q.deliberate = p.deliberate
          /\ q.inFlight = p.inFlight
      BY <1>5, CheckoutTypes
    <2>2. DP!Shows(t, q)
      BY <1>8
    <2> HIDE DEF q
    <2>3. QED
      BY <1>1, <1>2, <1>5, <2>1, <2>2, SubmissionStep
  <1>9. QED
    BY <1>1, <1>6, <1>7, <1>8

-----------------------------------------------------------------------------
LEMMA ProfileInit == DP!Init => ProfileInv /\ Mirrored
  <1> SUFFICES ASSUME DP!Init PROVE ProfileInv /\ Mirrored
    OBVIOUS
  <1>1. /\ store \in Storages /\ record \in [FormTabs -> {None} \union DP!Details]
        /\ form = [t \in FormTabs |-> None] /\ rotation = [t \in FormTabs |-> None]
    BY StoreFacts DEF DP!Init
  <1>2. QED
    BY <1>1 DEF ProfileInv, Mirrored

LEMMA ProfileStep ==
  ASSUME ProfileInv, DP!Next
  PROVE  Kept
  <1>1. PICK t \in FormTabs :
          \/ \E faults \in Faults :
               \/ DP!Open(t, faults) \/ DP!Account(t, faults)
               \/ DP!SignIn(t, faults) \/ DP!Checkout(t, faults)
          \/ DP!Leave(t)
    BY DEF DP!Next
  <1>2. ASSUME NEW faults \in Faults, DP!Open(t, faults)
        PROVE  Kept
    BY <1>2, OpenPageStep
  <1>3. ASSUME NEW faults \in Faults, DP!Account(t, faults)
        PROVE  Kept
    BY <1>3, RetryAccountStep, ClearAccountStep, TemporaryAccountStep, SaveDisplayNameStep,
       MakeDefaultAddressStep, ForgetAccountStep, StartFreshGuestStep, FinishFreshGuestStep
    DEF DP!Account
  <1>4. ASSUME NEW faults \in Faults, DP!SignIn(t, faults)
        PROVE  Kept
    BY <1>4, ReloadSignInStep, SubmitProfileStep, ForgetSignInStep DEF DP!SignIn
  <1>5. ASSUME NEW faults \in Faults, DP!Checkout(t, faults)
        PROVE  Kept
    BY <1>5, OpenCheckoutStep, RetryProfileStorageStep, ClearInvalidProfileStorageStep,
       UseTemporaryProfileStep, UpdateDetailsStep, SelectAddressStep, PlaceOrderStep,
       RetryUncertainOrderStep, ResolveSubmissionStep
    DEF DP!Checkout
  <1>6. CASE DP!Leave(t)
    BY <1>6, LeaveStep
  <1>7. QED
    BY <1>1, <1>2, <1>3, <1>4, <1>5, <1>6

LEMMA ProfileUnchanged == ProfileInv /\ UNCHANGED DP!vars => Kept
  BY DEF ProfileInv, Mirrored, Kept, DP!vars

LEMMA ProfileHolds == DP!Spec => []ProfileInv
  <1>1. ProfileInv /\ [DP!Next]_(DP!vars) => ProfileInv'
    BY ProfileStep, ProfileUnchanged DEF Kept
  <1>2. QED
    BY <1>1, ProfileInit, PTL DEF DP!Spec

\* The variables of the profile pages keep their types: with any number of tabs, whatever
\* throws, no handler leaves a page or a store that the next one cannot read.
THEOREM ProfileTypes == DP!Spec => []DP!TypeOK
  <1>1. ProfileInv => DP!TypeOK
    BY DEF ProfileInv, DP!TypeOK, Storages, Forms
  <1>2. QED
    BY <1>1, ProfileHolds, PTL

\* "Apply selected/default address only before deliberate user input": the form keeps what
\* was entered last, or what an unresolved order was made from, in any number of tabs.
THEOREM InputIsKept == DP!Spec => []DeliberateInputKept
  <1>1. ProfileInv => DeliberateInputKept
    BY CheckoutAt DEF DeliberateInputKept, DP!DeliberateInputKept, CheckoutOK
  <1>2. QED
    BY <1>1, ProfileHolds, PTL

LEMMA NothingIsLeft == ProfileInv => DP!NothingLeftBehind /\ DP!ErrorsCanBeLeft
  <1> SUFFICES ASSUME ProfileInv PROVE DP!NothingLeftBehind /\ DP!ErrorsCanBeLeft
    OBVIOUS
  <1>1. ASSUME NEW t \in FormTabs, form[t] # None, DP!Loaded(form[t])
        PROVE  DP!Clean(store)
    <2>1. FormOK(form[t], store)
      BY <1>1 DEF ProfileInv
    <2>2. CASE AccountOK(form[t], store)
      BY <1>1, <2>2 DEF AccountOK, DP!Loaded, DP!AccountPages
    <2>3. CASE SignInOK(form[t], store)
      BY <1>1, <2>3 DEF SignInOK, DP!Loaded, DP!SignInPages
    <2>4. CASE CheckoutOK(form[t], store)
      BY <1>1, <2>4 DEF CheckoutOK, DP!Loaded, DP!CheckoutPages
    <2>5. QED
      BY <2>1, <2>2, <2>3, <2>4 DEF FormOK
  <1>2. QED
    BY <1>1, AnyStoreRecovers, StoreNow DEF DP!NothingLeftBehind, DP!ErrorsCanBeLeft

\* Nothing of the retired sign-in and no rejected record is left while a page works on the
\* stored profile, and every error page can be left once storage works (docs/ST03), in any
\* number of tabs that share the storage.
THEOREM StorageIsClean == DP!Spec => [](DP!NothingLeftBehind /\ DP!ErrorsCanBeLeft)
  BY NothingIsLeft, ProfileHolds, PTL

\* With one tab the account page moreover shows no profile but the stored one.  A second
\* tab may write another profile behind it.
THEOREM ProfileStaysHonest ==
  ASSUME SingleTab
  PROVE  DP!Spec => []ProfileIsHonest
  <1>1. DP!Init => ProfileInv /\ Mirrored
    BY ProfileInit
  <1>2. ProfileInv /\ Mirrored /\ [DP!Next]_(DP!vars) => (ProfileInv /\ Mirrored)'
    BY ProfileStep, ProfileUnchanged DEF Kept
  <1>3. ProfileInv /\ Mirrored => ProfileIsHonest
    BY NothingIsLeft
    DEF ProfileIsHonest, DP!NoOtherProfileShown, DP!At, Mirrored, Mirrors, Chosen
  <1>4. QED
    BY <1>1, <1>2, <1>3, PTL DEF DP!Spec

-----------------------------------------------------------------------------
\* Basket pages, guest session and profile keep their types whatever the constants are,
\* and nobody waits for a bootstrap that is over.
THEOREM BrowserTypes == Spec /\ GS!Spec /\ DP!Spec => []TypesOK
  BY BasketTypes, SessionTypes, ProfileTypes, PTL DEF TypesOK
=============================================================================
