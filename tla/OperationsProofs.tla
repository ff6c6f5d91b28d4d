--------------------------- MODULE OperationsProofs ---------------------------
(***************************************************************************)
(* Proofs of what the parts around the checkout promise, each for any      *)
(* values of its constants.                                                *)
(***************************************************************************)
EXTENDS Operations, FiniteSetTheorems, WellFoundedInduction, TLAPS

(***************************************************************************)
(* The gateway.  Whether a request may have been carried out can be read   *)
(* off how far the service is, and a status that a page takes for a        *)
(* refusal is only there when it was not.                                  *)
(***************************************************************************)
RefusingStatus == {400, 401, 404, 409, 422}

Honest(e) ==
  /\ e \in GW!Exchanges
  /\ e.page = "settled" <=> e.kind # None
  /\ e.page = "idle" => e.gate = "idle" /\ e.applied = 0 /\ e.attempt = 0
  /\ e.gate \in {"idle", "reached"} => e.service = "idle" /\ e.status = None
  /\ e.gate = "awaiting" => e.status = None /\ e.service \in {"asked", "carriedOut"}
  /\ e.service \in {"idle", "asked"} => e.applied = 0
  /\ e.applied \in {0, 1}
  /\ e.status \in RefusingStatus => e.applied = 0 /\ e.service \in {"idle", "done"}
  /\ e.page = "again" => e.status = 401 /\ e.attempt = 1
  /\ e.gate # "idle" => e.asked \in GW!Asked
  /\ e.kind \in {"validation", "session", "conflict"} => e.status \in RefusingStatus

GatewayInv ==
  /\ configured \in BOOLEAN
  /\ exchange \in [Requests -> GW!Exchanges]
  /\ \A r \in Requests : Honest(exchange[r])

LEMMA GatewayStep ==
  ASSUME GatewayInv, NEW r \in Requests, NEW new, Honest(new), GW!Step(r, new)
  PROVE  GatewayInv'
  BY DEF GatewayInv, GW!Step, Honest

LEMMA NoneIsNoStatus ==
  /\ None \notin Nat
  /\ None \notin {"ok", "network", "server", "session", "validation", "conflict"}
  /\ \A s \in RefusingStatus : s \in Nat
  BY OperationsAssumption DEF GW!GatewayConstants, RefusingStatus

LEMMA AnsweredType ==
  ASSUME NEW e \in GW!Exchanges, NEW s \in Nat
  PROVE  GW!Answered(e, s) \in GW!Exchanges
  <1> DEFINE H == SUBSET GW!SAFE_RESPONSE_HEADERS
             h == {"content-type"}
  <1>1. h \in H
    BY DEF GW!SAFE_RESPONSE_HEADERS
  <1>2. GW!Answered(e, s) = [e EXCEPT !.gate = "over", !.status = s, !.headers = h]
    BY DEF GW!Answered
  <1> HIDE DEF h
  <1>3. QED
    BY <1>1, <1>2 DEF GW!Exchanges

LEMMA RelayedType ==
  ASSUME NEW e \in GW!Exchanges, NEW s \in Nat, NEW h \in SUBSET GW!SAFE_RESPONSE_HEADERS
  PROVE  [e EXCEPT !.gate = "relaying", !.service = "done", !.status = s, !.headers = h]
           \in GW!Exchanges
  BY DEF GW!Exchanges

LEMMA AnsweredHonestly ==
  ASSUME NEW e, Honest(e), e.gate \in {"reached", "awaiting"},
         NEW s \in Nat, s \in RefusingStatus => e.service = "idle"
  PROVE  Honest(GW!Answered(e, s))
  <1> DEFINE new == GW!Answered(e, s)
  <1>1. /\ e \in GW!Exchanges /\ e.status = None
        /\ e.page # "again" /\ e.kind \notin {"validation", "session", "conflict"}
    BY NoneIsNoStatus DEF Honest, RefusingStatus
  <1>2. new \in GW!Exchanges
    BY <1>1, AnsweredType
  <1>3. /\ new.page = e.page /\ new.kind = e.kind /\ new.applied = e.applied
        /\ new.service = e.service /\ new.status = s /\ new.gate = "over"
        /\ new.asked = e.asked /\ new.attempt = e.attempt
    BY <1>1 DEF GW!Answered, GW!Exchanges
  <1>4. Honest(new)
    <2> HIDE DEF new
    <2>1. QED
      BY <1>1, <1>2, <1>3 DEF Honest
  <1>5. QED
    BY <1>4

\* A request that is sent, or sent again, is a new one.
LEMMA FetchedHonestly ==
  ASSUME NEW e \in GW!Exchanges, e.applied = 0, e.attempt \in {0, 1}, NEW q \in GW!Asked
  PROVE  Honest(GW!Fetch(q, e))
  <1> DEFINE u == GW!Unsent
             new == [u EXCEPT !.asked = q, !.attempt = e.attempt + 1, !.page = "waiting",
                              !.gate = "reached", !.applied = e.applied]
  <1>1. /\ u \in GW!Exchanges
        /\ u.service = "idle" /\ u.status = None /\ u.kind = None
    BY DEF GW!Unsent, GW!Exchanges
  <1>2. e.attempt + 1 \in 0 .. 2 /\ e.applied \in Nat
    OBVIOUS
  <1>3. GW!Fetch(q, e) = new
    BY DEF GW!Fetch
  <1> HIDE DEF u
  <1>4. new \in GW!Exchanges
    BY <1>1, <1>2 DEF GW!Exchanges
  <1>5. /\ new.page = "waiting" /\ new.gate = "reached" /\ new.service = "idle"
        /\ new.status = None /\ new.kind = None /\ new.applied = 0 /\ new.asked = q
    BY <1>1 DEF GW!Exchanges
  <1> HIDE DEF new
  <1>6. Honest(new)
    BY <1>4, <1>5, NoneIsNoStatus DEF Honest
  <1>7. QED
    BY <1>3, <1>6

\* A page that stops waiting calls refused what has a refusing status.
LEMMA SettledHonestly ==
  ASSUME NEW e, Honest(e),
         NEW kind \in {"ok", "network", "server", "session", "validation", "conflict"},
         kind \in {"session", "validation", "conflict"} => e.status \in RefusingStatus
  PROVE  Honest(GW!Settled(e, kind))
  <1> DEFINE new == GW!Settled(e, kind)
  <1>0. e \in GW!Exchanges
    BY DEF Honest
  <1>1. new \in GW!Exchanges
    BY <1>0 DEF GW!Settled, GW!Exchanges
  <1>2. /\ new.page = "settled" /\ new.kind = kind /\ new.applied = e.applied
        /\ new.service = e.service /\ new.status = e.status /\ new.gate = e.gate
        /\ new.asked = e.asked /\ new.attempt = e.attempt
    BY <1>0 DEF GW!Settled, GW!Exchanges
  <1>3. Honest(new)
    <2> HIDE DEF new
    <2>1. QED
      BY <1>1, <1>2, NoneIsNoStatus DEF Honest
  <1>4. QED
    BY <1>3

LEMMA PageStepsHonest ==
  ASSUME GatewayInv, NEW r \in Requests,
         \/ \E q \in GW!Asked : GW!Send(r, q)
         \/ GW!PageTimer(r) \/ GW!PageHead(r) \/ GW!Bootstrap(r) \/ GW!PageBody(r)
  PROVE  GatewayInv'
  <1> DEFINE e == exchange[r]
  <1>0. Honest(e) /\ e \in GW!Exchanges
    BY DEF GatewayInv
  <1>1. ASSUME NEW q \in GW!Asked, GW!Send(r, q) PROVE GatewayInv'
    <2>1. e.applied = 0 /\ e.attempt \in {0, 1} /\ GW!Step(r, GW!Fetch(q, e))
      BY <1>0, <1>1 DEF GW!Send, Honest
    <2>2. QED
      BY <1>0, <2>1, FetchedHonestly, GatewayStep
  <1>2. CASE GW!PageTimer(r)
    <2>1. GW!Step(r, GW!Settled(e, "network"))
      BY <1>2 DEF GW!PageTimer
    <2>2. QED
      BY <1>0, <2>1, SettledHonestly, GatewayStep
  <1>3. CASE GW!PageHead(r)
    <2>1. PICK to \in {"again", "reading"} :
            /\ GW!Step(r, [e EXCEPT !.page = to])
            /\ to = "again" => e.status = 401 /\ e.attempt = 1
            /\ e.page = "waiting"
      BY <1>3 DEF GW!PageHead, GW!AsksAgain
    <2> DEFINE new == [e EXCEPT !.page = to]
    <2>2. new \in GW!Exchanges
      BY <1>0 DEF GW!Exchanges
    <2>3. /\ new.page = to /\ new.kind = e.kind /\ new.applied = e.applied
          /\ new.service = e.service /\ new.status = e.status /\ new.gate = e.gate
          /\ new.asked = e.asked /\ new.attempt = e.attempt
      BY <1>0 DEF GW!Exchanges
    <2>4. Honest(new)
      <3> HIDE DEF new
      <3>1. QED
        BY <1>0, <2>1, <2>2, <2>3 DEF Honest
    <2>5. QED
      BY <2>1, <2>4, GatewayStep
  <1>4. CASE GW!Bootstrap(r)
    <2>1. /\ e.applied = 0 /\ e.attempt = 1 /\ e.asked \in GW!Asked
          /\ e.page = "again"
      BY <1>0, <1>4, NoneIsNoStatus DEF GW!Bootstrap, Honest, RefusingStatus
    <2>2. CASE GW!Step(r, GW!Fetch(e.asked, e))
      BY <1>0, <2>1, <2>2, FetchedHonestly, GatewayStep
    <2>3. ASSUME NEW kind \in {"network", "server"}, GW!Step(r, GW!Settled(e, kind))
          PROVE  GatewayInv'
      BY <1>0, <2>3, SettledHonestly, GatewayStep
    <2>4. QED
      BY <1>4, <2>2, <2>3 DEF GW!Bootstrap
  <1>5. CASE GW!PageBody(r)
    <2>1. PICK kind \in {"ok", "network", "server", "session", "validation", "conflict"} :
            /\ kind \in {"session", "validation", "conflict"} => e.status \in RefusingStatus
            /\ GW!Step(r, GW!Settled(e, kind))
      BY <1>5 DEF GW!PageBody, GW!errorKind, RefusingStatus
    <2>2. QED
      BY <1>0, <2>1, SettledHonestly, GatewayStep
  <1>6. QED
    BY <1>1, <1>2, <1>3, <1>4, <1>5

\* A step of the service or the gateway that changes only how far they are.
LEMMA MovedHonestly ==
  ASSUME NEW e, Honest(e), NEW new \in GW!Exchanges,
         new.page = e.page, new.kind = e.kind, new.asked = e.asked, new.attempt = e.attempt,
         e.status = None,
         new.gate \in {"awaiting", "relaying", "over"}, e.gate # "idle",
         new.gate = "awaiting" => new.status = None /\ new.service \in {"asked", "carriedOut"},
         new.service \in {"idle", "asked"} => new.applied = 0,
         new.applied \in {0, 1},
         new.status \in RefusingStatus => new.applied = 0 /\ new.service \in {"idle", "done"}
  PROVE  Honest(new)
  BY NoneIsNoStatus DEF Honest, RefusingStatus

LEMMA GateStepsHonest ==
  ASSUME GatewayInv, NEW r \in Requests,
         GW!Proxy(r) \/ GW!GateTimer(r) \/ GW!RelayBody(r) \/ GW!CarryOut(r) \/ GW!Reply(r)
  PROVE  GatewayInv'
  <1> DEFINE e == exchange[r]
  <1>0. Honest(e) /\ e \in GW!Exchanges
    BY DEF GatewayInv
  <1>1. CASE GW!Proxy(r)
    <2>0. /\ e.status = None /\ e.service = "idle" /\ e.asked \in GW!Asked /\ e.gate = "reached"
          /\ e.page # "again" /\ e.applied = 0
      BY <1>0, <1>1, NoneIsNoStatus DEF GW!Proxy, Honest
    <2>1. CASE GW!Refusal(e.asked) # None
      <3>1. GW!Refusal(e.asked) \in Nat
        BY <2>0, <2>1 DEF GW!Refusal, GW!Asked
      <3>2. GW!Step(r, GW!Answered(e, GW!Refusal(e.asked)))
        BY <1>1, <2>1 DEF GW!Proxy
      <3>3. QED
        BY <1>0, <2>0, <3>1, <3>2, AnsweredHonestly, GatewayStep
    <2>2. CASE GW!Refusal(e.asked) = None
      <3> DEFINE new == [e EXCEPT !.gate = "awaiting", !.service = "asked"]
      <3>1. new \in GW!Exchanges
        BY <1>0 DEF GW!Exchanges
      <3>2. /\ new.page = e.page /\ new.kind = e.kind /\ new.applied = e.applied
            /\ new.service = "asked" /\ new.status = e.status /\ new.gate = "awaiting"
            /\ new.asked = e.asked /\ new.attempt = e.attempt
        BY <1>0 DEF GW!Exchanges
      <3>3. GW!Step(r, new)
        BY <1>1, <2>2 DEF GW!Proxy
      <3> HIDE DEF new
      <3>4. Honest(new)
        BY <1>0, <2>0, <3>1, <3>2, MovedHonestly, NoneIsNoStatus
      <3>5. QED
        BY <3>3, <3>4, GatewayStep
    <2>3. QED
      BY <2>1, <2>2
  <1>2. CASE GW!GateTimer(r)
    <2>1. PICK s \in {502, 504} : GW!Step(r, GW!Answered(e, s))
      BY <1>2 DEF GW!GateTimer
    <2>2. e.gate = "awaiting" /\ e.page # "again" /\ s \in Nat /\ s \notin RefusingStatus
      BY <1>0, <1>2, NoneIsNoStatus DEF GW!GateTimer, Honest, RefusingStatus
    <2>3. QED
      BY <1>0, <2>1, <2>2, AnsweredHonestly, GatewayStep
  <1>3. CASE GW!RelayBody(r)
    <2> DEFINE new == [e EXCEPT !.gate = "relayed"]
    <2>1. new \in GW!Exchanges
      BY <1>0 DEF GW!Exchanges
    <2>2. /\ new.page = e.page /\ new.kind = e.kind /\ new.applied = e.applied
          /\ new.service = e.service /\ new.status = e.status /\ new.gate = "relayed"
          /\ new.asked = e.asked /\ new.attempt = e.attempt
      BY <1>0 DEF GW!Exchanges
    <2>3. GW!Step(r, new) /\ e.gate = "relaying"
      BY <1>3 DEF GW!RelayBody
    <2> HIDE DEF new
    <2>4. Honest(new)
      BY <1>0, <2>1, <2>2, <2>3 DEF Honest
    <2>5. QED
      BY <2>3, <2>4, GatewayStep
  <1>4. CASE GW!CarryOut(r)
    <2> DEFINE new == [e EXCEPT !.service = "carriedOut", !.applied = 1]
    <2>0. e.service = "asked" /\ e.applied = 0
      BY <1>0, <1>4 DEF GW!CarryOut, Honest
    <2>a. e.applied + 1 = 1
      BY <2>0
    <2>b. GW!Step(r, [e EXCEPT !.service = "carriedOut", !.applied = e.applied + 1])
      BY <1>4 DEF GW!CarryOut
    <2>c. GW!Step(r, new)
      BY <2>a, <2>b, Zenon
    <2>1. new \in GW!Exchanges
      BY <1>0 DEF GW!Exchanges
    <2>2. /\ new.page = e.page /\ new.kind = e.kind /\ new.applied = 1
          /\ new.service = "carriedOut" /\ new.status = e.status /\ new.gate = e.gate
          /\ new.asked = e.asked /\ new.attempt = e.attempt
      BY <1>0, <2>0 DEF GW!Exchanges
    <2> HIDE DEF new
    <2>3. Honest(new)
      BY <1>0, <2>0, <2>1, <2>2 DEF Honest
    <2>4. QED
      BY <2>c, <2>3, GatewayStep
  <1>5. CASE GW!Reply(r)
    <2>1. PICK s \in {200, 302, 401, 409, 422, 429, 500} :
            /\ GW!Relay(r, s) /\ e.gate = "awaiting"
            /\ s \in {200, 500} \/ e.service = "asked"
      BY <1>5 DEF GW!Reply
    <2>2. /\ e.status = None /\ e.applied \in {0, 1}
          /\ e.service = "asked" => e.applied = 0
          /\ s \in Nat
      BY <1>0, <2>1 DEF Honest
    <2>3. CASE s \in 300 .. 399
      <3> DEFINE mid == GW!Answered(e, 502)
                 new == [mid EXCEPT !.service = "done"]
      <3>1. GW!Step(r, new)
        BY <2>1, <2>3 DEF GW!Relay
      <3>2. mid \in GW!Exchanges
        BY <1>0, AnsweredType
      <3>3. /\ mid.page = e.page /\ mid.kind = e.kind /\ mid.applied = e.applied
            /\ mid.status = 502 /\ mid.gate = "over"
            /\ mid.asked = e.asked /\ mid.attempt = e.attempt
        BY <1>0 DEF GW!Answered, GW!Exchanges
      <3> HIDE DEF mid
      <3>4. /\ new \in GW!Exchanges
            /\ new.page = mid.page /\ new.kind = mid.kind /\ new.applied = mid.applied
            /\ new.service = "done" /\ new.status = mid.status /\ new.gate = mid.gate
            /\ new.asked = mid.asked /\ new.attempt = mid.attempt
        BY <3>2 DEF GW!Exchanges
      <3> HIDE DEF new
      <3>5. Honest(new)
        BY <1>0, <2>1, <2>2, <3>3, <3>4, MovedHonestly DEF RefusingStatus
      <3>6. QED
        BY <3>1, <3>5, GatewayStep
    <2>4. CASE s \notin 300 .. 399
      <3> DEFINE h == GW!ServiceHeaders(s) \intersect GW!SAFE_RESPONSE_HEADERS
                 new == [e EXCEPT !.gate = "relaying", !.service = "done", !.status = s,
                                  !.headers = h]
      <3>1. GW!Step(r, new)
        BY <2>1, <2>4 DEF GW!Relay
      <3>h. h \in SUBSET GW!SAFE_RESPONSE_HEADERS
        OBVIOUS
      <3> HIDE DEF h
      <3>2. new \in GW!Exchanges
        <4>1. s \in Nat
          BY <2>2
        <4> HIDE DEF e
        <4>2. QED
          BY <1>0, <4>1, <3>h, RelayedType
      <3>3. /\ new.page = e.page /\ new.kind = e.kind /\ new.applied = e.applied
            /\ new.service = "done" /\ new.status = s /\ new.gate = "relaying"
            /\ new.asked = e.asked /\ new.attempt = e.attempt
        BY <1>0 DEF GW!Exchanges
      <3> HIDE DEF new
      <3>4. Honest(new)
        BY <1>0, <2>1, <2>2, <3>2, <3>3, MovedHonestly DEF RefusingStatus
      <3>5. QED
        BY <3>1, <3>4, GatewayStep
    <2>5. QED
      BY <2>3, <2>4
  <1>6. QED
    BY <1>1, <1>2, <1>3, <1>4, <1>5

LEMMA GatewayInvariant ==
  /\ GW!Init => GatewayInv
  /\ GatewayInv /\ [GW!Next]_(GW!vars) => GatewayInv'
  <1>1. GW!Init => GatewayInv
    <2> SUFFICES ASSUME GW!Init PROVE GatewayInv
      OBVIOUS
    <2>1. GW!Unsent \in GW!Exchanges
      BY DEF GW!Unsent, GW!Exchanges
    <2>2. Honest(GW!Unsent)
      BY <2>1, NoneIsNoStatus DEF Honest, GW!Unsent
    <2>3. configured \in BOOLEAN
      BY DEF GW!Init
    <2>4. QED
      BY <2>1, <2>2, <2>3 DEF GW!Init, GatewayInv
  <1>2. GatewayInv /\ [GW!Next]_(GW!vars) => GatewayInv'
    <2> SUFFICES ASSUME GatewayInv, [GW!Next]_(GW!vars) PROVE GatewayInv'
      OBVIOUS
    <2>1. CASE UNCHANGED GW!vars
      BY <2>1 DEF GW!vars, GatewayInv
    <2>2. CASE GW!Next
      BY <2>2, PageStepsHonest, GateStepsHonest DEF GW!Next
    <2>3. QED
      BY <2>1, <2>2
  <1>3. QED
    BY <1>1, <1>2

\* A refusal that the gateway or the service gives is never for something that was, or
\* will be, carried out, and the resend after a 401 does nothing twice.
THEOREM GatewayDoesNotLie == GW!Spec => []GatewayIsHonest
  <1>1. GatewayInv => GatewayIsHonest
    BY DEF GatewayInv, Honest, GatewayIsHonest, GW!RefusedMeansNotDone, GW!DoneAtMostOnce
  <1>2. QED
    BY GatewayInvariant, <1>1, PTL DEF GW!Spec

-----------------------------------------------------------------------------
(***************************************************************************)
(* The retention job.  A batch that came out short took every guest that   *)
(* was expired and unlocked, so once it is committed nothing is owed.      *)
(***************************************************************************)
RetentionTypes ==
  /\ session \in [Retained -> {"live", "expired", "gone"}]
  /\ checkout \in [Retained -> {"none", "authenticated", "holds"}]
  /\ rowLock \in [Retained -> Jobs \union {Checkout, None}]
  /\ job \in [Jobs -> [pc : {"idle", "select", "delete", "complete", "capped", "failed"},
                       batches : Int, failures : Int]]
  /\ owed \in [Jobs -> SUBSET Retained]

\* A row is locked by the checkout that holds it, or by the run whose batch it is in.
LocksAreHeld ==
  /\ \A g \in Retained : rowLock[g] = Checkout <=> checkout[g] = "holds"
  /\ \A g \in Retained : checkout[g] = "holds" => session[g] # "gone"
  /\ \A j \in Jobs : \A g \in Retained :
       rowLock[g] = j => job[j].pc = "delete" /\ session[g] = "expired"

\* A short batch has all that is still owed, and a complete run owes nothing.
Drains(j) ==
  /\ \A g \in owed[j] : session[g] # "live"
  /\ job[j].pc = "delete" /\ Cardinality(GR!Taken(j)) < Batch =>
       \A g \in owed[j] : session[g] = "gone" \/ rowLock[g] = j
  /\ job[j].pc = "complete" => \A g \in owed[j] : session[g] = "gone"

ShortBatchIsLast == \A j \in Jobs : Drains(j)

RetentionInv == RetentionTypes /\ LocksAreHeld /\ ShortBatchIsLast

\* An instance has operators of its own for what its module takes from the library.
LEMMA SameCardinality ==
  ASSUME NEW S
  PROVE  /\ GR!Cardinality(S) = Cardinality(S)
         /\ GR!IsFiniteSet(S) <=> IsFiniteSet(S)
  BY DEF GR!Cardinality, Cardinality, GR!IsFiniteSet, IsFiniteSet

\* The first n of a set are all of it when they are fewer than n.
LEMMA FewerThanAskedIsAll ==
  ASSUME NEW gs, gs \subseteq Nat, IsFiniteSet(gs), NEW n \in Nat,
         Cardinality(GR!First(n, gs)) < n
  PROVE  GR!First(n, gs) = gs
  <1> DEFINE first == GR!First(n, gs)
             rest == gs \ first
  <1>1. first \subseteq gs
    BY DEF GR!First
  <1>2. SUFFICES ASSUME rest # {} PROVE FALSE
    BY <1>1
  <1>3. PICK m \in rest : \A y \in rest : ~(<<y, m>> \in OpToRel(<, Nat))
    BY <1>2, NatLessThanWellFounded, WFMin, rest \subseteq Nat
  <1> DEFINE below == {h \in gs : h < m}
  <1>4. m \in Nat /\ \A y \in rest : ~(y < m)
    BY <1>3 DEF OpToRel
  <1>5. below \subseteq first
    BY <1>4
  <1>6. /\ IsFiniteSet(first) /\ Cardinality(first) \in Nat
        /\ IsFiniteSet(below) /\ Cardinality(below) \in Nat
        /\ Cardinality(below) <= Cardinality(first)
    <2>1. IsFiniteSet(first)
      BY <1>1, FS_Subset
    <2>2. IsFiniteSet(below) /\ Cardinality(below) <= Cardinality(first)
      BY <2>1, <1>5, FS_Subset
    <2>3. QED
      BY <2>1, <2>2, FS_CardinalityType
  <1>7. Cardinality(below) < n
    BY <1>6
  <1>8. m \in first
    BY <1>3, <1>7, SameCardinality DEF GR!First
  <1>9. QED
    BY <1>3, <1>8

LEMMA LockOwners ==
  /\ Checkout \notin Jobs /\ None \notin Jobs /\ None # Checkout
  /\ Batch \in Nat \ {0} /\ Retained \subseteq Nat /\ IsFiniteSet(Retained)
  BY OperationsAssumption, SameCardinality DEF GR!RetentionConstants

LEMMA RetentionInit == GR!Init => RetentionInv
  BY LockOwners DEF GR!Init, RetentionInv, RetentionTypes, LocksAreHeld, ShortBatchIsLast, Drains

\* What a step leaves alone of every run's batch it leaves of the invariant.
LEMMA OtherRunsKeep ==
  ASSUME RetentionInv, NEW j \in Jobs,
         owed'[j] = owed[j], job'[j] = job[j],
         \A g \in Retained : rowLock'[g] = j <=> rowLock[g] = j,
         \A g \in Retained : /\ session[g] # "live" => session'[g] # "live"
                             /\ session[g] = "gone" => session'[g] = "gone"
  PROVE  Drains(j)'
  <1>1. owed[j] \subseteq Retained
    BY DEF RetentionInv, RetentionTypes
  <1>2. GR!Taken(j)' = GR!Taken(j)
    BY DEF GR!Taken
  <1>3. QED
    BY <1>1, <1>2 DEF RetentionInv, ShortBatchIsLast, Drains

LEMMA GuestStepsKeep ==
  ASSUME RetentionInv, NEW g \in Retained,
         GR!Expire(g) \/ GR!Authenticate(g) \/ GR!LockForCheckout(g) \/ GR!EndCheckout(g)
  PROVE  RetentionInv'
  <1> USE LockOwners
  <1>0. RetentionTypes /\ LocksAreHeld /\ ShortBatchIsLast
    BY DEF RetentionInv
  <1>1. RetentionTypes'
    BY <1>0 DEF RetentionTypes, GR!Expire, GR!Authenticate, GR!LockForCheckout, GR!EndCheckout
  <1>2. /\ job' = job /\ owed' = owed
        /\ \A j \in Jobs : \A h \in Retained : rowLock'[h] = j <=> rowLock[h] = j
        /\ \A h \in Retained : /\ session[h] # "live" => session'[h] = session[h]
                               /\ session'[h] = "gone" => session[h] = "gone"
    BY <1>0 DEF RetentionTypes, GR!Expire, GR!Authenticate, GR!LockForCheckout, GR!EndCheckout
  <1>3. LocksAreHeld'
    BY <1>0, <1>1, <1>2 DEF RetentionTypes, LocksAreHeld,
       GR!Expire, GR!Authenticate, GR!LockForCheckout, GR!EndCheckout
  <1>4. ShortBatchIsLast'
    BY <1>2, OtherRunsKeep DEF ShortBatchIsLast
  <1>5. QED
    BY <1>1, <1>3, <1>4 DEF RetentionInv

\* A run's new state, by the fields a step sets.
LEMMA RunMoves ==
  ASSUME NEW P, NEW k \in [pc : P, batches : Int, failures : Int],
         NEW Q, NEW p \in Q, NEW n \in Int
  PROVE  /\ [k EXCEPT !.pc = p, !.batches = n] \in [pc : Q, batches : Int, failures : Int]
         /\ [k EXCEPT !.pc = p, !.batches = n].pc = p
         /\ [k EXCEPT !.pc = p, !.failures = n] \in [pc : Q, batches : Int, failures : Int]
         /\ [k EXCEPT !.pc = p, !.failures = n].pc = p
  OBVIOUS

\* A run that starts, or starts over, owes what has expired and holds no row.
LEMMA BeginOrNextDayKeeps ==
  ASSUME RetentionInv, NEW j \in Jobs, GR!Begin(j) \/ GR!NextDay(j)
  PROVE  RetentionInv'
  <1> USE LockOwners
  <1>0. RetentionTypes /\ LocksAreHeld /\ ShortBatchIsLast
    BY DEF RetentionInv
  <1>1. /\ UNCHANGED <<session, checkout, rowLock>>
        /\ job[j].pc # "delete"
    BY DEF GR!Begin, GR!NextDay
  <1>2. PICK new \in [pc : {"select", "idle"}, batches : Int, failures : Int],
             rows \in SUBSET Retained :
          /\ job' = [job EXCEPT ![j] = new]
          /\ owed' = [owed EXCEPT ![j] = rows]
          /\ \A g \in rows : session[g] = "expired"
    <2>0. job[j] \in [pc : {"idle", "select", "delete", "complete", "capped", "failed"},
                      batches : Int, failures : Int]
      BY <1>0 DEF RetentionTypes
    <2>1. CASE GR!Begin(j)
      <3> DEFINE new == [job[j] EXCEPT !.pc = "select", !.batches = job[j].batches]
      <3>1. new \in [pc : {"select", "idle"}, batches : Int, failures : Int]
        <4>1. job[j].batches \in Int
          BY <2>0
        <4>2. QED
          BY <2>0, <4>1, RunMoves
      <3>2. new = [job[j] EXCEPT !.pc = "select"]
        BY <2>0
      <3>3. job' = [job EXCEPT ![j] = new]
        BY <2>1, <3>2, Zenon DEF GR!Begin
      <3>4. GR!Expired \in SUBSET Retained /\ \A g \in GR!Expired : session[g] = "expired"
        BY DEF GR!Expired
      <3>5. owed' = [owed EXCEPT ![j] = GR!Expired]
        BY <2>1 DEF GR!Begin
      <3> HIDE DEF new
      <3>6. QED
        BY <3>1, <3>3, <3>4, <3>5
    <2>2. CASE GR!NextDay(j)
      <3> DEFINE new == [job[j] EXCEPT !.pc = "idle", !.batches = 0]
      <3>1. new \in [pc : {"select", "idle"}, batches : Int, failures : Int]
        <4>1. "idle" \in {"select", "idle"} /\ 0 \in Int
          OBVIOUS
        <4>2. QED
          BY <2>0, <4>1, RunMoves
      <3>2. job' = [job EXCEPT ![j] = new] /\ owed' = [owed EXCEPT ![j] = {}]
        BY <2>2 DEF GR!NextDay
      <3>3. {} \in SUBSET Retained
        OBVIOUS
      <3> HIDE DEF new
      <3>4. QED
        BY <3>1, <3>2, <3>3, Zenon
    <2>3. QED
      BY <2>1, <2>2
  <1>3. RetentionTypes'
    BY <1>0, <1>1, <1>2 DEF RetentionTypes
  <1>4. /\ job'[j].pc \in {"select", "idle"} /\ owed'[j] = rows
        /\ \A i \in Jobs : i # j => job'[i] = job[i] /\ owed'[i] = owed[i]
    BY <1>0, <1>2 DEF RetentionTypes
  <1>5. LocksAreHeld'
    BY <1>0, <1>1, <1>4 DEF LocksAreHeld
  <1>6. ShortBatchIsLast'
    <2> SUFFICES ASSUME NEW i \in Jobs PROVE Drains(i)'
      BY DEF ShortBatchIsLast
    <2>1. CASE i = j
      BY <1>1, <1>2, <1>4, <2>1 DEF Drains
    <2>2. CASE i # j
      BY <1>1, <1>4, <2>2, OtherRunsKeep
    <2>3. QED
      BY <2>1, <2>2
  <1>7. QED
    BY <1>3, <1>5, <1>6 DEF RetentionInv

\* A short selection has every expired row that is not locked.
LEMMA SelectKeeps ==
  ASSUME RetentionInv, NEW j \in Jobs, GR!Select(j)
  PROVE  RetentionInv'
  <1> USE LockOwners
  <1>0. RetentionTypes /\ LocksAreHeld /\ ShortBatchIsLast
    BY DEF RetentionInv
  <1> DEFINE free == {g \in GR!Expired : rowLock[g] = None}
             rows == GR!First(Batch, free)
             stuck == {g \in GR!Expired : rowLock[g] # None}
  <1>1. /\ rows \subseteq free /\ free \subseteq Retained
        /\ \A g \in free : session[g] = "expired" /\ rowLock[g] = None
    BY DEF GR!First, GR!Expired
  <1>2. /\ job[j].pc = "select"
        /\ rowLock' = [g \in Retained |-> IF g \in rows THEN j ELSE rowLock[g]]
        /\ job' = [job EXCEPT ![j].pc = "delete"]
        /\ owed' = [owed EXCEPT ![j] = owed[j] \ stuck]
        /\ session' = session /\ checkout' = checkout
    BY <1>0 DEF GR!Select, GR!Selected, RetentionTypes
  <1>3. Cardinality(rows) < Batch => rows = free
    <2>1. free \subseteq Nat /\ IsFiniteSet(free)
      BY <1>1, FS_Subset
    <2>2. QED
      BY <2>1, FewerThanAskedIsAll
  <1>4. \A g \in Retained : session[g] = "expired" /\ rowLock[g] = None => g \in free
    BY DEF GR!Expired
  <1>5. \A g \in Retained : session[g] = "expired" /\ rowLock[g] # None => g \in stuck
    BY DEF GR!Expired
  <1> HIDE DEF free, rows, stuck
  <1>6. RetentionTypes'
    BY <1>0, <1>2 DEF RetentionTypes
  <1>7. /\ job'[j].pc = "delete" /\ owed'[j] = owed[j] \ stuck
        /\ \A i \in Jobs : i # j => job'[i] = job[i] /\ owed'[i] = owed[i]
    BY <1>0, <1>2 DEF RetentionTypes
  <1>8. \A g \in Retained : rowLock[g] # j
    BY <1>0, <1>2 DEF LocksAreHeld
  <1>9. LocksAreHeld'
    BY <1>0, <1>1, <1>2, <1>7 DEF LocksAreHeld
  <1>10. ShortBatchIsLast'
    <2> SUFFICES ASSUME NEW i \in Jobs PROVE Drains(i)'
      BY DEF ShortBatchIsLast
    <2>1. CASE i = j
      <3>1. GR!Taken(j)' = rows
        BY <1>1, <1>2, <1>8 DEF GR!Taken
      <3>2. \A g \in owed[j] : g \in Retained /\ session[g] \in {"expired", "gone"}
        BY <1>0 DEF ShortBatchIsLast, Drains, RetentionTypes
      <3>3. QED
        BY <1>2, <1>3, <1>4, <1>5, <1>7, <2>1, <3>1, <3>2 DEF Drains
    <2>2. CASE i # j
      <3>1. \A g \in Retained : rowLock'[g] = i <=> rowLock[g] = i
        BY <1>1, <1>2, <2>2
      <3>2. QED
        BY <1>2, <1>7, <2>2, <3>1, OtherRunsKeep
    <2>3. QED
      BY <2>1, <2>2
  <1>11. QED
    BY <1>6, <1>9, <1>10 DEF RetentionInv

\* A batch that is committed or rolled back leaves no row locked by its run.
LEMMA CommitOrFailKeeps ==
  ASSUME RetentionInv, NEW j \in Jobs, GR!Commit(j) \/ GR!Fail(j)
  PROVE  RetentionInv'
  <1> USE LockOwners
  <1>0. RetentionTypes /\ LocksAreHeld /\ ShortBatchIsLast
    BY DEF RetentionInv
  <1>1. /\ rowLock' = [g \in Retained |-> IF rowLock[g] = j THEN None ELSE rowLock[g]]
        /\ checkout' = checkout /\ owed' = owed
    BY DEF GR!Commit, GR!Fail, GR!Released
  <1>2. PICK new \in [pc : {"select", "complete", "capped", "failed"},
                      batches : Int, failures : Int] :
          /\ job' = [job EXCEPT ![j] = new]
          /\ new.pc = "complete" => GR!Commit(j) /\ Cardinality(GR!Taken(j)) < Batch
    <2>0. job[j] \in [pc : {"idle", "select", "delete", "complete", "capped", "failed"},
                      batches : Int, failures : Int]
      BY <1>0 DEF RetentionTypes
    <2>1. CASE GR!Commit(j)
      <3> DEFINE new == [job[j] EXCEPT !.pc = GR!NextStep(j), !.batches = job[j].batches + 1]
      <3>1. /\ GR!NextStep(j) \in {"select", "complete", "capped"}
            /\ GR!NextStep(j) = "complete" => Cardinality(GR!Taken(j)) < Batch
        BY SameCardinality DEF GR!NextStep
      <3>2. new \in [pc : {"select", "complete", "capped", "failed"},
                     batches : Int, failures : Int] /\ new.pc = GR!NextStep(j)
        <4>1. job[j].batches + 1 \in Int
          BY <2>0
        <4>2. GR!NextStep(j) \in {"select", "complete", "capped", "failed"}
          BY <3>1
        <4>3. QED
          BY <2>0, <4>1, <4>2, RunMoves
      <3>3. job' = [job EXCEPT ![j] = new]
        BY <2>1 DEF GR!Commit
      <3>4. QED
        BY <2>1, <3>1, <3>2, <3>3
    <2>2. CASE GR!Fail(j)
      <3> DEFINE new == [job[j] EXCEPT !.pc = "failed", !.failures = job[j].failures + 1]
      <3>1. new \in [pc : {"select", "complete", "capped", "failed"},
                     batches : Int, failures : Int] /\ new.pc = "failed"
        <4>1. job[j].failures + 1 \in Int
          BY <2>0
        <4>2. QED
          BY <2>0, <4>1, RunMoves
      <3>2. job' = [job EXCEPT ![j] = new]
        BY <2>2 DEF GR!Fail
      <3>3. QED
        BY <3>1, <3>2
    <2>3. QED
      BY <2>1, <2>2
  <1>3. /\ session' \in [Retained -> {"live", "expired", "gone"}]
        /\ \A g \in Retained :
             session'[g] = session[g] \/ (rowLock[g] = j /\ session'[g] = "gone")
        /\ GR!Commit(j) => job[j].pc = "delete"
                           /\ \A g \in Retained : rowLock[g] = j => session'[g] = "gone"
    BY <1>0 DEF GR!Commit, GR!Fail, GR!Taken, RetentionTypes
  <1>4. RetentionTypes'
    BY <1>0, <1>1, <1>2, <1>3 DEF RetentionTypes
  <1>5. /\ job'[j].pc = new.pc
        /\ \A i \in Jobs : i # j => job'[i] = job[i] /\ owed'[i] = owed[i]
    BY <1>0, <1>1, <1>2 DEF RetentionTypes
  <1>6. LocksAreHeld'
    BY <1>0, <1>1, <1>3, <1>5 DEF LocksAreHeld, RetentionTypes
  <1>7. ShortBatchIsLast'
    <2> SUFFICES ASSUME NEW i \in Jobs PROVE Drains(i)'
      BY DEF ShortBatchIsLast
    <2>1. CASE i = j
      <3>1. \A g \in owed[j] : g \in Retained /\ session[g] # "live"
        BY <1>0 DEF ShortBatchIsLast, Drains, RetentionTypes
      <3>2. \A g \in owed[j] : session'[g] # "live"
        BY <1>3, <3>1
      <3>3. ASSUME new.pc = "complete" PROVE \A g \in owed[j] : session'[g] = "gone"
        <4>1. \A g \in owed[j] : session[g] = "gone" \/ rowLock[g] = j
          BY <1>0, <1>2, <1>3, <3>3 DEF ShortBatchIsLast, Drains
        <4>2. QED
          BY <1>2, <1>3, <3>1, <3>3, <4>1
      <3>4. new.pc # "delete"
        BY <1>2
      <3>5. QED
        BY <1>1, <1>5, <2>1, <3>2, <3>3, <3>4 DEF Drains
    <2>2. CASE i # j
      <3>1. \A g \in Retained : rowLock'[g] = i <=> rowLock[g] = i
        BY <1>1, <2>2
      <3>2. QED
        BY <1>3, <1>5, <2>2, <3>1, OtherRunsKeep
    <2>3. QED
      BY <2>1, <2>2
  <1>8. QED
    BY <1>4, <1>6, <1>7 DEF RetentionInv

LEMMA RetentionInvariant == RetentionInv /\ [GR!Next]_(GR!vars) => RetentionInv'
  <1> SUFFICES ASSUME RetentionInv, [GR!Next]_(GR!vars) PROVE RetentionInv'
    OBVIOUS
  <1>1. CASE UNCHANGED GR!vars
    BY <1>1 DEF GR!vars, RetentionInv, RetentionTypes, LocksAreHeld, ShortBatchIsLast, Drains,
       GR!Taken
  <1>2. CASE GR!Next
    BY <1>2, GuestStepsKeep, BeginOrNextDayKeeps, SelectKeeps, CommitOrFailKeeps
    DEF GR!Next, GR!CheckoutStep, GR!JobStep
  <1>3. QED
    BY <1>1, <1>2

\* A run that reports completion leaves none of the expired guests it did not meet
\* locked, and no guest is deleted under the checkout that holds its row.
THEOREM RetentionIsComplete == GR!Spec => []CompleteMeansDrained
  <1>1. RetentionInv => CompleteMeansDrained
    BY DEF RetentionInv, LocksAreHeld, ShortBatchIsLast, Drains, CompleteMeansDrained,
       GR!CompleteMeansDrained, GR!LockedGuestSurvives
  <1>2. QED
    BY RetentionInit, RetentionInvariant, <1>1, PTL DEF GR!Spec

-----------------------------------------------------------------------------
(***************************************************************************)
(* The readers of receipts.  A request is made for the page's address and  *)
(* numbered, so the answer a page takes notice of is to its own address,   *)
(* and as no id is drawn twice that answer is one receipt or none.         *)
(***************************************************************************)
IsRequest(q) ==
  /\ q = [number |-> q.number, id |-> q.id, answer |-> q.answer]
  /\ q.number \in 1 .. asked

IsPage(p) ==
  /\ p = [id |-> p.id, view |-> p.view, shown |-> p.shown, request |-> p.request,
          of |-> p.of, known |-> p.known]
  /\ p.request \in 1 .. asked

\* What is shown under an id: its receipt, or nothing.
Names(id, status, rows) ==
  IF status = "success" THEN Len(rows) = 1 /\ Head(rows).id = id ELSE rows = <<>>

IdsAreDrawnOnce ==
  /\ \A r \in receipts : r.id \in drawn
  /\ \A r, s \in receipts : r.id = s.id => r = s

AnswersNameTheirRequest ==
  \A q \in inFlight :
    /\ IsRequest(q)
    /\ q.id # None /\ q.answer # None => Names(q.id, q.answer.status, q.answer.rows)
    /\ page # None /\ page.request = q.number => page.id = q.id

PageNamesItsAddress ==
  page # None => IsPage(page) /\ (page.id # None => Names(page.id, page.view, page.shown))

ReceiptInv == asked \in Nat /\ IdsAreDrawnOnce /\ AnswersNameTheirRequest /\ PageNamesItsAddress

\* A set of at most one element, as a sequence.
LEMMA SequenceOfOne ==
  /\ RP!SetToSeq({}) = <<>>
  /\ \A r : Len(RP!SetToSeq({r})) = 1 /\ Head(RP!SetToSeq({r})) = r
  <1>1. ASSUME NEW S PROVE RP!Cardinality(S) = Cardinality(S)
    BY DEF RP!Cardinality, Cardinality
  <1>2. RP!SetToSeq({}) = <<>>
    BY <1>1, FS_EmptySet DEF RP!SetToSeq, RP!IsInjective
  <1>3. ASSUME NEW r PROVE Len(RP!SetToSeq({r})) = 1 /\ Head(RP!SetToSeq({r})) = r
    <2> DEFINE one == [i \in 1 .. 1 |-> r]
               seq == RP!SetToSeq({r})
    <2>1. RP!Cardinality({r}) = 1
      BY <1>1, FS_Singleton
    <2>2. one \in [1 .. 1 -> {r}] /\ RP!IsInjective(one)
      BY DEF RP!IsInjective
    <2>3. seq \in [1 .. 1 -> {r}]
      BY <2>1, <2>2 DEF RP!SetToSeq
    <2>4. QED
      BY <2>3
  <1>4. QED
    BY <1>2, <1>3

LEMMA FoundNames ==
  ASSUME ReceiptInv, NEW id
  PROVE  Names(id, RP!Found(id).status, RP!Found(id).rows)
  <1> DEFINE own == RP!RowOf(guest, id)
  <1>1. /\ RP!Found(id).status = IF own = {} THEN "not_found" ELSE "success"
        /\ RP!Found(id).rows = RP!SetToSeq(own)
    BY DEF RP!Found, RP!Answer
  <1>2. CASE own = {}
    BY <1>1, <1>2, SequenceOfOne DEF Names
  <1>3. CASE own # {}
    <2>1. PICK r \in own : TRUE
      BY <1>3
    <2>2. r.id = id /\ own = {r}
      BY <2>1 DEF RP!RowOf, RP!Own, ReceiptInv, IdsAreDrawnOnce
    <2>3. QED
      BY <1>1, <1>3, <2>2, SequenceOfOne DEF Names
  <1>4. QED
    BY <1>2, <1>3

\* A request that a page sends is the latest, and no other has its number.
LEMMA LoadKeeps ==
  ASSUME ReceiptInv, NEW id, RP!Load(id)
  PROVE  ReceiptInv'
  <1>0. PICK q : q = [number |-> asked + 1, id |-> id, answer |-> None]
    OBVIOUS
  <1>1. /\ asked \in Nat /\ asked' = asked + 1
        /\ page' = [id |-> id, view |-> "loading", shown |-> <<>>, request |-> asked + 1,
                    of |-> None, known |-> receipts]
        /\ inFlight' = inFlight \union {q}
        /\ receipts' = receipts /\ drawn' = drawn
    BY <1>0 DEF RP!Load, ReceiptInv
  <1>2. \A p : IsRequest(p) => IsRequest(p)' /\ p.number # asked + 1
    BY <1>1 DEF IsRequest
  <1>3. IsRequest(q)' /\ q.number = asked + 1 /\ q.id = id /\ q.answer = None
    BY <1>0, <1>1 DEF IsRequest
  <1>4. page'.id = id /\ page'.request = asked + 1 /\ IsPage(page)'
    BY <1>1 DEF IsPage
  <1>5. Names(page.id, page.view, page.shown)'
    BY <1>1 DEF Names
  <1>6. AnswersNameTheirRequest'
    BY <1>1, <1>2, <1>3, <1>4 DEF ReceiptInv, AnswersNameTheirRequest, Names
  <1>7. QED
    BY <1>1, <1>4, <1>5, <1>6 DEF ReceiptInv, IdsAreDrawnOnce, PageNamesItsAddress

\* An answer, whatever it is, is to the request it is an answer to.
LEMMA AnswerKeeps ==
  ASSUME ReceiptInv, NEW q \in inFlight, NEW a,
         q.id # None => Names(q.id, a.status, a.rows),
         inFlight' = (inFlight \ {q}) \union {[q EXCEPT !.answer = a]},
         UNCHANGED <<receipts, drawn, page, asked>>
  PROVE  ReceiptInv'
  <1> DEFINE new == [q EXCEPT !.answer = a]
  <1>1. IsRequest(q)
    BY DEF ReceiptInv, AnswersNameTheirRequest
  <1>2. /\ new = [number |-> q.number, id |-> q.id, answer |-> a]
        /\ new.number = q.number /\ new.id = q.id /\ new.answer = a
    BY <1>1 DEF IsRequest
  <1> HIDE DEF new
  <1>3. IsRequest(new)
    BY <1>1, <1>2 DEF IsRequest
  <1>4. inFlight' = (inFlight \ {q}) \union {new}
    BY DEF new
  <1>5. AnswersNameTheirRequest'
    BY <1>2, <1>3, <1>4 DEF ReceiptInv, AnswersNameTheirRequest, IsRequest, Names
  <1>6. QED
    BY <1>5 DEF ReceiptInv, IdsAreDrawnOnce, PageNamesItsAddress, IsPage, Names

\* What an answer changes of a page, one field after the other.
LEMMA OneByOne ==
  ASSUME NEW p, {"view", "shown", "of"} \subseteq DOMAIN p, NEW v, NEW s, NEW o
  PROVE  [p EXCEPT !.view = v, !.shown = s, !.of = o] =
         [[[p EXCEPT !.view = v] EXCEPT !.shown = s] EXCEPT !.of = o]
  OBVIOUS

LEMMA PageShows ==
  ASSUME NEW i, NEW n, NEW k, NEW v, NEW s, NEW o, NEW v0, NEW s0, NEW o0
  PROVE  [[id |-> i, view |-> v0, shown |-> s0, request |-> n, of |-> o0, known |-> k]
            EXCEPT !.view = v, !.shown = s, !.of = o] =
         [id |-> i, view |-> v, shown |-> s, request |-> n, of |-> o, known |-> k]
  <1> DEFINE R(x, y, z) ==
        [id |-> i, view |-> x, shown |-> y, request |-> n, of |-> z, known |-> k]
  <1>1. [R(v0, s0, o0) EXCEPT !.view = v] = R(v, s0, o0)
    OBVIOUS
  <1>2. [R(v, s0, o0) EXCEPT !.shown = s] = R(v, s, o0)
    OBVIOUS
  <1>3. [R(v, s, o0) EXCEPT !.of = o] = R(v, s, o)
    OBVIOUS
  <1>4. {"view", "shown", "of"} \subseteq DOMAIN R(v0, s0, o0)
    OBVIOUS
  <1>5. [R(v0, s0, o0) EXCEPT !.view = v, !.shown = s, !.of = o] = R(v, s, o)
    <2> HIDE DEF R
    <2>1. QED
      BY <1>1, <1>2, <1>3, <1>4, OneByOne
  <1>6. QED
    BY <1>5

LEMMA PageStepsName ==
  ASSUME ReceiptInv,
         \/ RP!OpenHistory \/ (\E id \in Receipts : RP!OpenReceipt(id)) \/ RP!Retry \/ RP!Leave
         \/ \E q \in inFlight : RP!Serve(q) \/ RP!Fail(q) \/ RP!Arrive(q)
  PROVE  ReceiptInv'
  <1>1. CASE RP!OpenHistory \/ (\E id \in Receipts : RP!OpenReceipt(id)) \/ RP!Retry
    BY <1>1, LoadKeeps DEF RP!OpenHistory, RP!OpenReceipt, RP!Retry
  <1>2. CASE RP!Leave
    BY <1>2 DEF RP!Leave, ReceiptInv, IdsAreDrawnOnce, AnswersNameTheirRequest, IsRequest,
       PageNamesItsAddress
  <1>3. ASSUME NEW q \in inFlight, RP!Serve(q) PROVE ReceiptInv'
    <2>1. PICK a : /\ inFlight' = (inFlight \ {q}) \union {[q EXCEPT !.answer = a]}
                   /\ q.id # None => a = RP!Found(q.id)
      BY <1>3 DEF RP!Serve
    <2>2. q.id # None => Names(q.id, a.status, a.rows)
      BY <2>1, FoundNames
    <2>3. QED
      BY <1>3, <2>1, <2>2, AnswerKeeps DEF RP!Serve
  <1>4. ASSUME NEW q \in inFlight, RP!Fail(q) PROVE ReceiptInv'
    <2>1. PICK a : /\ inFlight' = (inFlight \ {q}) \union {[q EXCEPT !.answer = a]}
                   /\ a = RP!Answer("error", <<>>)
      BY <1>4 DEF RP!Fail
    <2>2. q.id # None => Names(q.id, a.status, a.rows)
      BY <2>1 DEF RP!Answer, Names
    <2>3. QED
      BY <1>4, <2>1, <2>2, AnswerKeeps DEF RP!Fail
  <1>5. ASSUME NEW q \in inFlight, RP!Arrive(q) PROVE ReceiptInv'
    <2>1. /\ inFlight' = inFlight \ {q} /\ UNCHANGED <<receipts, drawn, asked>>
          /\ q.answer # None
      BY <1>5 DEF RP!Arrive
    <2>2. CASE RP!Heeds(q)
      <3> DEFINE new == [page EXCEPT !.view = q.answer.status, !.shown = q.answer.rows,
                                     !.of = q.answer.of]
      <3>1. page' = new
        BY <1>5, <2>2 DEF RP!Arrive
      <3>2. page # None /\ page.request = q.number /\ IsPage(page)
        BY <2>2 DEF RP!Heeds, ReceiptInv, PageNamesItsAddress
      <3>3. /\ new = [id |-> page.id, view |-> q.answer.status, shown |-> q.answer.rows,
                      request |-> page.request, of |-> q.answer.of, known |-> page.known]
            /\ new.id = page.id /\ new.view = q.answer.status /\ new.shown = q.answer.rows
            /\ new.request = page.request
        <4>1. PICK i, v0, s0, n, o0, k :
                /\ page = [id |-> i, view |-> v0, shown |-> s0, request |-> n,
                           of |-> o0, known |-> k]
                /\ i = page.id /\ n = page.request /\ k = page.known
          BY <3>2 DEF IsPage
        <4>2. new = [[id |-> i, view |-> v0, shown |-> s0, request |-> n, of |-> o0, known |-> k]
                       EXCEPT !.view = q.answer.status, !.shown = q.answer.rows,
                              !.of = q.answer.of]
          BY <4>1
        <4> HIDE DEF new
        <4>3. new = [id |-> i, view |-> q.answer.status, shown |-> q.answer.rows,
                     request |-> n, of |-> q.answer.of, known |-> k]
          BY <4>2, PageShows
        <4>4. QED
          BY <4>1, <4>3
      <3> HIDE DEF new
      <3>4. page.id = q.id /\ (q.id # None => Names(q.id, q.answer.status, q.answer.rows))
        BY <2>1, <3>2 DEF ReceiptInv, AnswersNameTheirRequest
      <3>5. IsPage(page)'
        BY <2>1, <3>1, <3>2, <3>3 DEF IsPage
      <3>6. PageNamesItsAddress'
        BY <3>1, <3>3, <3>4, <3>5 DEF PageNamesItsAddress, Names
      <3>7. AnswersNameTheirRequest'
        BY <2>1, <3>1, <3>2, <3>3 DEF ReceiptInv, AnswersNameTheirRequest, IsRequest
      <3>8. QED
        BY <2>1, <3>6, <3>7 DEF ReceiptInv, IdsAreDrawnOnce
    <2>3. CASE ~RP!Heeds(q)
      <3>1. page' = page
        BY <1>5, <2>3 DEF RP!Arrive
      <3>2. QED
        BY <2>1, <3>1 DEF ReceiptInv, IdsAreDrawnOnce, AnswersNameTheirRequest, IsRequest,
           PageNamesItsAddress, IsPage
    <2>4. QED
      BY <2>2, <2>3
  <1>6. QED
    BY <1>1, <1>2, <1>3, <1>4, <1>5

LEMMA ServiceStepsName ==
  ASSUME ReceiptInv,
         \/ \E r \in RP!Rows : RP!Order(r)
         \/ RP!Reset \/ RP!Expire \/ RP!StartWalk \/ RP!ContinueWalk \/ RP!EndWalk
  PROVE  ReceiptInv'
  <1>1. UNCHANGED <<page, asked, inFlight>>
    BY DEF RP!Order, RP!Reset, RP!Expire, RP!Rotate, RP!StartWalk, RP!ContinueWalk, RP!EndWalk
  <1>2. IdsAreDrawnOnce'
    <2>1. IdsAreDrawnOnce
      BY DEF ReceiptInv
    <2>2. ASSUME NEW r, RP!Order(r) PROVE IdsAreDrawnOnce'
      BY <2>1, <2>2 DEF RP!Order, IdsAreDrawnOnce
    <2>3. CASE RP!Reset \/ RP!Expire
      BY <2>1, <2>3 DEF RP!Reset, RP!Expire, RP!Rotate, IdsAreDrawnOnce
    <2>4. CASE RP!StartWalk \/ RP!ContinueWalk \/ RP!EndWalk
      BY <2>1, <2>4 DEF RP!StartWalk, RP!ContinueWalk, RP!EndWalk, IdsAreDrawnOnce
    <2>5. QED
      BY <2>2, <2>3, <2>4
  <1>3. QED
    BY <1>1, <1>2 DEF ReceiptInv, AnswersNameTheirRequest, IsRequest, PageNamesItsAddress, IsPage

LEMMA ReceiptInvariant ==
  /\ RP!Init => ReceiptInv
  /\ ReceiptInv /\ [RP!Next]_(RP!vars) => ReceiptInv'
  <1>1. RP!Init => ReceiptInv
    BY DEF RP!Init, ReceiptInv, IdsAreDrawnOnce, AnswersNameTheirRequest, PageNamesItsAddress
  <1>2. ReceiptInv /\ [RP!Next]_(RP!vars) => ReceiptInv'
    <2> SUFFICES ASSUME ReceiptInv, [RP!Next]_(RP!vars) PROVE ReceiptInv'
      OBVIOUS
    <2>1. CASE UNCHANGED RP!vars
      BY <2>1 DEF RP!vars, ReceiptInv, IdsAreDrawnOnce, AnswersNameTheirRequest, IsRequest,
         PageNamesItsAddress, IsPage
    <2>2. CASE RP!Next
      BY <2>2, PageStepsName, ServiceStepsName DEF RP!Next
    <2>3. QED
      BY <2>1, <2>2
  <1>3. QED
    BY <1>1, <1>2

\* Whatever answers are under way from an earlier address, a page shows the receipt its
\* own address names, or none.
THEOREM ShownIsExact == RP!Spec => []ShownIsAsked
  <1>1. ReceiptInv => ShownIsAsked
    BY DEF ReceiptInv, PageNamesItsAddress, Names, ShownIsAsked, RP!ExactReceipt
  <1>2. QED
    BY ReceiptInvariant, <1>1, PTL DEF RP!Spec

-----------------------------------------------------------------------------
(***************************************************************************)
(* Sorting.  Rows are ordered by time and then id, and as ids are unique   *)
(* each row has a position of its own: by counting, every position of a    *)
(* list is taken.                                                          *)
(***************************************************************************)
\* The rows that ORDER BY puts before one.
Ahead(S, r) == {s \in S : RP!Older(r, s)}

\* A finite set of rows, no two of one id.
IsTable(S) ==
  /\ S \subseteq RP!Rows /\ IsFiniteSet(S)
  /\ \A r, s \in S : r.id = s.id => r = s

LEMMA RowsAreNumbers ==
  \A r \in RP!Rows : r.id \in Nat /\ r.at \in Nat /\ r.owner \in Nat
  BY OperationsAssumption DEF RP!HistoryConstants, RP!Rows

LEMMA OlderIsAnOrder ==
  ASSUME NEW q \in RP!Rows, NEW r \in RP!Rows, NEW s \in RP!Rows
  PROVE  /\ ~RP!Older(r, r)
         /\ RP!Older(q, r) /\ RP!Older(r, s) => RP!Older(q, s)
         /\ r.id # s.id => RP!Older(r, s) \/ RP!Older(s, r)
  BY RowsAreNumbers DEF RP!Older

\* How many rows are ahead of a row tells it from the others and says how old it is.
LEMMA AheadCounts ==
  ASSUME NEW S, IsTable(S), NEW r \in S
  PROVE  /\ Cardinality(Ahead(S, r)) \in 0 .. Cardinality(S) - 1
         /\ \A s \in S : RP!Older(r, s) =>
              Cardinality(Ahead(S, s)) < Cardinality(Ahead(S, r))
  <1>1. ASSUME NEW s \in S PROVE IsFiniteSet(Ahead(S, s)) /\ Cardinality(Ahead(S, s)) \in Nat
    BY FS_Subset, FS_CardinalityType DEF IsTable, Ahead
  <1>2. Cardinality(Ahead(S, r)) \in 0 .. Cardinality(S) - 1
    <2>1. Ahead(S, r) \subseteq S \ {r}
      BY OlderIsAnOrder DEF IsTable, Ahead
    <2>2. /\ IsFiniteSet(S \ {r}) /\ Cardinality(S \ {r}) = Cardinality(S) - 1
          /\ Cardinality(S) \in Nat
      BY FS_RemoveElement, FS_CardinalityType DEF IsTable
    <2>3. Cardinality(Ahead(S, r)) <= Cardinality(S \ {r})
      BY <2>1, <2>2, FS_Subset
    <2>4. QED
      BY <1>1, <2>2, <2>3
  <1>3. ASSUME NEW s \in S, RP!Older(r, s)
        PROVE  Cardinality(Ahead(S, s)) < Cardinality(Ahead(S, r))
    <2>1. Ahead(S, s) \union {s} \subseteq Ahead(S, r) /\ s \notin Ahead(S, s)
      BY <1>3, OlderIsAnOrder DEF IsTable, Ahead
    <2>2. /\ IsFiniteSet(Ahead(S, s) \union {s})
          /\ Cardinality(Ahead(S, s) \union {s}) = Cardinality(Ahead(S, s)) + 1
      BY <1>1, <2>1, FS_AddElement
    <2>3. Cardinality(Ahead(S, s) \union {s}) <= Cardinality(Ahead(S, r))
      BY <1>1, <2>1, FS_Subset
    <2>4. QED
      BY <1>1, <2>2, <2>3
  <1>4. QED
    BY <1>2, <1>3

\* Every position of the list is taken.
LEMMA PositionsAreTaken ==
  ASSUME NEW S, IsTable(S), NEW i \in 1 .. Cardinality(S)
  PROVE  \E r \in S : Cardinality(Ahead(S, r)) = i - 1
  <1> DEFINE n == Cardinality(S)
             place == [r \in S |-> Cardinality(Ahead(S, r))]
  <1>1. n \in Nat /\ IsFiniteSet(S)
    BY FS_CardinalityType DEF IsTable
  <1>2. place \in [S -> 0 .. n - 1]
    BY AheadCounts
  <1>3. \A r, s \in S : place[r] = place[s] => r = s
    <2> SUFFICES ASSUME NEW r \in S, NEW s \in S, place[r] = place[s], r # s PROVE FALSE
      OBVIOUS
    <2>1. RP!Older(r, s) \/ RP!Older(s, r)
      BY OlderIsAnOrder DEF IsTable
    <2>2. QED
      BY <1>2, <2>1, AheadCounts
  <1>4. place \in Injection(S, 0 .. n - 1)
    BY <1>2, <1>3 DEF Injection, IsInjective
  <1>5. IsFiniteSet(0 .. n - 1) /\ Cardinality(0 .. n - 1) = n
    <2>1. 0 \in Int /\ n - 1 \in Int /\ (0 > n - 1 => n = 0)
      BY <1>1
    <2>2. QED
      BY <1>1, <2>1, FS_Interval
  <1>6. place \in Surjection(S, 0 .. n - 1)
    <2> HIDE DEF place
    <2>1. QED
      BY <1>4, <1>5, FS_Injection
  <1>7. \E r \in S : place[r] = i - 1
    <2> HIDE DEF place
    <2>1. i - 1 \in 0 .. n - 1
      BY <1>1
    <2>2. QED
      BY <1>6, <2>1 DEF Surjection
  <1>8. QED
    BY <1>7

LEMMA SmallerOfTwo ==
  ASSUME NEW m \in Nat, NEW n \in Nat
  PROVE  RP!Min({m, n}) = IF m <= n THEN m ELSE n
  BY DEF RP!Min

\* ORDER BY and LIMIT: the newest rows, newest first, and all there are if they are few.
LEMMA NewestFirstLists ==
  ASSUME NEW S, IsTable(S), NEW n \in Nat, NEW f, f = RP!NewestFirst(S, n)
  PROVE  /\ f \in Seq(S) /\ Len(f) <= n
         /\ \A i, j \in 1 .. Len(f) : i < j => RP!Older(f[j], f[i])
         /\ \A r \in S : \/ \E i \in 1 .. Len(f) : f[i] = r
                         \/ Len(f) = n /\ \A i \in 1 .. Len(f) : RP!Older(r, f[i])
  <1> DEFINE m == IF n <= Cardinality(S) THEN n ELSE Cardinality(S)
             Placed(r, i) == Cardinality(Ahead(S, r)) = i - 1
  <1>1. Cardinality(S) \in Nat /\ m \in Nat /\ m <= n /\ m <= Cardinality(S)
    BY FS_CardinalityType DEF IsTable
  <1>2. \A T : RP!Cardinality(T) = Cardinality(T)
    BY DEF RP!Cardinality, Cardinality
  <1>3. RP!Min({n, Cardinality(S)}) = m
    BY <1>1, SmallerOfTwo
  <1>4. \A r \in S : {s \in S : r.at < s.at \/ (r.at = s.at /\ r.id < s.id)} = Ahead(S, r)
    BY DEF Ahead, RP!Older
  <1>5. f = [i \in 1 .. m |-> CHOOSE r \in S :
          Cardinality({s \in S : r.at < s.at \/ (r.at = s.at /\ r.id < s.id)}) = i - 1]
    <2>1. 1 .. RP!Min({n, RP!Cardinality(S)}) = 1 .. m
      BY <1>2, <1>3
    <2>2. QED
      BY <2>1 DEF RP!NewestFirst, RP!Cardinality, Cardinality
  <1>6. ASSUME NEW i \in 1 .. m PROVE f[i] \in S /\ Placed(f[i], i)
    <2>1. \E r \in S : Placed(r, i)
      BY <1>1, PositionsAreTaken
    <2>2. f[i] = CHOOSE r \in S :
            Cardinality({s \in S : r.at < s.at \/ (r.at = s.at /\ r.id < s.id)}) = i - 1
      BY <1>5
    <2>3. QED
      BY <1>4, <2>1, <2>2
  <1>7. f \in [1 .. m -> S]
    BY <1>5, <1>6
  <1>8. f \in Seq(S) /\ Len(f) = m
    BY <1>1, <1>7
  <1>9. ASSUME NEW r \in S, NEW i \in 1 .. m, Cardinality(Ahead(S, r)) > i - 1
        PROVE  RP!Older(r, f[i])
    <2>1. f[i] \in S /\ Placed(f[i], i) /\ r # f[i]
      BY <1>6, <1>9
    <2>2. RP!Older(r, f[i]) \/ RP!Older(f[i], r)
      BY <2>1, OlderIsAnOrder DEF IsTable
    <2>3. QED
      BY <1>9, <2>1, <2>2, AheadCounts
  <1>10. ASSUME NEW i \in 1 .. m, NEW j \in 1 .. m, i < j PROVE RP!Older(f[j], f[i])
    BY <1>1, <1>6, <1>9, <1>10
  <1>11. ASSUME NEW r \in S
         PROVE  \/ \E i \in 1 .. m : f[i] = r
                \/ m = n /\ \A i \in 1 .. m : RP!Older(r, f[i])
    <2>1. Cardinality(Ahead(S, r)) \in 0 .. Cardinality(S) - 1
      BY AheadCounts
    <2>2. CASE Cardinality(Ahead(S, r)) < m
      <3>1. PICK i \in 1 .. m : Placed(r, i)
        BY <1>1, <2>1, <2>2
      <3>2. f[i] \in S /\ Placed(f[i], i)
        BY <1>6
      <3>3. ~RP!Older(r, f[i]) /\ ~RP!Older(f[i], r)
        BY <2>1, <3>1, <3>2, AheadCounts
      <3>4. QED
        BY <3>2, <3>3, OlderIsAnOrder DEF IsTable
    <2>3. CASE Cardinality(Ahead(S, r)) >= m
      BY <1>1, <1>9, <2>1, <2>3
    <2>4. QED
      BY <1>1, <2>1, <2>2, <2>3
  <1>12. QED
    BY <1>1, <1>8, <1>10, <1>11

-----------------------------------------------------------------------------
(***************************************************************************)
(* Lists of receipts.  A walk is strictly newest first, and what it still  *)
(* owes is below the last row it has read; a page's receipts stay stored   *)
(* as long as their guest is the browser's.                                *)
(***************************************************************************)
Descending(s) == \A i, j \in 1 .. Len(s) : i < j => RP!Older(s[j], s[i])

\* What a list owes of a set of rows is older than all it has.
Reaches(s, S) == \A r \in S : r \in RP!ToSet(s) \/ RP!Older(r, RP!Last(s))

RowsAreOwned ==
  /\ guest \in Nat
  /\ IsTable(receipts)
  /\ \A r \in receipts : r.id \in drawn /\ r.owner <= guest

WalkTypes ==
  /\ walk = [read |-> walk.read, base |-> walk.base, state |-> walk.state]
  /\ walk.read \in Seq(RP!Rows)

\* What was read was drawn, and is a receipt still, or of no receipt's id.
ReadIsPast ==
  \A s \in RP!ToSet(walk.read) :
    /\ s.id \in drawn /\ s.owner <= guest
    /\ \A r \in receipts : r.id = s.id => r = s

WalkIsWhole ==
  /\ Descending(walk.read)
  /\ \A r, s \in RP!ToSet(walk.read) : r.owner = s.owner
  /\ walk.state = "done" => walk.base \subseteq RP!ToSet(walk.read)

WalkGoesOn ==
  walk.state = "reading" =>
    /\ walk.read # <<>>
    /\ RP!Last(walk.read).owner = guest =>
         walk.base \ RP!ToSet(walk.read) \subseteq RP!Own(guest) /\ Reaches(walk.read, walk.base)

WalkInv == walk # None => WalkTypes /\ ReadIsPast /\ WalkIsWhole /\ WalkGoesOn

LEMMA ListOf ==
  ASSUME NEW S, NEW s \in Seq(S)
  PROVE  /\ RP!ToSet(s) = {s[i] : i \in 1 .. Len(s)} /\ RP!ToSet(s) \subseteq S
         /\ s # <<>> => RP!Last(s) = s[Len(s)] /\ RP!Last(s) \in RP!ToSet(s)
  BY DEF RP!ToSet, RP!Last

\* A page of the service's list.
LEMMA BelowLists ==
  ASSUME RowsAreOwned, NEW g, NEW C, NEW f, f = RP!Below(g, C)
  PROVE  /\ f \in Seq(RP!Rows) /\ Len(f) \in 0 .. PageSize
         /\ Descending(f)
         /\ RP!ToSet(f) \subseteq RP!Own(g)
         /\ \A r \in RP!ToSet(f), c \in C : RP!Older(r, c)
         /\ \A r \in RP!Own(g) :
              (\A c \in C : RP!Older(r, c)) =>
                r \in RP!ToSet(f) \/ (Len(f) = PageSize /\ RP!Older(r, RP!Last(f)))
  <1> DEFINE S == {r \in RP!Own(g) : \A c \in C : RP!Older(r, c)}
  <1>1. PageSize \in Nat \ {0}
    BY OperationsAssumption DEF RP!HistoryConstants
  <1>2. S \subseteq receipts /\ S \subseteq RP!Own(g) /\ S \subseteq RP!Rows
    BY DEF RP!Own, RowsAreOwned, IsTable
  <1>3. IsTable(S)
    BY <1>2, FS_Subset DEF RowsAreOwned, IsTable
  <1>4. f = RP!NewestFirst(S, PageSize)
    BY DEF RP!Below
  <1> HIDE DEF S
  <1>5. /\ f \in Seq(S) /\ Len(f) <= PageSize
        /\ Descending(f)
        /\ \A r \in S : \/ \E i \in 1 .. Len(f) : f[i] = r
                        \/ Len(f) = PageSize /\ \A i \in 1 .. Len(f) : RP!Older(r, f[i])
    BY <1>1, <1>3, <1>4, NewestFirstLists DEF Descending
  <1>6. RP!ToSet(f) = {f[i] : i \in 1 .. Len(f)} /\ RP!ToSet(f) \subseteq S
    BY <1>5, ListOf
  <1>7. f \in Seq(RP!Rows) /\ Len(f) \in 0 .. PageSize
    BY <1>1, <1>2, <1>5
  <1>8. ASSUME NEW r \in S
        PROVE  r \in RP!ToSet(f) \/ (Len(f) = PageSize /\ RP!Older(r, RP!Last(f)))
    <2>1. CASE \E i \in 1 .. Len(f) : f[i] = r
      BY <1>6, <2>1
    <2>2. CASE Len(f) = PageSize /\ \A i \in 1 .. Len(f) : RP!Older(r, f[i])
      BY <1>1, <2>2 DEF RP!Last
    <2>3. QED
      BY <1>5, <2>1, <2>2
  <1>9. QED
    BY <1>2, <1>5, <1>6, <1>7, <1>8 DEF S

\* Reading on below the last row.
LEMMA ReadOn ==
  ASSUME NEW s \in Seq(RP!Rows), NEW t \in Seq(RP!Rows), s # <<>>,
         Descending(s), Descending(t), \A r \in RP!ToSet(t) : RP!Older(r, RP!Last(s))
  PROVE  /\ s \o t \in Seq(RP!Rows) /\ s \o t # <<>>
         /\ Descending(s \o t)
         /\ RP!ToSet(s \o t) = RP!ToSet(s) \union RP!ToSet(t)
         /\ t # <<>> => RP!Last(s \o t) = RP!Last(t)
  <1> DEFINE u == s \o t
  <1>1. /\ u \in Seq(RP!Rows) /\ Len(u) = Len(s) + Len(t)
        /\ Len(s) \in Nat \ {0} /\ Len(t) \in Nat
        /\ \A i \in 1 .. Len(s) : u[i] = s[i]
        /\ \A i \in 1 .. Len(t) : u[Len(s) + i] = t[i]
        /\ \A i \in 1 .. Len(u) : i > Len(s) => i - Len(s) \in 1 .. Len(t) /\ u[i] = t[i - Len(s)]
    OBVIOUS
  <1> HIDE DEF u
  <1>2. /\ RP!ToSet(s) = {s[i] : i \in 1 .. Len(s)} /\ RP!ToSet(t) = {t[i] : i \in 1 .. Len(t)}
        /\ RP!ToSet(u) = {u[i] : i \in 1 .. Len(u)} /\ RP!Last(s) = s[Len(s)]
    BY <1>1, ListOf
  <1>3. RP!ToSet(u) = RP!ToSet(s) \union RP!ToSet(t)
    <2>1. RP!ToSet(s) \subseteq RP!ToSet(u)
      BY <1>1, <1>2
    <2>2. ASSUME NEW i \in 1 .. Len(t) PROVE t[i] \in RP!ToSet(u)
      <3>1. Len(s) + i \in 1 .. Len(u)
        BY <1>1
      <3>2. QED
        BY <1>1, <1>2, <3>1
    <2>3. ASSUME NEW i \in 1 .. Len(u) PROVE u[i] \in RP!ToSet(s) \union RP!ToSet(t)
      <3>1. CASE i <= Len(s)
        BY <1>1, <1>2, <3>1
      <3>2. CASE i > Len(s)
        BY <1>1, <1>2, <3>2
      <3>3. QED
        BY <1>1, <3>1, <3>2
    <2>4. QED
      BY <1>2, <2>1, <2>2, <2>3
  <1>4. ASSUME NEW i \in 1 .. Len(u), NEW j \in 1 .. Len(u), i < j PROVE RP!Older(u[j], u[i])
    <2>1. CASE j <= Len(s)
      BY <1>1, <1>4, <2>1 DEF Descending
    <2>2. CASE i > Len(s)
      <3>1. i - Len(s) \in 1 .. Len(t) /\ j - Len(s) \in 1 .. Len(t) /\ i - Len(s) < j - Len(s)
        BY <1>1, <1>4, <2>2
      <3>2. u[i] = t[i - Len(s)] /\ u[j] = t[j - Len(s)]
        BY <1>1, <1>4, <2>2
      <3>3. QED
        BY <3>1, <3>2 DEF Descending
    <2>3. CASE i <= Len(s) /\ j > Len(s)
      <3>1. u[j] \in RP!ToSet(t) /\ u[j] \in RP!Rows /\ u[i] = s[i] /\ u[i] \in RP!Rows
        BY <1>1, <1>2, <2>3
      <3>2. RP!Older(u[j], s[Len(s)]) /\ s[Len(s)] \in RP!Rows
        BY <1>1, <1>2, <3>1
      <3>3. i = Len(s) \/ RP!Older(s[Len(s)], s[i])
        BY <1>1, <2>3 DEF Descending
      <3>4. QED
        BY <3>1, <3>2, <3>3, OlderIsAnOrder
    <2>4. QED
      BY <1>1, <2>1, <2>2, <2>3
  <1>5. t # <<>> => RP!Last(u) = RP!Last(t)
    <2> SUFFICES ASSUME t # <<>> PROVE RP!Last(u) = RP!Last(t)
      OBVIOUS
    <2>1. Len(t) \in 1 .. Len(t)
      BY <1>1
    <2>2. QED
      BY <1>1, <2>1 DEF RP!Last
  <1>6. QED
    BY <1>1, <1>3, <1>4, <1>5 DEF u, Descending

\* A walk does not notice an order, whose id is new, or another guest, whose list is not its own.
LEMMA RowsChange ==
  ASSUME RowsAreOwned, WalkInv,
         \/ \E r \in RP!Rows : RP!Order(r)
         \/ RP!Reset \/ RP!Expire
  PROVE  RowsAreOwned' /\ WalkInv'
  <1>1. walk' = walk
    BY DEF RP!Order, RP!Reset, RP!Expire, RP!Rotate
  <1>2. walk # None => walk.read \in Seq(RP!Rows) /\ RP!ToSet(walk.read) \subseteq RP!Rows
    BY ListOf DEF WalkInv, WalkTypes
  <1>3. ASSUME NEW r \in RP!Rows, RP!Order(r) PROVE RowsAreOwned' /\ WalkInv'
    <2>1. /\ r.owner = guest /\ r.id \notin drawn /\ guest' = guest
          /\ drawn' = drawn \union {r.id} /\ receipts' = receipts \union {r}
      BY <1>3 DEF RP!Order
    <2>2. IsFiniteSet(receipts')
      BY <2>1, FS_AddElement DEF RowsAreOwned, IsTable
    <2>3. RowsAreOwned'
      BY <2>1, <2>2 DEF RowsAreOwned, IsTable
    <2>4. RP!Own(guest) \subseteq RP!Own(guest)'
      BY <2>1 DEF RP!Own
    <2>5. WalkInv'
      BY <1>1, <2>1, <2>4 DEF WalkInv, WalkTypes, ReadIsPast, WalkIsWhole, WalkGoesOn, Reaches
    <2>6. QED
      BY <2>3, <2>5
  <1>4. CASE RP!Reset \/ RP!Expire
    <2>1. receipts' \subseteq receipts /\ drawn' = drawn /\ guest' = guest + 1
      BY <1>4 DEF RP!Reset, RP!Expire, RP!Rotate
    <2>2. IsFiniteSet(receipts')
      BY <2>1, FS_Subset DEF RowsAreOwned, IsTable
    <2>3. RowsAreOwned'
      BY <2>1, <2>2, RowsAreNumbers DEF RowsAreOwned, IsTable
    <2>4. walk # None => ReadIsPast'
      BY <1>1, <1>2, <2>1, RowsAreNumbers DEF WalkInv, ReadIsPast, RowsAreOwned
    <2>5. walk # None => WalkGoesOn'
      <3> SUFFICES ASSUME walk # None, walk.state = "reading"
                   PROVE  walk.read # <<>> /\ RP!Last(walk.read).owner # guest'
        BY <1>1 DEF WalkGoesOn
      <3>1. walk.read # <<>> /\ RP!Last(walk.read) \in RP!ToSet(walk.read)
        BY <1>2, ListOf DEF WalkInv, WalkGoesOn
      <3>2. RP!Last(walk.read).owner <= guest /\ RP!Last(walk.read).owner \in Nat
        BY <1>2, <3>1, RowsAreNumbers DEF WalkInv, ReadIsPast
      <3>3. QED
        BY <2>1, <3>1, <3>2 DEF RowsAreOwned
    <2>6. QED
      BY <1>1, <2>3, <2>4, <2>5 DEF WalkInv, WalkTypes, WalkIsWhole
  <1>5. QED
    BY <1>3, <1>4

\* What the service lists now is the current guest's, and drawn.
LEMMA ListedNow ==
  ASSUME RowsAreOwned, NEW r \in RP!Own(guest)
  PROVE  /\ r \in RP!Rows /\ r.owner = guest /\ r.id \in drawn
         /\ \A s \in receipts : s.id = r.id => s = r
  BY DEF RowsAreOwned, IsTable, RP!Own

LEMMA WalkStarts ==
  ASSUME RowsAreOwned, RP!StartWalk
  PROVE  RowsAreOwned' /\ WalkInv'
  <1> DEFINE f == RP!Below(guest, {})
  <1>1. /\ f \in Seq(RP!Rows) /\ Len(f) \in 0 .. PageSize /\ Descending(f)
        /\ RP!ToSet(f) \subseteq RP!Own(guest)
        /\ \A r \in RP!Own(guest) :
             r \in RP!ToSet(f) \/ (Len(f) = PageSize /\ RP!Older(r, RP!Last(f)))
    BY BelowLists
  <1>2. PageSize \in Nat \ {0}
    BY OperationsAssumption DEF RP!HistoryConstants
  <1>3. /\ walk' = [read |-> f, base |-> RP!Own(guest),
                    state |-> IF Len(f) < PageSize THEN "done" ELSE "reading"]
        /\ UNCHANGED <<receipts, drawn, guest>>
    BY DEF RP!StartWalk
  <1> HIDE DEF f
  <1>4. /\ walk'.read = f /\ walk'.base = RP!Own(guest)
        /\ walk'.state = "done" => Len(f) < PageSize
        /\ walk'.state = "reading" => Len(f) = PageSize
    BY <1>1, <1>2, <1>3
  <1>5. RowsAreOwned' /\ RP!Own(guest)' = RP!Own(guest)
    BY <1>3 DEF RowsAreOwned, IsTable, RP!Own
  <1>6. WalkTypes' /\ ReadIsPast' /\ WalkIsWhole'
    BY <1>1, <1>2, <1>3, <1>4, ListedNow
    DEF WalkTypes, ReadIsPast, WalkIsWhole, Descending, RowsAreOwned
  <1>7. WalkGoesOn'
    <2> SUFFICES ASSUME walk'.state = "reading"
                 PROVE  f # <<>> /\ Reaches(f, RP!Own(guest))
      BY <1>3, <1>4, <1>5 DEF WalkGoesOn, Reaches
    <2>1. Len(f) # 0
      BY <1>2, <1>4
    <2>2. QED
      BY <1>1, <2>1 DEF Reaches
  <1>8. QED
    BY <1>5, <1>6, <1>7 DEF WalkInv

LEMMA WalkContinues ==
  ASSUME RowsAreOwned, WalkInv, RP!ContinueWalk
  PROVE  RowsAreOwned' /\ WalkInv'
  <1> DEFINE last == RP!Last(walk.read)
             cursor == RP!RowOf(guest, last.id)
             f == RP!Below(guest, cursor)
  <1>1. /\ walk # None /\ walk.state = "reading" /\ walk.read \in Seq(RP!Rows)
        /\ walk = [read |-> walk.read, base |-> walk.base, state |-> "reading"]
        /\ walk.read # <<>> /\ last \in RP!ToSet(walk.read)
        /\ UNCHANGED <<receipts, drawn, guest>>
    BY ListOf DEF RP!ContinueWalk, WalkInv, WalkTypes, WalkGoesOn
  <1>2. RowsAreOwned' /\ RP!Own(guest)' = RP!Own(guest)
    BY <1>1 DEF RowsAreOwned, IsTable, RP!Own
  <1>3. CASE cursor = {}
    <2>1. walk' = [walk EXCEPT !.state = "refused"]
      BY <1>3 DEF RP!ContinueWalk
    <2>2. /\ walk' = [read |-> walk.read, base |-> walk.base, state |-> "refused"]
          /\ walk'.read = walk.read /\ walk'.state = "refused"
      BY <1>1, <2>1
    <2>3. WalkInv'
      BY <1>1, <2>2 DEF WalkInv, WalkTypes, ReadIsPast, WalkIsWhole, WalkGoesOn
    <2>4. QED
      BY <1>2, <2>3
  <1>4. CASE cursor # {}
    <2>1. /\ cursor = {last} /\ last.owner = guest
      <3>1. \A r \in cursor : r \in receipts /\ r.owner = guest /\ r.id = last.id
        BY DEF RP!RowOf, RP!Own
      <3>2. \A r \in cursor : r = last
        BY <1>1, <3>1 DEF WalkInv, ReadIsPast
      <3>3. QED
        BY <1>4, <3>1, <3>2
    <2>2. /\ f \in Seq(RP!Rows) /\ Len(f) \in 0 .. PageSize /\ Descending(f)
          /\ RP!ToSet(f) \subseteq RP!Own(guest)
          /\ \A r \in RP!ToSet(f) : RP!Older(r, last)
          /\ \A r \in RP!Own(guest) : RP!Older(r, last) =>
               r \in RP!ToSet(f) \/ (Len(f) = PageSize /\ RP!Older(r, RP!Last(f)))
      BY <2>1, BelowLists
    <2>3. PageSize \in Nat \ {0}
      BY OperationsAssumption DEF RP!HistoryConstants
    <2>4. walk' = [walk EXCEPT !.read = @ \o f,
                               !.state = IF Len(f) < PageSize THEN "done" ELSE "reading"]
      BY <1>4 DEF RP!ContinueWalk
    <2> HIDE DEF f, last, cursor
    <2>5. PICK state : /\ state = IF Len(f) < PageSize THEN "done" ELSE "reading"
                       /\ walk' = [read |-> walk.read \o f, base |-> walk.base, state |-> state]
      BY <1>1, <2>4
    <2>6. /\ walk'.read = walk.read \o f /\ walk'.base = walk.base
          /\ walk'.state = "done" => Len(f) < PageSize
          /\ walk'.state = "reading" => Len(f) = PageSize
      BY <2>2, <2>3, <2>5
    <2>7. /\ walk'.read \in Seq(RP!Rows) /\ walk'.read # <<>> /\ Descending(walk'.read)
          /\ RP!ToSet(walk'.read) = RP!ToSet(walk.read) \union RP!ToSet(f)
          /\ f # <<>> => RP!Last(walk'.read) = RP!Last(f)
      BY <1>1, <2>2, <2>6, ReadOn DEF WalkInv, WalkIsWhole, last
    <2>8. WalkTypes'
      BY <2>5, <2>6, <2>7 DEF WalkTypes
    <2>9. ReadIsPast'
      BY <1>1, <2>2, <2>7, ListedNow DEF WalkInv, ReadIsPast, RowsAreOwned
    <2>10. \A r \in walk.base : \/ r \in RP!ToSet(walk'.read)
                                \/ /\ Len(f) = PageSize /\ RP!Older(r, RP!Last(f))
                                   /\ r \in RP!Own(guest)
      BY <1>1, <2>1, <2>2, <2>7 DEF WalkInv, WalkGoesOn, Reaches, last
    <2>11. WalkIsWhole'
      <3>1. \A r \in RP!ToSet(walk'.read) : r.owner = guest
        BY <1>1, <2>1, <2>2, <2>7, ListedNow DEF WalkInv, WalkIsWhole
      <3>2. walk'.state = "done" => walk'.base \subseteq RP!ToSet(walk'.read)
        BY <2>2, <2>3, <2>6, <2>10
      <3>3. QED
        BY <2>7, <3>1, <3>2 DEF WalkIsWhole, Descending
    <2>12. WalkGoesOn'
      <3> SUFFICES ASSUME walk'.state = "reading"
                   PROVE  /\ walk'.base \ RP!ToSet(walk'.read) \subseteq RP!Own(guest)
                          /\ Reaches(walk'.read, walk'.base)
        BY <1>1, <1>2, <2>7 DEF WalkGoesOn, Reaches
      <3>1. f # <<>>
        BY <2>3, <2>6
      <3>2. QED
        BY <2>6, <2>7, <2>10, <3>1 DEF Reaches
    <2>13. QED
      BY <1>2, <2>8, <2>9, <2>11, <2>12 DEF WalkInv
  <1>5. QED
    BY <1>3, <1>4

LEMMA WalkInvariant ==
  ASSUME RowsAreOwned, WalkInv, [RP!Next]_(RP!vars)
  PROVE  RowsAreOwned' /\ WalkInv'
  <1>1. CASE (\E r \in RP!Rows : RP!Order(r)) \/ RP!Reset \/ RP!Expire
    BY <1>1, RowsChange
  <1>2. CASE RP!StartWalk \/ RP!ContinueWalk
    BY <1>2, WalkStarts, WalkContinues
  <1>3. CASE RP!EndWalk
    BY <1>3 DEF RP!EndWalk, RowsAreOwned, IsTable, WalkInv
  <1>4. CASE UNCHANGED <<receipts, drawn, guest, walk>>
    BY <1>4 DEF RowsAreOwned, IsTable, WalkInv, WalkTypes, ReadIsPast, WalkIsWhole, Descending,
       WalkGoesOn, Reaches, RP!Own
  <1>5. QED
    BY <1>1, <1>2, <1>3, <1>4 DEF RP!Next, RP!vars, RP!OpenHistory, RP!OpenReceipt, RP!Retry,
       RP!Load, RP!Leave, RP!Serve, RP!Fail, RP!Arrive

\* A list is not older than what was known when the page asked.
Fresh(known, of, rows) ==
  \A r \in known :
    r.owner = of =>
      \/ r \in RP!ToSet(rows)
      \/ Len(rows) = PageSize /\ RP!Older(r, RP!Last(rows))

HistoryInv ==
  page # None =>
    /\ page.known \subseteq RP!Rows
    /\ \A r \in page.known : r.owner <= guest /\ (r.owner = guest => r \in receipts)
    /\ page.id = None /\ page.view = "success" => Fresh(page.known, page.of, page.shown)
    /\ \A q \in inFlight :
         q.number = page.request /\ q.id = None /\ q.answer # None /\ q.answer.status = "success" =>
           Fresh(page.known, q.answer.of, q.answer.rows)

LEMMA LoadIsFresh ==
  ASSUME ReceiptInv, RowsAreOwned, NEW id, RP!Load(id)
  PROVE  HistoryInv'
  <1>1. PICK q : /\ q = [number |-> asked + 1, id |-> id, answer |-> None]
                 /\ inFlight' = inFlight \union {q}
    BY DEF RP!Load
  <1>2. /\ page' = [id |-> id, view |-> "loading", shown |-> <<>>, request |-> asked + 1,
                    of |-> None, known |-> receipts]
        /\ UNCHANGED <<receipts, guest>>
    BY DEF RP!Load
  <1>3. page'.request = asked + 1 /\ page'.view = "loading" /\ page'.known = receipts
    BY <1>2
  <1>4. q.answer = None /\ \A p \in inFlight : p.number # asked + 1
    BY <1>1 DEF ReceiptInv, AnswersNameTheirRequest, IsRequest
  <1>5. QED
    BY <1>1, <1>2, <1>3, <1>4 DEF HistoryInv, RowsAreOwned, IsTable

\* The list that is served has what the page knew of its guest.
LEMMA ServedIsFresh ==
  ASSUME RowsAreOwned, HistoryInv, page # None
  PROVE  Fresh(page.known, guest, RP!Below(guest, {}))
  <1> DEFINE f == RP!Below(guest, {})
  <1>1. \A r \in RP!Own(guest) :
          r \in RP!ToSet(f) \/ (Len(f) = PageSize /\ RP!Older(r, RP!Last(f)))
    BY BelowLists
  <1>2. \A r \in page.known : r.owner = guest => r \in RP!Own(guest)
    BY DEF HistoryInv, RP!Own
  <1>3. QED
    BY <1>1, <1>2 DEF Fresh

LEMMA AnswerIsFresh ==
  ASSUME ReceiptInv, HistoryInv, NEW q \in inFlight, NEW a,
         page # None /\ q.id = None /\ a.status = "success" => Fresh(page.known, a.of, a.rows),
         inFlight' = (inFlight \ {q}) \union {[q EXCEPT !.answer = a]},
         UNCHANGED <<receipts, guest, page>>
  PROVE  HistoryInv'
  <1> DEFINE new == [q EXCEPT !.answer = a]
  <1>1. new.number = q.number /\ new.id = q.id /\ new.answer = a
    BY DEF ReceiptInv, AnswersNameTheirRequest, IsRequest
  <1> HIDE DEF new
  <1>2. inFlight' = (inFlight \ {q}) \union {new}
    BY DEF new
  <1>3. QED
    BY <1>1, <1>2 DEF HistoryInv, Fresh

LEMMA HistoryInvariant ==
  ASSUME ReceiptInv, RowsAreOwned, HistoryInv, [RP!Next]_(RP!vars)
  PROVE  HistoryInv'
  <1>1. CASE \E r \in RP!Rows : RP!Order(r)
    BY <1>1 DEF RP!Order, HistoryInv, Fresh
  <1>2. CASE RP!Reset \/ RP!Expire
    <2>1. /\ guest' = guest + 1 /\ UNCHANGED <<page, inFlight>>
      BY <1>2 DEF RP!Reset, RP!Expire, RP!Rotate
    <2>2. page # None =>
            \A r \in page.known : r.owner <= guest' /\ r.owner # guest'
      BY <2>1, RowsAreNumbers DEF HistoryInv, RowsAreOwned
    <2>3. QED
      BY <2>1, <2>2 DEF HistoryInv, Fresh
  <1>3. CASE UNCHANGED <<receipts, guest, page, inFlight>>
    BY <1>3 DEF HistoryInv, Fresh
  <1>4. CASE RP!OpenHistory \/ (\E id \in Receipts : RP!OpenReceipt(id)) \/ RP!Retry
    BY <1>4, LoadIsFresh DEF RP!OpenHistory, RP!OpenReceipt, RP!Retry
  <1>5. CASE RP!Leave
    BY <1>5 DEF RP!Leave, HistoryInv
  <1>6. ASSUME NEW q \in inFlight, RP!Serve(q) PROVE HistoryInv'
    <2>1. PICK a : /\ inFlight' = (inFlight \ {q}) \union {[q EXCEPT !.answer = a]}
                   /\ q.id = None => a = RP!Answer("success", RP!Below(guest, {}))
      BY <1>6 DEF RP!Serve
    <2>2. page # None /\ q.id = None /\ a.status = "success" => Fresh(page.known, a.of, a.rows)
      BY <2>1, ServedIsFresh DEF RP!Answer
    <2>3. QED
      BY <1>6, <2>1, <2>2, AnswerIsFresh DEF RP!Serve
  <1>7. ASSUME NEW q \in inFlight, RP!Fail(q) PROVE HistoryInv'
    <2>1. PICK a : /\ inFlight' = (inFlight \ {q}) \union {[q EXCEPT !.answer = a]}
                   /\ a = RP!Answer("error", <<>>)
      BY <1>7 DEF RP!Fail
    <2>2. a.status # "success"
      BY <2>1 DEF RP!Answer
    <2>3. QED
      BY <1>7, <2>1, <2>2, AnswerIsFresh DEF RP!Fail
  <1>8. ASSUME NEW q \in inFlight, RP!Arrive(q) PROVE HistoryInv'
    <2>1. inFlight' = inFlight \ {q} /\ UNCHANGED <<receipts, guest>> /\ q.answer # None
      BY <1>8 DEF RP!Arrive
    <2>2. CASE RP!Heeds(q)
      <3>1. /\ page # None /\ page.request = q.number /\ page.id = q.id
            /\ page = [id |-> page.id, view |-> page.view, shown |-> page.shown,
                       request |-> page.request, of |-> page.of, known |-> page.known]
        BY <2>2 DEF RP!Heeds, ReceiptInv, AnswersNameTheirRequest, PageNamesItsAddress, IsPage
      <3>2. page' = [page EXCEPT !.view = q.answer.status, !.shown = q.answer.rows,
                                 !.of = q.answer.of]
        BY <1>8, <2>2 DEF RP!Arrive
      <3>3. /\ page'.id = page.id /\ page'.known = page.known /\ page'.request = page.request
            /\ page'.view = q.answer.status /\ page'.shown = q.answer.rows
            /\ page'.of = q.answer.of
        <4>1. PICK i, v0, s0, n, o0, k :
                /\ page = [id |-> i, view |-> v0, shown |-> s0, request |-> n,
                           of |-> o0, known |-> k]
                /\ i = page.id /\ n = page.request /\ k = page.known
          BY <3>1
        <4>2. page' = [id |-> i, view |-> q.answer.status, shown |-> q.answer.rows,
                       request |-> n, of |-> q.answer.of, known |-> k]
          BY <3>2, <4>1, PageShows
        <4>3. QED
          BY <4>1, <4>2
      <3>4. page.id = None /\ q.answer.status = "success" =>
              Fresh(page.known, q.answer.of, q.answer.rows)
        BY <2>1, <3>1 DEF HistoryInv
      <3>5. QED
        BY <2>1, <3>1, <3>3, <3>4 DEF HistoryInv, Fresh
    <2>3. CASE ~RP!Heeds(q)
      <3>1. page' = page
        BY <1>8, <2>3 DEF RP!Arrive
      <3>2. QED
        BY <2>1, <3>1 DEF HistoryInv, Fresh
    <2>4. QED
      BY <2>2, <2>3
  <1>9. QED
    BY <1>1, <1>2, <1>3, <1>4, <1>5, <1>6, <1>7, <1>8
    DEF RP!Next, RP!vars, RP!StartWalk, RP!ContinueWalk, RP!EndWalk

\* The browser's first guest is the least of them.
LEMMA FirstReader == RP!Min(Readers) \in Readers
  <1>1. Readers \subseteq Nat /\ Readers # {}
    BY OperationsAssumption DEF RP!HistoryConstants
  <1>2. PICK m \in Readers : \A y \in Readers : ~(<<y, m>> \in OpToRel(<, Nat))
    BY <1>1, NatLessThanWellFounded, WFMin
  <1>3. m \in Nat /\ \A y \in Readers : y \in Nat /\ ~(y < m)
    BY <1>1, <1>2 DEF OpToRel
  <1>4. \A y \in Readers : m <= y
    BY <1>3
  <1>5. QED
    BY <1>2, <1>4, Zenon DEF RP!Min

\* Pages of a list meet without gap or overlap and are of one guest, while orders arrive with
\* any time of creation and guests come and go; a history page is no older than its request.
THEOREM ListsHold == RP!Spec => []ListsAreWhole
  <1> DEFINE Inv == ReceiptInv /\ RowsAreOwned /\ WalkInv /\ HistoryInv
  <1>1. RP!Init => Inv
    <2> SUFFICES ASSUME RP!Init PROVE Inv
      OBVIOUS
    <2>1. guest \in Nat
      BY FirstReader, OperationsAssumption DEF RP!Init, RP!HistoryConstants
    <2>2. QED
      BY <2>1, ReceiptInvariant, FS_EmptySet
      DEF RP!Init, RowsAreOwned, IsTable, WalkInv, HistoryInv
  <1>2. Inv /\ [RP!Next]_(RP!vars) => Inv'
    BY ReceiptInvariant, WalkInvariant, HistoryInvariant
  <1>3. Inv => ListsAreWhole
    <2> SUFFICES ASSUME Inv PROVE ListsAreWhole
      OBVIOUS
    <2>1. RP!PagesMeet
      BY DEF WalkInv, WalkTypes, WalkIsWhole, Descending, RP!PagesMeet
    <2>2. RP!OneGuestPerWalk
      BY DEF WalkInv, WalkIsWhole, RP!OneGuestPerWalk
    <2>3. RP!HistoryIsFresh
      BY DEF HistoryInv, Fresh, RP!HistoryIsFresh
    <2>4. QED
      BY <2>1, <2>2, <2>3 DEF ListsAreWhole
  <1>4. QED
    BY <1>1, <1>2, <1>3, PTL DEF RP!Spec

-----------------------------------------------------------------------------
(***************************************************************************)
(* The limiter.  As long as a process may still count in a window, the     *)
(* window's counters are kept and are no less than what was let through;   *)
(* and a span of a window's length touches two windows.                    *)
(***************************************************************************)
Owners == Shoppers \union {Everyone}

Limit(o) == IF o = Everyone THEN Aggregate ELSE PerGuest

\* What was let through in a window, of one guest or of all.
Through(o, b) == {a \in admitted : a.bucket = b /\ (o # Everyone => a.guest = o)}

\* Some process, its clock ahead or not, may yet count an attempt in the window.
Current(b) == now < (b + 1) * Window

CountersArePlain ==
  /\ now \in Nat
  /\ \A c \in counters : /\ c.bucket \in Nat /\ c.count \in Nat /\ c.expires \in Nat
                         /\ c.expires > (c.bucket + 1) * Window
  /\ \A c, d \in counters : c.owner = d.owner /\ c.bucket = d.bucket => c = d

AdmittedInTime ==
  /\ IsFiniteSet(admitted)
  /\ \A a \in admitted : /\ a.guest \in Shoppers /\ a.at \in 0 .. now
                         /\ \E skew \in Skews : a.bucket = (a.at + skew) \div Window

CountersKnow ==
  \A o \in Owners, b \in Nat :
    Current(b) => /\ RL!Count(o, b) \in Nat
                  /\ Cardinality(Through(o, b)) <= RL!Count(o, b)

ThroughWithinLimit ==
  \A o \in Owners, b \in Nat : Cardinality(Through(o, b)) <= Limit(o)

LimiterInv == CountersArePlain /\ AdmittedInTime /\ CountersKnow /\ ThroughWithinLimit

LEMMA LimiterSettings ==
  /\ Window \in Nat \ {0} /\ PerGuest \in Nat \ {0} /\ Aggregate \in Nat \ {0}
  /\ Skews \subseteq 0 .. Window - 1 /\ Skews \subseteq Nat
  /\ Everyone \notin Shoppers
  <1>1. RL!LimiterConstants
    BY OperationsAssumption
  <1>2. {Window, PerGuest, Aggregate} \subseteq Nat \ {0}
    BY <1>1 DEF RL!LimiterConstants
  <1>3. Window \in Nat \ {0} /\ PerGuest \in Nat \ {0} /\ Aggregate \in Nat \ {0}
    BY <1>2
  <1>4. QED
    BY <1>1, <1>3 DEF RL!LimiterConstants

\* The window of a moment.
LEMMA WindowOf ==
  ASSUME NEW t \in Nat
  PROVE  /\ t \div Window \in Nat
         /\ (t \div Window) * Window <= t
         /\ t < (t \div Window + 1) * Window
         /\ (t + Window) \div Window = t \div Window + 1
  BY LimiterSettings

LEMMA WindowsInOrder ==
  ASSUME NEW t \in Nat, NEW u \in Nat, t <= u
  PROVE  t \div Window <= u \div Window
  BY LimiterSettings

LEMMA ThroughIsFinite ==
  ASSUME LimiterInv, NEW o, NEW b
  PROVE  IsFiniteSet(Through(o, b)) /\ Cardinality(Through(o, b)) \in Nat
  <1>1. IsFiniteSet(admitted) /\ Through(o, b) \subseteq admitted
    BY DEF LimiterInv, AdmittedInTime, Through
  <1>2. IsFiniteSet(Through(o, b))
    BY <1>1, FS_Subset
  <1>3. QED
    BY <1>2, FS_CardinalityType

\* A counter that lasts is read as before.
LEMMA SameKeySameCount ==
  ASSUME NEW o, NEW b, RL!Key(o, b)' = RL!Key(o, b)
  PROVE  RL!Count(o, b)' = RL!Count(o, b)
  BY DEF RL!Count

LEMMA CountOfKey ==
  ASSUME NEW o, NEW b, NEW c, RL!Key(o, b) = {c}
  PROVE  RL!Count(o, b) = c.count
  BY DEF RL!Count

LEMMA CountIsNat ==
  ASSUME CountersArePlain, NEW o, NEW b
  PROVE  RL!Count(o, b) \in Nat
  BY DEF CountersArePlain, RL!Count, RL!Key

LEMMA TickKeeps ==
  ASSUME LimiterInv, RL!Tick
  PROVE  LimiterInv'
  <1> USE LimiterSettings
  <1>0. CountersArePlain /\ AdmittedInTime /\ CountersKnow /\ ThroughWithinLimit
    BY DEF LimiterInv
  <1>1. /\ now \in Nat /\ now' = now + 1 /\ admitted' = admitted
        /\ counters' = {c \in counters : c.expires > now + 1}
    BY <1>0 DEF RL!Tick, CountersArePlain
  <1>2. CountersArePlain'
    BY <1>0, <1>1 DEF CountersArePlain
  <1>3. AdmittedInTime'
    BY <1>0, <1>1 DEF AdmittedInTime
  <1>4. \A o \in Owners, b \in Nat : Through(o, b)' = Through(o, b)
    BY <1>1 DEF Through
  <1>5. ASSUME NEW o \in Owners, NEW b \in Nat, Current(b)'
        PROVE  Current(b) /\ RL!Count(o, b)' = RL!Count(o, b)
    <2>1. (b + 1) * Window \in Nat
      OBVIOUS
    <2>2. now + 1 < (b + 1) * Window
      BY <1>1, <1>5 DEF Current
    <2>3. Current(b)
      BY <1>1, <2>1, <2>2 DEF Current
    <2>4. \A c \in RL!Key(o, b) : c.expires > now + 1
      BY <1>0, <1>1, <2>1, <2>2 DEF CountersArePlain, RL!Key
    <2>5. RL!Key(o, b)' = RL!Key(o, b)
      BY <1>1, <2>4 DEF RL!Key
    <2>6. QED
      BY <2>3, <2>5, SameKeySameCount
  <1>6. CountersKnow'
    BY <1>0, <1>4, <1>5 DEF CountersKnow
  <1>7. ThroughWithinLimit'
    BY <1>0, <1>4 DEF ThroughWithinLimit
  <1>8. QED
    BY <1>2, <1>3, <1>6, <1>7 DEF LimiterInv

\* An attempt is counted for its guest and for everyone, in its own window only.
LEMMA AttemptCounts ==
  ASSUME LimiterInv, NEW g \in Shoppers, NEW skew \in Skews, RL!Attempt(g, skew),
         NEW b, b = (now + skew) \div Window
  PROVE  /\ b \in Nat /\ Current(b)
         /\ CountersArePlain'
         /\ \A o \in {g, Everyone} : RL!Count(o, b)' = RL!Count(o, b) + 1
         /\ \A o \in Owners, w \in Nat :
              w # b \/ o \notin {g, Everyone} => RL!Count(o, w)' = RL!Count(o, w)
  <1> USE LimiterSettings
  <1>0. CountersArePlain /\ now \in Nat /\ skew \in Nat /\ skew < Window
    BY DEF LimiterInv, CountersArePlain
  <1> DEFINE N(o) == [owner |-> o, bucket |-> b, count |-> RL!Count(o, b) + 1,
                      expires |-> now + 2 * Window]
  <1>1. b \in Nat /\ b * Window <= now + skew /\ now + skew < (b + 1) * Window
    BY <1>0, WindowOf
  <1>2. Current(b)
    <2>1. (b + 1) * Window \in Nat
      BY <1>1
    <2>2. QED
      BY <1>0, <1>1, <2>1 DEF Current
  <1>3. now + 2 * Window \in Nat /\ now + 2 * Window > (b + 1) * Window
    <2>1. (b + 1) * Window = b * Window + Window /\ b * Window \in Nat
      BY <1>1
    <2>2. QED
      BY <1>0, <1>1, <2>1
  <1>4. RL!Incremented(g, now + skew) = N(g) /\ RL!Incremented(Everyone, now + skew) = N(Everyone)
    BY DEF RL!Incremented, RL!Expiry
  <1>5. /\ counters' = (counters \ (RL!Key(g, b) \union RL!Key(Everyone, b)))
                         \union {N(g), N(Everyone)}
        /\ now' = now
    BY <1>4 DEF RL!Attempt
  <1>6. \A o : /\ N(o).owner = o /\ N(o).bucket = b /\ N(o).count = RL!Count(o, b) + 1
               /\ N(o).expires = now + 2 * Window
    OBVIOUS
  <1>7. PICK new, all : new = N(g) /\ all = N(Everyone)
    OBVIOUS
  <1>8. /\ new.owner = g /\ all.owner = Everyone /\ new.bucket = b /\ all.bucket = b
        /\ new.count = RL!Count(g, b) + 1 /\ all.count = RL!Count(Everyone, b) + 1
        /\ new.expires = now + 2 * Window /\ all.expires = now + 2 * Window
        /\ counters' = (counters \ (RL!Key(g, b) \union RL!Key(Everyone, b))) \union {new, all}
    BY <1>5, <1>6, <1>7
  <1> HIDE DEF N
  <1>9. new.count \in Nat /\ all.count \in Nat
    BY <1>0, <1>8, CountIsNat
  <1>10. CountersArePlain'
    <2>1. now' \in Nat
      BY <1>0, <1>5
    <2>2. \A c \in counters' : /\ c.bucket \in Nat /\ c.count \in Nat /\ c.expires \in Nat
                               /\ c.expires > (c.bucket + 1) * Window
      BY <1>0, <1>1, <1>3, <1>8, <1>9 DEF CountersArePlain
    <2>3. \A c, d \in counters' : c.owner = d.owner /\ c.bucket = d.bucket => c = d
      BY <1>0, <1>8 DEF CountersArePlain, RL!Key
    <2>4. QED
      BY <2>1, <2>2, <2>3 DEF CountersArePlain
  <1>11. RL!Key(g, b)' = {new} /\ RL!Key(Everyone, b)' = {all}
    BY <1>8 DEF RL!Key
  <1>12. RL!Count(g, b)' = new.count /\ RL!Count(Everyone, b)' = all.count
    BY <1>11 DEF RL!Count
  <1>13. ASSUME NEW o \in Owners, NEW w \in Nat, w # b \/ o \notin {g, Everyone}
         PROVE  RL!Count(o, w)' = RL!Count(o, w)
    <2>1. RL!Key(o, w)' = RL!Key(o, w)
      BY <1>8, <1>13 DEF RL!Key
    <2>2. QED
      BY <2>1, SameKeySameCount
  <1>14. QED
    BY <1>1, <1>2, <1>8, <1>10, <1>12, <1>13

\* What an attempt that is let through adds to a window.
LEMMA OneMoreThrough ==
  ASSUME LimiterInv, NEW a, admitted' = admitted \union {a}, NEW o, NEW b
  PROVE  /\ Cardinality(Through(o, b)') \in Nat
         /\ Cardinality(Through(o, b)') <= Cardinality(Through(o, b)) + 1
         /\ (a.bucket # b \/ (o # Everyone /\ a.guest # o)) => Through(o, b)' = Through(o, b)
  <1>1. Through(o, b)' \subseteq Through(o, b) \union {a}
    BY DEF Through
  <1>2. IsFiniteSet(Through(o, b)) /\ Cardinality(Through(o, b)) \in Nat
    BY ThroughIsFinite
  <1>3. /\ IsFiniteSet(Through(o, b) \union {a})
        /\ Cardinality(Through(o, b) \union {a}) \in Nat
        /\ Cardinality(Through(o, b) \union {a}) <= Cardinality(Through(o, b)) + 1
    BY <1>2, FS_AddElement, FS_CardinalityType
  <1>4. /\ IsFiniteSet(Through(o, b)')
        /\ Cardinality(Through(o, b)') <= Cardinality(Through(o, b) \union {a})
    BY <1>1, <1>3, FS_Subset
  <1>5. Cardinality(Through(o, b)') \in Nat
    BY <1>4, FS_CardinalityType
  <1>6. (a.bucket # b \/ (o # Everyone /\ a.guest # o)) => Through(o, b)' = Through(o, b)
    BY DEF Through
  <1>7. QED
    BY <1>2, <1>3, <1>4, <1>5, <1>6

LEMMA AttemptKeeps ==
  ASSUME LimiterInv, NEW g \in Shoppers, NEW skew \in Skews, RL!Attempt(g, skew)
  PROVE  LimiterInv'
  <1> USE LimiterSettings
  <1>0. CountersArePlain /\ AdmittedInTime /\ CountersKnow /\ ThroughWithinLimit
    BY DEF LimiterInv
  <1>1. PICK b : b = (now + skew) \div Window
    OBVIOUS
  <1>2. /\ b \in Nat /\ Current(b) /\ CountersArePlain'
        /\ \A o \in {g, Everyone} : RL!Count(o, b)' = RL!Count(o, b) + 1
        /\ \A o \in Owners, w \in Nat :
             w # b \/ o \notin {g, Everyone} => RL!Count(o, w)' = RL!Count(o, w)
    BY <1>1, AttemptCounts
  <1>3. now \in Nat /\ now' = now /\ \A w : Current(w)' <=> Current(w)
    BY <1>0 DEF RL!Attempt, CountersArePlain, Current
  <1>4. {g, Everyone} \subseteq Owners
    BY DEF Owners
  <1>5. \A o \in Owners, w \in Nat : Cardinality(Through(o, w)) \in Nat
    BY ThroughIsFinite
  <1>6. \A o, w : RL!Count(o, w) \in Nat
    BY <1>0, CountIsNat
  <1>7. CASE RL!WithinBounds(g, b)
    <2>1. PICK a : /\ admitted' = admitted \union {a}
                   /\ a = [guest |-> g, at |-> now, bucket |-> b, nth |-> RL!Count(g, b)]
      BY <1>1, <1>7 DEF RL!Attempt
    <2>2. a.guest = g /\ a.at = now /\ a.bucket = b
      BY <2>1
    <2>3. AdmittedInTime'
      <3>1. IsFiniteSet(admitted')
        BY <1>0, <2>1, FS_AddElement DEF AdmittedInTime
      <3>2. a.guest \in Shoppers /\ a.at \in 0 .. now' /\ a.bucket = (a.at + skew) \div Window
        BY <1>1, <1>3, <2>2
      <3>3. \A c \in admitted : /\ c.guest \in Shoppers /\ c.at \in 0 .. now'
                                /\ \E s \in Skews : c.bucket = (c.at + s) \div Window
        BY <1>0, <1>3 DEF AdmittedInTime
      <3>4. QED
        BY <2>1, <3>1, <3>2, <3>3 DEF AdmittedInTime
    <2>4. RL!Count(g, b) < PerGuest /\ RL!Count(Everyone, b) < Aggregate
      BY <1>7 DEF RL!WithinBounds
    <2>5. ASSUME NEW o \in Owners, NEW w \in Nat
          PROVE  /\ Current(w) => /\ RL!Count(o, w)' \in Nat
                                  /\ Cardinality(Through(o, w)') <= RL!Count(o, w)'
                 /\ Cardinality(Through(o, w)') <= Limit(o)
      <3>1. /\ Cardinality(Through(o, w)') \in Nat
            /\ Cardinality(Through(o, w)') <= Cardinality(Through(o, w)) + 1
        BY <2>1, OneMoreThrough
      <3>2. CASE w = b /\ o \in {g, Everyone}
        <4>1. Cardinality(Through(o, b)) <= RL!Count(o, b) /\ RL!Count(o, b) < Limit(o)
          BY <1>0, <1>2, <2>4, <3>2 DEF CountersKnow, Limit
        <4>2. Limit(o) \in Nat
          BY DEF Limit
        <4>3. QED
          BY <1>2, <1>5, <1>6, <3>1, <3>2, <4>1, <4>2
      <3>3. CASE w # b \/ o \notin {g, Everyone}
        <4>1. Through(o, w)' = Through(o, w)
          BY <2>1, <2>2, <3>3, OneMoreThrough
        <4>2. RL!Count(o, w)' = RL!Count(o, w)
          BY <1>2, <3>3
        <4>3. QED
          BY <1>0, <4>1, <4>2 DEF CountersKnow, ThroughWithinLimit
      <3>4. QED
        BY <3>2, <3>3
    <2>6. CountersKnow'
      BY <1>3, <2>5 DEF CountersKnow
    <2>7. ThroughWithinLimit'
      BY <2>5 DEF ThroughWithinLimit
    <2>8. QED
      BY <1>2, <2>3, <2>6, <2>7 DEF LimiterInv
  <1>8. CASE ~RL!WithinBounds(g, b)
    <2>1. admitted' = admitted
      BY <1>1, <1>8 DEF RL!Attempt
    <2>2. AdmittedInTime' /\ ThroughWithinLimit'
      BY <1>0, <1>3, <2>1 DEF AdmittedInTime, ThroughWithinLimit, Through
    <2>3. \A o \in Owners, w \in Nat : Through(o, w)' = Through(o, w)
      BY <2>1 DEF Through
    <2>4. ASSUME NEW o \in Owners, NEW w \in Nat, Current(w)
          PROVE  /\ RL!Count(o, w)' \in Nat
                 /\ Cardinality(Through(o, w)') <= RL!Count(o, w)'
      <3>1. RL!Count(o, w)' \in Nat /\ RL!Count(o, w) <= RL!Count(o, w)'
        BY <1>2, <1>6
      <3>2. Cardinality(Through(o, w)) <= RL!Count(o, w)
        BY <1>0, <2>4 DEF CountersKnow
      <3>3. QED
        BY <1>5, <1>6, <2>3, <3>1, <3>2
    <2>5. CountersKnow'
      BY <1>3, <2>4 DEF CountersKnow
    <2>6. QED
      BY <1>2, <2>2, <2>5 DEF LimiterInv
  <1>9. QED
    BY <1>7, <1>8

LEMMA LimiterInvariant ==
  /\ RL!Init => LimiterInv
  /\ LimiterInv /\ [RL!Next]_(RL!vars) => LimiterInv'
  <1> USE LimiterSettings
  <1>1. ASSUME RL!Init PROVE LimiterInv
    <2>1. \A o, b : RL!Count(o, b) = 0 /\ Through(o, b) = {}
      BY <1>1 DEF RL!Init, RL!Count, RL!Key, Through
    <2>2. CountersArePlain /\ AdmittedInTime
      BY <1>1, FS_EmptySet DEF RL!Init, CountersArePlain, AdmittedInTime
    <2>3. \A o : Limit(o) \in Nat
      BY DEF Limit
    <2>4. CountersKnow /\ ThroughWithinLimit
      BY <2>1, <2>3, FS_EmptySet DEF CountersKnow, ThroughWithinLimit
    <2>5. QED
      BY <2>2, <2>4 DEF LimiterInv
  <1>2. ASSUME LimiterInv, [RL!Next]_(RL!vars) PROVE LimiterInv'
    <2>1. CASE UNCHANGED <<now, counters, admitted>>
      <3>1. \A o, b : /\ RL!Count(o, b)' = RL!Count(o, b) /\ Through(o, b)' = Through(o, b)
                      /\ Current(b)' <=> Current(b)
        BY <2>1 DEF RL!Count, RL!Key, Through, Current
      <3>2. CountersArePlain' /\ AdmittedInTime'
        BY <1>2, <2>1 DEF LimiterInv, CountersArePlain, AdmittedInTime
      <3>3. CountersKnow' /\ ThroughWithinLimit'
        BY <1>2, <3>1 DEF LimiterInv, CountersKnow, ThroughWithinLimit
      <3>4. QED
        BY <3>2, <3>3 DEF LimiterInv
    <2>2. CASE RL!Outage \/ UNCHANGED RL!vars
      BY <2>1, <2>2 DEF RL!Outage, RL!vars
    <2>3. CASE RL!Tick
      BY <1>2, <2>3, TickKeeps
    <2>4. ASSUME NEW g \in Shoppers, NEW skew \in Skews, RL!Attempt(g, skew)
          PROVE  LimiterInv'
      BY <1>2, <2>4, AttemptKeeps
    <2>5. QED
      BY <1>2, <2>2, <2>3, <2>4 DEF RL!Next
  <1>3. QED
    BY <1>1, <1>2

LEMMA LimiterCardinality == \A S : RL!Cardinality(S) = Cardinality(S)
  BY DEF RL!Cardinality, Cardinality

LEMMA WindowsAreBounded == LimiterInv => RL!WindowBound
  <1> SUFFICES ASSUME LimiterInv, NEW a \in admitted
               PROVE  /\ Cardinality({b \in admitted : b.bucket = a.bucket}) <= Aggregate
                      /\ Cardinality({b \in admitted : b.bucket = a.bucket /\ b.guest = a.guest})
                           <= PerGuest
    BY LimiterCardinality DEF RL!WindowBound
  <1> USE LimiterSettings
  <1>1. /\ a.guest \in Shoppers /\ a.at \in Nat
        /\ \E skew \in Skews : a.bucket = (a.at + skew) \div Window
    BY DEF LimiterInv, AdmittedInTime, CountersArePlain
  <1>2. a.bucket \in Nat
    BY <1>1
  <1>3. Everyone \in Owners /\ a.guest \in Owners /\ a.guest # Everyone
    BY <1>1 DEF Owners
  <1>4. /\ {b \in admitted : b.bucket = a.bucket} = Through(Everyone, a.bucket)
        /\ {b \in admitted : b.bucket = a.bucket /\ b.guest = a.guest}
             = Through(a.guest, a.bucket)
    BY <1>3 DEF Through
  <1>5. QED
    BY <1>2, <1>3, <1>4 DEF LimiterInv, ThroughWithinLimit, Limit

\* What falls in two windows, of clocks that agree to a second.
LEMMA SpanIsBounded ==
  ASSUME Skews \subseteq {0, 1}, LimiterInv, NEW t \in 0 .. now, NEW o \in Owners,
         NEW S, S \subseteq admitted,
         \A a \in S : a.at \in t .. t + Window - 1 /\ (o # Everyone => a.guest = o)
  PROVE  Cardinality(S) <= 2 * Limit(o)
  <1> USE LimiterSettings
  <1>0. now \in Nat /\ t \in Nat
    BY DEF LimiterInv, CountersArePlain
  <1>1. PICK b : b = t \div Window
    OBVIOUS
  <1>2. b \in Nat /\ (t + Window) \div Window = b + 1
    BY <1>0, <1>1, WindowOf
  <1>3. ASSUME NEW a \in S PROVE a.bucket \in {b, b + 1}
    <2>1. PICK skew \in Skews : a.bucket = (a.at + skew) \div Window
      BY DEF LimiterInv, AdmittedInTime
    <2>2. a.at + skew \in Nat /\ t <= a.at + skew /\ a.at + skew <= t + Window
      BY <1>0
    <2>3. b <= a.bucket /\ a.bucket <= b + 1 /\ a.bucket \in Nat
      <3>1. PICK u : u = a.at + skew
        OBVIOUS
      <3>2. u \in Nat /\ t + Window \in Nat /\ t <= u /\ u <= t + Window
        BY <1>0, <2>2, <3>1
      <3>3. t \div Window <= u \div Window
        BY <1>0, <3>2, WindowsInOrder
      <3>4. u \div Window <= (t + Window) \div Window
        BY <3>2, WindowsInOrder
      <3>5. u \div Window \in Nat
        BY <3>2, WindowOf
      <3>6. QED
        BY <1>1, <1>2, <2>1, <3>1, <3>3, <3>4, <3>5
    <2>4. QED
      BY <1>2, <2>3
  <1>4. S \subseteq Through(o, b) \union Through(o, b + 1)
    BY <1>3 DEF Through
  <1>5. /\ IsFiniteSet(Through(o, b)) /\ Cardinality(Through(o, b)) \in Nat
        /\ IsFiniteSet(Through(o, b + 1)) /\ Cardinality(Through(o, b + 1)) \in Nat
        /\ Cardinality(Through(o, b)) <= Limit(o) /\ Cardinality(Through(o, b + 1)) <= Limit(o)
    BY <1>2, ThroughIsFinite DEF LimiterInv, ThroughWithinLimit
  <1>6. /\ IsFiniteSet(Through(o, b) \union Through(o, b + 1))
        /\ Cardinality(Through(o, b) \union Through(o, b + 1))
             <= Cardinality(Through(o, b)) + Cardinality(Through(o, b + 1))
    <2> DEFINE both == Through(o, b) \intersect Through(o, b + 1)
               any  == Through(o, b) \union Through(o, b + 1)
    <2>1. IsFiniteSet(both)
      BY <1>5, FS_Intersection
    <2>2. Cardinality(both) \in Nat
      BY <2>1, FS_CardinalityType
    <2>3. /\ IsFiniteSet(any)
          /\ Cardinality(any) = Cardinality(Through(o, b)) + Cardinality(Through(o, b + 1))
                                  - Cardinality(both)
      BY <1>5, FS_Union
    <2> HIDE DEF both, any
    <2>4. IsFiniteSet(any) /\ Cardinality(any)
             <= Cardinality(Through(o, b)) + Cardinality(Through(o, b + 1))
      BY <1>5, <2>2, <2>3
    <2>5. QED
      BY <2>4 DEF any
  <1>7. Cardinality(Through(o, b) \union Through(o, b + 1)) \in Nat
    BY <1>6, FS_CardinalityType
  <1>8. /\ IsFiniteSet(S)
        /\ Cardinality(S) <= Cardinality(Through(o, b) \union Through(o, b + 1))
    BY <1>4, <1>6, FS_Subset
  <1>9. Cardinality(S) \in Nat /\ Limit(o) \in Nat
    BY <1>8, FS_CardinalityType DEF Limit
  <1>10. QED
    BY <1>5, <1>6, <1>7, <1>8, <1>9

LEMMA SpansAreBounded ==
  ASSUME Skews \subseteq {0, 1}, LimiterInv
  PROVE  RL!SpanBound
  <1> SUFFICES ASSUME NEW t \in 0 .. now
               PROVE  /\ Cardinality(RL!From(Shoppers, t .. t + Window - 1)) <= 2 * Aggregate
                      /\ \A g \in Shoppers :
                           Cardinality(RL!From({g}, t .. t + Window - 1)) <= 2 * PerGuest
    BY LimiterCardinality DEF RL!SpanBound
  <1>1. Cardinality(RL!From(Shoppers, t .. t + Window - 1)) <= 2 * Aggregate
    <2>1. Everyone \in Owners /\ Limit(Everyone) = Aggregate
      BY DEF Owners, Limit
    <2> DEFINE S == RL!From(Shoppers, t .. t + Window - 1)
    <2>2. /\ S \subseteq admitted
          /\ \A a \in S : a.at \in t .. t + Window - 1
      BY DEF RL!From
    <2> HIDE DEF S
    <2>3. Cardinality(S) <= 2 * Limit(Everyone)
      BY <2>1, <2>2, SpanIsBounded
    <2>4. QED
      BY <2>1, <2>3 DEF S
  <1>2. ASSUME NEW g \in Shoppers
        PROVE  Cardinality(RL!From({g}, t .. t + Window - 1)) <= 2 * PerGuest
    <2>1. g \in Owners /\ Limit(g) = PerGuest
      BY LimiterSettings DEF Owners, Limit
    <2> DEFINE S == RL!From({g}, t .. t + Window - 1)
    <2>2. /\ S \subseteq admitted
          /\ \A a \in S : a.at \in t .. t + Window - 1 /\ a.guest = g
      BY DEF RL!From
    <2> HIDE DEF S
    <2>3. Cardinality(S) <= 2 * Limit(g)
      BY <2>1, <2>2, SpanIsBounded
    <2>4. QED
      BY <2>1, <2>3 DEF S
  <1>3. QED
    BY <1>1, <1>2

\* However the clocks of the processes differ within a window, no window lets through
\* more than its bounds: no counter is dropped that a process could still count in.
THEOREM WindowsHold == RL!Spec => []RL!WindowBound
  BY LimiterInvariant, WindowsAreBounded, PTL DEF RL!Spec

\* While they agree to a second, no span of a window's length lets through more than
\* twice the bounds.
THEOREM SpansHold ==
  ASSUME Skews \subseteq {0, 1}
  PROVE  RL!Spec => []BoundsHold
  <1>1. LimiterInv => BoundsHold
    BY WindowsAreBounded, SpansAreBounded DEF BoundsHold
  <1>2. QED
    BY LimiterInvariant, <1>1, PTL DEF RL!Spec

(***************************************************************************)
(* Migrations.  The ledger is honest, for any number of deploys, images    *)
(* and runs: a run that holds the lock has read what is there, and its     *)
(* transaction agrees with the files it has passed.                        *)
(***************************************************************************)
MigrationNames == {m.name : m \in Migration}

\* What a ledger, or the rows a transaction adds to it, may be.
Ledgers == UNION {[names -> SumsOf] : names \in SUBSET MigrationNames}

Runs ==
  [pc : {"idle", "begun", "locked", "applying", "ended"}, tries : Nat,
   seen : Ledgers, at : Nat \ {0}, rows : Ledgers, executed : Seq(Migration),
   outcome : {None, "complete", "drift", "duplicate", "sql", "died"}]

Shapes ==
  /\ files \in [Deploys -> Images]
  /\ ledger \in Ledgers
  /\ schema \in Seq(Migration)
  /\ run \in [Deploys -> Runs]

\* The advisory lock is held from its statement to the end of the transaction.
LockIsHeld(d) == run[d].pc \in {"locked", "applying"} => lock = d

\* The rows of d's transaction, over the ledger, agree with the file in place i.
Passed(d, i) ==
  LET m == files[d][i] IN
  IF m.name \in DOMAIN run[d].rows THEN run[d].rows[m.name] = m.sum
  ELSE m.name \in DOMAIN ledger /\ ledger[m.name] = m.sum

\* A transaction that has not read the ledger has done nothing.
StartsEmpty(d) == run[d].pc \in {"begun", "locked"} =>
  run[d].at = 1 /\ run[d].rows = NoRows /\ run[d].executed = <<>>

\* What the holder of the lock has read is what is there, and its transaction agrees
\* with the files it has passed.
HolderKnows(d) == run[d].pc = "applying" =>
  /\ run[d].seen = ledger
  /\ run[d].at <= Len(files[d]) + 1
  /\ DOMAIN run[d].rows \subseteq {files[d][i].name : i \in 1 .. run[d].at - 1}
  /\ \A i \in 1 .. run[d].at - 1 : Passed(d, i)
  /\ \A name \in DOMAIN run[d].rows : name \in DOMAIN ledger => ledger[name] = Unknown

\* What has been executed in a transaction is what its rows add to the ledger.
ExecutedIsRecorded(d) == run[d].pc = "applying" =>
  /\ NamesIn(run[d].executed) = DOMAIN run[d].rows \ DOMAIN ledger
  /\ \A i, j \in DOMAIN run[d].executed :
       run[d].executed[i].name = run[d].executed[j].name => i = j
  /\ \A i \in DOMAIN run[d].executed :
       run[d].rows[run[d].executed[i].name] = run[d].executed[i].sum

\* A refusal points at a row that keeps its checksum.
DriftStands(d) ==
  /\ run[d].outcome # "duplicate"
  /\ run[d].outcome = "drift" =>
       \E i \in DOMAIN files[d] :
         /\ files[d][i].name \in DOMAIN ledger
         /\ ledger[files[d][i].name] \notin {Unknown, files[d][i].sum}

\* A completed run's files agree with the ledger.
Agreed(d) == run[d].outcome = "complete" =>
  \A i \in DOMAIN files[d] :
    files[d][i].name \in DOMAIN ledger /\ ledger[files[d][i].name] = files[d][i].sum

\* Only rows older than the checksums lack one.
NullIsLegacy == \A name \in DOMAIN ledger : ledger[name] = Unknown => name \in NamesIn(Legacy)

RunIsSound(d) ==
  /\ LockIsHeld(d) /\ StartsEmpty(d) /\ HolderKnows(d)
  /\ ExecutedIsRecorded(d) /\ DriftStands(d) /\ Agreed(d)

LInv ==
  /\ Shapes /\ NullIsLegacy /\ ExecutedOnce /\ LedgerTellsWhatRan
  /\ \A d \in Deploys : RunIsSound(d)

-----------------------------------------------------------------------------
\* A migration in an image has a name, and a checksum that is not NULL.
LEMMA ImageFacts ==
  ASSUME NEW image \in Images
  PROVE  /\ image \in Seq(Migration)
         /\ Len(image) \in Nat /\ DOMAIN image = 1 .. Len(image)
         /\ \A i \in DOMAIN image :
              /\ image[i] \in Migration /\ image[i].name \in MigrationNames
              /\ image[i].sum \in SumsOf /\ image[i].sum # Unknown
         /\ \A i, j \in DOMAIN image : image[i].name = image[j].name => i = j
<1> DEFINE Own == {image[i] : i \in DOMAIN image}
<1>1. image \in Seq(Own) /\ Own \subseteq Migration
  BY MigrationsAssumption DEF Migration
<1>2. \A i \in DOMAIN image : image[i] \in Migration
  BY DEF Migration
<1>3. image \in Seq(Migration) /\ Len(image) \in Nat /\ DOMAIN image = 1 .. Len(image)
  BY <1>1, <1>2
<1> QED  BY <1>2, <1>3, MigrationsAssumption DEF MigrationNames, SumsOf

\* A ledger is a function from names of migrations to checksums.
LEMMA LedgerShape ==
  ASSUME NEW f
  PROVE  f \in Ledgers <=>
           /\ DOMAIN f \subseteq MigrationNames
           /\ f \in [DOMAIN f -> SumsOf]
  BY DEF Ledgers

\* What the row operators of the loop do to a ledger.
LEMMA Merged ==
  ASSUME NEW f \in Ledgers, NEW g \in Ledgers
  PROVE  /\ Over(f, g) \in Ledgers
         /\ DOMAIN Over(f, g) = DOMAIN f \union DOMAIN g
         /\ \A x \in DOMAIN f : Over(f, g)[x] = f[x]
         /\ \A x \in DOMAIN g \ DOMAIN f : Over(f, g)[x] = g[x]
<1>1. Over(f, g) \in [DOMAIN f \union DOMAIN g -> SumsOf]
  BY LedgerShape DEF Over
<1> QED  BY <1>1, LedgerShape DEF Over

\* One row is a ledger.
LEMMA OneRow ==
  ASSUME NEW name \in MigrationNames, NEW sum \in SumsOf
  PROVE  [n \in {name} |-> sum] \in Ledgers
  BY LedgerShape

\* The deploys other than d are where they were.
LEMMA Moved ==
  ASSUME NEW d \in Deploys, NEW r \in Runs, Shapes, run' = [run EXCEPT ![d] = r]
  PROVE  /\ run' \in [Deploys -> Runs]
         /\ run'[d] = r
         /\ \A e \in Deploys \ {d} : run'[e] = run[e]
  BY DEF Shapes

\* The record of a process that has not started is well formed.
LEMMA IdleIsRun ==
  /\ Idle \in Runs /\ Idle.outcome = None
  /\ Idle.at = 1 /\ Idle.rows = NoRows /\ Idle.executed = <<>>
<1>1. NoRows \in Ledgers
  BY LedgerShape DEF NoRows
<1> QED  BY <1>1 DEF Idle, Runs

\* So are those of a process that starts or ends.
LEMMA EndsOfRuns ==
  ASSUME Shapes, NEW d \in Deploys,
         NEW why \in {None, "complete", "drift", "duplicate", "sql", "died"}
  PROVE  /\ Begun(d) \in Runs /\ Begun(d).pc = "begun" /\ Begun(d).outcome = None
         /\ Begun(d).at = 1 /\ Begun(d).rows = NoRows /\ Begun(d).executed = <<>>
         /\ Ended(d, why) \in Runs /\ Ended(d, why).pc = "ended"
         /\ Ended(d, why).outcome = why
<1>1. run[d].tries \in Nat /\ run[d].tries + 1 \in Nat
  BY DEF Shapes, Runs
<1> QED  BY <1>1, IdleIsRun DEF Begun, Ended, Runs

\* Names and places in a schema to which a transaction has added.
LEMMA NamesOfConcat ==
  ASSUME NEW s \in Seq(Migration), NEW t \in Seq(Migration)
  PROVE  /\ s \o t \in Seq(Migration)
         /\ NamesIn(s \o t) = NamesIn(s) \union NamesIn(t)
         /\ \A i \in DOMAIN (s \o t) :
              \/ i \in DOMAIN s /\ (s \o t)[i] = s[i]
              \/ i - Len(s) \in DOMAIN t /\ (s \o t)[i] = t[i - Len(s)]
<1>1. /\ s \o t \in Seq(Migration) /\ Len(s \o t) = Len(s) + Len(t)
      /\ DOMAIN (s \o t) = 1 .. Len(s) + Len(t)
      /\ DOMAIN s = 1 .. Len(s) /\ DOMAIN t = 1 .. Len(t)
      /\ Len(s) \in Nat /\ Len(t) \in Nat
  OBVIOUS
<1>2. \A i \in 1 .. Len(s) : (s \o t)[i] = s[i]
  OBVIOUS
<1>3. \A i \in 1 .. Len(t) : (s \o t)[Len(s) + i] = t[i] /\ Len(s) + i \in DOMAIN (s \o t)
  OBVIOUS
<1>4. \A i \in DOMAIN (s \o t) :
        \/ i \in DOMAIN s /\ (s \o t)[i] = s[i]
        \/ i - Len(s) \in DOMAIN t /\ (s \o t)[i] = t[i - Len(s)]
  <2> TAKE i \in DOMAIN (s \o t)
  <2>1. CASE i <= Len(s)
    BY <1>1, <1>2, <2>1
  <2>2. CASE i > Len(s)
    <3>1. i - Len(s) \in 1 .. Len(t) /\ Len(s) + (i - Len(s)) = i
      BY <1>1, <2>2
    <3> QED  BY <1>1, <1>3, <3>1
  <2> QED  BY <1>1, <2>1, <2>2
<1>5. NamesIn(s \o t) \subseteq NamesIn(s) \union NamesIn(t)
  BY <1>4 DEF NamesIn
<1>6. NamesIn(s) \subseteq NamesIn(s \o t)
  BY <1>1, <1>2 DEF NamesIn
<1>7. NamesIn(t) \subseteq NamesIn(s \o t)
  BY <1>1, <1>3 DEF NamesIn
<1> QED  BY <1>1, <1>4, <1>5, <1>6, <1>7

-----------------------------------------------------------------------------
\* The legacy schema and its unchecked ledger satisfy the invariant.
LEMMA InitHolds == Init => LInv
<1> SUFFICES ASSUME Init PROVE LInv
  OBVIOUS
<1>1. Idle \in Runs
  BY IdleIsRun
<1>2. ledger = [name \in NamesIn(Legacy) |-> Unknown] /\ schema = Legacy
  BY DEF Init
<1>3. NamesIn(Legacy) \subseteq MigrationNames /\ Legacy \in Seq(Migration)
  BY MigrationsAssumption, ImageFacts DEF NamesIn
<1>4. ledger \in Ledgers
  BY <1>2, <1>3, LedgerShape DEF SumsOf
<1>5. Shapes
  BY <1>1, <1>2, <1>3, <1>4 DEF Init, Shapes
<1>6. \A d \in Deploys : RunIsSound(d)
  <2> TAKE d \in Deploys
  <2>1. run[d].pc = "idle" /\ run[d].outcome = None
    BY DEF Init, Idle
  <2> QED  BY <2>1, MigrationsAssumption
           DEF RunIsSound, LockIsHeld, StartsEmpty, HolderKnows, ExecutedIsRecorded, DriftStands, Agreed
<1>7. NullIsLegacy /\ ExecutedOnce /\ LedgerTellsWhatRan
  BY <1>2, MigrationsAssumption, ImageFacts
     DEF NullIsLegacy, ExecutedOnce, LedgerTellsWhatRan, NamesIn
<1> QED  BY <1>5, <1>6, <1>7 DEF LInv

\* A step of d that leaves the tables alone owes an account of d only.
LEMMA OneMoves ==
  ASSUME LInv, NEW d \in Deploys, NEW r \in Runs, run' = [run EXCEPT ![d] = r],
         UNCHANGED <<files, ledger, schema>>,
         lock' = lock \/ lock \in {d, None},
         RunIsSound(d)'
  PROVE  LInv'
<1>1. Shapes' /\ NullIsLegacy' /\ ExecutedOnce' /\ LedgerTellsWhatRan'
  BY Moved DEF LInv, Shapes, NullIsLegacy, ExecutedOnce, LedgerTellsWhatRan
<1>2. ASSUME NEW e \in Deploys, e # d PROVE RunIsSound(e)'
  <2>1. run'[e] = run[e] /\ RunIsSound(e)
    BY <1>2, Moved DEF LInv
  <2>2. LockIsHeld(e)'
    BY <1>2, <2>1, MigrationsAssumption DEF RunIsSound, LockIsHeld
  <2>3. StartsEmpty(e)' /\ HolderKnows(e)' /\ ExecutedIsRecorded(e)' /\ DriftStands(e)'
      /\ Agreed(e)'
    BY <2>1 DEF RunIsSound, StartsEmpty, HolderKnows, Passed, ExecutedIsRecorded, DriftStands, Agreed
  <2> QED  BY <2>2, <2>3 DEF RunIsSound
<1> QED  BY <1>1, <1>2 DEF LInv

\* A run that fails leaves nothing behind.
LEMMA FailureIsSound ==
  ASSUME LInv, NEW d \in Deploys, NEW why \in {"drift", "sql", "died"}, Fail(d, why),
         why = "drift" => Applying(d) /\ Applied(d) /\ ~Agrees(d)
                          /\ run[d].seen[File(d).name] # Unknown
  PROVE  LInv'
<1>1. /\ Ended(d, why) \in Runs /\ run' = [run EXCEPT ![d] = Ended(d, why)]
      /\ run'[d].pc = "ended" /\ run'[d].outcome = why
  <2>1. /\ Ended(d, why) \in Runs /\ Ended(d, why).pc = "ended"
        /\ Ended(d, why).outcome = why
    BY EndsOfRuns DEF LInv
  <2>2. run' = [run EXCEPT ![d] = Ended(d, why)]
    BY DEF Fail
  <2>3. run'[d] = Ended(d, why)
    BY <2>1, <2>2, Moved DEF LInv
  <2> QED  BY <2>1, <2>2, <2>3
<1>2. UNCHANGED <<files, ledger, schema>> /\ (lock' = lock \/ lock = d)
  BY DEF Fail, SchemaAfterFailure, Unlock
<1>3. DriftStands(d)'
  <2>1. CASE why = "drift"
    <3>1. run[d].seen = ledger /\ run[d].at \in DOMAIN files[d]
      BY <2>1 DEF LInv, RunIsSound, HolderKnows, Applying
    <3> QED  BY <1>1, <1>2, <2>1, <3>1 DEF DriftStands, Applied, Agrees, File
  <2>2. CASE why # "drift"
    BY <1>1, <2>2 DEF DriftStands
  <2> QED  BY <2>1, <2>2
<1>4. RunIsSound(d)'
  BY <1>1, <1>3 DEF RunIsSound, LockIsHeld, StartsEmpty, HolderKnows, ExecutedIsRecorded, Agreed
<1> QED  BY <1>1, <1>2, <1>4, OneMoves

\* A new transaction has read and done nothing yet.
LEMMA BeginIsSound ==
  ASSUME LInv, NEW d \in Deploys, Begin(d)
  PROVE  LInv'
<1>1. /\ Begun(d) \in Runs /\ run' = [run EXCEPT ![d] = Begun(d)]
      /\ run'[d].pc = "begun" /\ run'[d].outcome = None
      /\ run'[d].at = 1 /\ run'[d].rows = NoRows /\ run'[d].executed = <<>>
  BY EndsOfRuns, Moved DEF LInv, Begin
<1>2. RunIsSound(d)'
  BY <1>1, MigrationsAssumption
     DEF RunIsSound, LockIsHeld, StartsEmpty, HolderKnows, ExecutedIsRecorded, DriftStands, Agreed
<1> QED  BY <1>1, <1>2, OneMoves DEF Begin

\* Taking the lock changes nothing but the place in the program.
LEMMA LockIsSound ==
  ASSUME LInv, NEW d \in Deploys, Lock(d)
  PROVE  LInv'
<1> DEFINE r == [run[d] EXCEPT !.pc = "locked"]
<1>1. run[d] \in Runs /\ RunIsSound(d)
  BY DEF LInv, Shapes
<1>2. /\ r \in Runs /\ r.pc = "locked" /\ r.outcome = run[d].outcome
      /\ r.at = run[d].at /\ r.rows = run[d].rows /\ r.executed = run[d].executed
  BY <1>1 DEF Runs
<1>3. run' = [run EXCEPT ![d] = r] /\ run'[d] = r
  BY <1>2, Moved DEF Lock, LInv
<1>4. RunIsSound(d)'
  BY <1>1, <1>2, <1>3
     DEF Lock, RunIsSound, LockIsHeld, StartsEmpty, HolderKnows, ExecutedIsRecorded, DriftStands, Agreed
<1> HIDE DEF r
<1> QED  BY <1>2, <1>3, <1>4, OneMoves DEF Lock, LockIsFree

\* What is read under the lock is the committed ledger.
LEMMA ReadLedgerIsSound ==
  ASSUME LInv, NEW d \in Deploys, ReadLedger(d)
  PROVE  LInv'
<1> DEFINE r == [run[d] EXCEPT !.pc = "applying", !.seen = ledger]
<1>1. run[d] \in Runs /\ RunIsSound(d) /\ ledger \in Ledgers
  BY DEF LInv, Shapes
<1>2. /\ r \in Runs /\ r.pc = "applying" /\ r.outcome = run[d].outcome /\ r.seen = ledger
      /\ r.at = run[d].at /\ r.rows = run[d].rows /\ r.executed = run[d].executed
  BY <1>1 DEF Runs
<1>3. run' = [run EXCEPT ![d] = r] /\ run'[d] = r
  <2>1. run' = [run EXCEPT ![d] = r]
    BY DEF ReadLedger, LInv, Shapes
  <2> QED  BY <1>2, <2>1, Moved DEF LInv
<1>4. run[d].at = 1 /\ run[d].rows = NoRows /\ run[d].executed = <<>>
  BY <1>1 DEF ReadLedger, RunIsSound, StartsEmpty
<1>9. /\ run'[d].seen = ledger' /\ run'[d].at = 1
      /\ DOMAIN run'[d].rows = {} /\ run'[d].executed = <<>>
  BY <1>2, <1>3, <1>4 DEF ReadLedger, NoRows
<1>5. HolderKnows(d)'
  <2>1. Len(files[d])' \in Nat /\ 1 .. run'[d].at - 1 = {}
    BY <1>9, ImageFacts DEF LInv, Shapes, ReadLedger
  <2> QED  BY <1>9, <2>1 DEF HolderKnows
<1>6. ExecutedIsRecorded(d)'
  <2>1. NamesIn(run'[d].executed) = {} /\ DOMAIN run'[d].executed = {}
    BY <1>9 DEF NamesIn
  <2> QED  BY <1>9, <2>1 DEF ExecutedIsRecorded
<1>7. LockIsHeld(d)' /\ DriftStands(d)' /\ Agreed(d)' /\ StartsEmpty(d)'
  BY <1>1, <1>2, <1>3 DEF ReadLedger, RunIsSound, LockIsHeld, DriftStands, Agreed, StartsEmpty
<1>8. RunIsSound(d)'
  BY <1>5, <1>6, <1>7 DEF RunIsSound
<1> HIDE DEF r
<1> QED  BY <1>2, <1>3, <1>8, OneMoves DEF ReadLedger

\* A row that the loop adds agrees with its file, and touches no other file's row.
LEMMA RowAgrees ==
  ASSUME LInv, NEW d \in Deploys, Applying(d), NEW more \in Seq(Migration),
         run' = [run EXCEPT ![d] =
           [run[d] EXCEPT !.at = @ + 1,
                          !.rows = Over([name \in {File(d).name} |-> File(d).sum], @),
                          !.executed = @ \o more]],
         UNCHANGED <<files, ledger, schema, lock>>,
         File(d).name \in DOMAIN ledger => ledger[File(d).name] = Unknown /\ more = <<>>,
         File(d).name \notin DOMAIN ledger => more = <<File(d)>>
  PROVE  LInv'
<1> DEFINE m == File(d)
           row == [name \in {m.name} |-> m.sum]
           r == [run[d] EXCEPT !.at = @ + 1, !.rows = Over(row, @), !.executed = @ \o more]
<1>1. /\ run[d] \in Runs /\ RunIsSound(d) /\ files[d] \in Images
      /\ run[d].pc = "applying" /\ run[d].at \in DOMAIN files[d]
  BY DEF LInv, Shapes, Applying
<1>2. /\ m \in Migration /\ m.name \in MigrationNames /\ m.sum \in SumsOf
      /\ m.sum # Unknown /\ m = files[d][run[d].at]
  BY <1>1, ImageFacts DEF File
<1>3. /\ row \in Ledgers /\ DOMAIN row = {m.name} /\ row[m.name] = m.sum
      /\ run[d].rows \in Ledgers
  BY <1>1, <1>2, OneRow DEF Runs
<1>4. /\ Over(row, run[d].rows) \in Ledgers
      /\ DOMAIN Over(row, run[d].rows) = {m.name} \union DOMAIN run[d].rows
      /\ Over(row, run[d].rows)[m.name] = m.sum
      /\ \A x \in DOMAIN run[d].rows \ {m.name} : Over(row, run[d].rows)[x] = run[d].rows[x]
  BY <1>3, Merged
<1>5. run[d].executed \in Seq(Migration) /\ run[d].executed \o more \in Seq(Migration)
  BY <1>1 DEF Runs
<1>6. /\ r \in Runs /\ r.pc = "applying" /\ r.outcome = run[d].outcome
      /\ r.seen = run[d].seen /\ r.at = run[d].at + 1
      /\ r.rows = Over(row, run[d].rows) /\ r.executed = run[d].executed \o more
  <2> DEFINE rows == Over(row, run[d].rows)
             executed == run[d].executed \o more
  <2> HIDE DEF rows, executed
  <2>1. rows \in Ledgers /\ executed \in Seq(Migration)
    BY <1>4, <1>5 DEF rows, executed
  <2>2. r = [run[d] EXCEPT !.at = @ + 1, !.rows = rows, !.executed = executed]
    BY DEF rows, executed
  <2> HIDE DEF r
  <2>3. /\ r \in Runs /\ r.pc = run[d].pc /\ r.outcome = run[d].outcome
        /\ r.seen = run[d].seen /\ r.at = run[d].at + 1
        /\ r.rows = rows /\ r.executed = executed
    <3>1. run[d].at + 1 \in Nat \ {0}
      BY <1>1 DEF Runs
    <3> QED  BY <1>1, <2>1, <2>2, <3>1 DEF Runs
  <2> QED  BY <1>1, <2>3 DEF rows, executed
<1>7. run' = [run EXCEPT ![d] = r] /\ run'[d] = r
  <2>1. run' = [run EXCEPT ![d] = r]
    OBVIOUS
  <2> QED  BY <1>6, <2>1, Moved DEF LInv
<1>8. m.name \notin DOMAIN run[d].rows
  <2>1. /\ DOMAIN files[d] = 1 .. Len(files[d]) /\ Len(files[d]) \in Nat
        /\ \A i, j \in DOMAIN files[d] : files[d][i].name = files[d][j].name => i = j
    BY <1>1, ImageFacts
  <2>2. \A i \in 1 .. run[d].at - 1 : files[d][i].name # m.name
    BY <1>1, <1>2, <2>1
  <2> QED  BY <1>1, <2>2 DEF RunIsSound, HolderKnows
<1> HIDE DEF m, row, r
<1> DEFINE rows == Over(row, run[d].rows)
<1> HIDE DEF rows
<1>a. /\ DOMAIN rows = {m.name} \union DOMAIN run[d].rows /\ rows[m.name] = m.sum
      /\ \A x \in DOMAIN run[d].rows : rows[x] = run[d].rows[x]
      /\ run'[d].rows = rows
  BY <1>4, <1>6, <1>7, <1>8 DEF rows
<1>b. /\ run'[d].at = run[d].at + 1 /\ run'[d].seen = ledger
      /\ run'[d].executed = run[d].executed \o more
      /\ run[d].at \in Nat \ {0} /\ run'[d].pc = "applying"
  BY <1>1, <1>6, <1>7 DEF RunIsSound, HolderKnows, Runs
<1>c. HolderKnows(d) /\ ExecutedIsRecorded(d)
  BY <1>1 DEF RunIsSound
<1>9. HolderKnows(d)'
  <2>1. run'[d].at <= Len(files'[d]) + 1
    BY <1>1, <1>b, ImageFacts
  <2>2. DOMAIN rows \subseteq {files[d][i].name : i \in 1 .. run[d].at}
    BY <1>1, <1>2, <1>a, <1>b, <1>c DEF HolderKnows
  <2>3. ASSUME NEW i \in 1 .. run[d].at PROVE Passed(d, i)'
    <3>1. CASE i = run[d].at
      BY <1>2, <1>a, <3>1 DEF Passed
    <3>2. CASE i # run[d].at
      <4>1. i \in 1 .. run[d].at - 1
        BY <1>b, <2>3, <3>2
      <4>2. Passed(d, i)
        BY <1>1, <1>c, <4>1 DEF HolderKnows
      <4>3. files[d][i].name # m.name
        <5>1. /\ i \in DOMAIN files[d] /\ i # run[d].at
              /\ \A j, k \in DOMAIN files[d] : files[d][j].name = files[d][k].name => j = k
          BY <1>1, <1>b, <4>1, ImageFacts
        <5> QED  BY <1>1, <1>2, <5>1
      <4> QED  BY <1>a, <4>2, <4>3 DEF Passed
    <3> QED  BY <3>1, <3>2
  <2>4. \A name \in DOMAIN rows : name \in DOMAIN ledger => ledger[name] = Unknown
    BY <1>1, <1>a, <1>c DEF HolderKnows, m
  <2> QED  BY <1>a, <1>b, <1>c, <2>1, <2>2, <2>3, <2>4 DEF HolderKnows
<1>10. ExecutedIsRecorded(d)'
  <2>1. CASE m.name \in DOMAIN ledger
    <3>1. run'[d].executed = run[d].executed
      BY <1>5, <1>b, <2>1 DEF m
    <3>2. \A i \in DOMAIN run[d].executed : run[d].executed[i].name \in DOMAIN run[d].rows
      BY <1>1, <1>c DEF ExecutedIsRecorded, NamesIn
    <3> QED  BY <1>1, <1>a, <1>b, <1>c, <2>1, <3>1, <3>2 DEF ExecutedIsRecorded
  <2>2. CASE m.name \notin DOMAIN ledger
    <3> DEFINE before == run[d].executed
               after  == run'[d].executed
    <3> DEFINE single == <<m>>
    <3>7. more = single
      BY <2>2 DEF m
    <3>1. /\ after = before \o single /\ before \in Seq(Migration) /\ single \in Seq(Migration)
          /\ DOMAIN single = {1} /\ single[1] = m
      <4>1. after = before \o single /\ before \in Seq(Migration)
        BY <1>5, <1>b, <3>7
      <4>2. m \in Migration
        BY <1>2 DEF m
      <4> HIDE DEF m
      <4> QED  BY <4>1, <4>2
    <3> HIDE DEF single
    <3>2. NamesIn(after) = NamesIn(before) \union {m.name}
      <4>1. NamesIn(single) = {m.name}
        BY <3>1 DEF NamesIn
      <4> QED  BY <3>1, <4>1, NamesOfConcat
    <3>3. \A i \in DOMAIN after :
            \/ i \in DOMAIN before /\ after[i] = before[i]
            \/ i = Len(before) + 1 /\ after[i] = m
      BY <3>1, NamesOfConcat
    <3>4. \A i \in DOMAIN before : before[i].name \in DOMAIN run[d].rows
      BY <1>1, <1>c DEF ExecutedIsRecorded, NamesIn
    <3> HIDE DEF before, after
    <3>5. \A i, j \in DOMAIN after : after[i].name = after[j].name => i = j
      BY <1>1, <1>8, <1>c, <3>3, <3>4 DEF ExecutedIsRecorded, before
    <3>6. \A i \in DOMAIN after : rows[after[i].name] = after[i].sum
      BY <1>1, <1>a, <1>c, <3>3, <3>4 DEF ExecutedIsRecorded, before
    <3> QED  BY <1>1, <1>a, <1>b, <1>c, <2>2, <3>2, <3>5, <3>6
             DEF ExecutedIsRecorded, before, after
  <2> QED  BY <2>1, <2>2
<1>11. RunIsSound(d)'
  BY <1>1, <1>6, <1>7, <1>9, <1>10
     DEF RunIsSound, LockIsHeld, StartsEmpty, DriftStands, Agreed
<1> QED  BY <1>6, <1>7, <1>11, OneMoves

\* A legacy row may be given any checksum: it had none.
LEMMA BackfillIsSound ==
  ASSUME LInv, NEW d \in Deploys, Backfill(d)
  PROVE  LInv'
<1>1. run[d].seen = ledger /\ Applying(d)
  BY DEF Backfill, Applying, LInv, RunIsSound, HolderKnows
<1>2. File(d).name \in DOMAIN ledger /\ ledger[File(d).name] = Unknown
  BY <1>1 DEF Backfill, Applied
<1>3. <<>> \in Seq(Migration)
  OBVIOUS
<1> QED  BY <1>1, <1>2, <1>3, RowAgrees DEF Backfill, WithRow

\* No other deploy can have added the row in between, so "duplicate" does not occur.
LEMMA ApplyIsSound ==
  ASSUME LInv, NEW d \in Deploys, Apply(d)
  PROVE  LInv'
<1>1. run[d].seen = ledger /\ Applying(d) /\ files[d] \in Images
  BY DEF Apply, Applying, LInv, Shapes, RunIsSound, HolderKnows
<1>2. File(d).name \notin DOMAIN ledger
  BY <1>1 DEF Apply, Applied
<1>3. File(d) \in Migration /\ <<File(d)>> \in Seq(Migration)
  BY <1>1, ImageFacts DEF File, Applying
<1> QED  BY <1>1, <1>2, <1>3, RowAgrees DEF Apply, WithRow

\* A row that agrees is passed over.
LEMMA SkipIsSound ==
  ASSUME LInv, NEW d \in Deploys, Skip(d)
  PROVE  LInv'
<1> DEFINE r == [run[d] EXCEPT !.at = @ + 1]
<1>1. /\ run[d] \in Runs /\ RunIsSound(d) /\ files[d] \in Images
      /\ run[d].pc = "applying" /\ run[d].at \in DOMAIN files[d] /\ run[d].seen = ledger
      /\ HolderKnows(d) /\ UNCHANGED <<files, ledger, schema, lock>>
  BY DEF LInv, Shapes, Skip, Applying, RunIsSound, HolderKnows
<1>2. /\ r \in Runs /\ r.pc = "applying" /\ r.outcome = run[d].outcome
      /\ r.seen = run[d].seen /\ r.at = run[d].at + 1
      /\ r.rows = run[d].rows /\ r.executed = run[d].executed
  <2>1. run[d].at + 1 \in Nat \ {0}
    BY <1>1 DEF Runs
  <2> QED  BY <1>1, <2>1 DEF Runs
<1>3. run' = [run EXCEPT ![d] = r] /\ run'[d] = r
  <2>1. run' = [run EXCEPT ![d] = r]
    BY DEF Skip
  <2> QED  BY <1>2, <2>1, Moved DEF LInv
<1> HIDE DEF r
<1>4. /\ DOMAIN files[d] = 1 .. Len(files[d]) /\ Len(files[d]) \in Nat
      /\ \A i, j \in DOMAIN files[d] : files[d][i].name = files[d][j].name => i = j
      /\ File(d) = files[d][run[d].at] /\ File(d).sum # Unknown
  BY <1>1, ImageFacts DEF File
<1>5. File(d).name \in DOMAIN ledger /\ ledger[File(d).name] = File(d).sum
  BY <1>1 DEF Skip, Applied, Agrees
<1>6. Passed(d, run[d].at)
  BY <1>1, <1>4, <1>5 DEF Passed, HolderKnows
<1>7. ASSUME NEW i \in 1 .. run'[d].at - 1 PROVE Passed(d, i)'
  <2>1. i \in 1 .. run[d].at - 1 \/ i = run[d].at
    BY <1>1, <1>2, <1>3, <1>4
  <2>2. Passed(d, i)
    BY <1>1, <1>6, <2>1 DEF HolderKnows
  <2> QED  BY <1>1, <1>2, <1>3, <2>2 DEF Passed
<1>8. HolderKnows(d)'
  <2>1. run'[d].at <= Len(files'[d]) + 1
    BY <1>1, <1>2, <1>3, <1>4
  <2>2. 1 .. run[d].at - 1 \subseteq 1 .. run'[d].at - 1
    BY <1>1, <1>2, <1>3, <1>4
  <2>3. DOMAIN run'[d].rows \subseteq {files'[d][i].name : i \in 1 .. run'[d].at - 1}
    BY <1>1, <1>2, <1>3, <2>2 DEF HolderKnows
  <2> QED  BY <1>1, <1>2, <1>3, <1>7, <2>1, <2>3 DEF HolderKnows
<1>9. RunIsSound(d)'
  BY <1>1, <1>2, <1>3, <1>8
     DEF RunIsSound, LockIsHeld, StartsEmpty, ExecutedIsRecorded, DriftStands, Agreed
<1> QED  BY <1>1, <1>2, <1>3, <1>9, OneMoves

-----------------------------------------------------------------------------
\* What a commit does to the ledger: rows with a checksum stand, and the deploy's files
\* agree with the outcome.
LEMMA CommittedLedger ==
  ASSUME LInv, NEW d \in Deploys, Commit(d)
  PROVE  /\ ledger' \in Ledgers /\ DOMAIN ledger' = DOMAIN run[d].rows \union DOMAIN ledger
         /\ \A x \in DOMAIN run[d].rows :
              /\ ledger'[x] = run[d].rows[x] /\ run[d].rows[x] # Unknown
              /\ x \in DOMAIN ledger => ledger[x] = Unknown
         /\ \A x \in DOMAIN ledger \ DOMAIN run[d].rows : ledger'[x] = ledger[x]
         /\ \A i \in DOMAIN files[d] :
              /\ files[d][i].name \in DOMAIN ledger'
              /\ ledger'[files[d][i].name] = files[d][i].sum
<1>1. /\ run[d] \in Runs /\ HolderKnows(d) /\ files[d] \in Images /\ run[d].pc = "applying"
      /\ ledger \in Ledgers /\ run[d].at \notin DOMAIN files[d]
      /\ ledger' = Over(run[d].rows, ledger)
  BY DEF LInv, Shapes, RunIsSound, Commit
<1>2. run[d].rows \in Ledgers /\ run[d].at \in Nat \ {0}
  BY <1>1 DEF Runs
<1>3. /\ ledger' \in Ledgers /\ DOMAIN ledger' = DOMAIN run[d].rows \union DOMAIN ledger
      /\ \A x \in DOMAIN run[d].rows : ledger'[x] = run[d].rows[x]
      /\ \A x \in DOMAIN ledger \ DOMAIN run[d].rows : ledger'[x] = ledger[x]
  BY <1>1, <1>2, Merged
<1>4. /\ DOMAIN files[d] = 1 .. Len(files[d]) /\ Len(files[d]) \in Nat
      /\ \A i \in DOMAIN files[d] : files[d][i].sum # Unknown
  BY <1>1, ImageFacts
<1>5. 1 .. run[d].at - 1 = DOMAIN files[d]
  BY <1>1, <1>2, <1>4 DEF HolderKnows
<1>6. \A i \in DOMAIN files[d] : Passed(d, i)
  BY <1>1, <1>5 DEF HolderKnows
<1>7. \A x \in DOMAIN run[d].rows : run[d].rows[x] # Unknown
  <2> TAKE x \in DOMAIN run[d].rows
  <2>1. PICK i \in DOMAIN files[d] : x = files[d][i].name
    BY <1>1, <1>5 DEF HolderKnows
  <2>2. run[d].rows[x] = files[d][i].sum
    BY <1>6, <2>1 DEF Passed
  <2> QED  BY <1>4, <2>1, <2>2
<1>8. \A i \in DOMAIN files[d] :
        /\ files[d][i].name \in DOMAIN ledger'
        /\ ledger'[files[d][i].name] = files[d][i].sum
  BY <1>3, <1>6 DEF Passed
<1> QED  BY <1>1, <1>3, <1>7, <1>8 DEF HolderKnows

\* A commit overrides no row that others rely on.
LEMMA CommitIsSound ==
  ASSUME LInv, NEW d \in Deploys, Commit(d)
  PROVE  LInv'
<1> DEFINE rows == run[d].rows
           executed == run[d].executed
<1>1. /\ run[d] \in Runs /\ ExecutedIsRecorded(d) /\ run[d].pc = "applying"
      /\ schema \in Seq(Migration) /\ lock = d
      /\ schema' = schema \o executed /\ files' = files /\ lock' = None
      /\ run' = [run EXCEPT ![d] = Ended(d, "complete")]
  BY DEF LInv, Shapes, RunIsSound, LockIsHeld, Commit, Unlock
<1>2. executed \in Seq(Migration)
  BY <1>1 DEF Runs
<1>3. /\ ledger' \in Ledgers /\ DOMAIN ledger' = DOMAIN rows \union DOMAIN ledger
      /\ \A x \in DOMAIN rows :
           /\ ledger'[x] = rows[x] /\ rows[x] # Unknown
           /\ x \in DOMAIN ledger => ledger[x] = Unknown
      /\ \A x \in DOMAIN ledger \ DOMAIN rows : ledger'[x] = ledger[x]
      /\ \A i \in DOMAIN files[d] :
           /\ files[d][i].name \in DOMAIN ledger'
           /\ ledger'[files[d][i].name] = files[d][i].sum
  BY CommittedLedger
<1>4. /\ run' \in [Deploys -> Runs] /\ run'[d].pc = "ended" /\ run'[d].outcome = "complete"
      /\ \A e \in Deploys \ {d} : run'[e] = run[e]
  <2>1. /\ Ended(d, "complete") \in Runs /\ Ended(d, "complete").pc = "ended"
        /\ Ended(d, "complete").outcome = "complete"
    BY EndsOfRuns DEF LInv
  <2> HIDE DEF rows, executed
  <2> QED  BY <1>1, <2>1, Moved DEF LInv
<1>5. /\ NamesIn(executed) = DOMAIN rows \ DOMAIN ledger
      /\ \A i, j \in DOMAIN executed : executed[i].name = executed[j].name => i = j
      /\ \A i \in DOMAIN executed : rows[executed[i].name] = executed[i].sum
  BY <1>1 DEF ExecutedIsRecorded
<1> HIDE DEF rows, executed
<1>6. /\ schema' \in Seq(Migration) /\ NamesIn(schema') = NamesIn(schema) \union NamesIn(executed)
      /\ \A i \in DOMAIN schema' :
           \/ i \in DOMAIN schema /\ schema'[i] = schema[i]
           \/ i - Len(schema) \in DOMAIN executed /\ schema'[i] = executed[i - Len(schema)]
      /\ Len(schema) \in Nat
  <2>1. Len(schema) \in Nat
    BY <1>1
  <2> QED  BY <1>1, <1>2, <2>1, NamesOfConcat
<1>7. ExecutedOnce /\ LedgerTellsWhatRan /\ NullIsLegacy
  BY DEF LInv
<1>8. Shapes'
  BY <1>1, <1>3, <1>4, <1>6 DEF LInv, Shapes
<1>9. NullIsLegacy'
  BY <1>3, <1>7 DEF NullIsLegacy
<1>10. /\ \A i \in DOMAIN schema : schema[i].name \in DOMAIN ledger
       /\ \A i \in DOMAIN executed : executed[i].name \in DOMAIN rows \ DOMAIN ledger
  BY <1>5, <1>7 DEF LedgerTellsWhatRan, NamesIn
<1>11. ExecutedOnce'
  <2> SUFFICES ASSUME NEW i \in DOMAIN schema', NEW j \in DOMAIN schema',
                      schema'[i].name = schema'[j].name
               PROVE  i = j
    BY DEF ExecutedOnce
  <2>1. i \in Int /\ j \in Int
    BY <1>6
  <2>2. CASE i \in DOMAIN schema /\ schema'[i] = schema[i]
    <3>1. j \in DOMAIN schema /\ schema'[j] = schema[j]
      BY <1>6, <1>10, <2>2
    <3> QED  BY <1>7, <2>2, <3>1 DEF ExecutedOnce
  <2>3. CASE i - Len(schema) \in DOMAIN executed /\ schema'[i] = executed[i - Len(schema)]
    <3>1. j - Len(schema) \in DOMAIN executed /\ schema'[j] = executed[j - Len(schema)]
      BY <1>6, <1>10, <2>3
    <3>2. i - Len(schema) = j - Len(schema)
      BY <1>5, <2>3, <3>1
    <3> QED  BY <1>6, <2>1, <3>2
  <2> QED  BY <1>6, <2>2, <2>3
<1>12. LedgerTellsWhatRan'
  <2>1. DOMAIN ledger' = NamesIn(schema')
    BY <1>3, <1>5, <1>6, <1>7 DEF LedgerTellsWhatRan
  <2>2. ASSUME NEW i \in DOMAIN schema', schema'[i].name \notin NamesIn(Legacy)
        PROVE  ledger'[schema'[i].name] = schema'[i].sum
    <3>1. CASE i \in DOMAIN schema /\ schema'[i] = schema[i]
      <4>1. ledger[schema[i].name] = schema[i].sum /\ schema[i].name \in DOMAIN ledger
        BY <1>7, <1>10, <2>2, <3>1 DEF LedgerTellsWhatRan
      <4>2. schema[i].name \notin DOMAIN rows
        BY <1>3, <1>7, <2>2, <3>1, <4>1 DEF NullIsLegacy
      <4> QED  BY <1>3, <3>1, <4>1, <4>2
    <3>2. CASE i - Len(schema) \in DOMAIN executed /\ schema'[i] = executed[i - Len(schema)]
      BY <1>3, <1>5, <1>10, <3>2
    <3> QED  BY <1>6, <3>1, <3>2
  <2> QED  BY <2>1, <2>2 DEF LedgerTellsWhatRan
<1>13. \A x \in DOMAIN ledger : ledger[x] # Unknown =>
         x \in DOMAIN ledger' /\ ledger'[x] = ledger[x]
  BY <1>3
<1>14. RunIsSound(d)'
  BY <1>1, <1>3, <1>4
     DEF RunIsSound, LockIsHeld, StartsEmpty, HolderKnows, ExecutedIsRecorded, DriftStands, Agreed
<1>15. ASSUME NEW e \in Deploys, e # d PROVE RunIsSound(e)'
  <2>1. run'[e] = run[e] /\ RunIsSound(e) /\ files[e] \in Images
    BY <1>4, <1>15 DEF LInv, Shapes
  <2>2. run[e].pc \notin {"locked", "applying"}
    BY <1>1, <1>15, <2>1 DEF RunIsSound, LockIsHeld
  <2>3. LockIsHeld(e)' /\ HolderKnows(e)' /\ ExecutedIsRecorded(e)' /\ StartsEmpty(e)'
    BY <2>1, <2>2 DEF RunIsSound, LockIsHeld, HolderKnows, ExecutedIsRecorded, StartsEmpty
  <2>4. DriftStands(e)'
    BY <1>1, <1>13, <2>1 DEF RunIsSound, DriftStands
  <2>5. Agreed(e)'
    <3>1. \A i \in DOMAIN files[e] : files[e][i].sum # Unknown
      BY <2>1, ImageFacts
    <3> QED  BY <1>1, <1>13, <2>1, <3>1 DEF RunIsSound, Agreed
  <2> QED  BY <2>3, <2>4, <2>5 DEF RunIsSound
<1> QED  BY <1>8, <1>9, <1>11, <1>12, <1>14, <1>15 DEF LInv

\* Nothing changes in a stuttering step.
LEMMA StutterIsSound == LInv /\ UNCHANGED vars => LInv'
  BY DEF LInv, vars, Shapes, NullIsLegacy, ExecutedOnce, LedgerTellsWhatRan, RunIsSound, Passed,
         LockIsHeld, StartsEmpty, HolderKnows, ExecutedIsRecorded, DriftStands, Agreed

\* Every step keeps the invariant.
LEMMA NextHolds == LInv /\ [Next]_vars => LInv'
<1> SUFFICES ASSUME LInv, [Next]_vars PROVE LInv'
  OBVIOUS
<1>1. ASSUME NEW d \in Deploys, Begin(d) \/ Step(d) \/ SqlFails(d) \/ Die(d) PROVE LInv'
  <2>1. CASE Begin(d)        BY <2>1, BeginIsSound
  <2>2. CASE Lock(d)         BY <2>2, LockIsSound
  <2>3. CASE ReadLedger(d)   BY <2>3, ReadLedgerIsSound
  <2>4. CASE Backfill(d)     BY <2>4, BackfillIsSound
  <2>5. CASE Skip(d)         BY <2>5, SkipIsSound
  <2>6. CASE RefuseDrift(d)  BY <2>6, FailureIsSound DEF RefuseDrift
  <2>7. CASE Apply(d)        BY <2>7, ApplyIsSound
  <2>8. CASE Commit(d)       BY <2>8, CommitIsSound
  <2>9. CASE SqlFails(d)     BY <2>9, FailureIsSound DEF SqlFails
  <2>10. CASE Die(d)         BY <2>10, FailureIsSound DEF Die
  <2> QED  BY <1>1, <2>1, <2>2, <2>3, <2>4, <2>5, <2>6, <2>7, <2>8, <2>9, <2>10 DEF Step
<1>2. CASE UNCHANGED vars
  BY <1>2, StutterIsSound
<1> QED  BY <1>1, <1>2 DEF Next

\* Whatever deploys run at once and wherever they die, each migration is executed once,
\* the ledger tells what was executed, and completion and drift are reported truthfully.
THEOREM LedgerCanBeReliedOn == Spec => []LedgerIsHonest
<1>1. LInv => LedgerIsHonest
  <2> SUFFICES ASSUME LInv PROVE LedgerIsHonest
    OBVIOUS
  <2>1. CompleteMeansAgreed
    BY DEF LInv, RunIsSound, Agreed, CompleteMeansAgreed
  <2>2. RefusedOnlyForDrift
    BY DEF LInv, RunIsSound, DriftStands, RefusedOnlyForDrift
  <2> QED  BY <2>1, <2>2 DEF LInv, LedgerIsHonest
<1> QED  BY <1>1, InitHolds, NextHolds, PTL DEF Spec

-----------------------------------------------------------------------------
(***************************************************************************)
(* The types of the variables.  The invariants above say most of it; what  *)
(* is left is of each part: that its counters keep to their bounds, and    *)
(* that a page and a walk show rows.                                       *)
(***************************************************************************)
\* What else is needed for the types of a run: its counters stay within their bounds, as a
\* run that goes on has a batch left.
RunsAreBounded ==
  \A j \in Jobs :
    /\ job[j].batches \in 0 .. MaxBatches /\ job[j].failures \in 0 .. MaxFailures
    /\ job[j].pc \in {"idle", "select", "delete"} => job[j].batches < MaxBatches

LEMMA RunBounds == MaxBatches \in Nat \ {0} /\ MaxFailures \in Nat
  BY OperationsAssumption DEF GR!RetentionConstants

\* A run's new state, by the fields a step sets.
LEMMA RunCounts ==
  ASSUME NEW P, NEW k \in [pc : P, batches : Int, failures : Int], NEW p, NEW n
  PROVE  /\ [k EXCEPT !.pc = p].pc = p
         /\ [k EXCEPT !.pc = p].batches = k.batches
         /\ [k EXCEPT !.pc = p].failures = k.failures
         /\ [k EXCEPT !.pc = p, !.batches = n].pc = p
         /\ [k EXCEPT !.pc = p, !.batches = n].batches = n
         /\ [k EXCEPT !.pc = p, !.batches = n].failures = k.failures
         /\ [k EXCEPT !.pc = p, !.failures = n].pc = p
         /\ [k EXCEPT !.pc = p, !.failures = n].batches = k.batches
         /\ [k EXCEPT !.pc = p, !.failures = n].failures = n
  OBVIOUS

LEMMA RunsStayBounded ==
  ASSUME RetentionInv, RunsAreBounded, [GR!Next]_(GR!vars)
  PROVE  RunsAreBounded'
  <1> USE RunBounds
  <1> DEFINE Bounded(k) ==
        /\ k.batches \in 0 .. MaxBatches /\ k.failures \in 0 .. MaxFailures
        /\ k.pc \in {"idle", "select", "delete"} => k.batches < MaxBatches
  <1>0. job \in [Jobs -> [pc : {"idle", "select", "delete", "complete", "capped", "failed"},
                          batches : Int, failures : Int]]
    BY DEF RetentionInv, RetentionTypes
  <1>1. CASE job' = job
    BY <1>1 DEF RunsAreBounded
  <1>2. ASSUME NEW j \in Jobs, NEW new, job' = [job EXCEPT ![j] = new], Bounded(new)
        PROVE  RunsAreBounded'
    BY <1>0, <1>2 DEF RunsAreBounded
  <1>3. ASSUME NEW j \in Jobs, GR!JobStep(j) \/ GR!Fail(j) PROVE RunsAreBounded'
    <2> DEFINE k == job[j]
    <2>0. /\ k \in [pc : {"idle", "select", "delete", "complete", "capped", "failed"},
                    batches : Int, failures : Int]
          /\ Bounded(k)
      BY <1>0 DEF RunsAreBounded
    <2>1. PICK new : job' = [job EXCEPT ![j] = new] /\ Bounded(new)
      <3>1. ASSUME NEW p \in {"select", "delete"}, k.pc \in {"idle", "select"}
            PROVE  Bounded([k EXCEPT !.pc = p])
        <4> HIDE DEF k
        <4>1. QED
          BY <2>0, <3>1, RunCounts
      <3>2. CASE GR!Begin(j)
        <4>1. k.pc = "idle" /\ job' = [job EXCEPT ![j] = [k EXCEPT !.pc = "select"]]
          BY <3>2 DEF GR!Begin
        <4>2. QED
          BY <3>1, <4>1
      <3>3. CASE GR!Select(j)
        <4>1. k.pc = "select" /\ job' = [job EXCEPT ![j] = [k EXCEPT !.pc = "delete"]]
          BY <3>3 DEF GR!Select
        <4>2. QED
          BY <3>1, <4>1
      <3>4. CASE GR!Commit(j)
        <4> DEFINE p == GR!NextStep(j)
                   n == k.batches + 1
        <4>1. k.pc = "delete" /\ job' = [job EXCEPT ![j] = [k EXCEPT !.pc = p, !.batches = n]]
          BY <3>4 DEF GR!Commit
        <4>2. p \in {"complete", "capped"} \/ (p = "select" /\ n # MaxBatches)
          BY DEF GR!NextStep
        <4>3. n \in 0 .. MaxBatches /\ (n # MaxBatches => n < MaxBatches)
          BY <2>0, <4>1
        <4> HIDE DEF p, n, k
        <4>4. Bounded([k EXCEPT !.pc = p, !.batches = n])
          BY <2>0, <4>2, <4>3, RunCounts
        <4>5. QED
          BY <4>1, <4>4
      <3>5. CASE GR!Fail(j)
        <4> DEFINE n == k.failures + 1
        <4>1. /\ k.failures < MaxFailures
              /\ job' = [job EXCEPT ![j] = [k EXCEPT !.pc = "failed", !.failures = n]]
          BY <3>5 DEF GR!Fail
        <4>2. n \in 0 .. MaxFailures
          BY <2>0, <4>1
        <4> HIDE DEF n, k
        <4>3. Bounded([k EXCEPT !.pc = "failed", !.failures = n])
          BY <2>0, <4>2, RunCounts
        <4>4. QED
          BY <4>1, <4>3
      <3>6. CASE GR!NextDay(j)
        <4>1. job' = [job EXCEPT ![j] = [k EXCEPT !.pc = "idle", !.batches = 0]]
          BY <3>6 DEF GR!NextDay
        <4> HIDE DEF k
        <4>2. Bounded([k EXCEPT !.pc = "idle", !.batches = 0])
          BY <2>0, RunCounts
        <4>3. QED
          BY <4>1, <4>2
      <3>7. QED
        BY <1>3, <3>2, <3>3, <3>4, <3>5, <3>6 DEF GR!JobStep
    <2>2. QED
      BY <1>2, <2>1
  <1>4. QED
    BY <1>1, <1>3 DEF GR!Next, GR!vars, GR!CheckoutStep, GR!Expire, GR!Authenticate,
       GR!LockForCheckout, GR!EndCheckout

\* The types of the retention job's variables.
LEMMA RetentionIsTyped == RetentionInv /\ RunsAreBounded => GR!TypeOK
  <1> SUFFICES ASSUME RetentionInv, RunsAreBounded PROVE GR!TypeOK
    OBVIOUS
  <1>1. RetentionTypes /\ LocksAreHeld
    BY DEF RetentionInv
  <1>2. job \in [Jobs -> [pc : {"idle", "select", "delete", "complete", "capped", "failed"},
                          batches : 0 .. MaxBatches, failures : 0 .. MaxFailures]]
    BY <1>1 DEF RetentionTypes, RunsAreBounded
  <1>3. \A j \in Jobs : GR!Taken(j) # {} => job[j].pc = "delete"
    BY <1>1 DEF LocksAreHeld, GR!Taken
  <1>4. QED
    BY <1>1, <1>2, <1>3 DEF GR!TypeOK, RetentionTypes

-----------------------------------------------------------------------------
\* A counter has not expired, and a refused guest was told a time.
LimiterTypes ==
  /\ now <= MaxTime /\ up \in BOOLEAN /\ busy \in 0 .. MaxAttempts
  /\ \A c \in counters : c.owner \in Owners /\ c.expires > now
  /\ told \in [Shoppers -> Nat]

LEMMA LimiterBounds == MaxTime \in Nat /\ MaxAttempts \in Nat
  BY OperationsAssumption DEF RL!LimiterConstants

LEMMA AttemptIsTyped ==
  ASSUME LimiterInv, LimiterTypes, NEW g \in Shoppers, NEW skew \in Skews, RL!Attempt(g, skew)
  PROVE  LimiterTypes'
  <1> USE LimiterSettings, LimiterBounds
  <1> DEFINE t == now + skew
             b == t \div Window
  <1>0. now \in Nat /\ t \in Nat
    BY DEF LimiterInv, CountersArePlain
  <1>1. /\ now' = now /\ up' = up /\ busy' = busy + 1 /\ busy < MaxAttempts
        /\ counters' = (counters \ (RL!Key(g, b) \union RL!Key(Everyone, b)))
                         \union {RL!Incremented(g, t), RL!Incremented(Everyone, t)}
    BY DEF RL!Attempt
  <1>2. told' \in [Shoppers -> Nat]
    <2>1. RL!RetryAfter(t) \in Nat
      BY <1>0 DEF RL!RetryAfter
    <2>2. now + RL!RetryAfter(t) \in Nat
      BY <1>0, <2>1
    <2>3. \/ told' = [told EXCEPT ![g] = 0]
          \/ told' = [told EXCEPT ![g] = now + RL!RetryAfter(t)]
      BY DEF RL!Attempt
    <2>4. QED
      BY <2>2, <2>3 DEF LimiterTypes
  <1>3. \A o \in {g, Everyone} :
          RL!Incremented(o, t).owner = o /\ RL!Incremented(o, t).expires > now
    BY <1>0 DEF RL!Incremented, RL!Expiry
  <1> HIDE DEF t, b
  <1>4. \A c \in counters' : c.owner \in Owners /\ c.expires > now
    BY <1>1, <1>3 DEF LimiterTypes, Owners
  <1>5. busy' \in 0 .. MaxAttempts
    BY <1>1 DEF LimiterTypes
  <1>6. QED
    BY <1>1, <1>2, <1>4, <1>5 DEF LimiterTypes

LEMMA LimiterStaysTyped ==
  ASSUME LimiterInv, LimiterTypes, [RL!Next]_(RL!vars)
  PROVE  LimiterTypes'
  <1> USE LimiterSettings, LimiterBounds
  <1>1. CASE RL!Tick
    <2>1. /\ now \in Nat /\ now < MaxTime /\ now' = now + 1
          /\ busy' = 0 /\ up' = up /\ told' = told
          /\ counters' = {c \in counters : c.expires > now + 1}
      BY <1>1 DEF RL!Tick, LimiterInv, CountersArePlain
    <2>2. now' <= MaxTime /\ \A c \in counters' : c.owner \in Owners /\ c.expires > now'
      BY <2>1 DEF LimiterTypes
    <2>3. QED
      BY <2>1, <2>2 DEF LimiterTypes
  <1>2. CASE RL!Outage
    <2>1. up' \in BOOLEAN
      BY <1>2 DEF RL!Outage
    <2>2. UNCHANGED <<now, counters, told, busy>>
      BY <1>2 DEF RL!Outage
    <2>3. QED
      BY <2>1, <2>2 DEF LimiterTypes
  <1>3. CASE UNCHANGED RL!vars
    BY <1>3 DEF RL!vars, LimiterTypes
  <1>4. QED
    BY <1>1, <1>2, <1>3, AttemptIsTyped DEF RL!Next

LEMMA LimiterIsTyped == LimiterInv /\ LimiterTypes => RL!TypeOK
  <1> SUFFICES ASSUME LimiterInv, LimiterTypes PROVE RL!TypeOK
    OBVIOUS
  <1>1. now \in 0 .. MaxTime
    BY LimiterBounds DEF LimiterInv, CountersArePlain, LimiterTypes
  <1>2. QED
    BY <1>1 DEF LimiterInv, CountersArePlain, LimiterTypes, Owners, RL!TypeOK

-----------------------------------------------------------------------------
\* A run that is not in its loop stands at the first file, and none is started too often.
RunsStart ==
  /\ lock \in Deploys \union {None}
  /\ \A d \in Deploys : /\ run[d].tries <= MaxRuns
                        /\ run[d].pc # "applying" => run[d].at = 1

LEMMA RunsStayStarted ==
  ASSUME LInv, RunsStart, [Next]_vars
  PROVE  RunsStart'
  <1>0. MaxRuns \in Nat /\ run \in [Deploys -> Runs]
    BY MigrationsAssumption DEF LInv, Shapes
  <1>1. ASSUME NEW d \in Deploys, NEW new, run' = [run EXCEPT ![d] = new],
               lock' \in {lock, d, None}, new.tries <= MaxRuns,
               new.pc # "applying" => new.at = 1
        PROVE  RunsStart'
    BY <1>0, <1>1 DEF RunsStart
  <1>2. ASSUME NEW d \in Deploys, Begin(d) \/ Step(d) \/ SqlFails(d) \/ Die(d)
        PROVE  RunsStart'
    <2> DEFINE k == run[d]
    <2>0. k \in Runs /\ k.tries \in Nat /\ k.tries <= MaxRuns /\ (k.pc # "applying" => k.at = 1)
      BY <1>0 DEF RunsStart, Runs
    <2>1. lock' \in {lock, d, None}
      BY <1>2 DEF Begin, Step, SqlFails, Die, Lock, ReadLedger, Backfill, Skip, RefuseDrift,
         Apply, Commit, Fail, Unlock
    <2>2. ASSUME NEW why PROVE Ended(d, why).tries = k.tries /\ Ended(d, why).at = 1
      BY DEF Ended, Idle
    <2>3. CASE Begin(d)
      <3>1. run' = [run EXCEPT ![d] = Begun(d)] /\ k.tries < MaxRuns
        BY <2>3 DEF Begin
      <3>2. Begun(d).tries = k.tries + 1 /\ Begun(d).at = 1
        BY DEF Begun, Idle
      <3>3. k.tries + 1 <= MaxRuns
        BY <1>0, <2>0, <3>1
      <3>4. QED
        BY <1>1, <2>1, <3>1, <3>2, <3>3
    <2>4. CASE Lock(d)
      <3> DEFINE new == [k EXCEPT !.pc = "locked"]
      <3>1. run' = [run EXCEPT ![d] = new] /\ k.pc = "begun"
        BY <2>4 DEF Lock
      <3>2. new.tries = k.tries /\ new.at = k.at
        BY <2>0 DEF Runs
      <3> HIDE DEF new, k
      <3>3. QED
        BY <1>1, <2>0, <2>1, <3>1, <3>2
    <2>5. CASE ReadLedger(d)
      <3> DEFINE new == [k EXCEPT !.pc = "applying", !.seen = ledger]
      <3>1. run' = [run EXCEPT ![d] = new]
        BY <2>5 DEF ReadLedger
      <3>2. new.tries = k.tries /\ new.pc = "applying"
        BY <2>0 DEF Runs
      <3> HIDE DEF new, k
      <3>3. QED
        BY <1>1, <2>0, <2>1, <3>1, <3>2
    <2>6. ASSUME NEW executed, run' = WithRow(d, executed), k.pc = "applying" PROVE RunsStart'
      <3> DEFINE rows == Over([name \in {File(d).name} |-> File(d).sum], k.rows)
                 new == [k EXCEPT !.at = k.at + 1, !.rows = rows,
                                  !.executed = k.executed \o executed]
      <3>1. run' = [run EXCEPT ![d] = new]
        BY <2>6, Zenon DEF WithRow
      <3>2. new.tries = k.tries /\ new.pc = "applying"
        <4> HIDE DEF rows
        <4>1. QED
          BY <2>0, <2>6 DEF Runs
      <3> HIDE DEF new, k
      <3>3. QED
        BY <1>1, <2>0, <2>1, <3>1, <3>2
    <2>7. CASE Skip(d)
      <3> DEFINE new == [k EXCEPT !.at = k.at + 1]
      <3>1. run' = [run EXCEPT ![d] = new] /\ k.pc = "applying"
        BY <2>7 DEF Skip, Applying
      <3>2. new.tries = k.tries /\ new.pc = k.pc
        BY <2>0 DEF Runs
      <3> HIDE DEF new, k
      <3>3. QED
        BY <1>1, <2>0, <2>1, <3>1, <3>2
    <2>8. ASSUME NEW why, run' = [run EXCEPT ![d] = Ended(d, why)] PROVE RunsStart'
      BY <1>1, <2>0, <2>1, <2>2, <2>8
    <2>9. CASE Backfill(d)
      BY <2>6, <2>9 DEF Backfill, Applying
    <2>10. CASE Apply(d)
      BY <2>6, <2>8, <2>10 DEF Apply, Applying, Fail
    <2>11. CASE RefuseDrift(d) \/ SqlFails(d) \/ Die(d) \/ Commit(d)
      BY <2>8, <2>11 DEF RefuseDrift, SqlFails, Die, Commit, Fail
    <2>12. QED
      BY <1>2, <2>3, <2>4, <2>5, <2>7, <2>9, <2>10, <2>11 DEF Step
  <1>3. CASE UNCHANGED vars
    BY <1>3 DEF vars, RunsStart
  <1>4. QED
    BY <1>2, <1>3 DEF Next

LEMMA DeploysAreTyped == LInv /\ RunsStart => TypeOK
  <1> SUFFICES ASSUME LInv, RunsStart PROVE TypeOK
    OBVIOUS
  <1>1. Shapes /\ MaxRuns \in Nat
    BY MigrationsAssumption DEF LInv
  <1>2. /\ DOMAIN ledger \subseteq {m.name : m \in Migration}
        /\ \A name \in DOMAIN ledger : ledger[name] \in SumsOf
    BY <1>1, LedgerShape DEF Shapes, MigrationNames
  <1>3. ASSUME NEW d \in Deploys
        PROVE  /\ run[d].pc \in {"idle", "begun", "locked", "applying", "ended"}
               /\ run[d].tries \in 0 .. MaxRuns
               /\ run[d].at \in 1 .. Len(files[d]) + 1
               /\ run[d].outcome \in {None, "complete", "drift", "duplicate", "sql", "died"}
    <2>1. run[d] \in Runs /\ files[d] \in Images /\ HolderKnows(d)
      BY <1>1 DEF Shapes, LInv, RunIsSound
    <2>2. Len(files[d]) \in Nat
      BY <2>1, ImageFacts
    <2>3. run[d].at <= Len(files[d]) + 1
      BY <2>1, <2>2 DEF HolderKnows, RunsStart
    <2>4. QED
      BY <1>1, <2>1, <2>2, <2>3 DEF Runs, RunsStart
  <1>4. QED
    BY <1>1, <1>2, <1>3 DEF TypeOK, Shapes, RunsStart

-----------------------------------------------------------------------------
\* Statuses and lists an answer may have.
Statuses == {"success", "not_found", "error"}

IsAnswer(a) == a.status \in Statuses /\ a.rows \in Seq(RP!Rows)

WalkIsTyped ==
  walk # None => walk.base \subseteq RP!Rows /\ walk.state \in {"reading", "done", "refused"}

PageIsTyped ==
  page # None => /\ page.id \in Receipts \union {None} /\ page.shown \in Seq(RP!Rows)
                 /\ page.view \in Statuses \union {"loading"}

AnswersAreTyped ==
  \A q \in inFlight : /\ q.id \in Receipts \union {None}
                      /\ q.answer # None => IsAnswer(q.answer)

ReadersTypes ==
  /\ drawn \subseteq Receipts /\ guest \in Readers /\ asked <= MaxAsked
  /\ WalkIsTyped /\ PageIsTyped /\ AnswersAreTyped

LEMMA ShortLists ==
  ASSUME NEW R
  PROVE  /\ <<>> \in Seq(R)
         /\ \A f \in [1 .. 1 -> R] : f \in Seq(R)
  <1>1. <<>> \in Seq(R)
    OBVIOUS
  <1>2. ASSUME NEW f \in [1 .. 1 -> R] PROVE f \in Seq(R)
    <2>1. f = [i \in 1 .. 1 |-> f[i]] /\ \A i \in 1 .. 1 : f[i] \in R
      OBVIOUS
    <2>2. [i \in 1 .. 1 |-> f[i]] \in Seq(R)
      BY <2>1
    <2>3. QED
      BY <2>1, <2>2, Zenon
  <1>3. QED
    BY <1>1, <1>2

\* What the service answers a page that asks for one receipt.
LEMMA FoundIsTyped ==
  ASSUME ReceiptInv, RowsAreOwned, NEW id
  PROVE  IsAnswer(RP!Found(id))
  <1> DEFINE own == RP!RowOf(guest, id)
             R == RP!Rows
  <1>1. /\ RP!Found(id).status \in Statuses
        /\ RP!Found(id).rows = RP!SetToSeq(own)
    BY DEF RP!Found, RP!Answer, Statuses
  <1>2. RP!SetToSeq(own) \in Seq(R)
    <2>1. CASE own = {}
      <3> HIDE DEF R
      <3>1. RP!SetToSeq(own) = <<>>
        BY <2>1, SequenceOfOne
      <3>2. QED
        BY <3>1, ShortLists
    <2>2. CASE own # {}
      <3>1. PICK r \in own : TRUE
        BY <2>2
      <3>2. own = {r}
        BY <3>1 DEF RP!RowOf, RP!Own, ReceiptInv, IdsAreDrawnOnce
      <3>3. r \in R
        BY <3>1 DEF RP!RowOf, RP!Own, RowsAreOwned, IsTable
      <3> DEFINE seq == RP!SetToSeq({r})
      <3>4. seq \in [1 .. 1 -> {r}]
        <4>1. ASSUME NEW S PROVE RP!Cardinality(S) = Cardinality(S)
          BY DEF RP!Cardinality, Cardinality
        <4> DEFINE one == [i \in 1 .. 1 |-> r]
        <4>2. RP!Cardinality({r}) = 1
          BY <4>1, FS_Singleton
        <4>3. one \in [1 .. 1 -> {r}] /\ RP!IsInjective(one)
          BY DEF RP!IsInjective
        <4>4. QED
          BY <4>2, <4>3 DEF RP!SetToSeq
      <3> HIDE DEF seq, R
      <3>5. seq \in [1 .. 1 -> R]
        BY <3>3, <3>4
      <3>6. seq \in Seq(R)
        BY <3>5, ShortLists
      <3>7. QED
        BY <3>2, <3>6 DEF seq
    <2>3. QED
      BY <2>1, <2>2
  <1>3. QED
    BY <1>1, <1>2 DEF IsAnswer

LEMMA LoadIsTyped ==
  ASSUME ReadersTypes, ReceiptInv, NEW id \in Receipts \union {None}, RP!Load(id)
  PROVE  ReadersTypes'
  <1>0. MaxAsked \in Nat /\ asked \in Nat
    BY OperationsAssumption DEF RP!HistoryConstants, ReceiptInv
  <1>1. PICK q : /\ q = [number |-> asked + 1, id |-> id, answer |-> None]
                 /\ inFlight' = inFlight \union {q}
    BY DEF RP!Load
  <1>2. /\ page' = [id |-> id, view |-> "loading", shown |-> <<>>, request |-> asked + 1,
                    of |-> None, known |-> receipts]
        /\ asked < MaxAsked /\ asked' = asked + 1
        /\ UNCHANGED <<drawn, guest, walk>>
    BY DEF RP!Load
  <1>3. page'.id = id /\ page'.view = "loading" /\ page'.shown = <<>>
    BY <1>2
  <1>4. PageIsTyped'
    BY <1>3, ShortLists DEF PageIsTyped
  <1>5. q.id = id /\ q.answer = None
    BY <1>1
  <1>6. AnswersAreTyped'
    BY <1>1, <1>5 DEF ReadersTypes, AnswersAreTyped
  <1>7. asked' <= MaxAsked
    BY <1>0, <1>2
  <1>8. QED
    BY <1>2, <1>4, <1>6, <1>7 DEF ReadersTypes, WalkIsTyped

LEMMA AnswerIsTyped ==
  ASSUME ReadersTypes, ReceiptInv, NEW q \in inFlight, NEW a, IsAnswer(a),
         inFlight' = (inFlight \ {q}) \union {[q EXCEPT !.answer = a]},
         UNCHANGED <<drawn, guest, walk, page, asked>>
  PROVE  ReadersTypes'
  <1> DEFINE new == [q EXCEPT !.answer = a]
  <1>1. new.id = q.id /\ new.answer = a
    BY DEF ReceiptInv, AnswersNameTheirRequest, IsRequest
  <1>2. inFlight' = (inFlight \ {q}) \union {new}
    OBVIOUS
  <1> HIDE DEF new
  <1>3. AnswersAreTyped'
    BY <1>1, <1>2 DEF ReadersTypes, AnswersAreTyped
  <1>4. QED
    BY <1>3 DEF ReadersTypes, WalkIsTyped, PageIsTyped

LEMMA PageStepsAreTyped ==
  ASSUME ReadersTypes, ReceiptInv, RowsAreOwned,
         \/ RP!OpenHistory \/ (\E id \in Receipts : RP!OpenReceipt(id)) \/ RP!Retry \/ RP!Leave
         \/ \E q \in inFlight : RP!Serve(q) \/ RP!Fail(q) \/ RP!Arrive(q)
  PROVE  ReadersTypes'
  <1>1. CASE RP!OpenHistory \/ (\E id \in Receipts : RP!OpenReceipt(id)) \/ RP!Retry
    <2>1. PICK id \in Receipts \union {None} : RP!Load(id)
      BY <1>1 DEF RP!OpenHistory, RP!OpenReceipt, RP!Retry, ReadersTypes, PageIsTyped
    <2>2. QED
      BY <2>1, LoadIsTyped
  <1>2. CASE RP!Leave
    BY <1>2 DEF RP!Leave, ReadersTypes, WalkIsTyped, PageIsTyped, AnswersAreTyped
  <1>3. ASSUME NEW q \in inFlight, RP!Serve(q) PROVE ReadersTypes'
    <2> DEFINE f == RP!Below(guest, {})
    <2>1. IsAnswer(RP!Answer("success", f))
      <3>1. f \in Seq(RP!Rows)
        BY BelowLists
      <3>2. QED
        BY <3>1 DEF IsAnswer, RP!Answer, Statuses
    <2>2. PICK a : /\ inFlight' = (inFlight \ {q}) \union {[q EXCEPT !.answer = a]}
                   /\ a = RP!Answer("success", f) \/ a = RP!Found(q.id)
      BY <1>3 DEF RP!Serve
    <2>3. IsAnswer(a)
      BY <2>1, <2>2, FoundIsTyped
    <2>4. QED
      BY <1>3, <2>2, <2>3, AnswerIsTyped DEF RP!Serve
  <1>4. ASSUME NEW q \in inFlight, RP!Fail(q) PROVE ReadersTypes'
    <2>1. PICK a : /\ inFlight' = (inFlight \ {q}) \union {[q EXCEPT !.answer = a]}
                   /\ a = RP!Answer("error", <<>>)
      BY <1>4 DEF RP!Fail
    <2>2. IsAnswer(a)
      BY <2>1, ShortLists DEF RP!Answer, IsAnswer, Statuses
    <2>3. QED
      BY <1>4, <2>1, <2>2, AnswerIsTyped DEF RP!Fail
  <1>5. ASSUME NEW q \in inFlight, RP!Arrive(q) PROVE ReadersTypes'
    <2>1. inFlight' = inFlight \ {q} /\ UNCHANGED <<drawn, guest, walk, asked>>
          /\ q.answer # None
      BY <1>5 DEF RP!Arrive
    <2>2. AnswersAreTyped'
      BY <2>1 DEF ReadersTypes, AnswersAreTyped
    <2>3. PageIsTyped'
      <3>1. CASE RP!Heeds(q)
        <4>1. page # None /\ IsPage(page)
          BY <3>1 DEF RP!Heeds, ReceiptInv, PageNamesItsAddress
        <4>2. page' = [page EXCEPT !.view = q.answer.status, !.shown = q.answer.rows,
                                   !.of = q.answer.of]
          BY <1>5, <3>1 DEF RP!Arrive
        <4>3. page'.id = page.id /\ page'.view = q.answer.status /\ page'.shown = q.answer.rows
          <5>1. PICK i, v0, s0, n, o0, k :
                  /\ page = [id |-> i, view |-> v0, shown |-> s0, request |-> n,
                             of |-> o0, known |-> k]
                  /\ i = page.id
            BY <4>1 DEF IsPage
          <5>2. page' = [id |-> i, view |-> q.answer.status, shown |-> q.answer.rows,
                         request |-> n, of |-> q.answer.of, known |-> k]
            BY <4>2, <5>1, PageShows
          <5>3. QED
            BY <5>1, <5>2
        <4>4. QED
          BY <2>1, <4>1, <4>3 DEF ReadersTypes, PageIsTyped, AnswersAreTyped, IsAnswer
      <3>2. CASE ~RP!Heeds(q)
        BY <1>5, <3>2 DEF RP!Arrive, ReadersTypes, PageIsTyped
      <3>3. QED
        BY <3>1, <3>2
    <2>4. QED
      BY <2>1, <2>2, <2>3 DEF ReadersTypes, WalkIsTyped
  <1>6. QED
    BY <1>1, <1>2, <1>3, <1>4, <1>5

LEMMA ServiceStepsAreTyped ==
  ASSUME ReadersTypes, RowsAreOwned, WalkInv,
         \/ \E r \in RP!Rows : RP!Order(r)
         \/ RP!Reset \/ RP!Expire \/ RP!StartWalk \/ RP!ContinueWalk \/ RP!EndWalk
  PROVE  ReadersTypes'
  <1>1. UNCHANGED <<page, asked, inFlight>>
    BY DEF RP!Order, RP!Reset, RP!Expire, RP!Rotate, RP!StartWalk, RP!ContinueWalk, RP!EndWalk
  <1>2. drawn' \subseteq Receipts /\ guest' \in Readers
    BY DEF ReadersTypes, RP!Rows, RP!Order, RP!Reset, RP!Expire, RP!Rotate, RP!StartWalk,
       RP!ContinueWalk, RP!EndWalk
  <1>3. WalkIsTyped'
    <2>1. CASE (\E r \in RP!Rows : RP!Order(r)) \/ RP!Reset \/ RP!Expire
      BY <2>1 DEF RP!Order, RP!Reset, RP!Expire, RP!Rotate, ReadersTypes, WalkIsTyped
    <2>2. CASE RP!StartWalk
      <3> DEFINE f == RP!Below(guest, {})
                 state == IF Len(f) < PageSize THEN "done" ELSE "reading"
      <3>1. walk' = [read |-> f, base |-> RP!Own(guest), state |-> state]
        BY <2>2 DEF RP!StartWalk
      <3>2. state \in {"done", "reading"}
        OBVIOUS
      <3> HIDE DEF f, state
      <3>3. walk'.base = RP!Own(guest) /\ walk'.state = state
        BY <3>1
      <3>4. RP!Own(guest) \subseteq RP!Rows
        BY DEF RP!Own, RowsAreOwned, IsTable
      <3>5. QED
        BY <3>2, <3>3, <3>4 DEF WalkIsTyped
    <2>3. CASE RP!ContinueWalk
      <3>1. /\ walk # None
            /\ walk = [read |-> walk.read, base |-> walk.base, state |-> walk.state]
        BY <2>3 DEF RP!ContinueWalk, WalkInv, WalkTypes
      <3> DEFINE cursor == RP!RowOf(guest, RP!Last(walk.read).id)
                 next == RP!Below(guest, cursor)
                 state == IF Len(next) < PageSize THEN "done" ELSE "reading"
      <3>2. \/ walk' = [walk EXCEPT !.state = "refused"]
            \/ walk' = [walk EXCEPT !.read = walk.read \o next, !.state = state]
        BY <2>3 DEF RP!ContinueWalk
      <3>3. state \in {"reading", "done", "refused"}
        OBVIOUS
      <3> HIDE DEF next, state
      <3>4. walk'.base = walk.base /\ walk'.state \in {"reading", "done", "refused"}
        BY <3>1, <3>2, <3>3
      <3>5. QED
        BY <3>1, <3>4 DEF ReadersTypes, WalkIsTyped
    <2>4. CASE RP!EndWalk
      BY <2>4 DEF RP!EndWalk, WalkIsTyped
    <2>5. QED
      BY <2>1, <2>2, <2>3, <2>4
  <1>4. QED
    BY <1>1, <1>2, <1>3 DEF ReadersTypes, PageIsTyped, AnswersAreTyped

LEMMA ReadersStayTyped ==
  ASSUME ReadersTypes, ReceiptInv, RowsAreOwned, WalkInv, [RP!Next]_(RP!vars)
  PROVE  ReadersTypes'
  <1>1. CASE UNCHANGED RP!vars
    BY <1>1 DEF RP!vars, ReadersTypes, WalkIsTyped, PageIsTyped, AnswersAreTyped
  <1>2. CASE RP!Next
    BY <1>2, PageStepsAreTyped, ServiceStepsAreTyped DEF RP!Next
  <1>3. QED
    BY <1>1, <1>2

LEMMA ReadersAreTyped == ReadersTypes /\ ReceiptInv /\ RowsAreOwned /\ WalkInv => RP!TypeOK
  <1> SUFFICES ASSUME ReadersTypes, ReceiptInv, RowsAreOwned, WalkInv PROVE RP!TypeOK
    OBVIOUS
  <1>1. receipts \subseteq RP!Rows /\ asked \in 0 .. MaxAsked
    BY OperationsAssumption DEF RowsAreOwned, IsTable, ReceiptInv, ReadersTypes,
       RP!HistoryConstants
  <1>2. walk # None => walk.read \in Seq(RP!Rows)
    BY DEF WalkInv, WalkTypes
  <1>3. \A q \in inFlight : q.number \in 1 .. asked
    BY DEF ReceiptInv, AnswersNameTheirRequest, IsRequest
  <1>4. QED
    BY <1>1, <1>2, <1>3 DEF RP!TypeOK, ReadersTypes, WalkIsTyped, PageIsTyped, AnswersAreTyped,
       Statuses

-----------------------------------------------------------------------------
LEMMA RetentionStarts == GR!Init => RunsAreBounded
  BY RunBounds DEF GR!Init, RunsAreBounded

LEMMA LimiterStarts == RL!Init => LimiterTypes
  BY LimiterBounds DEF RL!Init, LimiterTypes

LEMMA DeploysStart == Init => RunsStart
  BY MigrationsAssumption DEF Init, RunsStart, Idle

LEMMA ReadersStart == RP!Init => ReadersTypes /\ ReceiptInv /\ RowsAreOwned /\ WalkInv
  <1> SUFFICES ASSUME RP!Init
               PROVE  ReadersTypes /\ ReceiptInv /\ RowsAreOwned /\ WalkInv
    OBVIOUS
  <1>1. guest \in Readers /\ guest \in Nat /\ MaxAsked \in Nat
    BY FirstReader, OperationsAssumption DEF RP!Init, RP!HistoryConstants
  <1>2. QED
    BY <1>1, ReceiptInvariant, FS_EmptySet
    DEF RP!Init, RowsAreOwned, IsTable, WalkInv, ReadersTypes, WalkIsTyped, PageIsTyped,
        AnswersAreTyped

\* The variables of every part keep their types: run counters, lists and answers included.
THEOREM OperationsTypes ==
  Spec /\ GR!Spec /\ RL!Spec /\ GW!Spec /\ RP!Spec => []TypesOK
  <1>1. Spec => []TypeOK
    BY InitHolds, NextHolds, DeploysStart, RunsStayStarted, DeploysAreTyped, PTL DEF Spec
  <1>2. GR!Spec => []GR!TypeOK
    BY RetentionInit, RetentionInvariant, RetentionStarts, RunsStayBounded, RetentionIsTyped, PTL
    DEF GR!Spec
  <1>3. RL!Spec => []RL!TypeOK
    BY LimiterInvariant, LimiterStarts, LimiterStaysTyped, LimiterIsTyped, PTL DEF RL!Spec
  <1>4. GW!Spec => []GW!TypeOK
    <2>1. GatewayInv => GW!TypeOK
      <3> SUFFICES ASSUME GatewayInv PROVE GW!TypeOK
        OBVIOUS
      <3>1. configured \in BOOLEAN
        BY DEF GatewayInv
      <3>2. QED
        BY <3>1 DEF GatewayInv, Honest, GW!TypeOK
    <2>2. QED
      BY GatewayInvariant, <2>1, PTL DEF GW!Spec
  <1>5. RP!Spec => []RP!TypeOK
    BY ReadersStart, ReceiptInvariant, WalkInvariant, ReadersStayTyped, ReadersAreTyped, PTL
    DEF RP!Spec
  <1>6. QED
    BY <1>1, <1>2, <1>3, <1>4, <1>5, PTL DEF TypesOK
=============================================================================
