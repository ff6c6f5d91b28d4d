----------------------------- MODULE RateLimiter -----------------------------
(***************************************************************************)
(* The checkout rate limiter: counters per guest and for everyone, one     *)
(* pair per fixed window, kept in Redis under keys that expire, and        *)
(* counted by processes whose clocks may disagree.                         *)
(***************************************************************************)
EXTENDS Integers, FiniteSets

CONSTANTS
  Guests,
  Window,       \* window_seconds
  PerGuest,     \* per_guest_limit
  Aggregate,    \* aggregate_limit
  Skews,        \* how far ahead of Redis a process's clock may be
  MaxTime,      \* how long the clock runs
  MaxAttempts,  \* attempts within one second
  Everyone      \* the owner of the aggregate counter

\* What the settings must satisfy.
LimiterConstants ==
  /\ {Window, PerGuest, Aggregate} \subseteq Nat \ {0} /\ {MaxTime, MaxAttempts} \subseteq Nat
  /\ Skews \subseteq 0 .. Window - 1
  /\ Everyone \notin Guests

VARIABLES
  now,          \* seconds
  counters,     \* keys in Redis: [owner, bucket] with count and expiry
  up,           \* Redis answers
  admitted,     \* attempts let through: [guest, at, bucket, nth]
  told,         \* when a refused guest was told to come back; 0: not since it was let in
  busy          \* attempts this second

vars == <<now, counters, up, admitted, told, busy>>

Init ==
  /\ now = 0
  /\ counters = {}
  /\ up = TRUE
  /\ admitted = {}
  /\ told = [g \in Guests |-> 0]
  /\ busy = 0

Key(owner, bucket) == {c \in counters : c.owner = owner /\ c.bucket = bucket}
Count(owner, bucket) ==
  IF Key(owner, bucket) = {} THEN 0 ELSE (CHOOSE c \in Key(owner, bucket) : TRUE).count

\* Mutant: a counter lives as long as its window seems to last.
ExpiryOfWindow(t) == Window - (t % Window)

\* The time to live of a counter, renewed with every attempt.
Expiry(t) == 2 * Window

RetryAfter(t) == Window - (t % Window)

Incremented(owner, t) ==
  [owner |-> owner, bucket |-> t \div Window,
   count |-> Count(owner, t \div Window) + 1, expires |-> now + Expiry(t)]

\* Both counters include the attempt, let through or not.
WithinBounds(g, bucket) ==
  Count(g, bucket) < PerGuest /\ Count(Everyone, bucket) < Aggregate

\* _enforce_checkout_rate_limit, on a process whose clock is ahead by skew; without
\* Redis nothing is let through.
Attempt(g, skew) ==
  LET t == now + skew
      bucket == t \div Window
  IN
  /\ up /\ busy < MaxAttempts
  /\ busy' = busy + 1
  /\ counters' = (counters \ (Key(g, bucket) \union Key(Everyone, bucket)))
                   \union {Incremented(g, t), Incremented(Everyone, t)}
  /\ IF WithinBounds(g, bucket)
     THEN /\ admitted' = admitted \union
               {[guest |-> g, at |-> now, bucket |-> bucket, nth |-> Count(g, bucket)]}
          /\ told' = [told EXCEPT ![g] = 0]
     ELSE /\ told' = [told EXCEPT ![g] = now + RetryAfter(t)]
          /\ UNCHANGED admitted
  /\ UNCHANGED <<now, up>>

Outage ==
  /\ up' = ~up
  /\ UNCHANGED <<now, counters, admitted, told, busy>>

\* A second passes, and Redis drops what has expired.
Tick ==
  /\ now < MaxTime
  /\ now' = now + 1
  /\ counters' = {c \in counters : c.expires > now'}
  /\ busy' = 0
  /\ UNCHANGED <<up, admitted, told>>

Next ==
  \/ \E g \in Guests, skew \in Skews : Attempt(g, skew)
  \/ Outage
  \/ Tick

Spec == Init /\ [][Next]_vars

-----------------------------------------------------------------------------
(***************************************************************************)
(* Properties.                                                             *)
(***************************************************************************)
\* The types of the variables; a key is there once.
TypeOK ==
  /\ now \in 0 .. MaxTime /\ up \in BOOLEAN /\ busy \in 0 .. MaxAttempts
  /\ \A c, d \in counters : c.owner = d.owner /\ c.bucket = d.bucket => c = d
  /\ \A c \in counters : c.owner \in Guests \union {Everyone} /\ c.expires > now
  /\ told \in [Guests -> Nat]

From(guests, times) == {a \in admitted : a.guest \in guests /\ a.at \in times}

\* No counter is forgotten while its window lasts on some process: whatever the clocks
\* say, a window lets through no more than its bounds.
WindowBound ==
  \A a \in admitted :
    /\ Cardinality({b \in admitted : b.bucket = a.bucket}) <= Aggregate
    /\ Cardinality({b \in admitted : b.bucket = a.bucket /\ b.guest = a.guest}) <= PerGuest

\* Fixed windows admit more than the bound in some spans of their length, around a
\* boundary, but never more than twice as many while the clocks agree to a second; two
\* seconds apart, a span can touch three windows.
SpanBound ==
  \A t \in 0 .. now :
    /\ Cardinality(From(Guests, t .. t + Window - 1)) <= 2 * Aggregate
    /\ \A g \in Guests : Cardinality(From({g}, t .. t + Window - 1)) <= 2 * PerGuest
=============================================================================
