----------------------------- MODULE Operations -----------------------------
(***************************************************************************)
(* What surrounds the checkout: migrations, the retention job, the rate    *)
(* limiter, the gateway and the pages that show receipts, each with        *)
(* variables of its own.  A property here is one of the module it names.   *)
(***************************************************************************)
EXTENDS Migrations

CONSTANTS
  Retained, Jobs, Batch, MaxBatches, MaxFailures, Checkout,    \* of GuestRetention
  Shoppers, Everyone, Window, PerGuest, Aggregate, Skews,      \* of RateLimiter
  MaxTime, MaxAttempts,
  Requests,                                                    \* of Gateway
  Receipts, Readers, Times, PageSize, MaxAsked                 \* of ReceiptHistory

VARIABLES
  session, checkout, rowLock, job, owed,
  now, counters, up, admitted, told, busy,
  configured, exchange,
  receipts, drawn, guest, walk, page, asked, inFlight

jobVars     == <<session, checkout, rowLock, job, owed>>
limiterVars == <<now, counters, up, admitted, told, busy>>
gatewayVars == <<configured, exchange>>
receiptVars == <<receipts, drawn, guest, walk, page, asked, inFlight>>

GR == INSTANCE GuestRetention WITH Guests <- Retained, lock <- rowLock
RL == INSTANCE RateLimiter WITH Guests <- Shoppers
GW == INSTANCE Gateway
RP == INSTANCE ReceiptHistory WITH Ids <- Receipts, Guests <- Readers

ASSUME OperationsAssumption ==
  /\ GR!RetentionConstants /\ RL!LimiterConstants
  /\ GW!GatewayConstants /\ RP!HistoryConstants

-----------------------------------------------------------------------------
\* The types of the variables.
TypesOK == TypeOK /\ GR!TypeOK /\ RL!TypeOK /\ GW!TypeOK /\ RP!TypeOK

\* A retention run that reports completion has drained what it found unlocked, and no
\* guest disappears under a checkout that holds its row.
CompleteMeansDrained == GR!CompleteMeansDrained /\ GR!LockedGuestSurvives

\* No window admits more than its bounds, and no span of its length more than twice that.
BoundsHold == RL!WindowBound /\ RL!SpanBound

\* What the gateway lets a page call refused was not done, and nothing is done twice.
GatewayIsHonest == GW!RefusedMeansNotDone /\ GW!DoneAtMostOnce

\* A confirmation page shows no receipt but the one its address names.
ShownIsAsked == RP!ExactReceipt

\* Pages of the list meet without gap or overlap and belong to one guest, and a history
\* page shows a list no older than itself.
ListsAreWhole == RP!PagesMeet /\ RP!OneGuestPerWalk /\ RP!HistoryIsFresh
=============================================================================
