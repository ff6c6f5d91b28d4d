----------------------------- MODULE MCOperations -----------------------------
(***************************************************************************)
(* Small instances of what surrounds the checkout: migrations, the         *)
(* retention job, the rate limiter, the gateway and the readers of         *)
(* receipts.  They share no state in the models, so a behaviour picks one  *)
(* of them and the others stay at their start: what holds of each alone    *)
(* holds of their composition.                                             *)
(***************************************************************************)
EXTENDS Operations

VARIABLE part                 \* the part that is explored

allVars == <<part, vars, jobVars, limiterVars, gatewayVars, receiptVars>>

-----------------------------------------------------------------------------
(***************************************************************************)
(* The instances.                                                          *)
(***************************************************************************)
M(name, sum) == [name |-> name, sum |-> sum]

\* One image with the first migration only, two that add to it, one whose second
\* migration was edited and one whose first was.
FirstImage == <<M("001", "a")>>
AllImages ==
  {FirstImage,
   <<M("001", "a"), M("002", "b")>>,
   <<M("001", "a"), M("002", "b"), M("003", "c")>>,
   <<M("001", "a"), M("002", "edited")>>,
   <<M("001", "edited"), M("002", "b")>>}

\* Of the retention job, an instance that one full batch takes to the cap, beside the one
\* of Operations, whose runs fit it; of the receipts, one with a list that is longer than
\* a page of two, and one with fewer orders but pages that ask.
GC == INSTANCE GuestRetention WITH Guests <- Retained, MaxBatches <- 1, lock <- rowLock
LongList == INSTANCE ReceiptHistory WITH
  Ids <- Receipts, Guests <- Readers, PageSize <- 2, MaxAsked <- 0
FewOrders == INSTANCE ReceiptHistory WITH
  Ids <- 1 .. 2, Guests <- Readers, Times <- {1}

-----------------------------------------------------------------------------
(***************************************************************************)
(* One part at a time.                                                     *)
(***************************************************************************)
OperationsInit ==
  /\ part \in {"migrations", "retention", "capped", "limiter", "gateway", "list", "receipt"}
  /\ IF part = "migrations" THEN TRUE ELSE files = [d \in Deploys |-> Legacy]
  /\ IF part = "gateway" THEN TRUE ELSE configured = TRUE
  /\ Init /\ GR!Init /\ RL!Init /\ GW!Init /\ RP!Init

OperationsNext ==
  \/ /\ part = "migrations" /\ Next
     /\ UNCHANGED <<part, jobVars, limiterVars, gatewayVars, receiptVars>>
  \/ /\ part = "retention" /\ GR!Next
     /\ UNCHANGED <<part, vars, limiterVars, gatewayVars, receiptVars>>
  \/ /\ part = "capped" /\ GC!Next
     /\ UNCHANGED <<part, vars, limiterVars, gatewayVars, receiptVars>>
  \/ /\ part = "limiter" /\ RL!Next
     /\ UNCHANGED <<part, vars, jobVars, gatewayVars, receiptVars>>
  \/ /\ part = "gateway" /\ GW!Next
     /\ UNCHANGED <<part, vars, jobVars, limiterVars, receiptVars>>
  \/ /\ part = "list" /\ LongList!Next
     /\ UNCHANGED <<part, vars, jobVars, limiterVars, gatewayVars>>
  \/ /\ part = "receipt" /\ FewOrders!Next
     /\ UNCHANGED <<part, vars, jobVars, limiterVars, gatewayVars>>

\* The job is due every day and a checkout ends.  At its start no other part has a
\* step that fairness asks for.
OperationsSpec ==
  /\ OperationsInit /\ [][OperationsNext]_allVars
  /\ Fairness /\ GW!Fairness /\ RP!Fairness
  /\ \A j \in Jobs :
       WF_jobVars(\/ part = "retention" /\ GR!JobStep(j)
                  \/ part = "capped" /\ GC!JobStep(j))
  /\ \A g \in Retained : WF_jobVars(part \in {"retention", "capped"} /\ GR!CheckoutStep(g))

-----------------------------------------------------------------------------
(***************************************************************************)
(* Properties, which the modules of the parts state.                       *)
(***************************************************************************)
\* A deploy that was started ends, expired guests are gone in the end, a request through
\* the gateway settles and no page stays at "Loading".
WorkEnds == DeploysEnd /\ GR!ExpiredGuestsGo /\ GW!RequestsSettle /\ RP!LoadingEnds
=============================================================================
