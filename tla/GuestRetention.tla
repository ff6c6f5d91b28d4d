--------------------------- MODULE GuestRetention ---------------------------
(***************************************************************************)
(* The retention job: runs of scripts/cleanup_guests.py, one batch of      *)
(* expired guests per transaction until a batch is short, beside checkouts *)
(* that hold the row of the guest they act for.  Module Checkout has the   *)
(* steps inside one batch; here a batch is selected, then committed.       *)
(***************************************************************************)
EXTENDS Integers, FiniteSets

CONSTANTS
  Guests,      \* 1 .. n, in the order of their expiry
  Jobs,        \* runs of the script
  Batch,       \* MAX_CLEANUP_BATCH_SIZE
  MaxBatches,  \* ORDERLY_CLEANUP_MAX_BATCHES
  MaxFailures, \* failures of the database during one run
  Checkout,
  None

\* What the constants must satisfy.
RetentionConstants ==
  /\ {Batch, MaxBatches} \subseteq Nat \ {0} /\ MaxFailures \in Nat
  /\ Guests \subseteq Nat /\ IsFiniteSet(Guests)
  /\ Checkout \notin Jobs /\ None \notin Jobs /\ None # Checkout

VARIABLES
  session,  \* session[g]: "live", "expired", or "gone" with its row
  checkout, \* checkout[g]: "none", "authenticated" or "holds" its guest's row
  lock,     \* lock[g]: who holds the row
  job,      \* job[j]: what the run is at
  owed      \* owed[j]: guests expired when j began, never skipped by j as locked

vars == <<session, checkout, lock, job, owed>>

Init ==
  /\ session = [g \in Guests |-> "live"]
  /\ checkout = [g \in Guests |-> "none"]
  /\ lock = [g \in Guests |-> None]
  /\ job = [j \in Jobs |-> [pc |-> "idle", batches |-> 0, failures |-> 0]]
  /\ owed = [j \in Jobs |-> {}]

\* Expiry is fixed when a guest is issued: traffic does not extend it.
Expire(g) ==
  /\ session[g] = "live"
  /\ \A h \in Guests : h < g => session[h] # "live"
  /\ session' = [session EXCEPT ![g] = "expired"]
  /\ UNCHANGED <<checkout, lock, job, owed>>

-----------------------------------------------------------------------------
(***************************************************************************)
(* A checkout, seen from here: it authenticates, later locks its guest's   *)
(* row, and ends.                                                          *)
(***************************************************************************)
Authenticate(g) ==
  /\ session[g] = "live" /\ checkout[g] = "none"
  /\ checkout' = [checkout EXCEPT ![g] = "authenticated"]
  /\ UNCHANGED <<session, lock, job, owed>>

\* _lock_active_guest: now() is that of the transaction's start, so the guest may have
\* expired, for the job's clock, by the time the row is locked.
LockForCheckout(g) ==
  /\ checkout[g] = "authenticated" /\ session[g] # "gone" /\ lock[g] = None
  /\ checkout' = [checkout EXCEPT ![g] = "holds"]
  /\ lock' = [lock EXCEPT ![g] = Checkout]
  /\ UNCHANGED <<session, job, owed>>

\* It commits, or is refused because its guest has expired or is gone.
EndCheckout(g) ==
  /\ \/ checkout[g] = "holds"
     \/ checkout[g] = "authenticated" /\ session[g] # "live"
  /\ checkout' = [checkout EXCEPT ![g] = "none"]
  /\ lock' = [lock EXCEPT ![g] = IF @ = Checkout THEN None ELSE @]
  /\ UNCHANGED <<session, job, owed>>

-----------------------------------------------------------------------------
(***************************************************************************)
(* The job.                                                                *)
(***************************************************************************)
Expired == {g \in Guests : session[g] = "expired"}
Taken(j) == {g \in Guests : lock[g] = j}

Begin(j) ==
  /\ job[j].pc = "idle"
  /\ job' = [job EXCEPT ![j].pc = "select"]
  /\ owed' = [owed EXCEPT ![j] = Expired]
  /\ UNCHANGED <<session, checkout, lock>>

First(n, gs) == {g \in gs : Cardinality({h \in gs : h < g}) < n}

\* ORDER BY expires_at FOR UPDATE SKIP LOCKED LIMIT batch.
Selected(gs) == First(Batch, {g \in gs : lock[g] = None})

Select(j) ==
  /\ job[j].pc = "select"
  /\ LET rows == Selected(Expired) IN
       /\ lock' = [g \in Guests |-> IF g \in rows THEN j ELSE lock[g]]
       /\ job' = [job EXCEPT ![j].pc = "delete"]
       /\ owed' = [owed EXCEPT ![j] = @ \ {g \in Expired : lock[g] # None}]
  /\ UNCHANGED <<session, checkout>>

Released(j) == [g \in Guests |-> IF lock[g] = j THEN None ELSE lock[g]]

\* Mutant: the cap, too, ends in success.
NextStepAlwaysComplete(j) ==
  IF Cardinality(Taken(j)) < Batch \/ job[j].batches + 1 = MaxBatches
  THEN "complete" ELSE "select"

\* A short batch means the rest is locked or gone; the cap fails the job.
NextStep(j) ==
  IF Cardinality(Taken(j)) < Batch THEN "complete"
  ELSE IF job[j].batches + 1 = MaxBatches THEN "capped" ELSE "select"

\* The batch is deleted with all it owns.
Commit(j) ==
  /\ job[j].pc = "delete"
  /\ session' = [g \in Guests |-> IF g \in Taken(j) THEN "gone" ELSE session[g]]
  /\ lock' = Released(j)
  /\ job' = [job EXCEPT ![j].pc = NextStep(j), ![j].batches = @ + 1]
  /\ UNCHANGED <<checkout, owed>>

\* The database fails or the process dies: the batch rolls back, the job ends.
Fail(j) ==
  /\ job[j].pc \in {"select", "delete"} /\ job[j].failures < MaxFailures
  /\ lock' = Released(j)
  /\ job' = [job EXCEPT ![j].pc = "failed", ![j].failures = @ + 1]
  /\ UNCHANGED <<session, checkout, owed>>

\* The scheduler starts the script again the next day.
NextDay(j) ==
  /\ job[j].pc \in {"complete", "capped", "failed"}
  /\ job' = [job EXCEPT ![j].pc = "idle", ![j].batches = 0]
  /\ owed' = [owed EXCEPT ![j] = {}]
  /\ UNCHANGED <<session, checkout, lock>>

-----------------------------------------------------------------------------
JobStep(j) == Begin(j) \/ Select(j) \/ Commit(j) \/ NextDay(j)

CheckoutStep(g) == LockForCheckout(g) \/ EndCheckout(g)

Next ==
  \/ \E g \in Guests : Expire(g) \/ Authenticate(g) \/ CheckoutStep(g)
  \/ \E j \in Jobs : JobStep(j) \/ Fail(j)

\* The script runs every day and a checkout in flight ends; nothing is assumed of when
\* guests expire.
Fairness ==
  /\ \A j \in Jobs : WF_vars(JobStep(j))
  /\ \A g \in Guests : WF_vars(CheckoutStep(g))

Spec == Init /\ [][Next]_vars /\ Fairness

-----------------------------------------------------------------------------
(***************************************************************************)
(* Properties.                                                             *)
(***************************************************************************)
\* The types of the variables; a lock a job holds is one of its open batch.
TypeOK ==
  /\ session \in [Guests -> {"live", "expired", "gone"}]
  /\ checkout \in [Guests -> {"none", "authenticated", "holds"}]
  /\ lock \in [Guests -> Jobs \union {Checkout, None}]
  /\ job \in [Jobs -> [pc : {"idle", "select", "delete", "complete", "capped", "failed"},
                       batches : 0 .. MaxBatches, failures : 0 .. MaxFailures]]
  /\ owed \in [Jobs -> SUBSET Guests]
  /\ \A j \in Jobs : Taken(j) # {} => job[j].pc = "delete"

\* "If checkout already owns the row, cleanup skips it": a guest whose checkout holds the
\* row is not deleted until the checkout ends.
LockedGuestSurvives ==
  \A g \in Guests : checkout[g] = "holds" => session[g] # "gone"

\* "Reaching that cap fails the job instead of reporting a false complete drain": when a
\* run reports completion, every guest that had expired when it began is gone, except
\* those it met locked.
CompleteMeansDrained ==
  \A j \in Jobs : job[j].pc = "complete" => \A g \in owed[j] : session[g] = "gone"

\* "a later batch/run can collect it": every expired guest is deleted in the end, though
\* checkouts lock it, runs overlap and runs fail.
ExpiredGuestsGo ==
  \A g \in Guests : session[g] = "expired" ~> session[g] = "gone"
=============================================================================
