------------------------------ MODULE Migrations ------------------------------
(***************************************************************************)
(* Schema migrations: deploys that run scripts/migrate.py, perhaps several *)
(* at once and of different source versions, each in one transaction that  *)
(* any of them can lose half way.                                          *)
(*                                                                         *)
(* A migration is its file's name and the checksum of its text.            *)
(***************************************************************************)
EXTENDS Integers, Sequences

CONSTANTS
  Deploys,
  Images,    \* the migration files a source version may hold, in their order
  Legacy,    \* migrations applied before the ledger kept checksums
  MaxRuns,   \* runs of one deploy
  None,
  Unknown    \* the NULL checksum of a legacy row

NamesIn(migrations) == {migrations[i].name : i \in DOMAIN migrations}

\* validated_migrations: within one image the names differ; checksums are never NULL.
ASSUME MigrationsAssumption ==
  /\ Legacy \in Images /\ MaxRuns \in Nat
  /\ None \notin Deploys \union {"complete", "drift", "duplicate"}
  /\ \A image \in Images :
       /\ image \in Seq({image[i] : i \in DOMAIN image})
       /\ \A i, j \in DOMAIN image : image[i].name = image[j].name => i = j
       /\ \A i \in DOMAIN image : image[i].sum # Unknown

VARIABLES
  files,    \* files[d]: the image deploy d runs from
  ledger,   \* schema_migrations as committed: name -> checksum
  schema,   \* the migrations whose SQL has been committed, in order
  lock,     \* the deploy that holds the advisory lock
  run       \* run[d]: where d's process is and what its transaction has done

vars == <<files, ledger, schema, lock, run>>

NoRows == [name \in {} |-> Unknown]

Idle == [pc |-> "idle", tries |-> 0, seen |-> NoRows, at |-> 1,
         rows |-> NoRows, executed |-> <<>>, outcome |-> None]

Init ==
  /\ files \in [Deploys -> Images]
  /\ ledger = [name \in NamesIn(Legacy) |-> Unknown]
  /\ schema = Legacy
  /\ lock = None
  /\ run = [d \in Deploys |-> Idle]

\* Rows that are inserted, or updated where the name is there already.
Over(rows, base) ==
  [name \in DOMAIN rows \union DOMAIN base |->
     IF name \in DOMAIN rows THEN rows[name] ELSE base[name]]

Begun(d)      == [Idle EXCEPT !.pc = "begun", !.tries = run[d].tries + 1]
Ended(d, why) == [Idle EXCEPT !.pc = "ended", !.tries = run[d].tries, !.outcome = why]

\* A process starts and opens its transaction.
Begin(d) ==
  /\ run[d].pc \in {"idle", "ended"} /\ run[d].tries < MaxRuns
  /\ run' = [run EXCEPT ![d] = Begun(d)]
  /\ UNCHANGED <<files, ledger, schema, lock>>

LockIsFree == lock = None

\* pg_advisory_xact_lock.
Lock(d) ==
  /\ run[d].pc = "begun" /\ LockIsFree
  /\ lock' = d
  /\ run' = [run EXCEPT ![d].pc = "locked"]
  /\ UNCHANGED <<files, ledger, schema>>

\* The ledger is read once, by a statement after the lock is held.
ReadLedger(d) ==
  /\ run[d].pc = "locked"
  /\ run' = [run EXCEPT ![d].pc = "applying", ![d].seen = ledger]
  /\ UNCHANGED <<files, ledger, schema, lock>>

\* Mutant: the lock is one of the session, which a pooled connection keeps.
KeepLock(d) == lock

Unlock(d) == IF lock = d THEN None ELSE lock

\* Mutant: the statements of a failed run stay, as they would without a transaction.
KeptOnFailure(d) == schema \o run[d].executed

SchemaAfterFailure(d) == schema

Fail(d, why) ==
  /\ run' = [run EXCEPT ![d] = Ended(d, why)]
  /\ lock' = Unlock(d)
  /\ schema' = SchemaAfterFailure(d)
  /\ UNCHANGED <<files, ledger>>

Applying(d) == run[d].pc = "applying" /\ run[d].at \in DOMAIN files[d]
File(d)     == files[d][run[d].at]
Applied(d)  == File(d).name \in DOMAIN run[d].seen

\* Mutant: the loop's counter moves twice.
WithRowAndSkip(d, executed) ==
  [run EXCEPT ![d].at = @ + 2,
              ![d].rows = Over([name \in {File(d).name} |-> File(d).sum], @),
              ![d].executed = @ \o executed]

\* The row goes into the transaction; the loop goes on.
WithRow(d, executed) ==
  [run EXCEPT ![d].at = @ + 1,
              ![d].rows = Over([name \in {File(d).name} |-> File(d).sum], @),
              ![d].executed = @ \o executed]

\* A legacy row is given the checksum of whatever file now has its name.
Backfill(d) ==
  /\ Applying(d) /\ Applied(d)
  /\ run[d].seen[File(d).name] = Unknown
  /\ run' = WithRow(d, <<>>)
  /\ UNCHANGED <<files, ledger, schema, lock>>

Agrees(d) == run[d].seen[File(d).name] = File(d).sum

Skip(d) ==
  /\ Applying(d) /\ Applied(d)
  /\ run[d].seen[File(d).name] # Unknown /\ Agrees(d)
  /\ run' = [run EXCEPT ![d].at = @ + 1]
  /\ UNCHANGED <<files, ledger, schema, lock>>

RefuseDrift(d) ==
  /\ Applying(d) /\ Applied(d)
  /\ run[d].seen[File(d).name] # Unknown /\ ~Agrees(d)
  /\ Fail(d, "drift")

\* The file's SQL and its ledger row; the row's primary key is checked at once.
Apply(d) ==
  /\ Applying(d) /\ ~Applied(d)
  /\ IF File(d).name \in DOMAIN ledger
       THEN Fail(d, "duplicate")
       ELSE /\ run' = WithRow(d, <<File(d)>>)
            /\ UNCHANGED <<files, ledger, schema, lock>>

\* The file's SQL fails.
SqlFails(d) == Applying(d) /\ ~Applied(d) /\ Fail(d, "sql")

\* The process or its connection dies; the database rolls back.
Die(d) == run[d].pc \in {"begun", "locked", "applying"} /\ Fail(d, "died")

Commit(d) ==
  /\ run[d].pc = "applying" /\ run[d].at \notin DOMAIN files[d]
  /\ ledger' = Over(run[d].rows, ledger)
  /\ schema' = schema \o run[d].executed
  /\ lock' = Unlock(d)
  /\ run' = [run EXCEPT ![d] = Ended(d, "complete")]
  /\ UNCHANGED files

Step(d) ==
  \/ Lock(d) \/ ReadLedger(d)
  \/ Backfill(d) \/ Skip(d) \/ RefuseDrift(d) \/ Apply(d)
  \/ Commit(d)

Next == \E d \in Deploys : Begin(d) \/ Step(d) \/ SqlFails(d) \/ Die(d)

\* A process that runs goes on; the lock queue of PostgreSQL serves every waiter.
Fairness == \A d \in Deploys : WF_vars(Step(d))

Spec == Init /\ [][Next]_vars /\ Fairness

-----------------------------------------------------------------------------
(***************************************************************************)
(* Properties.                                                             *)
(***************************************************************************)
Migration == UNION {{image[i] : i \in DOMAIN image} : image \in Images}
SumsOf    == {m.sum : m \in Migration} \union {Unknown}

\* The types of the variables.
TypeOK ==
  /\ files \in [Deploys -> Images]
  /\ schema \in Seq(Migration)
  /\ DOMAIN ledger \subseteq {m.name : m \in Migration}
  /\ \A name \in DOMAIN ledger : ledger[name] \in SumsOf
  /\ lock \in Deploys \union {None}
  /\ \A d \in Deploys :
       /\ run[d].pc \in {"idle", "begun", "locked", "applying", "ended"}
       /\ run[d].tries \in 0 .. MaxRuns
       /\ run[d].at \in 1 .. Len(files[d]) + 1
       /\ run[d].outcome \in {None, "complete", "drift", "duplicate", "sql", "died"}

\* However many deploys run at once or die, no migration is executed a second time.
ExecutedOnce ==
  \A i, j \in DOMAIN schema : schema[i].name = schema[j].name => i = j

\* The ledger and the schema agree after any commit or failure: every row names a
\* migration that was executed and, unless it is older than the checksums, with the
\* very text that was executed.
LedgerTellsWhatRan ==
  /\ DOMAIN ledger = NamesIn(schema)
  /\ \A i \in DOMAIN schema :
       schema[i].name \notin NamesIn(Legacy) => ledger[schema[i].name] = schema[i].sum

\* A deploy reports completion only over a ledger that agrees with all its files; while
\* it still stands, no other deploy has changed what it saw.
CompleteMeansAgreed ==
  \A d \in Deploys : run[d].outcome = "complete" =>
    \A i \in DOMAIN files[d] :
      files[d][i].name \in DOMAIN ledger /\ ledger[files[d][i].name] = files[d][i].sum

\* Deploys that run at once do not make each other fail: a run is refused only over a
\* file that differs from the one whose checksum the ledger holds.
RefusedOnlyForDrift ==
  \A d \in Deploys :
    /\ run[d].outcome # "duplicate"
    /\ run[d].outcome = "drift" =>
         \E i \in DOMAIN files[d] :
           files[d][i].name \in DOMAIN ledger /\ ledger[files[d][i].name] # files[d][i].sum

\* The ledger can be relied on: by the deploys that run at once, by those that run later,
\* and by whoever was told that one is complete (docs/runbooks/stabilization.md).
LedgerIsHonest ==
  ExecutedOnce /\ LedgerTellsWhatRan /\ CompleteMeansAgreed /\ RefusedOnlyForDrift

\* A deploy that was started ends, whoever died with the lock in its hands.
DeploysEnd ==
  \A d \in Deploys : run[d].pc = "begun" ~> run[d].pc = "ended"
=============================================================================
