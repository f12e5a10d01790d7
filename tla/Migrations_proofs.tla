-------------------------- MODULE Migrations_proofs --------------------------
(***************************************************************************)
(* For any number of replicas and of migrations: the journal and the       *)
(* schema agree, migrations take effect in order, and a pod that serves    *)
(* has every migration of its image.  None of this is inductive by itself; *)
(* IInv adds what an open transaction holds and what the loop of migrate   *)
(* relies on.                                                              *)
(***************************************************************************)
EXTENDS Migrations, TLAPS

IInv ==
  /\ TypeOK
  /\ JournalMatchesSchema
  /\ JournalIsPrefix
  /\ AppliedIsCommitted
  /\ ServingIsMigrated
  /\ LoopIsOrdered
  /\ TransactionHolds

(* An empty database and pods that are down: every part of IInv holds.     *)
LEMMA InitIInv == Init => IInv
  BY MigrationsAssumption
  DEF Init, IInv, TypeOK, JournalMatchesSchema, JournalIsPrefix, AppliedIsCommitted,
      ServingIsMigrated, LoopIsOrdered, TransactionHolds, Objects, Migration, Stages

(* A pod that boots has no transaction yet, whatever its image.            *)
LEMMA BootStep ==
  ASSUME IInv, NEW r \in Replicas, Boot(r)
  PROVE  IInv'
<1> USE MigrationsAssumption
    DEF IInv, TypeOK, Stages, Objects, Migration, Journal, Goto, db, Boot
<1>1. TypeOK'
  OBVIOUS
<1>2. JournalMatchesSchema'
  BY DEF JournalMatchesSchema
<1>3. JournalIsPrefix'
  BY DEF JournalIsPrefix
<1>4. AppliedIsCommitted'
  BY DEF AppliedIsCommitted
<1>5. ServingIsMigrated'
  BY DEF ServingIsMigrated
<1>6. LoopIsOrdered'
  BY DEF LoopIsOrdered
<1>7. TransactionHolds'
  BY DEF TransactionHolds
<1> QED BY <1>1, <1>2, <1>3, <1>4, <1>5, <1>6, <1>7

(* A pod without a database serves with an image of no migrations.         *)
LEMMA BootWithoutDatabaseStep ==
  ASSUME IInv, NEW r \in Replicas, BootWithoutDatabase(r)
  PROVE  IInv'
<1> USE MigrationsAssumption
    DEF IInv, TypeOK, Stages, Objects, Migration, Journal, Goto, db, BootWithoutDatabase
<1>1. TypeOK'
  OBVIOUS
<1>2. JournalMatchesSchema'
  BY DEF JournalMatchesSchema
<1>3. JournalIsPrefix'
  BY DEF JournalIsPrefix
<1>4. AppliedIsCommitted'
  BY DEF AppliedIsCommitted
<1>5. ServingIsMigrated'
  BY DEF ServingIsMigrated
<1>6. LoopIsOrdered'
  BY DEF LoopIsOrdered
<1>7. TransactionHolds'
  BY DEF TransactionHolds
<1> QED BY <1>1, <1>2, <1>3, <1>4, <1>5, <1>6, <1>7

(* The transaction of _ensure_journal holds the journal table only.        *)
LEMMA EnsureJournalStep ==
  ASSUME IInv, NEW r \in Replicas, EnsureJournal(r)
  PROVE  IInv'
<1> USE MigrationsAssumption
    DEF IInv, TypeOK, Stages, Objects, Migration, Journal, Goto, db, EnsureJournal, CreateIfAbsent
<1>1. TypeOK'
  OBVIOUS
<1>2. JournalMatchesSchema'
  BY DEF JournalMatchesSchema
<1>3. JournalIsPrefix'
  BY DEF JournalIsPrefix
<1>4. AppliedIsCommitted'
  BY DEF AppliedIsCommitted
<1>5. ServingIsMigrated'
  BY DEF ServingIsMigrated
<1>6. LoopIsOrdered'
  BY DEF LoopIsOrdered
<1>7. TransactionHolds'
  BY DEF TransactionHolds
<1> QED BY <1>1, <1>2, <1>3, <1>4, <1>5, <1>6, <1>7

(* A replica that waits for the journal table holds nothing.               *)
LEMMA EnsureWaitsStep ==
  ASSUME IInv, NEW r \in Replicas, EnsureWaits(r)
  PROVE  IInv'
<1> USE MigrationsAssumption
    DEF IInv, TypeOK, Stages, Objects, Migration, Journal, Goto, db, EnsureWaits
<1>1. TypeOK'
  OBVIOUS
<1>2. JournalMatchesSchema'
  BY DEF JournalMatchesSchema
<1>3. JournalIsPrefix'
  BY DEF JournalIsPrefix
<1>4. AppliedIsCommitted'
  BY DEF AppliedIsCommitted
<1>5. ServingIsMigrated'
  BY DEF ServingIsMigrated
<1>6. LoopIsOrdered'
  BY DEF LoopIsOrdered
<1>7. TransactionHolds'
  BY DEF TransactionHolds
<1> QED BY <1>1, <1>2, <1>3, <1>4, <1>5, <1>6, <1>7

(* A resumed creation is like the creation.                                *)
LEMMA EnsureResumesStep ==
  ASSUME IInv, NEW r \in Replicas, EnsureResumes(r)
  PROVE  IInv'
<1> USE MigrationsAssumption
    DEF IInv, TypeOK, Stages, Objects, Migration, Journal, Goto, db, EnsureResumes, CreateIfAbsent
<1>1. TypeOK'
  OBVIOUS
<1>2. JournalMatchesSchema'
  BY DEF JournalMatchesSchema
<1>3. JournalIsPrefix'
  BY DEF JournalIsPrefix
<1>4. AppliedIsCommitted'
  BY DEF AppliedIsCommitted
<1>5. ServingIsMigrated'
  BY DEF ServingIsMigrated
<1>6. LoopIsOrdered'
  BY DEF LoopIsOrdered
<1>7. TransactionHolds'
  BY DEF TransactionHolds
<1> QED BY <1>1, <1>2, <1>3, <1>4, <1>5, <1>6, <1>7

(* Reading the journal commits a transaction that holds no migration: the  *)
(* journal is left as it is, and applied becomes a part of it.             *)
LEMMA ReadJournalStep ==
  ASSUME IInv, NEW r \in Replicas, ReadJournal(r)
  PROVE  IInv'
<1> USE MigrationsAssumption
    DEF IInv, TypeOK, Stages, Objects, Migration, Journal, Goto, db, ReadJournal, CommitTx
<1>1. created[r] \subseteq {Journal} /\ inserted[r] = {}
  BY DEF TransactionHolds
<1>2. journal' = journal /\ objects' \cap Migration = objects \cap Migration
  BY <1>1
<1>3. TypeOK'
  BY <1>1
<1>4. (JournalMatchesSchema /\ JournalIsPrefix)'
  BY <1>2 DEF JournalMatchesSchema, JournalIsPrefix
<1>5. AppliedIsCommitted'
  BY <1>2 DEF AppliedIsCommitted
<1>6. ServingIsMigrated'
  BY <1>2 DEF ServingIsMigrated
<1>7. LoopIsOrdered'
  BY DEF LoopIsOrdered
<1>8. TransactionHolds'
  BY DEF TransactionHolds
<1> QED BY <1>3, <1>4, <1>5, <1>6, <1>7, <1>8

(* The least pending migration is picked: all before it are applied.       *)
LEMMA PickNextStep ==
  ASSUME IInv, NEW r \in Replicas, PickNext(r)
  PROVE  IInv'
<1> USE MigrationsAssumption
    DEF IInv, TypeOK, Stages, Objects, Migration, Journal, Goto, db, PickNext, Pending
<1>1. TypeOK'
  OBVIOUS
<1>2. JournalMatchesSchema'
  BY DEF JournalMatchesSchema
<1>3. JournalIsPrefix'
  BY DEF JournalIsPrefix
<1>4. AppliedIsCommitted'
  BY DEF AppliedIsCommitted
<1>5. ServingIsMigrated'
  BY DEF ServingIsMigrated
<1>6. LoopIsOrdered'
  BY DEF LoopIsOrdered
<1>7. TransactionHolds'
  BY DEF TransactionHolds
<1> QED BY <1>1, <1>2, <1>3, <1>4, <1>5, <1>6, <1>7

(* Nothing is pending, so what the image ships is applied, and what is     *)
(* applied is committed.                                                   *)
LEMMA ServeStep ==
  ASSUME IInv, NEW r \in Replicas, Serve(r)
  PROVE  IInv'
<1> USE MigrationsAssumption
    DEF IInv, TypeOK, Stages, Objects, Migration, Journal, Goto, db, Serve, Pending
<1>1. TypeOK'
  OBVIOUS
<1>2. JournalMatchesSchema'
  BY DEF JournalMatchesSchema
<1>3. JournalIsPrefix'
  BY DEF JournalIsPrefix
<1>4. AppliedIsCommitted'
  BY DEF AppliedIsCommitted
<1>5. ServingIsMigrated'
  BY DEF ServingIsMigrated, AppliedIsCommitted
<1>6. LoopIsOrdered'
  BY DEF LoopIsOrdered
<1>7. TransactionHolds'
  BY DEF TransactionHolds
<1> QED BY <1>1, <1>2, <1>3, <1>4, <1>5, <1>6, <1>7

(* The transaction of a migration holds the object it creates.             *)
LEMMA ApplySqlStep ==
  ASSUME IInv, NEW r \in Replicas, ApplySql(r)
  PROVE  IInv'
<1> USE MigrationsAssumption
    DEF IInv, TypeOK, Stages, Objects, Migration, Journal, Goto, db, ApplySql, CreateIfAbsent
<1>1. TypeOK'
  BY DEF LoopIsOrdered
<1>2. JournalMatchesSchema'
  BY DEF JournalMatchesSchema
<1>3. JournalIsPrefix'
  BY DEF JournalIsPrefix
<1>4. AppliedIsCommitted'
  BY DEF AppliedIsCommitted
<1>5. ServingIsMigrated'
  BY DEF ServingIsMigrated
<1>6. LoopIsOrdered'
  BY DEF LoopIsOrdered
<1>7. TransactionHolds'
  BY DEF TransactionHolds
<1> QED BY <1>1, <1>2, <1>3, <1>4, <1>5, <1>6, <1>7

(* A replica that waits for another one's creation holds nothing.          *)
LEMMA ApplyWaitsStep ==
  ASSUME IInv, NEW r \in Replicas, ApplyWaits(r)
  PROVE  IInv'
<1> USE MigrationsAssumption
    DEF IInv, TypeOK, Stages, Objects, Migration, Journal, Goto, db, ApplyWaits
<1>1. TypeOK'
  OBVIOUS
<1>2. JournalMatchesSchema'
  BY DEF JournalMatchesSchema
<1>3. JournalIsPrefix'
  BY DEF JournalIsPrefix
<1>4. AppliedIsCommitted'
  BY DEF AppliedIsCommitted
<1>5. ServingIsMigrated'
  BY DEF ServingIsMigrated
<1>6. LoopIsOrdered'
  BY DEF LoopIsOrdered
<1>7. TransactionHolds'
  BY DEF TransactionHolds
<1> QED BY <1>1, <1>2, <1>3, <1>4, <1>5, <1>6, <1>7

(* A resumed migration is like a migration.                                *)
LEMMA ApplyResumesStep ==
  ASSUME IInv, NEW r \in Replicas, ApplyResumes(r)
  PROVE  IInv'
<1> USE MigrationsAssumption
    DEF IInv, TypeOK, Stages, Objects, Migration, Journal, Goto, db, ApplyResumes, CreateIfAbsent
<1>1. TypeOK'
  BY DEF LoopIsOrdered
<1>2. JournalMatchesSchema'
  BY DEF JournalMatchesSchema
<1>3. JournalIsPrefix'
  BY DEF JournalIsPrefix
<1>4. AppliedIsCommitted'
  BY DEF AppliedIsCommitted
<1>5. ServingIsMigrated'
  BY DEF ServingIsMigrated
<1>6. LoopIsOrdered'
  BY DEF LoopIsOrdered
<1>7. TransactionHolds'
  BY DEF TransactionHolds
<1> QED BY <1>1, <1>2, <1>3, <1>4, <1>5, <1>6, <1>7

(* The journal row joins the object in the transaction, unless both are    *)
(* committed.                                                              *)
LEMMA RecordMigrationStep ==
  ASSUME IInv, NEW r \in Replicas, RecordMigration(r)
  PROVE  IInv'
<1> USE MigrationsAssumption
    DEF IInv, TypeOK, Stages, Objects, Migration, Journal, Goto, db, RecordMigration
<1>1. TypeOK'
  BY DEF LoopIsOrdered
<1>2. JournalMatchesSchema'
  BY DEF JournalMatchesSchema
<1>3. JournalIsPrefix'
  BY DEF JournalIsPrefix
<1>4. AppliedIsCommitted'
  BY DEF AppliedIsCommitted
<1>5. ServingIsMigrated'
  BY DEF ServingIsMigrated
<1>6. LoopIsOrdered'
  BY DEF LoopIsOrdered
<1>7. TransactionHolds'
  BY DEF TransactionHolds
<1> QED BY <1>1, <1>2, <1>3, <1>4, <1>5, <1>6, <1>7

(* The heart of the matter: the object and the row of one migration are    *)
(* published in one step, and all migrations before it are journalled.     *)
LEMMA CommitMigrationStep ==
  ASSUME IInv, NEW r \in Replicas, CommitMigration(r)
  PROVE  IInv'
<1> USE MigrationsAssumption
    DEF IInv, TypeOK, Stages, Objects, Migration, Journal, Goto, db, CommitMigration, CommitTx
<1> DEFINE n == current[r]
<1>1. n \in Migration /\ 1 .. (n - 1) \subseteq journal
  BY DEF LoopIsOrdered, AppliedIsCommitted
<1>2. /\ created[r] \subseteq {n} /\ n \in objects \cup created[r]
      /\ inserted[r] \subseteq {n} /\ n \in journal \cup inserted[r]
  BY DEF TransactionHolds
<1>3. objects' = objects \cup {n} /\ journal' = journal \cup {n}
  BY <1>2
<1>4. TypeOK'
  <2>1. objects' \subseteq Objects /\ journal' \subseteq Migration
    BY <1>1, <1>3
  <2>2. /\ created' \in [Replicas -> SUBSET Objects]
        /\ inserted' \in [Replicas -> SUBSET Migration]
    OBVIOUS
  <2>3. applied' \in [Replicas -> SUBSET Migration]
    BY <1>1
  <2>4. executed' \in [Migration -> SUBSET Replicas]
    BY <1>1
  <2>5. /\ stage' \in [Replicas -> Stages] /\ image' \in [Replicas -> 0 .. LastMigration]
        /\ current' \in [Replicas -> Migration \cup {NoMigration}]
    OBVIOUS
  <2> QED BY <2>1, <2>2, <2>3, <2>4, <2>5
<1>5. JournalMatchesSchema'
  BY <1>1, <1>3 DEF JournalMatchesSchema
<1>6. JournalIsPrefix'
  <2> SUFFICES ASSUME NEW k \in journal' PROVE 1 .. k \subseteq journal'
    BY DEF JournalIsPrefix
  <2>1. CASE k \in journal
    BY <2>1, <1>3 DEF JournalIsPrefix
  <2>2. CASE k = n
    <3>1. \A i \in 1 .. n : i \in 1 .. (n - 1) \/ i = n
      BY <1>1
    <3> QED BY <2>2, <3>1, <1>1, <1>3
  <2> QED BY <2>1, <2>2, <1>3
<1>7. AppliedIsCommitted'
  BY <1>3 DEF AppliedIsCommitted
<1>8. ServingIsMigrated'
  BY <1>3 DEF ServingIsMigrated
<1>9. LoopIsOrdered'
  BY DEF LoopIsOrdered
<1>10. TransactionHolds'
  BY <1>3 DEF TransactionHolds
<1> QED BY <1>4, <1>5, <1>6, <1>7, <1>8, <1>9, <1>10

(* A crash at any statement takes the transaction with it; what is         *)
(* committed is untouched.                                                 *)
LEMMA DieStep ==
  ASSUME IInv, NEW r \in Replicas, Die(r)
  PROVE  IInv'
<1> USE MigrationsAssumption
    DEF IInv, TypeOK, Stages, Objects, Migration, Journal, Goto, db, Die, RollBack
<1>1. TypeOK'
  OBVIOUS
<1>2. JournalMatchesSchema'
  BY DEF JournalMatchesSchema
<1>3. JournalIsPrefix'
  BY DEF JournalIsPrefix
<1>4. AppliedIsCommitted'
  BY DEF AppliedIsCommitted
<1>5. ServingIsMigrated'
  BY DEF ServingIsMigrated
<1>6. LoopIsOrdered'
  BY DEF LoopIsOrdered
<1>7. TransactionHolds'
  BY DEF TransactionHolds
<1> QED BY <1>1, <1>2, <1>3, <1>4, <1>5, <1>6, <1>7

(* Every step of every replica preserves the inductive invariant.          *)
LEMMA NextIInv == IInv /\ [Next]_vars => IInv'
<1> SUFFICES ASSUME IInv, [Next]_vars PROVE IInv'
  OBVIOUS
<1>1. CASE UNCHANGED vars
  BY <1>1 DEF vars, db, IInv, TypeOK, JournalMatchesSchema, JournalIsPrefix,
       AppliedIsCommitted, ServingIsMigrated, LoopIsOrdered, TransactionHolds
<1>2. ASSUME NEW r \in Replicas, Progress(r) \/ BootWithoutDatabase(r) \/ Crash(r)
      PROVE  IInv'
  <2>1. CASE Boot(r) \/ BootWithoutDatabase(r)
    BY <2>1, BootStep, BootWithoutDatabaseStep
  <2>2. CASE EnsureJournal(r) \/ EnsureWaits(r) \/ EnsureResumes(r)
    BY <2>2, EnsureJournalStep, EnsureWaitsStep, EnsureResumesStep
  <2>3. CASE ReadJournal(r) \/ PickNext(r) \/ Serve(r)
    BY <2>3, ReadJournalStep, PickNextStep, ServeStep
  <2>4. CASE ApplySql(r) \/ ApplyWaits(r) \/ ApplyResumes(r)
    BY <2>4, ApplySqlStep, ApplyWaitsStep, ApplyResumesStep
  <2>5. CASE RecordMigration(r) \/ CommitMigration(r)
    BY <2>5, RecordMigrationStep, CommitMigrationStep
  <2>6. CASE CreateConflicts(r) \/ Crash(r)
    BY <2>6, DieStep DEF CreateConflicts, Crash
  <2> QED BY <1>2, <2>1, <2>2, <2>3, <2>4, <2>5, <2>6 DEF Progress
<1> QED BY <1>1, <1>2 DEF Next

(* The inductive invariant holds in every behaviour of the boot.           *)
LEMMA Invariance == Spec => []IInv
  BY InitIInv, NextIInv, PTL DEF Spec

(* Postgres and the locals of migrate stay in their ranges.                *)
THEOREM TypeCorrect == Spec => []TypeOK
  BY Invariance, PTL DEF IInv

(* However many replicas boot together and crash wherever they like, a     *)
(* migration is in the schema if and only if it is in the journal.         *)
THEOREM JournalAndSchemaAgree == Spec => []JournalMatchesSchema
  BY Invariance, PTL DEF IInv

(* Replicas with different images never leave a gap in the journal.        *)
THEOREM JournalHasNoGaps == Spec => []JournalIsPrefix
  BY Invariance, PTL DEF IInv

(* The names migrate returns, and skips, are names of committed rows.      *)
THEOREM AppliedNamesAreCommitted == Spec => []AppliedIsCommitted
  BY Invariance, PTL DEF IInv

(* A pod that serves has every migration of its image.                     *)
THEOREM ServingPodsAreMigrated == Spec => []ServingIsMigrated
  BY Invariance, PTL DEF IInv

(* The loop and its transactions are what the argument above says.         *)
THEOREM LoopAndTransactions == Spec => [](LoopIsOrdered /\ TransactionHolds)
  BY Invariance, PTL DEF IInv

=============================================================================
