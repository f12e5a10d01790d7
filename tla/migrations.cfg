CONSTANTS
  Replicas = {r1, r2, r3}
  LastMigration = 2
  NoMigration = NoMigration
SPECIFICATION FairSpec
INVARIANTS TypeOK JournalMatchesSchema JournalIsPrefix AppliedIsCommitted ServingIsMigrated
PROPERTY AllServe
