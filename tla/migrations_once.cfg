CONSTANTS
  Replicas = {r1, r2}
  LastMigration = 1
  NoMigration = NoMigration
SPECIFICATION Spec
INVARIANT ExactlyOnce
