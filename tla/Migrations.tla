----------------------------- MODULE Migrations -----------------------------
(***************************************************************************)
(* Schema migrations at boot (src/src/db.py, called by the lifespan of     *)
(* src/src/main.py): several replicas, each running its own image, apply   *)
(* migrations/*.sql against one Postgres and journal them.  A replica may  *)
(* crash between any two statements and is started again.                  *)
(*                                                                         *)
(* Migration n is the n-th file in sorted order; like the repository's     *)
(* one migration it is DDL that tolerates objects which exist (CREATE ...  *)
(* IF NOT EXISTS).  Postgres is external: a transaction's writes are seen  *)
(* by others at commit; a CREATE that meets another transaction's          *)
(* uncommitted CREATE of the same object waits, and fails with a unique    *)
(* violation if that one commits; an INSERT ... ON CONFLICT DO NOTHING     *)
(* waits in the same way, and then does nothing.                           *)
(***************************************************************************)
EXTENDS Naturals, FiniteSets

CONSTANTS Replicas,       \* the pods
          LastMigration,  \* number of migrations in the newest image
          NoMigration

ASSUME MigrationsAssumption ==
  /\ LastMigration \in Nat \ {0}
  /\ NoMigration \notin Nat

Migration == 1 .. LastMigration
Journal == 0              \* the journal table itself, as an object
Objects == 0 .. LastMigration

VARIABLES
  objects,   \* schema objects that are committed
  journal,   \* committed rows of openst.schema_migrations
  created,   \* objects a replica's transaction created, not committed
  inserted,  \* journal rows a replica's transaction inserted, not committed
  stage,     \* where in the boot a replica is
  image,     \* the migrations its image ships are 1 .. image
  applied,   \* the local variable "applied" of migrate
  current,   \* the migration its loop is at
  executed   \* ghost: the replicas that committed an execution of n

db == <<objects, journal, created, inserted>>
vars == <<db, stage, image, applied, current, executed>>

Stages == {"down", "ensure", "ensure_wait", "read", "pick",
           "apply", "apply_wait", "record", "commit", "serving"}

Init ==
  /\ objects = {} /\ journal = {}
  /\ created = [r \in Replicas |-> {}]
  /\ inserted = [r \in Replicas |-> {}]
  /\ stage = [r \in Replicas |-> "down"]
  /\ image = [r \in Replicas |-> LastMigration]
  /\ applied = [r \in Replicas |-> {}]
  /\ current = [r \in Replicas |-> NoMigration]
  /\ executed = [n \in Migration |-> {}]

-----------------------------------------------------------------------------
(* Postgres. *)

Goto(r, s) == stage' = [stage EXCEPT ![r] = s]

CreatedElsewhere(r, o) == \E q \in Replicas \ {r} : o \in created[q]

InsertedElsewhere(r, n) == \E q \in Replicas \ {r} : n \in inserted[q]

(* CREATE ... IF NOT EXISTS of an object nobody else is creating. *)
CreateIfAbsent(r, o) ==
  /\ ~CreatedElsewhere(r, o)
  /\ created' = [created EXCEPT ![r] = IF o \in objects THEN @ ELSE @ \cup {o}]
  /\ UNCHANGED <<objects, journal, inserted>>

(* COMMIT publishes what the transaction wrote. *)
CommitTx(r) ==
  /\ objects' = objects \cup created[r]
  /\ journal' = journal \cup inserted[r]
  /\ created' = [created EXCEPT ![r] = {}]
  /\ inserted' = [inserted EXCEPT ![r] = {}]

(* MUTANT: no finally clause, the connection stays open in its transaction. *)
RollBack_LeavesOpen(r) == UNCHANGED db

(* The connection is closed: what was not committed is gone. *)
RollBack(r) ==
  /\ created' = [created EXCEPT ![r] = {}]
  /\ inserted' = [inserted EXCEPT ![r] = {}]
  /\ UNCHANGED <<objects, journal>>

-----------------------------------------------------------------------------
(* One boot of one replica. *)

(* A pod starts with some image: deployments roll forward and back. *)
Boot(r) ==
  /\ stage[r] = "down"
  /\ \E v \in Migration : image' = [image EXCEPT ![r] = v]
  /\ Goto(r, "ensure")
  /\ UNCHANGED <<db, applied, current, executed>>

(* Without DATABASE_URL the lifespan skips the migrations. *)
BootWithoutDatabase(r) ==
  /\ stage[r] = "down"
  /\ image' = [image EXCEPT ![r] = 0]
  /\ Goto(r, "serving")
  /\ UNCHANGED <<db, applied, current, executed>>

(* _ensure_journal creates the schema and the journal table. *)
EnsureJournal(r) ==
  /\ stage[r] = "ensure"
  /\ CreateIfAbsent(r, Journal)
  /\ Goto(r, "read")
  /\ UNCHANGED <<image, applied, current, executed>>

EnsureWaits(r) ==
  /\ stage[r] = "ensure"
  /\ CreatedElsewhere(r, Journal)
  /\ Goto(r, "ensure_wait")
  /\ UNCHANGED <<db, image, applied, current, executed>>

(* The other transaction was rolled back: the CREATE goes on. *)
EnsureResumes(r) ==
  /\ stage[r] = "ensure_wait" /\ Journal \notin objects
  /\ CreateIfAbsent(r, Journal)
  /\ Goto(r, "read")
  /\ UNCHANGED <<image, applied, current, executed>>

(* SELECT name FROM openst.schema_migrations; commit. *)
ReadJournal(r) ==
  /\ stage[r] = "read"
  /\ applied' = [applied EXCEPT ![r] = journal]
  /\ CommitTx(r)
  /\ Goto(r, "pick")
  /\ UNCHANGED <<image, current, executed>>

(* MUTANT: a range that is one too long. *)
Pending_OffByOne(r) == 1 .. (image[r] + 1) \ applied[r]

Pending(r) == 1 .. image[r] \ applied[r]

(* MUTANT: the files are taken in the order the directory lists them. *)
PickNext_Unsorted(r) ==
  /\ stage[r] = "pick"
  /\ \E n \in Pending(r) : current' = [current EXCEPT ![r] = n]
  /\ Goto(r, "apply")
  /\ UNCHANGED <<db, image, applied, executed>>

(* The loop over the pending files, in sorted order. *)
PickNext(r) ==
  /\ stage[r] = "pick"
  /\ \E n \in Pending(r) :
       /\ \A p \in Pending(r) : n <= p
       /\ current' = [current EXCEPT ![r] = n]
  /\ Goto(r, "apply")
  /\ UNCHANGED <<db, image, applied, executed>>

Serve(r) ==
  /\ stage[r] = "pick" /\ Pending(r) = {}
  /\ Goto(r, "serving")
  /\ UNCHANGED <<db, image, applied, current, executed>>

(* MUTANT: the connection is in autocommit mode. *)
ApplySql_Autocommits(r) ==
  /\ stage[r] = "apply"
  /\ ~CreatedElsewhere(r, current[r])
  /\ objects' = objects \cup {current[r]}
  /\ Goto(r, "record")
  /\ UNCHANGED <<journal, created, inserted, image, applied, current, executed>>

ApplySql(r) ==
  /\ stage[r] = "apply"
  /\ CreateIfAbsent(r, current[r])
  /\ Goto(r, "record")
  /\ UNCHANGED <<image, applied, current, executed>>

ApplyWaits(r) ==
  /\ stage[r] = "apply"
  /\ CreatedElsewhere(r, current[r])
  /\ Goto(r, "apply_wait")
  /\ UNCHANGED <<db, image, applied, current, executed>>

ApplyResumes(r) ==
  /\ stage[r] = "apply_wait" /\ current[r] \notin objects
  /\ CreateIfAbsent(r, current[r])
  /\ Goto(r, "record")
  /\ UNCHANGED <<image, applied, current, executed>>

(* MUTANT: the name is added to "applied" before the commit. *)
RecordMigration_AddsEarly(r) ==
  /\ stage[r] = "record"
  /\ ~InsertedElsewhere(r, current[r])
  /\ inserted' = [inserted EXCEPT ![r] =
                    IF current[r] \in journal THEN @ ELSE @ \cup {current[r]}]
  /\ applied' = [applied EXCEPT ![r] = @ \cup {current[r]}]
  /\ Goto(r, "commit")
  /\ UNCHANGED <<objects, journal, created, image, current, executed>>

(* INSERT INTO openst.schema_migrations ... ON CONFLICT DO NOTHING. *)
RecordMigration(r) ==
  /\ stage[r] = "record"
  /\ ~InsertedElsewhere(r, current[r])
  /\ inserted' = [inserted EXCEPT ![r] =
                    IF current[r] \in journal THEN @ ELSE @ \cup {current[r]}]
  /\ Goto(r, "commit")
  /\ UNCHANGED <<objects, journal, created, image, applied, current, executed>>

CommitMigration(r) ==
  /\ stage[r] = "commit"
  /\ CommitTx(r)
  /\ applied' = [applied EXCEPT ![r] = @ \cup {current[r]}]
  /\ executed' = [executed EXCEPT ![current[r]] = @ \cup {r}]
  /\ current' = [current EXCEPT ![r] = NoMigration]
  /\ Goto(r, "pick")
  /\ UNCHANGED image

-----------------------------------------------------------------------------
(* What can go wrong. *)

(* The process ends: its locals and its transaction are gone. *)
Die(r) ==
  /\ RollBack(r)
  /\ applied' = [applied EXCEPT ![r] = {}]
  /\ current' = [current EXCEPT ![r] = NoMigration]
  /\ Goto(r, "down")
  /\ UNCHANGED <<image, executed>>

(* MUTANT: the lifespan swallows the exception and the pod serves. *)
CreateConflicts_Swallowed(r) ==
  /\ \/ stage[r] = "ensure_wait" /\ Journal \in objects
     \/ stage[r] = "apply_wait" /\ current[r] \in objects
  /\ RollBack(r)
  /\ Goto(r, "serving")
  /\ UNCHANGED <<image, applied, current, executed>>

(* The CREATE it waited with fails with a unique violation; the exception  *)
(* leaves migrate and the lifespan, and the pod is started again.          *)
CreateConflicts(r) ==
  /\ \/ stage[r] = "ensure_wait" /\ Journal \in objects
     \/ stage[r] = "apply_wait" /\ current[r] \in objects
  /\ Die(r)

(* A crash, a lost connection, a statement that fails, a new deployment. *)
Crash(r) ==
  /\ stage[r] # "down"
  /\ Die(r)

-----------------------------------------------------------------------------
Progress(r) ==
  \/ Boot(r)
  \/ EnsureJournal(r) \/ EnsureWaits(r) \/ EnsureResumes(r)
  \/ ReadJournal(r) \/ PickNext(r) \/ Serve(r)
  \/ ApplySql(r) \/ ApplyWaits(r) \/ ApplyResumes(r)
  \/ RecordMigration(r) \/ CommitMigration(r) \/ CreateConflicts(r)

Next == \E r \in Replicas : Progress(r) \/ BootWithoutDatabase(r) \/ Crash(r)

Spec == Init /\ [][Next]_vars

(* A pod is restarted until it serves, and Postgres answers. *)
FairSpec == Spec /\ \A r \in Replicas : WF_vars(Progress(r))

-----------------------------------------------------------------------------
(* Properties. *)

(* The tables of Postgres and the locals of migrate stay in their ranges. *)
TypeOK ==
  /\ objects \subseteq Objects
  /\ journal \subseteq Migration
  /\ created \in [Replicas -> SUBSET Objects]
  /\ inserted \in [Replicas -> SUBSET Migration]
  /\ stage \in [Replicas -> Stages]
  /\ image \in [Replicas -> 0 .. LastMigration]
  /\ applied \in [Replicas -> SUBSET Migration]
  /\ current \in [Replicas -> Migration \cup {NoMigration}]
  /\ executed \in [Migration -> SUBSET Replicas]

(* A migration and its journal row are committed together, whichever       *)
(* replica crashes at whichever statement (db.py:65-66).                   *)
JournalMatchesSchema == journal = objects \cap Migration

(* Migrations take effect in sorted order although several replicas, with  *)
(* different images, work through their own lists (db.py:53, 75).          *)
JournalIsPrefix == \A n \in journal : 1 .. n \subseteq journal

(* What a running migrate believes applied really is committed, so the     *)
(* list it returns is true (db.py:62-63).                                  *)
AppliedIsCommitted == \A r \in Replicas : applied[r] \subseteq journal

(* A pod serves requests only once every migration of its image is in      *)
(* place, also the ones another pod applied (main.py:100-119).             *)
ServingIsMigrated ==
  \A r \in Replicas : stage[r] = "serving" => 1 .. image[r] \subseteq journal

(* What the loop of migrate relies on: the migration it is at is the next  *)
(* of its image, and all before it are applied.                            *)
LoopIsOrdered ==
  \A r \in Replicas :
    stage[r] \in {"apply", "apply_wait", "record", "commit"} =>
      /\ current[r] \in 1 .. image[r]
      /\ 1 .. (current[r] - 1) \subseteq applied[r]

(* What an open transaction holds: one migration and its row at most, and  *)
(* nothing at all while the replica waits, picks or serves (db.py:74-85).  *)
TransactionHolds ==
  \A r \in Replicas :
    /\ created[r] \subseteq CASE stage[r] = "read" -> {Journal}
                             [] stage[r] \in {"record", "commit"} -> {current[r]}
                             [] OTHER -> {}
    /\ inserted[r] \subseteq IF stage[r] = "commit" THEN {current[r]} ELSE {}
    /\ stage[r] \in {"record", "commit"} => current[r] \in objects \cup created[r]
    /\ stage[r] = "commit" => current[r] \in journal \cup inserted[r]

(* The creation a waiting CREATE collided with is committed. *)
Conflicting(r) ==
  \/ stage[r] = "ensure_wait" /\ Journal \in objects
  \/ stage[r] = "apply_wait" /\ current[r] \in objects

(* A failed migration is retried on the next call (db.py:65-66): once pods *)
(* stop crashing for other reasons than colliding with each other, all of  *)
(* them come to serve.                                                     *)
AllServe ==
  <>[][\A r \in Replicas :
         stage[r] # "down" /\ stage'[r] = "down" => Conflicting(r)]_vars
     => \A r \in Replicas : <>[](stage[r] = "serving")

-----------------------------------------------------------------------------
(* What the repository says and the code does not do. *)

(* db.py:4: the runner "applies migrations/*.sql exactly once".            *)
ExactlyOnce == \A n \in Migration : Cardinality(executed[n]) <= 1

=============================================================================
