----------------------------- MODULE BondStore ------------------------------
(***************************************************************************)
(* The two Postgres tables of Polish savings bonds, openst.bond_series and *)
(* openst.cpi_12m: the importer jobs that fill them                        *)
(* (src/src/importers/bond_series.py, cpi.py) and the fetcher that reads   *)
(* them to price a bond (plugins/openbb_obligacje, fixedincome_historical  *)
(* and store).  Jobs of all modes run as cron jobs and may overlap.        *)
(*                                                                         *)
(* A key is a bond symbol or the date of an inflation figure.  A value is  *)
(* the edition of the source's page a row was parsed from.  Postgres is    *)
(* external: an insert waits for another transaction that inserted the key *)
(* and is still open; of a cycle of waiting transactions one is aborted.   *)
(***************************************************************************)
EXTENDS Integers, Sequences, FiniteSets

CONSTANTS Jobs,      \* importer pods, each running one importer after another
          Requests,  \* threads pricing a bond
          Symbols,   \* bond emissions
          CpiLinked, \* those with rate_rule "cpi_12m+margin"
          Editions,  \* what a source may say of a key over time
          Absent,    \* no row
          Horizon,   \* last day modelled
          StaleDays, \* _STALE_CPI_DAYS
          Place,     \* where the inflation page has the figure of a day
          MaxPages   \* most pages a bond importer lists

Days == 0 .. Horizon
Keys == Symbols \cup Days
Rows == [key : Keys, val : Editions]

ASSUME BondStoreAssumption ==
  /\ CpiLinked \subseteq Symbols
  /\ Symbols \cap Days = {}
  /\ Absent \notin Editions
  /\ Horizon \in Nat /\ StaleDays \in Nat /\ MaxPages \in Nat

(* No two figures are in one place. *)
ASSUME PlaceAssumption ==
  /\ Place \in [Days -> Nat]
  /\ \A d, e \in Days : Place[d] = Place[e] => d = e

VARIABLES
  table,    \* the committed rows of both tables
  pending,  \* the keys a job's open transaction inserted, with their values
  stage,    \* where a job is: idle, fetching, inserting
  left,     \* pages a bond job has still to fetch
  rows,     \* the emissions or figures a job has parsed, in order
  done,     \* how many of them it has inserted
  today,
  request,  \* where a pricing request is: idle, bond_read, cpi_read
  wanted,   \* the emission it prices
  seen      \* the inflation figures it has read

jobVars == <<pending, stage, left, rows, done>>
requestVars == <<request, wanted, seen>>
vars == <<table, today, jobVars, requestVars>>

NoRows == [k \in Keys |-> Absent]
NoFigures == [d \in Days |-> Absent]

Init ==
  /\ table = NoRows
  /\ pending = [j \in Jobs |-> NoRows]
  /\ stage = [j \in Jobs |-> "idle"]
  /\ left = [j \in Jobs |-> 0]
  /\ rows = [j \in Jobs |-> <<>>]
  /\ done = [j \in Jobs |-> 0]
  /\ today = 0
  /\ request = [r \in Requests |-> "idle"]
  /\ wanted = [r \in Requests |-> Absent]
  /\ seen = [r \in Requests |-> NoFigures]

-----------------------------------------------------------------------------
(* Transactions. *)

(* The job's process ends or its connection is closed: an open transaction *)
(* is rolled back.                                                         *)
Leave(j) ==
  /\ stage' = [stage EXCEPT ![j] = "idle"]
  /\ left' = [left EXCEPT ![j] = 0]
  /\ rows' = [rows EXCEPT ![j] = <<>>]
  /\ done' = [done EXCEPT ![j] = 0]
  /\ pending' = [pending EXCEPT ![j] = NoRows]

Inserting(j) == stage[j] = "inserting" /\ done[j] < Len(rows[j])

NextRow(j) == rows[j][done[j] + 1]

(* j's insert waits until k's transaction ends. *)
WaitsFor(j, k) ==
  /\ Inserting(j) /\ k # j
  /\ pending[k][NextRow(j).key] # Absent

(* The jobs of ring wait for each other in a cycle. *)
Deadlocked(ring) ==
  \A j \in ring : /\ \E k \in ring : WaitsFor(j, k)
                  /\ \E k \in ring : WaitsFor(k, j)

-----------------------------------------------------------------------------
(* The importers. *)

(* main, run: the mode decides which pages are listed; the listing of the  *)
(* incremental and archive modes is itself a page that may fail.           *)
Start(j) ==
  /\ stage[j] = "idle"
  /\ stage' = [stage EXCEPT ![j] = "fetching"]
  /\ \E n \in 0 .. MaxPages : left' = [left EXCEPT ![j] = n]
  /\ UNCHANGED <<table, today, pending, rows, done, requestVars>>

(* A page shows one emission, whichever address it was listed under, or    *)
(* none that can be parsed.                                                *)
FetchPage(j) ==
  /\ stage[j] = "fetching" /\ left[j] > 0
  /\ left' = [left EXCEPT ![j] = @ - 1]
  /\ \/ \E s \in Symbols, v \in Editions :
          rows' = [rows EXCEPT ![j] = Append(@, [key |-> s, val |-> v])]
     \/ UNCHANGED rows
  /\ UNCHANGED <<table, today, pending, stage, done, requestVars>>

(* A page answers something else than 200, or times out: the run is over.  *)
PageFails(j) ==
  /\ stage[j] = "fetching"
  /\ Leave(j)
  /\ UNCHANGED <<table, today, requestVars>>

Connect(j) ==
  /\ stage[j] = "fetching" /\ left[j] = 0
  /\ stage' = [stage EXCEPT ![j] = "inserting"]
  /\ UNCHANGED <<table, today, pending, left, rows, done, requestVars>>

(* The page has its figures in an order of its own, which is not sorted.   *)
(* What is relied on is that it is the same order on every page.           *)
PageDays(first, last) ==
  {days \in [1 .. last - first + 1 -> first .. last] :
     \A i, l \in DOMAIN days : i < l => Place[days[i]] < Place[days[l]]}

(* parse_cpi_rows: the figures of a page, in its order. *)
Figures(days, v) == [i \in DOMAIN days |-> [key |-> days[i], val |-> v]]

(* MUTANT: the window reaches into tomorrow. *)
FetchCpi_Tomorrow(j) ==
  /\ stage[j] = "idle"
  /\ stage' = [stage EXCEPT ![j] = "inserting"]
  /\ \E last \in 0 .. today + 1, v \in Editions : \E first \in 0 .. last :
       rows' = [rows EXCEPT ![j] =
                  Figures([i \in 1 .. last - first + 1 |-> first + i - 1], v)]
  /\ UNCHANGED <<table, today, pending, left, done, requestVars>>

(* MUTANT: the pages of the two modes have their figures in opposite order. *)
FetchCpi_PageOrder(j) ==
  /\ stage[j] = "idle"
  /\ stage' = [stage EXCEPT ![j] = "inserting"]
  /\ \E last \in 0 .. today, v \in Editions : \E first \in 0 .. last :
       \E days \in PageDays(first, last) :
         \/ rows' = [rows EXCEPT ![j] = Figures(days, v)]
         \/ rows' = [rows EXCEPT ![j] =
                       Figures([i \in DOMAIN days |-> days[Len(days) + 1 - i]], v)]
  /\ UNCHANGED <<table, today, pending, left, done, requestVars>>

(* run of cpi.py: one page with the figures from first (the beginning, or  *)
(* 60 days ago) to the last one published.  A run that finds none ends     *)
(* before it reaches the database.                                         *)
FetchCpi(j) ==
  /\ stage[j] = "idle"
  /\ stage' = [stage EXCEPT ![j] = "inserting"]
  /\ \E last \in 0 .. today, v \in Editions : \E first \in 0 .. last :
       \E days \in PageDays(first, last) :
         rows' = [rows EXCEPT ![j] = Figures(days, v)]
  /\ UNCHANGED <<table, today, pending, left, done, requestVars>>

(* MUTANT: ON CONFLICT DO UPDATE. *)
Kept_Updated(j, row) == pending' = [pending EXCEPT ![j][row.key] = row.val]

(* ON CONFLICT DO NOTHING. *)
Kept(j, row) ==
  pending' = [pending EXCEPT ![j][row.key] =
                IF @ = Absent /\ table[row.key] = Absent THEN row.val ELSE @]

(* MUTANT: a key another job is inserting is passed over. *)
Insert_SkipsLocked(j) ==
  /\ Inserting(j)
  /\ IF \E k \in Jobs : WaitsFor(j, k) THEN UNCHANGED pending
                                      ELSE Kept(j, NextRow(j))
  /\ done' = [done EXCEPT ![j] = @ + 1]
  /\ UNCHANGED <<table, today, stage, left, rows, requestVars>>

(* One INSERT of upsert_bonds or upsert_cpi. *)
Insert(j) ==
  /\ Inserting(j)
  /\ \A k \in Jobs : ~WaitsFor(j, k)
  /\ Kept(j, NextRow(j))
  /\ done' = [done EXCEPT ![j] = @ + 1]
  /\ UNCHANGED <<table, today, stage, left, rows, requestVars>>

Commit(j) ==
  /\ stage[j] = "inserting" /\ done[j] = Len(rows[j])
  /\ table' = [k \in Keys |-> IF pending[j][k] = Absent THEN table[k]
                              ELSE pending[j][k]]
  /\ Leave(j)
  /\ UNCHANGED <<today, requestVars>>

(* Postgres aborts one transaction of a deadlock, whose job then fails.    *)
Victim(j) ==
  /\ \E ring \in SUBSET Jobs : j \in ring /\ Deadlocked(ring)
  /\ Leave(j)
  /\ UNCHANGED <<table, today, requestVars>>

(* The database refuses a statement, or the pod is killed. *)
Crash(j) ==
  /\ stage[j] = "inserting"
  /\ Leave(j)
  /\ UNCHANGED <<table, today, requestVars>>

-----------------------------------------------------------------------------
(* FixedIncomeHistoricalFetcher.extract_data.  Its connection is in READ   *)
(* COMMITTED mode: every SELECT sees what is committed when it runs.       *)

Answer(r) ==
  /\ request' = [request EXCEPT ![r] = "idle"]
  /\ wanted' = [wanted EXCEPT ![r] = Absent]
  /\ seen' = [seen EXCEPT ![r] = NoFigures]

(* fetch_bond_series; an unknown symbol has no prices. *)
ReadBond(r, s) ==
  /\ request[r] = "idle" /\ table[s] # Absent
  /\ request' = [request EXCEPT ![r] = "bond_read"]
  /\ wanted' = [wanted EXCEPT ![r] = s]
  /\ UNCHANGED <<table, today, jobVars, seen>>

(* fetch_cpi_rows *)
ReadCpi(r) ==
  /\ request[r] = "bond_read"
  /\ request' = [request EXCEPT ![r] = "cpi_read"]
  /\ seen' = [seen EXCEPT ![r] = [d \in Days |-> table[d]]]
  /\ UNCHANGED <<table, today, jobVars, wanted>>

(* MUTANT: a figure that just reached its age limit is stale. *)
Fresh_OffByOne(figures) ==
  \E d \in Days : figures[d] # Absent /\ today - d < StaleDays

(* latest_cpi_date is at most StaleDays old. *)
Fresh(figures) == \E d \in Days : figures[d] # Absent /\ today - d <= StaleDays

(* CpiStaleError, on what is committed by now and not on what was read. *)
Stale(r) ==
  /\ request[r] = "cpi_read" /\ wanted[r] \in CpiLinked /\ ~Fresh(table)
  /\ Answer(r)
  /\ UNCHANGED <<table, today, jobVars>>

(* price_series, over the figures that were read. *)
Price(r) ==
  /\ request[r] = "cpi_read"
  /\ wanted[r] \in CpiLinked => Fresh(table)
  /\ Answer(r)
  /\ UNCHANGED <<table, today, jobVars>>

-----------------------------------------------------------------------------
(* Bounded by Horizon. *)
NextDay ==
  /\ today < Horizon
  /\ today' = today + 1
  /\ UNCHANGED <<table, jobVars, requestVars>>

Progress(j) ==
  FetchPage(j) \/ PageFails(j) \/ Connect(j) \/ Insert(j) \/ Commit(j) \/ Victim(j)

Next ==
  \/ \E j \in Jobs : Start(j) \/ FetchCpi(j) \/ Progress(j) \/ Crash(j)
  \/ \E r \in Requests :
       \/ \E s \in Symbols : ReadBond(r, s)
       \/ ReadCpi(r) \/ Stale(r) \/ Price(r)
  \/ NextDay

Spec == Init /\ [][Next]_vars

-----------------------------------------------------------------------------
(* Properties. *)

(* The tables, the open transactions and the locals stay in their ranges.  *)
TypeOK ==
  /\ table \in [Keys -> Editions \cup {Absent}]
  /\ pending \in [Jobs -> [Keys -> Editions \cup {Absent}]]
  /\ stage \in [Jobs -> {"idle", "fetching", "inserting"}]
  /\ left \in [Jobs -> 0 .. MaxPages]
  /\ rows \in [Jobs -> Seq(Rows)]
  /\ done \in [Jobs -> Nat]
  /\ today \in Days
  /\ request \in [Requests -> {"idle", "bond_read", "cpi_read"}]
  /\ wanted \in [Requests -> Symbols \cup {Absent}]
  /\ seen \in [Requests -> [Days -> Editions \cup {Absent}]]

(* Whatever a job has passed in its list is in the table or will be with   *)
(* its commit, also when another job was inserting it and then failed      *)
(* (bond_series.py:452-506).                                               *)
NothingSkipped ==
  \A j \in Jobs : \A i \in 1 .. done[j] :
    \/ table[rows[j][i].key] # Absent
    \/ pending[j][rows[j][i].key] # Absent

(* A run takes effect at its commit, all of it and as if it were the only  *)
(* one, whatever others insert, roll back and commit while it is under way *)
(* (upsert_bonds, upsert_cpi: ON CONFLICT DO NOTHING, one commit).         *)
Serial == INSTANCE BondTable

RunsAreSerial == Serial!Spec

(* Two importers never hold a row of the same key, so the first to commit  *)
(* wins and no commit overwrites another (ON CONFLICT DO NOTHING).         *)
WriteOnce == [][\A k \in Keys : table[k] # Absent => table'[k] = table[k]]_vars

(* Any number of inflation jobs run at once without a deadlock, because    *)
(* each inserts its figures in the order of the page, which is the same    *)
(* for all of them (cpi.py:66-72, 98-103).                                   *)
CpiJobsNeverDeadlock ==
  \A ring \in SUBSET {j \in Jobs : Inserting(j) /\ NextRow(j).key \in Days} :
    ring # {} => ~Deadlocked(ring)

(* A request is refused only if every figure it has read is too old: what  *)
(* importers commit between its two SELECTs never makes it fail            *)
(* (fixedincome_historical.py:79-93).                                      *)
NoFalseAlarm ==
  [][\A r \in Requests :
       Stale(r) => \A d \in Days : seen[r][d] # Absent => today - d > StaleDays]_vars

=============================================================================
