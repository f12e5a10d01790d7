-------------------------- MODULE BondStore_proofs --------------------------
(***************************************************************************)
(* For any number of pods, emissions, days and pages: no commit changes or *)
(* loses a row another importer committed, nothing a job passed is         *)
(* missing, a pricing request is refused only if what it read is too old,  *)
(* and inflation jobs never deadlock.  What makes this inductive is that a *)
(* key which an open transaction inserted belongs to that transaction      *)
(* alone (OneOwner), and that a job holds only keys it has passed.         *)
(***************************************************************************)
EXTENDS BondStore, SequenceTheorems, WellFoundedInduction, TLAPS

(* A key in an open transaction is in no other one and not in the table.   *)
OneOwner ==
  \A j \in Jobs, x \in Keys :
    pending[j][x] # Absent =>
      /\ table[x] = Absent
      /\ \A k \in Jobs \ {j} : pending[k][x] = Absent

(* A job inserts only once it has fetched all. *)
InsertsLast ==
  \A j \in Jobs : /\ stage[j] # "inserting" => done[j] = 0
                  /\ done[j] <= Len(rows[j])

(* What a request has read is in the table. *)
SeenIsCommitted ==
  \A r \in Requests, d \in Days : seen[r][d] # Absent => table[d] = seen[r][d]

IInv ==
  /\ TypeOK
  /\ OneOwner
  /\ InsertsLast
  /\ NothingSkipped
  /\ SeenIsCommitted

(* Empty tables and idle pods satisfy every part of the invariant.         *)
LEMMA InitIInv == Init => IInv
<1> SUFFICES ASSUME Init PROVE IInv
  OBVIOUS
<1> USE BondStoreAssumption DEF Init, NoRows, NoFigures, Keys, Days
<1>1. TypeOK
  BY DEF TypeOK
<1>2. OneOwner /\ InsertsLast /\ NothingSkipped /\ SeenIsCommitted
  BY DEF OneOwner, InsertsLast, NothingSkipped, SeenIsCommitted
<1> QED BY <1>1, <1>2 DEF IInv

(* The rows of a job have a length, and each is a row.                     *)
LEMMA JobRows ==
  ASSUME TypeOK, NEW j \in Jobs
  PROVE  /\ Len(rows[j]) \in Nat
         /\ \A i \in 1 .. Len(rows[j]) : rows[j][i] \in Rows
<1>1. rows[j] \in Seq(Rows)
  BY DEF TypeOK
<1> QED BY <1>1, LenProperties, ElementOfSeq

(* The row a job inserts next is one of its rows.                          *)
LEMMA NextRowIsRow ==
  ASSUME TypeOK, NEW j \in Jobs, Inserting(j)
  PROVE  /\ NextRow(j) \in Rows
         /\ NextRow(j).key \in Keys
         /\ NextRow(j).val \in Editions
<1>1. done[j] + 1 \in 1 .. Len(rows[j])
  BY JobRows DEF TypeOK, Inserting
<1>2. NextRow(j) \in Rows
  BY <1>1, JobRows DEF NextRow
<1> QED BY <1>2 DEF Rows

(* A job that ends, however it does, gives its keys back and keeps no rows. *)
LEMMA LeaveStep ==
  ASSUME IInv, NEW j \in Jobs, Leave(j), UNCHANGED <<table, today, requestVars>>
  PROVE  IInv'
<1> USE BondStoreAssumption DEF IInv, TypeOK, Leave, requestVars, NoRows
<1>1. TypeOK'
  <2>1. NoRows \in [Keys -> Editions \cup {Absent}]
    OBVIOUS
  <2>2. <<>> \in Seq(Rows)
    OBVIOUS
  <2>3. rows' \in [Jobs -> Seq(Rows)] /\ pending' \in [Jobs -> [Keys -> Editions \cup {Absent}]]
    BY <2>1, <2>2
  <2> QED BY <2>3
<1>2. OneOwner'
  BY DEF OneOwner
<1>3. InsertsLast'
  BY DEF InsertsLast
<1>4. NothingSkipped'
  BY DEF NothingSkipped
<1>5. SeenIsCommitted'
  BY DEF SeenIsCommitted
<1> QED BY <1>1, <1>2, <1>3, <1>4, <1>5

(* A run that starts has inserted nothing.                                 *)
LEMMA StartStep ==
  ASSUME IInv, NEW j \in Jobs, Start(j)
  PROVE  IInv'
<1> USE BondStoreAssumption DEF IInv, TypeOK, Start, requestVars, Keys, Days
<1>1. TypeOK'
  OBVIOUS
<1>2. OneOwner' /\ SeenIsCommitted'
  BY DEF OneOwner, SeenIsCommitted
<1>3. InsertsLast' /\ NothingSkipped'
  BY DEF InsertsLast, NothingSkipped
<1> QED BY <1>1, <1>2, <1>3

(* A page adds at most a row, before any is inserted.                      *)
LEMMA FetchPageStep ==
  ASSUME IInv, NEW j \in Jobs, FetchPage(j)
  PROVE  IInv'
<1> USE BondStoreAssumption DEF IInv, TypeOK, FetchPage, requestVars
<1>1. done[j] = 0
  BY DEF InsertsLast
<1>2. \/ rows' = rows
      \/ \E row \in Rows : rows' = [rows EXCEPT ![j] = Append(@, row)]
  BY DEF Rows, Keys
<1>3. rows' \in [Jobs -> Seq(Rows)]
  <2>1. ASSUME NEW row \in Rows, rows' = [rows EXCEPT ![j] = Append(@, row)]
        PROVE  rows' \in [Jobs -> Seq(Rows)]
    <3>1. rows[j] \in Seq(Rows)
      OBVIOUS
    <3>2. Append(rows[j], row) \in Seq(Rows)
      BY <3>1, AppendProperties
    <3> QED BY <2>1, <3>2
  <2> QED BY <1>2, <2>1
<1>4. \A k \in Jobs \ {j} : rows'[k] = rows[k]
  BY <1>2
<1>5. TypeOK'
  <2>1. left' \in [Jobs -> 0 .. MaxPages]
    <3>1. left[j] \in 0 .. MaxPages
      OBVIOUS
    <3>2. left[j] - 1 \in 0 .. MaxPages
      BY <3>1
    <3> QED BY <3>2
  <2> QED BY <1>3, <2>1
<1>6. OneOwner' /\ SeenIsCommitted'
  BY DEF OneOwner, SeenIsCommitted
<1>7. Len(rows'[j]) \in Nat
  BY <1>3
<1>8. InsertsLast'
  BY <1>1, <1>4, <1>7 DEF InsertsLast
<1>9. NothingSkipped'
  BY <1>1, <1>4 DEF NothingSkipped
<1> QED BY <1>5, <1>6, <1>8, <1>9

(* Connecting moves a job to its inserts.                                  *)
LEMMA ConnectStep ==
  ASSUME IInv, NEW j \in Jobs, Connect(j)
  PROVE  IInv'
<1> USE BondStoreAssumption DEF IInv, TypeOK, Connect, requestVars
<1>1. TypeOK'
  OBVIOUS
<1>2. OneOwner' /\ SeenIsCommitted'
  BY DEF OneOwner, SeenIsCommitted
<1>3. InsertsLast' /\ NothingSkipped'
  BY DEF InsertsLast, NothingSkipped
<1> QED BY <1>1, <1>2, <1>3

(* The figures of a page are rows.                                         *)
LEMMA FiguresAreRows ==
  ASSUME NEW last \in Days, NEW first \in 0 .. last, NEW v \in Editions,
         NEW days \in PageDays(first, last)
  PROVE  Figures(days, v) \in Seq(Rows)
<1> USE BondStoreAssumption DEF Days
<1>1. last - first + 1 \in Nat
  OBVIOUS
<1>2. days \in [1 .. last - first + 1 -> first .. last]
  BY DEF PageDays
<1>3. \A i \in 1 .. last - first + 1 : [key |-> days[i], val |-> v] \in Rows
  BY <1>2 DEF Rows, Keys
<1>4. Figures(days, v) \in [1 .. last - first + 1 -> Rows]
  BY <1>2, <1>3 DEF Figures
<1> QED BY <1>1, <1>4, SeqDef

(* The figures of a page are parsed before any is inserted.                *)
LEMMA FetchCpiStep ==
  ASSUME IInv, NEW j \in Jobs, FetchCpi(j)
  PROVE  IInv'
<1> USE BondStoreAssumption DEF IInv, TypeOK, FetchCpi, requestVars
<1>1. PICK last \in 0 .. today, v \in Editions :
        \E first \in 0 .. last : \E days \in PageDays(first, last) :
          rows' = [rows EXCEPT ![j] = Figures(days, v)]
  OBVIOUS
<1>2. PICK first \in 0 .. last : \E days \in PageDays(first, last) :
        rows' = [rows EXCEPT ![j] = Figures(days, v)]
  BY <1>1
<1>3. PICK days \in PageDays(first, last) : rows' = [rows EXCEPT ![j] = Figures(days, v)]
  BY <1>2
<1>4. last \in Days
  BY DEF Days
<1>5. Figures(days, v) \in Seq(Rows)
  BY <1>4, FiguresAreRows
<1>6. rows' \in [Jobs -> Seq(Rows)] /\ \A k \in Jobs \ {j} : rows'[k] = rows[k]
  BY <1>3, <1>5
<1>7. done[j] = 0
  BY DEF InsertsLast
<1>8. TypeOK'
  BY <1>6
<1>9. OneOwner' /\ SeenIsCommitted'
  BY DEF OneOwner, SeenIsCommitted
<1>10. Len(rows'[j]) \in Nat
  BY <1>6
<1>11. InsertsLast'
  BY <1>6, <1>7, <1>10 DEF InsertsLast
<1>12. NothingSkipped'
  BY <1>6, <1>7 DEF NothingSkipped
<1> QED BY <1>8, <1>9, <1>11, <1>12

(* An insert takes a key nobody holds, or leaves it to whoever has it.     *)
LEMMA InsertStep ==
  ASSUME IInv, NEW j \in Jobs, Insert(j)
  PROVE  IInv'
<1> USE BondStoreAssumption DEF IInv, Insert, requestVars
<1> DEFINE x == NextRow(j).key
           w == NextRow(j).val
<1>1. x \in Keys /\ w \in Editions /\ w # Absent
  BY NextRowIsRow
<1>2. pending' = [pending EXCEPT ![j][x] =
                    IF @ = Absent /\ table[x] = Absent THEN w ELSE @]
  BY DEF Kept
<1>3. \A k \in Jobs \ {j} : pending[k][x] = Absent
  BY DEF WaitsFor
<1>4. /\ done' = [done EXCEPT ![j] = @ + 1]
      /\ stage[j] = "inserting" /\ done[j] < Len(rows[j])
      /\ x = rows[j][done[j] + 1].key
  BY DEF Inserting, NextRow
<1> HIDE DEF x, w
<1>5. TypeOK'
  BY <1>1, <1>2, <1>4 DEF TypeOK
<1>6. \A k \in Jobs, y \in Keys :
        pending'[k][y] = IF k = j /\ y = x /\ pending[j][x] = Absent /\ table[x] = Absent
                           THEN w ELSE pending[k][y]
  BY <1>1, <1>2 DEF TypeOK
<1>7. OneOwner'
  BY <1>1, <1>3, <1>6 DEF OneOwner
<1>8. InsertsLast'
  BY <1>4 DEF TypeOK, InsertsLast
<1>9. NothingSkipped'
  <2> SUFFICES ASSUME NEW k \in Jobs, NEW i \in 1 .. done'[k]
               PROVE  \/ table[rows[k][i].key] # Absent
                      \/ pending'[k][rows[k][i].key] # Absent
    BY DEF NothingSkipped
  <2>1. rows[k][i].key \in Keys
    <3>1. i \in 1 .. Len(rows[k])
      BY <1>4, <1>5, <1>8, JobRows DEF TypeOK, InsertsLast
    <3> QED BY <3>1, JobRows DEF Rows
  <2>2. CASE i \in 1 .. done[k]
    BY <1>1, <1>6, <2>1, <2>2 DEF NothingSkipped
  <2>3. CASE k = j /\ i = done[j] + 1
    BY <1>1, <1>4, <1>6, <2>3
  <2> QED BY <1>4, <2>2, <2>3 DEF TypeOK
<1>10. SeenIsCommitted'
  BY DEF SeenIsCommitted
<1> QED BY <1>5, <1>7, <1>8, <1>9, <1>10

(* A commit adds rows where there were none: those the transaction owned.  *)
LEMMA CommitGrows ==
  ASSUME IInv, NEW j \in Jobs, Commit(j)
  PROVE  /\ table' \in [Keys -> Editions \cup {Absent}]
         /\ \A x \in Keys : table[x] # Absent => table'[x] = table[x]
         /\ \A x \in Keys : pending[j][x] # Absent => table'[x] # Absent
         /\ \A x \in Keys : table'[x] # table[x] => pending[j][x] # Absent
BY DEF Commit, IInv, TypeOK, OneOwner

(* A commit hands the owned keys over to the table.                        *)
LEMMA CommitStep ==
  ASSUME IInv, NEW j \in Jobs, Commit(j)
  PROVE  IInv'
<1> USE BondStoreAssumption DEF IInv, Leave, requestVars, NoRows
<1>1. /\ pending' = [pending EXCEPT ![j] = NoRows]
      /\ done' = [done EXCEPT ![j] = 0]
      /\ rows' = [rows EXCEPT ![j] = <<>>]
      /\ stage' = [stage EXCEPT ![j] = "idle"]
      /\ left' = [left EXCEPT ![j] = 0]
      /\ UNCHANGED <<today, request, wanted, seen>>
  BY DEF Commit
<1>2. TypeOK'
  BY <1>1, CommitGrows DEF TypeOK
<1>3. OneOwner'
  BY <1>1, CommitGrows DEF OneOwner, TypeOK
<1>4. InsertsLast'
  BY <1>1 DEF InsertsLast, TypeOK
<1>5. NothingSkipped'
  <2> SUFFICES ASSUME NEW k \in Jobs, NEW i \in 1 .. done'[k]
               PROVE  \/ table'[rows'[k][i].key] # Absent
                      \/ pending'[k][rows'[k][i].key] # Absent
    BY DEF NothingSkipped
  <2>1. k # j /\ i \in 1 .. done[k] /\ rows'[k] = rows[k] /\ pending'[k] = pending[k]
    BY <1>1 DEF TypeOK
  <2>2. rows[k][i].key \in Keys
    <3>1. i \in 1 .. Len(rows[k])
      BY <2>1, JobRows DEF TypeOK, InsertsLast
    <3> QED BY <3>1, JobRows DEF Rows
  <2>3. \/ table[rows[k][i].key] # Absent
        \/ pending[k][rows[k][i].key] # Absent
    BY <2>1 DEF NothingSkipped
  <2>4. table[rows[k][i].key] # Absent => table'[rows[k][i].key] # Absent
    BY <2>2, CommitGrows
  <2> QED BY <2>1, <2>3, <2>4
<1>6. SeenIsCommitted'
  BY <1>1, CommitGrows DEF SeenIsCommitted, TypeOK, Keys
<1> QED BY <1>2, <1>3, <1>4, <1>5, <1>6

(* The table after a step has every row it had before.                     *)
LEMMA TableGrows ==
  ASSUME IInv, [Next]_vars
  PROVE  \A x \in Keys : table[x] # Absent => table'[x] = table[x]
<1>1. ASSUME NEW j \in Jobs, Commit(j)
      PROVE  \A x \in Keys : table[x] # Absent => table'[x] = table[x]
  BY <1>1, CommitGrows
<1> QED
  BY <1>1 DEF Next, Progress, vars, Start, FetchCpi, FetchPage, PageFails, Connect,
              Insert, Victim, Crash, ReadBond, ReadCpi, Stale, Price, NextDay

(* A request changes its own locals; what it reads is committed.           *)
LEMMA RequestStep ==
  ASSUME IInv, NEW r \in Requests,
         \/ \E s \in Symbols : ReadBond(r, s)
         \/ ReadCpi(r) \/ Stale(r) \/ Price(r)
  PROVE  IInv'
<1> USE BondStoreAssumption
    DEF IInv, jobVars, ReadBond, ReadCpi, Stale, Price, Answer, NoFigures
<1>1. TypeOK'
  <2> USE DEF TypeOK
  <2>1. NoFigures \in [Days -> Editions \cup {Absent}]
    OBVIOUS
  <2>2. CASE Stale(r) \/ Price(r)
    BY <2>1, <2>2
  <2>3. CASE \E s \in Symbols : ReadBond(r, s)
    BY <2>3
  <2>4. CASE ReadCpi(r)
    <3>1. [d \in Days |-> table[d]] \in [Days -> Editions \cup {Absent}]
      BY DEF Keys
    <3> QED BY <2>4, <3>1
  <2> QED BY <2>2, <2>3, <2>4
<1>2. OneOwner' /\ InsertsLast' /\ NothingSkipped'
  BY DEF OneOwner, InsertsLast, NothingSkipped
<1>3. SeenIsCommitted'
  BY DEF SeenIsCommitted, TypeOK
<1> QED BY <1>1, <1>2, <1>3

(* The passing of a day touches neither tables nor transactions.           *)
LEMMA NextDayStep ==
  ASSUME IInv, NextDay
  PROVE  IInv'
BY BondStoreAssumption
   DEF IInv, NextDay, jobVars, requestVars, TypeOK, Days, OneOwner, InsertsLast,
       NothingSkipped, SeenIsCommitted

(* Every step of the pods and of the requests preserves the invariant.     *)
LEMMA NextIInv == IInv /\ [Next]_vars => IInv'
<1> SUFFICES ASSUME IInv, [Next]_vars PROVE IInv'
  OBVIOUS
<1>1. ASSUME NEW j \in Jobs, PageFails(j) \/ Victim(j) \/ Crash(j) PROVE IInv'
  BY <1>1, LeaveStep DEF PageFails, Victim, Crash
<1>2. ASSUME NEW j \in Jobs, Progress(j) PROVE IInv'
  BY <1>1, <1>2, FetchPageStep, ConnectStep, InsertStep, CommitStep DEF Progress
<1>3. CASE UNCHANGED vars
  BY <1>3 DEF vars, jobVars, requestVars, IInv, TypeOK, OneOwner, InsertsLast,
              NothingSkipped, SeenIsCommitted
<1> QED
  BY <1>1, <1>2, <1>3, StartStep, FetchCpiStep, RequestStep, NextDayStep DEF Next

(* The invariant holds in every reachable state.                           *)
THEOREM Invariance == Spec => []IInv
BY InitIInv, NextIInv, PTL DEF Spec

(* Tables, open transactions and locals stay in their ranges.              *)
THEOREM TypeCorrect == Spec => []TypeOK
<1>1. IInv => TypeOK
  BY DEF IInv
<1> QED BY <1>1, Invariance, PTL

(* No job reports as handled a row that its commit leaves out, also when   *)
(* another job was inserting the same row and failed.                      *)
THEOREM NothingIsSkipped == Spec => []NothingSkipped
<1>1. IInv => NothingSkipped
  BY DEF IInv
<1> QED BY <1>1, Invariance, PTL

(* Of importers that race for a key the first to commit wins, and its row  *)
(* is never changed or lost.                                               *)
THEOREM RowsAreWrittenOnce == Spec => WriteOnce
<1>1. IInv /\ [Next]_vars => [\A k \in Keys : table[k] # Absent => table'[k] = table[k]]_vars
  BY TableGrows
<1> QED BY <1>1, Invariance, PTL DEF Spec, WriteOnce

(* A request that read a figure recent enough is not refused, whatever is  *)
(* committed between its two SELECTs.                                      *)
THEOREM RefusalsAreTrue == Spec => NoFalseAlarm
<1>1. ASSUME IInv, NEW r \in Requests, Stale(r)
      PROVE  \A d \in Days : seen[r][d] # Absent => today - d > StaleDays
  <2>1. today \in Int /\ Days \subseteq Int
    BY <1>1, BondStoreAssumption DEF IInv, TypeOK, Days
  <2>2. \A d \in Days : table[d] # Absent => ~(today - d <= StaleDays)
    BY <1>1 DEF Stale, Fresh
  <2>3. \A d \in Days : seen[r][d] # Absent => table[d] # Absent
    BY <1>1 DEF IInv, SeenIsCommitted
  <2> QED BY <2>1, <2>2, <2>3, BondStoreAssumption
<1>2. IInv /\ [Next]_vars =>
        [\A r \in Requests :
           Stale(r) => \A d \in Days : seen[r][d] # Absent => today - d > StaleDays]_vars
  BY <1>1
<1> QED BY <1>2, Invariance, PTL DEF Spec, NoFalseAlarm

-----------------------------------------------------------------------------
(* Inflation jobs never wait in a circle: each holds keys it has passed,   *)
(* and its figures are in the one order of the page, so whoever waits for  *)
(* a job has its next key before that of the job.                          *)

(* The rows of an inflation job. *)
PageOrdered(list) ==
  /\ \A i \in 1 .. Len(list) : list[i].key \in Days
  /\ \A i, l \in 1 .. Len(list) : i < l => Place[list[i].key] < Place[list[l].key]

EmissionsOnly(list) == \A i \in 1 .. Len(list) : list[i].key \in Symbols

PageOrder ==
  \A j \in Jobs : /\ PageOrdered(rows[j]) \/ EmissionsOnly(rows[j])
                  /\ stage[j] # "inserting" => EmissionsOnly(rows[j])

HeldArePassed ==
  \A j \in Jobs, x \in Keys :
    pending[j][x] # Absent => \E i \in 1 .. done[j] : rows[j][i].key = x

OrderInv == IInv /\ PageOrder /\ HeldArePassed

(* The figures of a page are in its order.                                 *)
LEMMA FiguresAreOrdered ==
  ASSUME NEW last \in Days, NEW first \in 0 .. last, NEW v \in Editions,
         NEW days \in PageDays(first, last)
  PROVE  PageOrdered(Figures(days, v))
<1> USE BondStoreAssumption DEF Days
<1> DEFINE f == Figures(days, v)
           n == last - first + 1
<1>1. n \in Nat
  OBVIOUS
<1>2. /\ days \in [1 .. n -> first .. last]
      /\ \A i, l \in 1 .. n : i < l => Place[days[i]] < Place[days[l]]
  BY DEF PageDays
<1>3. f = [i \in 1 .. n |-> [key |-> days[i], val |-> v]]
  BY <1>2 DEF Figures
<1>4. f \in Seq(Rows)
  BY FiguresAreRows
<1>5. Len(f) \in Nat /\ DOMAIN f = 1 .. Len(f) /\ DOMAIN f = 1 .. n
  BY <1>3, <1>4, LenProperties
<1>6. Len(f) = n
  BY <1>1, <1>5
<1>7. \A i \in 1 .. n : f[i].key = days[i] /\ days[i] \in Days
  BY <1>2, <1>3
<1> HIDE DEF f, n
<1> QED BY <1>2, <1>6, <1>7 DEF PageOrdered, f

(* Idle pods hold nothing.                                                 *)
LEMMA InitOrderInv == Init => OrderInv
<1> SUFFICES ASSUME Init PROVE OrderInv
  OBVIOUS
<1>1. PageOrder /\ HeldArePassed
  BY DEF Init, PageOrder, HeldArePassed, EmissionsOnly, NoRows
<1> QED BY <1>1, InitIInv DEF OrderInv

(* A job that ends holds nothing and has no rows.                          *)
LEMMA LeaveOrder ==
  ASSUME OrderInv, NEW j \in Jobs, Leave(j)
  PROVE  PageOrder' /\ HeldArePassed'
<1>1. PageOrder'
  BY DEF OrderInv, IInv, TypeOK, Leave, PageOrder, EmissionsOnly
<1>2. HeldArePassed'
  BY DEF OrderInv, IInv, TypeOK, Leave, HeldArePassed, NoRows
<1> QED BY <1>1, <1>2

(* A job that has inserted nothing holds nothing.                          *)
LEMMA NothingHeld ==
  ASSUME OrderInv, NEW j \in Jobs, stage[j] # "inserting"
  PROVE  done[j] = 0 /\ \A x \in Keys : pending[j][x] = Absent
BY DEF OrderInv, IInv, InsertsLast, HeldArePassed

(* Nor is it concerned by what rows it has.                                *)
LEMMA NewRowsHoldNothing ==
  ASSUME OrderInv, NEW j \in Jobs, stage[j] # "inserting",
         \A k \in Jobs \ {j} : rows'[k] = rows[k], UNCHANGED <<pending, done>>
  PROVE  HeldArePassed'
<1> SUFFICES ASSUME NEW k \in Jobs, NEW x \in Keys, pending[k][x] # Absent
             PROVE  \E i \in 1 .. done[k] : rows'[k][i].key = x
  BY DEF HeldArePassed
<1>1. k # j
  BY NothingHeld
<1>2. \E i \in 1 .. done[k] : rows[k][i].key = x
  BY DEF OrderInv, HeldArePassed
<1> QED BY <1>1, <1>2

(* A page adds an emission to emissions.                                   *)
LEMMA FetchPageOrder ==
  ASSUME OrderInv, NEW j \in Jobs, FetchPage(j)
  PROVE  PageOrder' /\ HeldArePassed'
<1> USE DEF OrderInv, IInv, TypeOK
<1>1. stage[j] # "inserting" /\ EmissionsOnly(rows[j]) /\ rows[j] \in Seq(Rows)
  BY DEF FetchPage, PageOrder
<1>2. \A k \in Jobs \ {j} : rows'[k] = rows[k]
  BY DEF FetchPage
<1>3. UNCHANGED <<pending, stage, done>>
  BY DEF FetchPage
<1>4. EmissionsOnly(rows'[j])
  <2>1. CASE rows' = rows
    BY <1>1, <2>1
  <2>2. ASSUME NEW s \in Symbols, NEW v \in Editions,
               rows' = [rows EXCEPT ![j] = Append(@, [key |-> s, val |-> v])]
        PROVE  EmissionsOnly(rows'[j])
    <3> DEFINE row == [key |-> s, val |-> v]
    <3>1. rows'[j] = Append(rows[j], row)
      BY <2>2
    <3>2. row.key \in Symbols
      OBVIOUS
    <3> HIDE DEF row
    <3>3. row \in Rows
      BY DEF row, Rows, Keys
    <3>4. /\ Len(Append(rows[j], row)) = Len(rows[j]) + 1
          /\ Append(rows[j], row)[Len(rows[j]) + 1] = row
          /\ \A i \in 1 .. Len(rows[j]) : Append(rows[j], row)[i] = rows[j][i]
          /\ Len(rows[j]) \in Nat
      BY <1>1, <3>3, AppendProperties, LenProperties
    <3> QED BY <1>1, <3>1, <3>2, <3>4 DEF EmissionsOnly
  <2> QED BY <2>1, <2>2 DEF FetchPage
<1>5. PageOrder'
  BY <1>2, <1>3, <1>4 DEF PageOrder
<1>6. HeldArePassed'
  BY <1>1, <1>2, <1>3, NewRowsHoldNothing
<1> QED BY <1>5, <1>6

(* Figures replace no rows.                                                *)
LEMMA FetchCpiOrder ==
  ASSUME OrderInv, NEW j \in Jobs, FetchCpi(j)
  PROVE  PageOrder' /\ HeldArePassed'
<1> USE BondStoreAssumption DEF OrderInv, IInv, TypeOK
<1>1. PICK last \in 0 .. today, v \in Editions :
        \E first \in 0 .. last : \E days \in PageDays(first, last) :
          rows' = [rows EXCEPT ![j] = Figures(days, v)]
  BY DEF FetchCpi
<1>2. PICK first \in 0 .. last : \E days \in PageDays(first, last) :
        rows' = [rows EXCEPT ![j] = Figures(days, v)]
  BY <1>1
<1>3. PICK days \in PageDays(first, last) : rows' = [rows EXCEPT ![j] = Figures(days, v)]
  BY <1>2
<1>4. last \in Days
  BY DEF Days
<1>5. PageOrdered(rows'[j]) /\ \A k \in Jobs \ {j} : rows'[k] = rows[k]
  BY <1>3, <1>4, FiguresAreOrdered
<1>6. /\ stage[j] # "inserting" /\ stage' = [stage EXCEPT ![j] = "inserting"]
      /\ UNCHANGED <<pending, done>>
  BY DEF FetchCpi
<1>7. PageOrder'
  BY <1>5, <1>6 DEF PageOrder
<1>8. HeldArePassed'
  BY <1>5, <1>6, NewRowsHoldNothing
<1> QED BY <1>7, <1>8

(* An insert holds the row it passes.                                      *)
LEMMA InsertOrder ==
  ASSUME OrderInv, NEW j \in Jobs, Insert(j)
  PROVE  PageOrder' /\ HeldArePassed'
<1> USE DEF OrderInv, IInv
<1>1. UNCHANGED <<stage, rows>> /\ done' = [done EXCEPT ![j] = @ + 1]
  BY DEF Insert
<1>2. PageOrder'
  BY <1>1 DEF PageOrder
<1>3. \A k \in Jobs, x \in Keys :
        pending'[k][x] # Absent =>
          pending[k][x] # Absent \/ (k = j /\ x = rows[j][done[j] + 1].key)
  BY DEF Insert, Kept, NextRow, TypeOK
<1>4. \A k \in Jobs : done[k] \in Nat /\ done'[k] = IF k = j THEN done[k] + 1 ELSE done[k]
  BY <1>1 DEF TypeOK
<1>5. HeldArePassed'
  <2> SUFFICES ASSUME NEW k \in Jobs, NEW x \in Keys, pending'[k][x] # Absent
               PROVE  \E i \in 1 .. done'[k] : rows[k][i].key = x
    BY <1>1 DEF HeldArePassed
  <2>1. CASE pending[k][x] # Absent
    <3>1. PICK i \in 1 .. done[k] : rows[k][i].key = x
      BY <2>1 DEF HeldArePassed
    <3>2. i \in 1 .. done'[k]
      BY <1>4
    <3> QED BY <3>1, <3>2
  <2>2. CASE k = j /\ x = rows[j][done[j] + 1].key
    <3>1. done[j] + 1 \in 1 .. done'[k]
      BY <1>4, <2>2
    <3> QED BY <2>2, <3>1
  <2> QED BY <1>3, <2>1, <2>2
<1> QED BY <1>2, <1>5

(* Every step keeps the order.                                             *)
LEMMA NextOrderInv == OrderInv /\ [Next]_vars => OrderInv'
<1> SUFFICES ASSUME OrderInv, [Next]_vars PROVE OrderInv'
  OBVIOUS
<1>1. IInv'
  BY NextIInv DEF OrderInv
<1>2. ASSUME NEW j \in Jobs, PageFails(j) \/ Victim(j) \/ Crash(j) \/ Commit(j)
      PROVE  PageOrder' /\ HeldArePassed'
  BY <1>2, LeaveOrder DEF PageFails, Victim, Crash, Commit
<1>3. ASSUME NEW j \in Jobs, Start(j) \/ Connect(j) PROVE PageOrder' /\ HeldArePassed'
  <2>1. /\ UNCHANGED <<rows, pending, done>> /\ stage[j] # "inserting"
        /\ \A k \in Jobs \ {j} : stage'[k] = stage[k]
    BY <1>3 DEF Start, Connect, OrderInv, IInv, TypeOK
  <2>2. PageOrder'
    BY <2>1 DEF PageOrder, OrderInv
  <2>3. HeldArePassed'
    BY <2>1 DEF HeldArePassed, OrderInv
  <2> QED BY <2>2, <2>3
<1>4. ASSUME UNCHANGED jobVars PROVE PageOrder' /\ HeldArePassed'
  BY <1>4 DEF jobVars, PageOrder, HeldArePassed, OrderInv
<1>5. ASSUME NEW r \in Requests,
             \/ \E s \in Symbols : ReadBond(r, s)
             \/ ReadCpi(r) \/ Stale(r) \/ Price(r)
      PROVE  UNCHANGED jobVars
  BY <1>5 DEF ReadBond, ReadCpi, Stale, Price
<1>6. ASSUME NEW j \in Jobs, Start(j) \/ FetchCpi(j) \/ Progress(j) \/ Crash(j)
      PROVE  PageOrder' /\ HeldArePassed'
  <2>1. CASE FetchPage(j)
    BY <2>1, FetchPageOrder
  <2>2. CASE FetchCpi(j)
    BY <2>2, FetchCpiOrder
  <2>3. CASE Insert(j)
    BY <2>3, InsertOrder
  <2>4. CASE PageFails(j) \/ Victim(j) \/ Crash(j) \/ Commit(j)
    BY <1>2, <2>4
  <2>5. CASE Start(j) \/ Connect(j)
    BY <1>3, <2>5
  <2> QED BY <1>6, <2>1, <2>2, <2>3, <2>4, <2>5 DEF Progress
<1>7. NextDay \/ UNCHANGED vars => UNCHANGED jobVars
  BY DEF NextDay, vars
<1>8. PageOrder' /\ HeldArePassed'
  BY <1>4, <1>5, <1>6, <1>7 DEF Next
<1> QED BY <1>1, <1>8 DEF OrderInv

(* Whoever waits for a figure has its next place before the other's.       *)
LEMMA WaitersAreBehind ==
  ASSUME OrderInv, NEW j \in Jobs, NEW k \in Jobs, WaitsFor(j, k),
         NextRow(j).key \in Days, Inserting(k), NextRow(k).key \in Days
  PROVE  Place[NextRow(j).key] < Place[NextRow(k).key]
<1> USE BondStoreAssumption DEF OrderInv, IInv
<1>1. PICK i \in 1 .. done[k] : rows[k][i].key = NextRow(j).key
  BY DEF WaitsFor, HeldArePassed, Keys
<1>2. /\ i \in 1 .. Len(rows[k]) /\ done[k] + 1 \in 1 .. Len(rows[k])
      /\ i < done[k] + 1
  BY JobRows DEF Inserting, TypeOK
<1>3. PageOrdered(rows[k])
  <2>1. ~EmissionsOnly(rows[k])
    BY <1>2 DEF EmissionsOnly, NextRow
  <2> QED BY <2>1 DEF PageOrder
<1> QED BY <1>1, <1>2, <1>3 DEF PageOrdered, NextRow

(* A set of naturals that is not empty has a least member.                *)
LEMMA LeastOf ==
  ASSUME NEW T \in SUBSET Nat, T # {}
  PROVE  \E m \in T : \A n \in T : m <= n
<1> DEFINE R == OpToRel(<, Nat)
<1>0. IsWellFoundedOn(R, Nat)
  BY NatLessThanWellFounded
<1>1. PICK m \in T : \A n \in T : ~ (<<n, m>> \in R)
  <2> HIDE DEF R
  <2> QED BY <1>0, WFMin
<1>2. R = {p \in Nat \X Nat : p[1] < p[2]}
  BY DEF OpToRel
<1>3. \A n \in T : n < m => <<n, m>> \in R
  <2> HIDE DEF R
  <2> QED BY <1>2
<1>4. \A n \in T : ~ (n < m)
  <2> HIDE DEF R
  <2> QED BY <1>1, <1>3
<1> QED BY <1>4

(* However many inflation jobs overlap, none of them is the victim of a    *)
(* deadlock among them.                                                    *)
THEOREM CpiJobsAreSafe == Spec => []CpiJobsNeverDeadlock
<1>1. OrderInv => CpiJobsNeverDeadlock
  <2> SUFFICES ASSUME OrderInv,
                      NEW ring \in SUBSET {j \in Jobs : Inserting(j) /\ NextRow(j).key \in Days},
                      ring # {}, Deadlocked(ring)
               PROVE  FALSE
    BY DEF CpiJobsNeverDeadlock
  <2> DEFINE At(j) == Place[NextRow(j).key]
             T == {At(j) : j \in ring}
  <2>1. \A j \in ring : /\ j \in Jobs /\ Inserting(j)
                        /\ NextRow(j).key \in Days /\ At(j) \in Nat
    BY PlaceAssumption
  <2>2. T \in SUBSET Nat /\ T # {}
    BY <2>1
  <2>3. PICK m \in T : \A n \in T : m <= n
    <3> HIDE DEF T
    <3> QED BY <2>2, LeastOf
  <2>4. PICK j \in ring : m = At(j)
    BY <2>3
  <2>5. PICK k \in ring : WaitsFor(k, j)
    BY DEF Deadlocked
  <2>6. At(k) \in T /\ At(k) < At(j)
    BY <2>1, <2>5, WaitersAreBehind
  <2> QED BY <2>1, <2>3, <2>4, <2>6
<1>2. Spec => []OrderInv
  BY InitOrderInv, NextOrderInv, PTL DEF Spec
<1> QED BY <1>1, <1>2, PTL

-----------------------------------------------------------------------------
(* Runs are serial: what a transaction holds is the first row of its list  *)
(* for each key the table does not have, and by the end of the list it     *)
(* holds all of them.                                                      *)

HeldIsFirst ==
  \A j \in Jobs, x \in Keys :
    pending[j][x] # Absent =>
      \E i \in 1 .. done[j] :
        /\ rows[j][i].key = x /\ rows[j][i].val = pending[j][x]
        /\ \A l \in 1 .. done[j] : rows[j][l].key = x => i <= l

SerialInv == OrderInv /\ HeldIsFirst

(* An insert that takes a key is the first of its list to come to it.      *)
LEMMA InsertFirst ==
  ASSUME SerialInv, NEW j \in Jobs, Insert(j)
  PROVE  HeldIsFirst'
<1> USE DEF SerialInv, OrderInv, IInv
<1> DEFINE x == NextRow(j).key
<1>1. /\ rows' = rows /\ table' = table
      /\ \A k \in Jobs : done[k] \in Nat /\ done'[k] = IF k = j THEN done[k] + 1 ELSE done[k]
      /\ Inserting(j)
  BY DEF Insert, TypeOK
<1>2. /\ x \in Keys /\ NextRow(j).val # Absent
      /\ rows[j][done[j] + 1].key = x /\ rows[j][done[j] + 1].val = NextRow(j).val
  BY <1>1, NextRowIsRow, BondStoreAssumption DEF NextRow
<1>3. \A k \in Jobs, y \in Keys :
        pending'[k][y] = IF k = j /\ y = x /\ pending[j][x] = Absent /\ table[x] = Absent
                           THEN NextRow(j).val ELSE pending[k][y]
  BY <1>2 DEF Insert, Kept, TypeOK
<1> HIDE DEF x
<1> SUFFICES ASSUME NEW k \in Jobs, NEW y \in Keys, pending'[k][y] # Absent
             PROVE  \E i \in 1 .. done'[k] :
                      /\ rows[k][i].key = y /\ rows[k][i].val = pending'[k][y]
                      /\ \A l \in 1 .. done'[k] : rows[k][l].key = y => i <= l
  BY <1>1 DEF HeldIsFirst
<1>4. CASE pending[k][y] # Absent
  <2>1. pending'[k][y] = pending[k][y]
    BY <1>3, <1>4
  <2>2. PICK i \in 1 .. done[k] :
          /\ rows[k][i].key = y /\ rows[k][i].val = pending[k][y]
          /\ \A l \in 1 .. done[k] : rows[k][l].key = y => i <= l
    BY <1>4 DEF HeldIsFirst
  <2>3. i \in 1 .. done'[k] /\ \A l \in 1 .. done'[k] : l \in 1 .. done[k] \/ i <= l
    BY <1>1
  <2> QED BY <2>1, <2>2, <2>3
<1>5. CASE pending[k][y] = Absent
  <2>1. /\ k = j /\ y = x /\ pending[j][x] = Absent /\ table[x] = Absent
        /\ pending'[k][y] = NextRow(j).val
    BY <1>3, <1>5
  <2>2. \A l \in 1 .. done[j] : rows[j][l].key # x
    BY <2>1 DEF NothingSkipped
  <2>3. /\ done[j] + 1 \in 1 .. done'[j]
        /\ \A l \in 1 .. done'[j] : l \in 1 .. done[j] \/ l = done[j] + 1
    BY <1>1
  <2>4. \A l \in 1 .. done'[j] : rows[j][l].key = x => done[j] + 1 <= l
    BY <1>1, <2>2, <2>3
  <2> QED BY <1>2, <2>1, <2>3, <2>4
<1> QED BY <1>4, <1>5

(* Every step keeps what transactions hold the first of their lists.       *)
LEMMA NextSerialInv == SerialInv /\ [Next]_vars => SerialInv'
<1> SUFFICES ASSUME SerialInv, [Next]_vars PROVE SerialInv'
  OBVIOUS
<1> USE DEF SerialInv
<1>1. OrderInv'
  BY NextOrderInv
<1>2. ASSUME NEW j \in Jobs, Leave(j) PROVE HeldIsFirst'
  <2>1. \A x \in Keys : pending'[j][x] = Absent
    BY <1>2 DEF OrderInv, IInv, TypeOK, Leave, NoRows
  <2>2. \A k \in Jobs \ {j} : /\ pending'[k] = pending[k]
                              /\ rows'[k] = rows[k] /\ done'[k] = done[k]
    BY <1>2 DEF OrderInv, IInv, TypeOK, Leave
  <2>3. SUFFICES ASSUME NEW k \in Jobs, NEW x \in Keys, pending'[k][x] # Absent
                 PROVE  \E i \in 1 .. done'[k] :
                          /\ rows'[k][i].key = x /\ rows'[k][i].val = pending'[k][x]
                          /\ \A l \in 1 .. done'[k] : rows'[k][l].key = x => i <= l
    BY DEF HeldIsFirst
  <2>4. k # j
    BY <2>1, <2>3
  <2> QED BY <2>2, <2>3, <2>4 DEF HeldIsFirst
<1>3. ASSUME NEW j \in Jobs, stage[j] # "inserting", UNCHANGED <<pending, done>>,
             \A k \in Jobs \ {j} : rows'[k] = rows[k]
      PROVE  HeldIsFirst'
  <2>1. \A x \in Keys : pending'[j][x] = Absent
    BY <1>3, NothingHeld
  <2> QED BY <1>3, <2>1 DEF HeldIsFirst
<1>4. ASSUME NEW j \in Jobs, Start(j) \/ FetchCpi(j) \/ FetchPage(j) \/ Connect(j)
      PROVE  HeldIsFirst'
  <2>1. /\ stage[j] # "inserting" /\ UNCHANGED <<pending, done>>
        /\ \A k \in Jobs \ {j} : rows'[k] = rows[k]
    BY <1>4 DEF Start, FetchCpi, FetchPage, Connect, OrderInv, IInv, TypeOK
  <2> QED BY <1>3, <2>1
<1>5. ASSUME UNCHANGED jobVars PROVE HeldIsFirst'
  BY <1>5 DEF jobVars, HeldIsFirst
<1>6. ASSUME NEW r \in Requests,
             \/ \E s \in Symbols : ReadBond(r, s)
             \/ ReadCpi(r) \/ Stale(r) \/ Price(r)
      PROVE  UNCHANGED jobVars
  BY <1>6 DEF ReadBond, ReadCpi, Stale, Price
<1>7. ASSUME NEW j \in Jobs, Start(j) \/ FetchCpi(j) \/ Progress(j) \/ Crash(j)
      PROVE  HeldIsFirst'
  BY <1>2, <1>4, <1>7, InsertFirst DEF Progress, PageFails, Victim, Crash, Commit
<1>8. NextDay \/ UNCHANGED vars => UNCHANGED jobVars
  BY DEF NextDay, vars
<1>9. HeldIsFirst'
  BY <1>5, <1>6, <1>7, <1>8 DEF Next
<1> QED BY <1>1, <1>9

(* A commit adds to the table what it lacks of the list, and nothing else. *)
LEMMA CommitIsRun ==
  ASSUME SerialInv, NEW j \in Jobs, Commit(j)
  PROVE  Serial!Run(j)
<1> USE DEF SerialInv, OrderInv, IInv
<1>1. /\ table' = [k \in Keys |-> IF pending[j][k] = Absent THEN table[k] ELSE pending[j][k]]
      /\ rows' = [rows EXCEPT ![j] = <<>>] /\ done[j] = Len(rows[j])
  BY DEF Commit, Leave
<1>2. DOMAIN rows[j] = 1 .. done[j] /\ done[j] \in Nat
  BY <1>1 DEF TypeOK
<1> DEFINE First(k) == CHOOSE i \in Serial!Places(rows[j], k) :
                         \A l \in Serial!Places(rows[j], k) : i <= l
<1>3. ASSUME NEW k \in Keys
      PROVE  (IF pending[j][k] = Absent THEN table[k] ELSE pending[j][k])
               = IF table[k] # Absent \/ Serial!Places(rows[j], k) = {} THEN table[k]
                 ELSE rows[j][First(k)].val
  <2>1. CASE pending[j][k] # Absent
    <3>1. table[k] = Absent
      BY <2>1 DEF OneOwner
    <3>2. PICK i \in 1 .. done[j] :
            /\ rows[j][i].key = k /\ rows[j][i].val = pending[j][k]
            /\ \A l \in 1 .. done[j] : rows[j][l].key = k => i <= l
      BY <2>1 DEF HeldIsFirst
    <3>3. /\ i \in Serial!Places(rows[j], k)
          /\ \A l \in Serial!Places(rows[j], k) : i <= l /\ l \in Nat
      BY <1>2, <3>2 DEF Serial!Places
    <3>4. /\ First(k) \in Serial!Places(rows[j], k)
          /\ \A l \in Serial!Places(rows[j], k) : First(k) <= l
      BY <3>3
    <3> HIDE DEF First
    <3>5. First(k) = i
      <4>1. First(k) <= i /\ i <= First(k)
        BY <3>3, <3>4
      <4>2. i \in Nat /\ First(k) \in Nat
        BY <3>3, <3>4
      <4> QED BY <4>1, <4>2
    <3> QED BY <2>1, <3>1, <3>2, <3>3, <3>5
  <2>2. CASE pending[j][k] = Absent
    <3>1. \A i \in 1 .. done[j] : rows[j][i].key = k => table[k] # Absent
      BY <2>2 DEF NothingSkipped
    <3>2. table[k] # Absent \/ Serial!Places(rows[j], k) = {}
      BY <1>2, <3>1 DEF Serial!Places
    <3> QED BY <2>2, <3>2
  <2> QED BY <2>1, <2>2
<1>4. table' = Serial!Upserted(rows[j])
  BY <1>1, <1>3 DEF Serial!Upserted
<1> QED BY <1>1, <1>4 DEF Serial!Run

(* Every other step of a job parses, gives up or leaves the list alone.    *)
LEMMA StepIsSerial ==
  ASSUME SerialInv, [Next]_vars
  PROVE  [Serial!Next]_<<table, rows>>
<1> USE DEF SerialInv, OrderInv, IInv
<1>1. rows' \in [Jobs -> Seq(Rows)] /\ Serial!Rows = Rows
  BY NextIInv DEF TypeOK, Serial!Rows, Rows
<1>2. ASSUME NEW j \in Jobs, table' = table, \A k \in Jobs \ {j} : rows'[k] = rows[k]
      PROVE  Serial!Parse(j)
  <2>1. rows' = [rows EXCEPT ![j] = rows'[j]]
    BY <1>1, <1>2 DEF TypeOK
  <2> QED BY <1>1, <1>2, <2>1 DEF Serial!Parse
<1>3. ASSUME NEW j \in Jobs, Leave(j), table' = table PROVE Serial!Parse(j)
  BY <1>2, <1>3 DEF Leave, TypeOK
<1>4. ASSUME NEW j \in Jobs, FetchCpi(j) \/ FetchPage(j) PROVE Serial!Parse(j)
  <2>1. table' = table /\ \A k \in Jobs \ {j} : rows'[k] = rows[k]
    BY <1>4 DEF FetchCpi, FetchPage, TypeOK
  <2> QED BY <1>2, <2>1
<1>5. ASSUME NEW j \in Jobs, Start(j) \/ FetchCpi(j) \/ Progress(j) \/ Crash(j)
      PROVE  [Serial!Next]_<<table, rows>>
  <2>1. CASE Commit(j)
    BY <2>1, CommitIsRun DEF Serial!Next
  <2>2. CASE PageFails(j) \/ Victim(j) \/ Crash(j)
    BY <1>3, <2>2 DEF PageFails, Victim, Crash, Serial!Next
  <2>3. CASE FetchCpi(j) \/ FetchPage(j)
    BY <1>4, <2>3 DEF Serial!Next
  <2>4. CASE Start(j) \/ Connect(j) \/ Insert(j)
    BY <2>4 DEF Start, Connect, Insert
  <2> QED BY <1>5, <2>1, <2>2, <2>3, <2>4 DEF Progress
<1>6. ASSUME NEW r \in Requests,
             \/ \E s \in Symbols : ReadBond(r, s)
             \/ ReadCpi(r) \/ Stale(r) \/ Price(r)
      PROVE  UNCHANGED <<table, rows>>
  BY <1>6 DEF ReadBond, ReadCpi, Stale, Price, jobVars
<1>7. NextDay \/ UNCHANGED vars => UNCHANGED <<table, rows>>
  BY DEF NextDay, vars, jobVars
<1> QED BY <1>5, <1>6, <1>7 DEF Next

(* The importers implement BondTable: a run of any of them takes effect at *)
(* its commit, all of it and as if it were the only one, whatever the      *)
(* others insert, roll back and commit while it is under way.              *)
THEOREM RunsTakeEffectSerially == Spec => RunsAreSerial
<1>1. Init => SerialInv
  BY InitOrderInv DEF SerialInv, Init, HeldIsFirst, NoRows
<1>2. Init => Serial!Init
  BY DEF Init, NoRows, Serial!Init
<1>3. SerialInv /\ [Next]_vars => [Serial!Next]_<<table, rows>>
  BY StepIsSerial
<1> QED BY <1>1, <1>2, <1>3, NextSerialInv, PTL DEF Spec, RunsAreSerial, Serial!Spec

=============================================================================
