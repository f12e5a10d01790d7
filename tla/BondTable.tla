----------------------------- MODULE BondTable ------------------------------
(***************************************************************************)
(* What the importers of src/src/importers promise of the tables they      *)
(* fill, however their pods overlap, wait for each other, deadlock and are *)
(* killed: a run reaches the table as a whole or not at all, and as if it  *)
(* were the only one.  It adds, for each key of its list that the table    *)
(* does not have, the first row the list has of it.                        *)
(*                                                                         *)
(* There are no transactions and no waits here.  BondStore implements it.  *)
(***************************************************************************)
EXTENDS Naturals, Sequences

CONSTANTS Jobs, Keys, Editions, Absent

VARIABLES table,  \* the rows
          rows    \* what each job has parsed so far

Rows == [key : Keys, val : Editions]

Init ==
  /\ table = [k \in Keys |-> Absent]
  /\ rows = [j \in Jobs |-> <<>>]

(* A job's list grows, or is given up. *)
Parse(j) ==
  /\ rows'[j] \in Seq(Rows)
  /\ rows' = [rows EXCEPT ![j] = rows'[j]]
  /\ UNCHANGED table

Places(list, k) == {i \in DOMAIN list : list[i].key = k}

(* The table with the rows of a list it does not have. *)
Upserted(list) ==
  [k \in Keys |->
     IF table[k] # Absent \/ Places(list, k) = {} THEN table[k]
     ELSE list[CHOOSE i \in Places(list, k) : \A l \in Places(list, k) : i <= l].val]

Run(j) ==
  /\ table' = Upserted(rows[j])
  /\ rows' = [rows EXCEPT ![j] = <<>>]

Next == \E j \in Jobs : Parse(j) \/ Run(j)

Spec == Init /\ [][Next]_<<table, rows>>

=============================================================================
