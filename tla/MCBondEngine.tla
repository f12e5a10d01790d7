---------------------------- MODULE MCBondEngine ----------------------------
(* Finite instances of BondEngine for TLC. *)
EXTENDS BondEngine

Priced(code, rule) == [code : {code}, rule : {rule}, margin : {3, 20}, fee_b : {0, 2}]

(* A quarter at a fixed rate; fixed and indexed rates that capitalise; an  *)
(* indexed rate that is paid out; one the engine cannot price.             *)
SomeBonds ==
  Priced("OTS", "fixed") \cup Priced("EDO", "fixed") \cup Priced("EDO", "cpi_12m+margin")
    \cup Priced("COI", "cpi_12m+margin") \cup Priced("ROR", "nbp_ref+margin")

(* Three periods, one of them in a leap year. *)
Calendar == [k \in 0 .. 3 |-> <<0, 4, 9, 13>>[k + 1]]

Deflation == {-1, 9}
Around == -1 .. 14
=============================================================================
