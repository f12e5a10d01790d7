---------------------------- MODULE MCBondStore -----------------------------
(* Finite instances of BondStore for TLC. *)
EXTENDS BondStore, TLC

(* parse_cpi_rows: "ascending order as published by obligacje.pl". *)
OldestFirst == [d \in Days |-> d]

(* The pods, and the editions of a page, are interchangeable. *)
Interchangeable == Permutations(Jobs) \cup Permutations(Editions)

=============================================================================
