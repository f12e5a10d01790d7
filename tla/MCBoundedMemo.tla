---------------------------- MODULE MCBoundedMemo ----------------------------
(* Finite instances of BoundedMemo for TLC. *)
EXTENDS BoundedMemo, TLC

Interchangeable == Permutations(Threads) \cup Permutations(Tickers)

=============================================================================
