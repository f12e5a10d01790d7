----------------------------- MODULE MCGateway ------------------------------
(* Finite instances of Gateway for TLC. *)
EXTENDS Gateway, TLC

(* The workers of a thread pool are interchangeable. *)
WorkerSymmetry == Permutations(Workers)

=============================================================================
