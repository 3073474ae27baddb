------------------------------ MODULE MCAccount ------------------------------
(* A small instance of Account for TLC. *)
EXTENDS Account, TLC

\* Rows, codes and calls are told apart by what they hold only.
AccountSymmetry == Permutations(Tokens) \cup Permutations(Codes) \cup Permutations(Calls)
=============================================================================
