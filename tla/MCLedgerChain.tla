---------------------------- MODULE MCLedgerChain ----------------------------
(* LedgerChain with writers as interchangeable model values. *)
EXTENDS LedgerChain, TLC

Symmetry == Permutations(Writer)
=============================================================================
