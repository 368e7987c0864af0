--------------------------- MODULE MCApprovalQueue ---------------------------
(* Instances of ApprovalQueue for TLC. *)
EXTENDS ApprovalQueue, TLC

\* Bridges, callIds, callers and identities are interchangeable, so safety is
\* checked up to permutation.  Not used where liveness is checked.
Symmetry ==
  Permutations(Bridges) \cup Permutations(Calls)
    \cup Permutations(Callers) \cup Permutations(Keys)
=============================================================================
